----------------------------- MODULE DfuProofs -----------------------------
(***************************************************************************)
(* The bootloader for every size of blocks, flash and image, in layers:    *)
(*                                                                         *)
(* DfuIInv: no download writes outside of the image.  The page that        *)
(* WriteData is at lies in the block that was announced last               *)
(* (WritesInBlock), and a block is announced as the host cuts the image    *)
(* (BlocksInImage, for the block the device has taken and for the one in a *)
(* request that it has not yet seen).                                      *)
(*                                                                         *)
(* PipeIInv: types, the order of events, what the host asks for in each of *)
(* its states, and that the pipe stands still while a block is programmed. *)
(*                                                                         *)
(* ReplyIInv: the data stage to the host.  InstallIInv: the data stage     *)
(* from the host and what becomes of its block.  WaitIInv: who waits for   *)
(* whom.  Each relies on the invariants before it.                         *)
(*                                                                         *)
(* Last, the end of an upload, with the loop that finds the flash's size.  *)
(***************************************************************************)
EXTENDS Dfu, WellFoundedInduction, TLAPS

\* n pages from the start of block b on belong to the image.
InImage(b, n) == n > 0 => b * BlockPages + n <= image

WritesInBlock == writing \in 0 .. data_len

\* A request is of numbers, and a download of pages of the image.
AsksForImage(r) ==
    /\ r.wValue \in Nat /\ r.wLength \in Nat
    /\ r.bRequest = "DFU_DNLOAD" => InImage(r.wValue, r.wLength)

BlocksInImage == InImage(block_num, data_len) /\ AsksForImage(request)

DfuIInv ==
    /\ image \in Nat \ {0} /\ host \in Hosts /\ block \in Nat
    /\ block_num \in Nat /\ data_len \in Nat
    /\ DOMAIN flash = 0 .. FlashPages - 1
    /\ WritesInBlock
    /\ BlocksInImage
    /\ OnlyTheImage

-----------------------------------------------------------------------------

\* Products of numbers are opaque to the provers: what is needed of them.
LEMMA TimesNat == ASSUME NEW m \in Nat, NEW n \in Nat PROVE m * n \in Nat
  OBVIOUS

\* A block of the host lies in its image and is a block, or empty.
LEMMA LengthOfInImage ==
    ASSUME NEW b \in Nat, image \in Nat, b * BlockPages < image
    PROVE  LengthOf(b) \in Nat /\ b * BlockPages + LengthOf(b) <= image
  <1>1. BlockPages \in Nat
    BY SizesAssumption
  <1>2. b * BlockPages \in Nat
    BY <1>1, TimesNat
  <1>3. (b + 1) * BlockPages = b * BlockPages + BlockPages
    BY <1>1
  <1> QED
    BY <1>1, <1>2, <1>3 DEF LengthOf

\* Steps that leave the flash and the block that was announced alone.
LEMMA BlockKept ==
    ASSUME DfuIInv, UNCHANGED <<image, flash, progVars, writing>>,
           host' \in Hosts, block' \in Nat, request' \in {request, NoRequest}
    PROVE  DfuIInv'
  <1>1. CASE request' = request
    BY <1>1 DEF DfuIInv, progVars, WritesInBlock, BlocksInImage, AsksForImage, InImage, OnlyTheImage
  <1>2. CASE request' = NoRequest
    <2>1. AsksForImage(request)'
      BY <1>2 DEF NoRequest, Msg, AsksForImage
    <2> QED
      BY <2>1 DEF DfuIInv, progVars, WritesInBlock, BlocksInImage, AsksForImage, InImage, OnlyTheImage
  <1> QED
    BY <1>1, <1>2

\* The host asks for something: what matters is that a download is of a
\* block of the image.
LEMMA RequestInImage ==
    ASSUME DfuIInv, UNCHANGED <<image, flash, progVars, writing, host, block>>,
           NEW r, request' = r, AsksForImage(r)
    PROVE  DfuIInv'
  BY DEF DfuIInv, progVars, WritesInBlock, BlocksInImage, AsksForImage, InImage, OnlyTheImage

LEMMA AskKeeps == ASSUME DfuIInv, Ask PROVE DfuIInv'
  <1>1. UNCHANGED <<image, flash, progVars, writing, host, block>>
    BY DEF Ask, dfuVars, hostVars
  <1>2. ASSUME NEW r, Request(r), AsksForImage(r) PROVE DfuIInv'
    <2>1. request' = r
      BY <1>2 DEF Request
    <2> QED
      BY <1>1, <1>2, <2>1, RequestInImage
  <1>3. block \in Nat /\ image \in Nat /\ BlockPages \in Nat
    BY SizesAssumption DEF DfuIInv
  <1>4. ASSUME NEW length \in Nat, InImage(block, length), Request(Msg("DFU_DNLOAD", block, length))
        PROVE  DfuIInv'
    BY <1>2, <1>3, <1>4 DEF Msg, AsksForImage
  <1>5. ASSUME NEW r \in Others, Request(r) PROVE DfuIInv'
    BY <1>2, <1>5 DEF Others, Msg, AsksForImage, InImage
  <1>6. CASE Request(Msg("SET_ADDRESS", 1, 0)) \/ Request(Msg("DFU_GETSTATUS", 0, 1))
    BY <1>2, <1>6 DEF Msg, AsksForImage
  <1>7. CASE Request(Msg("DFU_ABORT", 0, 0)) \/ Request(Msg("DFU_CLRSTATUS", 0, 0))
    BY <1>2, <1>7 DEF Msg, AsksForImage
  <1>8. CASE block * BlockPages < image /\ Request(Msg("DFU_DNLOAD", block, LengthOf(block)))
    BY <1>3, <1>4, <1>8, LengthOfInImage DEF InImage
  <1>9. CASE Request(Msg("DFU_DNLOAD", block, 0))
    BY <1>4, <1>9 DEF InImage
  <1>10. CASE Request(Msg("DFU_UPLOAD", block, BlockPages))
    BY <1>2, <1>3, <1>10 DEF Msg, AsksForImage
  <1> QED
    BY <1>5, <1>6, <1>7, <1>8, <1>9, <1>10 DEF Ask, HostRequest

\* WriteData stays in the block that was announced.
LEMMA PageInImage ==
    ASSUME DfuIInv, ~Idle
    PROVE  Page \in Nat /\ Page < image
  <1>1. block_num * BlockPages \in Nat
    BY SizesAssumption, TimesNat DEF DfuIInv
  <1> QED
    BY <1>1 DEF DfuIInv, Idle, Page, WritesInBlock, BlocksInImage, AsksForImage, InImage

\* Whatever is put in the page that WriteData is at, the pages behind the
\* image keep what they have.
LEMMA PageWritten ==
    ASSUME DfuIInv, ~Idle, NEW v, flash' \in {flash, [flash EXCEPT ![Page] = v]}, image' = image
    PROVE  OnlyTheImage' /\ DOMAIN flash' = 0 .. FlashPages - 1
  BY PageInImage, SizesAssumption DEF DfuIInv, OnlyTheImage

-----------------------------------------------------------------------------

LEMMA WritePageKeeps == ASSUME DfuIInv, WritePage PROVE DfuIInv'
  <1>1. UNCHANGED <<image, host, block, request, block_num, data_len>> /\ ~Idle
    BY DEF WritePage, hostVars, progVars, hostUsbVars
  <1>2. writing' \in 0 .. data_len
    BY DEF WritePage, Idle, DfuIInv, WritesInBlock
  <1>3. flash' \in {flash, [flash EXCEPT ![Page] = buf[writing]]}
    BY DEF WritePage
  <1>4. OnlyTheImage' /\ DOMAIN flash' = 0 .. FlashPages - 1
    BY <1>1, <1>3, PageWritten
  <1> QED
    BY <1>1, <1>2, <1>4 DEF DfuIInv, WritesInBlock, BlocksInImage, AsksForImage, InImage

\* The announced block is forgotten.
LEMMA ResetProgKeeps ==
    ASSUME DfuIInv, ResetProg, UNCHANGED <<image, flash, host, block, request>>
    PROVE  DfuIInv'
  BY DEF DfuIInv, ResetProg, WritesInBlock, BlocksInImage, AsksForImage, InImage, OnlyTheImage

LEMMA DownloadKeeps == ASSUME DfuIInv, Download PROVE DfuIInv'
  <1>1. UNCHANGED <<image, host, block, flash, request>> /\ request.bRequest = "DFU_DNLOAD"
    BY DEF Download, TakeSetup, hostVars, hostUsbVars
  <1>2. CASE UNCHANGED <<progVars, writing>>
    BY <1>1, <1>2, BlockKept DEF DfuIInv
  <1>3. CASE block_num' = request.wValue /\ data_len' = request.wLength /\ writing' = request.wLength
    <2>1. request.wValue \in Nat /\ request.wLength \in Nat
      BY DEF DfuIInv, BlocksInImage, AsksForImage
    <2> QED
      BY <1>1, <1>3, <2>1 DEF DfuIInv, WritesInBlock, BlocksInImage, AsksForImage, InImage, OnlyTheImage
  <1> QED
    BY <1>2, <1>3 DEF Download

LEMMA ClassRequestKeeps == ASSUME DfuIInv, ClassRequest PROVE DfuIInv'
  <1>1. CASE GetStatus
    BY <1>1, BlockKept DEF GetStatus, TakeSetup, hostVars, hostUsbVars, DfuIInv
  <1>2. CASE GetStatusWrites
    <2>1. /\ UNCHANGED <<image, host, block, flash, request, block_num, data_len>>
          /\ writing' = 0
      BY <1>2 DEF GetStatusWrites, TakeSetup, hostVars, hostUsbVars, progVars
    <2> QED
      BY <2>1 DEF DfuIInv, WritesInBlock, BlocksInImage, AsksForImage, InImage, OnlyTheImage
  <1>3. CASE GetState
    BY <1>3, BlockKept DEF GetState, TakeSetup, dfuVars, hostVars, hostUsbVars, DfuIInv
  <1>4. CASE Detach
    BY <1>4, ResetProgKeeps DEF Detach, TakeSetup, hostVars, hostUsbVars
  <1>5. CASE Abort
    BY <1>5, ResetProgKeeps DEF Abort, TakeSetup, hostVars, hostUsbVars
  <1>6. CASE ClearStatus
    BY <1>6, BlockKept DEF ClearStatus, TakeSetup, hostVars, hostUsbVars, DfuIInv
  <1>7. CASE Upload
    BY <1>7, BlockKept DEF Upload, TakeSetup, hostVars, hostUsbVars, DfuIInv
  <1> QED
    BY <1>1, <1>2, <1>3, <1>4, <1>5, <1>6, <1>7, WritePageKeeps, DownloadKeeps DEF ClassRequest

\* The pipe moves packets; requests come from the host only.
LEMMA PipeKeeps == ASSUME DfuIInv, Pipe PROVE DfuIInv'
  <1>1. UNCHANGED <<image, flash, progVars, writing, host, block>>
    BY DEF Pipe, dfuVars, hostVars
  <1>2. request' = request
    <2>1. CASE StandardRequest
      BY <2>1 DEF StandardRequest, GetDescriptor, SetAddress, SetConfiguration, NoDescriptor,
                  GetConfiguration, NotSupported,
                  TakeSetup, hostUsbVars
    <2>2. CASE HandleEndpoints \/ HandleBusReset
      BY <2>2 DEF HandleEndpoints, HandleBusReset, hostUsbVars
    <2>3. CASE Timeout \/ SeeStall
      BY <2>3 DEF Timeout, SeeStall
    <2>4. CASE DataIn \/ StatusIn
      BY <2>4 DEF DataIn, StatusIn, InToken
    <2>5. CASE StatusOut \/ DataOut(<<"page", Image(block * BlockPages + moved)>>)
      BY <2>5 DEF StatusOut, DataOut, OutToken
    <2> QED
      BY <2>1, <2>2, <2>3, <2>4, <2>5 DEF Pipe
  <1> QED
    BY <1>1, <1>2, BlockKept DEF DfuIInv

LEMMA HostGoesOnKeeps == ASSUME DfuIInv, HostGoesOn PROVE DfuIInv'
  <1>1. UNCHANGED <<image, flash, progVars, writing>> /\ request' \in {request, NoRequest}
    BY DEF HostGoesOn, dfuVars, EndTransfer
  <1>2. host' \in Hosts /\ block' \in Nat
    BY DEF HostGoesOn, Succeeded, AfterStatus, AfterUpload, Refused, DfuIInv, Hosts
  <1> QED
    BY <1>1, <1>2, BlockKept

\* The host is started or stopped, or resets the bus.
LEMMA HostKeeps == ASSUME DfuIInv, HostStart \/ HostStop \/ BusReset PROVE DfuIInv'
  <1>1. UNCHANGED <<image, flash, progVars, writing>> /\ request' \in {request, NoRequest}
    BY DEF HostStart, HostStop, BusReset, ResetBus, EndTransfer, dfuVars, usbVars, hostUsbVars
  <1>2. host' \in Hosts /\ block' \in Nat
    BY DEF HostStart, HostStop, BusReset, Hosts
  <1> QED
    BY <1>1, <1>2, BlockKept

\* A page that was being programmed is left erased.
LEMMA RestartKeeps == ASSUME DfuIInv, Restart PROVE DfuIInv'
  <1>1. /\ image' = image /\ host' \in Hosts /\ block' \in Nat
        /\ block_num' = 0 /\ data_len' = 0 /\ writing' = 0
    BY DEF Restart, ResetProg, Hosts
  <1>2. AsksForImage(request)'
    BY DEF Restart, UsbRestart, NoRequest, Msg, AsksForImage
  <1>3. OnlyTheImage' /\ DOMAIN flash' = 0 .. FlashPages - 1
    <2>1. CASE Idle
      BY <1>1, <2>1 DEF Restart, DfuIInv, OnlyTheImage
    <2>2. CASE ~Idle
      BY <1>1, <2>2, PageWritten DEF Restart
    <2> QED
      BY <2>1, <2>2
  <1> QED
    BY <1>1, <1>2, <1>3 DEF DfuIInv, WritesInBlock, BlocksInImage, InImage

-----------------------------------------------------------------------------

(* What the flash holds behind the image is protected by an invariant that *)
(* no request, lost packet, bus reset or loss of power breaks.             *)
THEOREM DfuInvariance == Spec => []DfuIInv
  <1>1. Init => DfuIInv
    BY SizesAssumption DEF Init, ResetProg, UsbInit, NoRequest, Msg, DfuIInv, Hosts, WritesInBlock,
                           BlocksInImage, AsksForImage, InImage, OnlyTheImage
  <1>2. DfuIInv /\ [Next]_vars => DfuIInv'
    <2> SUFFICES ASSUME DfuIInv, [Next]_vars PROVE DfuIInv'
      OBVIOUS
    <2>1. CASE Transfer
      BY <2>1, ClassRequestKeeps, PipeKeeps, AskKeeps, HostGoesOnKeeps DEF Transfer
    <2>2. CASE Ask
      BY <2>2, AskKeeps
    <2>3. CASE HostStart \/ HostStop \/ BusReset
      BY <2>3, HostKeeps
    <2>4. CASE Restart
      BY <2>4, RestartKeeps
    <2>5. CASE UNCHANGED vars
      BY <2>5, BlockKept DEF vars, hostVars, dfuVars, usbVars, hostUsbVars, DfuIInv
    <2> QED
      BY <2>1, <2>2, <2>3, <2>4, <2>5 DEF Next
  <1> QED
    BY <1>1, <1>2, PTL DEF Spec

(* No download, however it is interrupted, writes outside of the image,    *)
(* for every size of blocks, flash and images: fmc_user.c is only ever     *)
(* given addresses of the block that dfu_transfer.c has accepted.          *)
THEOREM OnlyTheImageWritten == Spec => []OnlyTheImage
  <1>1. DfuIInv => OnlyTheImage
    BY DEF DfuIInv
  <1> QED
    BY <1>1, DfuInvariance, PTL

-----------------------------------------------------------------------------
(* The control pipe *)

Handled == "SETUP" \notin intsts

DfuTypes ==
    /\ bState \in States /\ command_Count \in 0 .. Polls - 1
    /\ block_num \in Nat /\ data_len \in 0 .. BlockPages /\ writing \in 0 .. data_len

BufferTypes ==
    /\ DOMAIN buf = 0 .. BlockPages - 1 /\ \A k \in DOMAIN buf : buf[k] \in Pages
    /\ DOMAIN flash = 0 .. FlashPages - 1 /\ \A p \in DOMAIN flash : flash[p] \in Pages

\* A transfer of data to the device and one from it are never under way at
\* the same time.
Pointers ==
    /\ inPtr \in Nat /\ inSize \in Nat /\ inPtr + inSize <= BlockPages
    /\ outSize \in Nat /\ outLimit \in Nat /\ outSize <= outLimit /\ outLimit <= BlockPages
    /\ ep0 \in {"none", "zero", "short", "full"}
    /\ outSize < outLimit => inSize = 0 /\ ep0 \in {"none", "zero"}

Stages == {"idle", "in", "out", "statusIn", "statusOut", "done", "stalled", "failed"}

HostTypes == stage \in Stages /\ host \in Hosts /\ block \in Nat /\ image \in Nat /\ moved \in Nat

\* A request waits for what came before it, and an endpoint for the handler.
Order ==
    /\ intsts \subseteq {"BUS", "SETUP", "EP0", "EP1"}
    /\ ~Handled => "EP0" \notin intsts /\ "EP1" \notin intsts
    /\ "BUS" \in intsts => stage = "idle" /\ host = "attach" /\ hostAddr = 0
    /\ "EP0" \in intsts => ep0 = "none"
    /\ "EP1" \in intsts => ~ep1

OtherRequests ==
    {Msg("DFU_DETACH", 0, 0), Msg("GET_DESCRIPTOR", 1, 1), Msg("GET_DESCRIPTOR", 2, 1),
     Msg("SET_CONFIGURATION", 1, 0), Msg("GET_CONFIGURATION", 0, 1), Msg("DFU_GETSTATE", 0, 1),
     Msg("DFU_DNLOAD", 0, 0)}

\* What the host asks for in each of its states.
RequestOfHost ==
    /\ host = "attach" => request = Msg("SET_ADDRESS", 1, 0)
    /\ host \in {"off", "done"} => request \in OtherRequests
    /\ host \in {"probe", "poll", "manifest"} => request = Msg("DFU_GETSTATUS", 0, 1)
    /\ host = "abort" => request \in {Msg("DFU_ABORT", 0, 0), Msg("DFU_CLRSTATUS", 0, 0)}
    /\ host = "download" =>
        \/ block * BlockPages < image /\ request = Msg("DFU_DNLOAD", block, LengthOf(block))
        \/ block * BlockPages >= image /\ request = Msg("DFU_DNLOAD", block, 0)
    /\ host = "upload" => request = Msg("DFU_UPLOAD", block, BlockPages)

\* Each stage of a transfer belongs to the request.
Asked ==
    /\ request.bRequest = "DFU_DNLOAD" => request.wLength \in 0 .. BlockPages
    /\ request.bRequest = "DFU_UPLOAD" => request.wLength = BlockPages
    /\ request.bRequest = "DFU_DETACH" => request.wLength = 0
    /\ stage # "idle" => RequestOfHost
    /\ stage \in {"in", "statusOut"} => request.bRequest \in ReadRequests
    /\ stage = "out" => request.bRequest = "DFU_DNLOAD" /\ moved < request.wLength
    /\ stage = "statusIn" => request.bRequest \notin ReadRequests
    /\ stage # "idle" /\ ~Handled => stage = FirstStage(request) /\ moved = 0 /\ got = << >>
    /\ stage = "idle" /\ ~Handled => host \in {"attach", "off", "probe", "upload"}

\* EP1 holds a packet that CtrlOut will copy.
PendingNew == "EP1" \in intsts /\ outToggle # ep1Pid /\ outSize < outLimit

Pending ==
    /\ stage = "statusOut" => outLimit = 0
    /\ stage = "in" /\ Handled /\ (ep0 # "none" \/ "EP0" \in intsts) => outLimit = 0
    /\ PendingNew => packet[1] = "page" /\ packet[2] \in Nat

\* While a block is programmed the pipe stands still.
Writing ==
    ~Idle =>
        /\ bState = "dfuDNLOAD_SYNC" /\ command_Count + 1 = Polls
        /\ ep0 = "none" /\ ~ep1 /\ ~stalled /\ intsts \subseteq {"BUS"}
        /\ \/ stage = "in" /\ request.bRequest = "DFU_GETSTATUS" /\ moved = 0 /\ got = << >>
           \/ stage = "idle" /\ host \in {"attach", "off", "probe", "upload"}

PipeIInv ==
    /\ DfuTypes /\ BufferTypes /\ Pointers /\ HostTypes
    /\ Order /\ Asked /\ Pending /\ Writing

LEMMA Sizes ==
    /\ BlockPages \in Nat \ {0} /\ Polls \in Nat /\ Polls >= 2
    /\ FlashPages \in Nat
  BY SizesAssumption

-----------------------------------------------------------------------------
(* The handler takes a request *)

LEMMA SetupTaken ==
    ASSUME PipeIInv, NEW name, NEW stall, TakeSetup(name, stall), UNCHANGED hostVars
    PROVE  /\ intsts = {"SETUP"} /\ intsts' = {} /\ request.bRequest = name
           /\ stalled' = stall /\ setAddress' = (name = "SET_ADDRESS") /\ outToggle' = "none"
           /\ UNCHANGED <<ep1Pid, request, hostAddr, stage, moved, got, lost, host, block, image>>
           /\ stage # "idle" => stage = FirstStage(request) /\ moved = 0 /\ got = << >>
           /\ stage = "idle" => host \in {"attach", "off", "probe", "upload"}
           /\ HostTypes' /\ Order' /\ Asked'
           /\ ep0' = "none" \/ outLimit' = 0 \/ name \notin ReadRequests => Pending'
  <1>1. /\ request.bRequest = name /\ intsts \cap {"BUS", "SETUP"} = {"SETUP"}
        /\ intsts' = intsts \ {"SETUP"}
        /\ stalled' = stall /\ setAddress' = (name = "SET_ADDRESS") /\ outToggle' = "none"
        /\ UNCHANGED <<ep1Pid, request, hostAddr, stage, moved, got, lost, host, block, image>>
    BY DEF TakeSetup, hostUsbVars, hostVars
  <1>2. intsts = {"SETUP"} /\ intsts' = {}
    BY <1>1 DEF PipeIInv, Order, Handled
  <1>3. /\ stage # "idle" => stage = FirstStage(request) /\ moved = 0 /\ got = << >>
        /\ stage = "idle" => host \in {"attach", "off", "probe", "upload"}
    BY <1>2 DEF PipeIInv, Asked, Handled
  <1>4. HostTypes' /\ Order'
    BY <1>1, <1>2 DEF PipeIInv, HostTypes, Order, Handled
  <1>5. Asked'
    BY <1>1, <1>2 DEF PipeIInv, Asked, RequestOfHost, LengthOf, Handled
  <1>6. ASSUME ep0' = "none" \/ outLimit' = 0 \/ name \notin ReadRequests PROVE Pending'
    BY <1>1, <1>2, <1>3, <1>6 DEF FirstStage, Pending, PendingNew
  <1> QED
    BY <1>1, <1>2, <1>3, <1>4, <1>5, <1>6

\* Each way in which a handler leaves the endpoints keeps the pointers.
LEMMA Prepared ==
    ASSUME NEW first, NEW length \in {"zero", "short", "full"},
           NEW n \in 0 .. BlockPages, NEW m \in 0 .. BlockPages,
           m > 0 => n = 0 /\ length = "zero",
           PrepareCtrlIn(first, length, n), PrepareCtrlOut(m)
    PROVE  Pointers'
  BY Sizes DEF PrepareCtrlIn, PrepareCtrlOut, Pointers

LEMMA NotPrepared == ASSUME Pointers, NothingIn, NothingOut PROVE Pointers'
  BY DEF NothingIn, NothingOut, Pointers

LEMMA OnlyStatus == ASSUME Pointers, StatusOnly PROVE Pointers'
  BY Sizes DEF StatusOnly, NothingOut, Pointers

\* A handler that leaves the state and the block alone.
LEMMA StateKept ==
    ASSUME PipeIInv, Idle, UNCHANGED dfuVars
    PROVE  DfuTypes' /\ Writing'
  BY DEF PipeIInv, dfuVars, progVars, DfuTypes, Writing, Idle

\* A handler that leaves the buffer and the flash alone.
LEMMA PagesKept == ASSUME PipeIInv, UNCHANGED <<buf, flash>> PROVE BufferTypes'
  BY DEF PipeIInv, BufferTypes

LEMMA StandardKeeps ==
    ASSUME PipeIInv, Idle, StandardRequest, UNCHANGED <<dfuVars, flash, hostVars>>
    PROVE  PipeIInv'
  <1>1. buf' = buf
    BY DEF StandardRequest, GetDescriptor, SetAddress, SetConfiguration, NoDescriptor,
           GetConfiguration, NotSupported, StatusOnly
  <1>2. DfuTypes' /\ Writing' /\ BufferTypes'
    BY <1>1, StateKept, PagesKept
  <1>3. Pointers'
    <2>1. CASE GetDescriptor
      <3>1. 1 \in 0 .. BlockPages /\ 0 \in 0 .. BlockPages
        BY Sizes
      <3> QED
        BY <2>1, <3>1, Prepared DEF GetDescriptor
    <2>2. CASE SetAddress \/ SetConfiguration
      BY <2>2, OnlyStatus DEF SetAddress, SetConfiguration, PipeIInv
    <2>3. CASE NoDescriptor \/ GetConfiguration
      <3>1. inPtr' = 0 /\ inSize' = 0 /\ UNCHANGED <<outSize, outLimit>>
        BY <2>3 DEF NoDescriptor, GetConfiguration, NotSupported, NothingOut
      <3>2. ep0' = "none"
        BY <2>3 DEF NoDescriptor, GetConfiguration, NotSupported
      <3> QED
        BY <3>1, <3>2, Sizes DEF PipeIInv, Pointers
    <2> QED
      BY <2>1, <2>2, <2>3 DEF StandardRequest
  <1>4. HostTypes' /\ Order' /\ Asked' /\ Pending'
    <2>1. CASE GetDescriptor
      BY <2>1, SetupTaken DEF GetDescriptor, PrepareCtrlOut
    <2>2. CASE SetAddress
      BY <2>2, SetupTaken DEF SetAddress, ReadRequests
    <2>3. CASE SetConfiguration
      <3>1. TakeSetup("SET_CONFIGURATION", FALSE) /\ "SET_CONFIGURATION" \notin ReadRequests
        BY <2>3 DEF SetConfiguration, ReadRequests
      <3> QED
        BY <3>1, SetupTaken
    <2>4. CASE NoDescriptor
      BY <2>4, SetupTaken DEF NoDescriptor, NotSupported
    <2>5. CASE GetConfiguration
      BY <2>5, SetupTaken DEF GetConfiguration, NotSupported
    <2> QED
      BY <2>1, <2>2, <2>3, <2>4, <2>5 DEF StandardRequest
  <1> QED
    BY <1>2, <1>3, <1>4 DEF PipeIInv

-----------------------------------------------------------------------------
(* Class requests *)

LEMMA Advanced ==
    ASSUME NEW s \in States, NEW c \in 0 .. Polls - 1, NEW from, NEW to \in States
    PROVE  \E t \in States, d \in 0 .. Polls - 1 : Advance(<<s, c>>, from, to) = <<t, d>>
  <1>1. c \in Nat /\ c + 1 \in Nat /\ 0 \in 0 .. Polls - 1
    BY Sizes
  <1>2. CASE s # from
    BY <1>2 DEF Advance
  <1>3. CASE s = from /\ c + 1 = Polls
    <2>1. Advance(<<s, c>>, from, to) = <<to, 0>>
      BY <1>3 DEF Advance
    <2> QED
      BY <1>1, <2>1
  <1>4. CASE s = from /\ c + 1 # Polls
    <2>1. Advance(<<s, c>>, from, to) = <<s, c + 1>> /\ c + 1 \in 0 .. Polls - 1
      BY <1>1, <1>4, Sizes DEF Advance
    <2> QED
      BY <2>1
  <1> QED
    BY <1>2, <1>3, <1>4

LEMMA PolledTypes ==
    ASSUME DfuTypes
    PROVE  Polled[1] \in States /\ Polled[2] \in 0 .. Polls - 1
  <1> DEFINE sync == Advance(<<bState, command_Count>>, "dfuDNLOAD_SYNC", "dfuDNLOAD_IDLE")
             idle == Advance(sync, "dfuDNLOAD_IDLE", "dfuMANIFEST_SYNC")
  <1>1. {"dfuDNLOAD_IDLE", "dfuMANIFEST_SYNC", "dfuIDLE"} \subseteq States
    BY DEF States
  <1>2. PICK s \in States, c \in 0 .. Polls - 1 : sync = <<s, c>>
    BY <1>1, Advanced DEF DfuTypes
  <1>3. PICK t \in States, d \in 0 .. Polls - 1 : idle = <<t, d>>
    BY <1>1, <1>2, Advanced
  <1>4. PICK u \in States, e \in 0 .. Polls - 1 :
            Advance(idle, "dfuMANIFEST_SYNC", "dfuIDLE") = <<u, e>>
    BY <1>1, <1>3, Advanced
  <1>5. Polled = Advance(idle, "dfuMANIFEST_SYNC", "dfuIDLE")
    BY DEF Polled
  <1> QED
    BY <1>4, <1>5

\* Where the requests of the status lead to.
LEMMA PolledFrom ==
    ASSUME DfuTypes
    PROVE  /\ bState = "dfuDNLOAD_SYNC" =>
                Polled[1] = IF command_Count + 1 = Polls THEN "dfuDNLOAD_IDLE" ELSE "dfuDNLOAD_SYNC"
           /\ bState \in {"dfuMANIFEST_SYNC", "dfuIDLE"} => Polled[1] \in {"dfuMANIFEST_SYNC", "dfuIDLE"}
           /\ bState # "dfuDNLOAD_SYNC" => Polled[1] # "dfuDNLOAD_SYNC"
  <1>1. Polls # 1
    BY Sizes
  <1> QED
    BY <1>1 DEF Polled, Advance

LEMMA StatusKeeps == ASSUME PipeIInv, GetStatus \/ GetState PROVE PipeIInv'
  <1>1. Idle /\ UNCHANGED <<buf, flash, progVars, writing, hostVars>>
    BY DEF GetStatus, GetState, dfuVars
  <1>2. BufferTypes'
    BY <1>1, PagesKept
  <1>3. DfuTypes'
    BY <1>1, PolledTypes DEF GetStatus, GetState, dfuVars, PipeIInv, DfuTypes, progVars
  <1>4. Pointers'
    <2>1. 1 \in 0 .. BlockPages /\ 0 \in 0 .. BlockPages
      BY Sizes
    <2> QED
      <3>1. PICK answer : PrepareCtrlIn(answer, "short", 1) /\ PrepareCtrlOut(0)
        BY DEF GetStatus, GetState
      <3> QED
        BY <2>1, <3>1, Prepared
  <1>5. HostTypes' /\ Order' /\ Asked' /\ Pending'
    BY <1>1, SetupTaken DEF GetStatus, GetState, PrepareCtrlOut
  <1>6. Writing'
    BY <1>1 DEF Writing, Idle, progVars
  <1> QED
    BY <1>2, <1>3, <1>4, <1>5, <1>6 DEF PipeIInv

LEMMA WriteStarts == ASSUME PipeIInv, GetStatusWrites PROVE PipeIInv'
  <1>1. /\ Idle /\ StartsWrite /\ writing' = 0
        /\ UNCHANGED <<buf, flash, progVars, bState, command_Count, hostVars>>
    BY DEF GetStatusWrites
  <1>2. BufferTypes'
    BY <1>1, PagesKept
  <1>3. DfuTypes'
    BY <1>1 DEF PipeIInv, DfuTypes, progVars
  <1>4. Pointers'
    BY NotPrepared DEF GetStatusWrites, PipeIInv
  <1>5. HostTypes' /\ Order' /\ Asked' /\ Pending'
    BY <1>1, SetupTaken DEF GetStatusWrites, NothingIn
  <1>6. /\ intsts' = {} /\ request.bRequest = "DFU_GETSTATUS" /\ stalled' = FALSE
        /\ UNCHANGED <<request, stage, moved, got, host>>
        /\ stage # "idle" => stage = FirstStage(request) /\ moved = 0 /\ got = << >>
        /\ stage = "idle" => host \in {"attach", "off", "probe", "upload"}
    BY <1>1, SetupTaken DEF GetStatusWrites
  <1>7. ep0' = "none" /\ ep1' = FALSE
    BY DEF GetStatusWrites, NothingIn, NothingOut
  <1>8. stage \in {"in", "idle"}
    BY <1>6 DEF FirstStage, ReadRequests
  <1>9. Writing'
    BY <1>1, <1>6, <1>7, <1>8 DEF Writing, StartsWrite
  <1> QED
    BY <1>2, <1>3, <1>4, <1>5, <1>9 DEF PipeIInv

\* One page more, or the answer.
LEMMA PageKeeps == ASSUME PipeIInv, WritePage PROVE PipeIInv'
  <1>1. /\ ~Idle
        /\ UNCHANGED <<setAddress, outToggle, usbAddr, buf, ep1Pid, stalled, address, intsts,
                       block_num, data_len, host, block, image, request, hostAddr, stage, moved, got, lost>>
    BY DEF WritePage, progVars, hostVars, hostUsbVars
  <1>2. /\ bState = "dfuDNLOAD_SYNC" /\ command_Count + 1 = Polls
        /\ ep0 = "none" /\ ~ep1 /\ ~stalled /\ intsts \subseteq {"BUS"}
        /\ stage \in {"in", "idle"}
    BY <1>1 DEF PipeIInv, Writing
  <1>3. writing \in 0 .. data_len - 1 /\ writing \in 0 .. BlockPages - 1 /\ data_len \in Nat
    BY <1>1, Sizes DEF PipeIInv, DfuTypes, Idle
  <1>4. writing' \in 0 .. data_len
    BY <1>3 DEF WritePage
  <1>5. BufferTypes'
    <2>1. buf[writing] \in Pages
      BY <1>3 DEF PipeIInv, BufferTypes
    <2>2. flash' \in {flash, [flash EXCEPT ![Page] = buf[writing]]}
      BY DEF WritePage
    <2> QED
      BY <1>1, <2>1, <2>2 DEF PipeIInv, BufferTypes
  <1>6. HostTypes' /\ Asked'
    BY <1>1 DEF PipeIInv, HostTypes, Asked, RequestOfHost, LengthOf, Handled
  <1>7. CASE writing' = data_len
    <2>1. /\ bState' = Polled[1] /\ command_Count' = Polled[2]
          /\ PrepareCtrlIn(<<"status", bState'>>, "short", 1) /\ PrepareCtrlOut(0)
      BY <1>7 DEF WritePage
    <2>2. DfuTypes'
      BY <1>1, <1>4, <2>1, PolledTypes DEF PipeIInv, DfuTypes
    <2>3. Pointers'
      <3>1. PICK answer : PrepareCtrlIn(answer, "short", 1)
        BY <2>1
      <3> QED
        BY <2>1, <3>1, Prepared, Sizes, 1 \in 0 .. BlockPages, 0 \in 0 .. BlockPages
    <2>4. Order' /\ Pending' /\ Writing'
      BY <1>1, <1>2, <1>7, <2>1 DEF PipeIInv, Order, Pending, PendingNew, Writing, Idle, Handled, PrepareCtrlOut
    <2> QED
      BY <1>5, <1>6, <2>2, <2>3, <2>4 DEF PipeIInv
  <1>8. CASE writing' # data_len
    <2>1. UNCHANGED <<bState, command_Count, inPtr, inSize, ep0, ep0Pid, packet, outSize, outLimit, ep1>>
      BY <1>8 DEF WritePage, inVars, outVars
    <2>2. DfuTypes' /\ Pointers'
      BY <1>1, <1>4, <2>1 DEF PipeIInv, DfuTypes, Pointers
    <2>3. Order' /\ Pending' /\ Writing'
      BY <1>1, <2>1 DEF PipeIInv, Order, Pending, PendingNew, Writing, Handled
    <2> QED
      BY <1>5, <1>6, <2>2, <2>3 DEF PipeIInv
  <1> QED
    BY <1>7, <1>8

\* The requests that end, begin or clear a download.
LEMMA ProgKeeps == ASSUME PipeIInv, DfuIInv, Download \/ Detach \/ Abort \/ ClearStatus PROVE PipeIInv'
  <1>1. /\ Idle /\ UNCHANGED <<buf, flash, hostVars, command_Count>>
        /\ \E name, stall : TakeSetup(name, stall) /\ name \notin ReadRequests
    <2>1. {"DFU_DNLOAD", "DFU_DETACH", "DFU_ABORT", "DFU_CLRSTATUS"} \cap ReadRequests = {}
      BY DEF ReadRequests
    <2>2. /\ Idle /\ UNCHANGED <<buf, flash, hostVars, command_Count>>
          /\ \/ TakeSetup("DFU_DNLOAD", FALSE) \/ TakeSetup("DFU_DETACH", FALSE)
             \/ TakeSetup("DFU_ABORT", TRUE) \/ TakeSetup("DFU_CLRSTATUS", FALSE)
      BY DEF Download, Detach, Abort, ClearStatus
    <2> QED
      BY <2>1, <2>2
  <1>2. BufferTypes'
    BY <1>1, PagesKept
  <1>3. HostTypes' /\ Order' /\ Asked' /\ Pending'
    BY <1>1, SetupTaken
  <1>4. 0 \in 0 .. BlockPages /\ BlockPages \in Nat
    BY Sizes
  <1>5. CASE Download
    <2>1. request.bRequest = "DFU_DNLOAD" /\ request.wLength \in 0 .. BlockPages /\ request.wValue \in Nat
      <3>1. request.bRequest = "DFU_DNLOAD"
        BY <1>5 DEF Download, TakeSetup
      <3> QED
        BY <3>1 DEF PipeIInv, Asked, DfuIInv, BlocksInImage, AsksForImage
    <2>2. CASE Accepting
      <3>1. PrepareDownload
        BY <1>5, <2>2 DEF Download
      <3>2. Pointers'
        BY <1>4, <2>1, <3>1, Prepared DEF PrepareDownload
      <3>3. DfuTypes' /\ Idle'
        <4>1. CASE request.wLength > 0
          <5>1. /\ bState' = "dfuDNLOAD_SYNC" /\ command_Count' = command_Count /\ block_num' = request.wValue
                /\ data_len' = request.wLength /\ writing' = request.wLength
            BY <1>5, <2>2, <4>1 DEF Download
          <5> QED
            BY <2>1, <4>1, <5>1 DEF PipeIInv, DfuTypes, States, Idle
        <4>2. CASE ~(request.wLength > 0)
          BY <1>1, <1>5, <2>2, <4>2 DEF Download, PipeIInv, DfuTypes, States, Idle, progVars
        <4> QED
          BY <4>1, <4>2
      <3> QED
        BY <1>2, <1>3, <3>2, <3>3 DEF PipeIInv, Writing
    <2>3. CASE ~Accepting
      <3>1. NothingIn /\ NothingOut /\ UNCHANGED <<bState, progVars, writing>>
        BY <1>5, <2>3 DEF Download
      <3>2. DfuTypes' /\ Idle'
        BY <1>1, <3>1 DEF PipeIInv, DfuTypes, Idle, progVars
      <3> QED
        BY <1>2, <1>3, <3>1, <3>2, NotPrepared DEF PipeIInv, Writing
    <2> QED
      BY <2>2, <2>3
  <1>6. CASE Detach \/ Abort
    <2>1. DfuTypes' /\ Idle'
      <3>1. /\ bState' \in {"dfuIDLE", "dfuMANIFEST_SYNC"} /\ command_Count' = command_Count
            /\ block_num' = 0 /\ data_len' = 0 /\ writing' = 0
        BY <1>6 DEF Detach, Abort, ResetProg
      <3>2. bState' \in States
        BY <3>1 DEF States
      <3>3. 0 \in 0 .. BlockPages /\ 0 \in 0 .. 0 /\ 0 \in Nat
        BY <1>4
      <3> QED
        BY <3>1, <3>2, <3>3 DEF PipeIInv, DfuTypes, Idle
    <2>2. Pointers'
      <3>1. CASE Detach
        <4>1. 0 \in 0 .. BlockPages /\ request.wLength = 0
          <5>1. request.bRequest = "DFU_DETACH"
            BY <3>1 DEF Detach, TakeSetup
          <5> QED
            BY <1>4, <5>1 DEF PipeIInv, Asked
        <4> QED
          BY <3>1, <4>1, Prepared DEF Detach, PrepareDownload
      <3>2. CASE Abort
        BY <3>2, NotPrepared DEF Abort, PipeIInv
      <3> QED
        BY <1>6, <3>1, <3>2
    <2> QED
      BY <1>2, <1>3, <2>1, <2>2 DEF PipeIInv, Writing
  <1>7. CASE ClearStatus
    <2>1. DfuTypes' /\ Idle'
      BY <1>1, <1>7 DEF ClearStatus, PipeIInv, DfuTypes, States, Idle, progVars
    <2> QED
      BY <1>2, <1>3, <1>7, <2>1, NotPrepared DEF ClearStatus, PipeIInv, Writing
  <1> QED
    BY <1>5, <1>6, <1>7

LEMMA UploadKeeps == ASSUME PipeIInv, Upload PROVE PipeIInv'
  <1>1. /\ Idle /\ request.bRequest = "DFU_UPLOAD" /\ request.wLength = BlockPages
        /\ UNCHANGED <<command_Count, block_num, data_len, writing, flash, hostVars>>
    BY DEF Upload, TakeSetup, progVars, PipeIInv, Asked
  <1>2. HostTypes' /\ Order' /\ Asked' /\ Pending'
    BY <1>1, SetupTaken DEF Upload, NothingIn, PrepareCtrlOut
  <1>3. DfuTypes' /\ Writing'
    <2>1. bState' \in States
      BY DEF Upload, PipeIInv, DfuTypes, States
    <2> QED
      BY <1>1, <2>1 DEF PipeIInv, DfuTypes, Writing, Idle
  <1>4. BufferTypes'
    <2>1. CASE buf' = buf
      BY <1>1, <2>1, PagesKept
    <2>2. CASE buf' = ReadBlock(request.wValue)
      <3>1. DOMAIN buf' = DOMAIN buf
        BY <2>2 DEF ReadBlock
      <3>2. ASSUME NEW k \in DOMAIN buf PROVE buf'[k] \in Pages
        BY <2>2, <3>2 DEF ReadBlock, PipeIInv, BufferTypes
      <3> QED
        BY <1>1, <3>1, <3>2 DEF PipeIInv, BufferTypes
    <2> QED
      BY <2>1, <2>2 DEF Upload
  <1>5. Pointers'
    <2>1. 0 \in 0 .. BlockPages /\ BlockPages \in 0 .. BlockPages
      BY Sizes
    <2>2. CASE NothingIn /\ NothingOut
      BY <2>2, NotPrepared DEF PipeIInv
    <2>3. CASE PrepareCtrlIn(<<"page", buf'[0]>>, "full", request.wLength) /\ PrepareCtrlOut(0)
      <3>1. PICK first : PrepareCtrlIn(first, "full", BlockPages)
        BY <1>1, <2>3
      <3> QED
        BY <2>1, <2>3, <3>1, Prepared
    <2>4. CASE PrepareCtrlIn(packet, "zero", 0) /\ PrepareCtrlOut(0)
      BY <2>1, <2>4, Prepared
    <2> QED
      BY <2>2, <2>3, <2>4 DEF Upload
  <1> QED
    BY <1>2, <1>3, <1>4, <1>5 DEF PipeIInv

-----------------------------------------------------------------------------
(* The endpoints and the bus *)

LEMMA EndpointsKeep ==
    ASSUME PipeIInv, Idle, HandleEndpoints, UNCHANGED <<dfuVars, flash, hostVars>>
    PROVE  PipeIInv'
  <1>1. /\ intsts' = {} /\ intsts # {} /\ intsts \subseteq {"EP0", "EP1"}
        /\ UNCHANGED <<setAddress, outLimit, usbAddr, ep0Pid, stalled, request, hostAddr, stage, moved,
                       got, lost, host, block, image, flash>>
    BY DEF HandleEndpoints, hostUsbVars, hostVars
  <1>2. DfuTypes' /\ Writing'
    BY StateKept
  <1>3. HostTypes' /\ Order' /\ Asked' /\ Pending'
    <2>1. HostTypes' /\ Order' /\ Asked'
      BY <1>1 DEF PipeIInv, HostTypes, Order, Asked, RequestOfHost, LengthOf, Handled
    <2>2. stage = "in" /\ ep0' # "none" => outLimit = 0
      BY <1>1 DEF HandleEndpoints, PipeIInv, Pending, Handled
    <2> QED
      BY <1>1, <2>1, <2>2 DEF PipeIInv, Pending, PendingNew
  <1>4. /\ inPtr' \in Nat /\ inSize' \in Nat /\ inPtr' + inSize' <= BlockPages
        /\ inSize = 0 => inSize' = 0
        /\ ep0' \in {"none", "zero", "short", "full"}
        /\ inSize = 0 => ep0' \in {ep0, "zero"}
    <2>1. CASE "EP0" \in intsts
      <3>1. /\ CtrlIn /\ inPtr \in Nat /\ inSize \in Nat /\ inPtr + inSize <= BlockPages
            /\ ep0 \in {"none", "zero", "short", "full"}
        BY <2>1 DEF HandleEndpoints, PipeIInv, Pointers
      <3>2. CASE inSize = 1
        BY <3>1, <3>2, Sizes DEF CtrlIn
      <3>3. CASE inSize > 1
        BY <3>1, <3>3, Sizes DEF CtrlIn
      <3>4. CASE inSize = 0
        BY <3>1, <3>4 DEF CtrlIn
      <3> QED
        BY <3>1, <3>2, <3>3, <3>4
    <2>2. CASE "EP0" \notin intsts
      BY <2>2 DEF HandleEndpoints, PipeIInv, Pointers
    <2> QED
      BY <2>1, <2>2
  <1>5. CASE PendingNew
    <2>1. /\ buf' = [buf EXCEPT ![outSize] = PacketAfterIn[2]] /\ outSize' = outSize + 1
          /\ outSize < outLimit
      BY <1>5 DEF HandleEndpoints, CtrlOut, PendingNew
    <2>2. inSize = 0 /\ outSize \in 0 .. BlockPages - 1
      BY <2>1, Sizes DEF PipeIInv, Pointers
    <2>3. PacketAfterIn[2] \in Nat
      BY <1>5, <2>2 DEF PacketAfterIn, PipeIInv, Pending
    <2>4. BufferTypes'
      BY <1>1, <2>1, <2>2, <2>3 DEF PipeIInv, BufferTypes, Pages
    <2>5. Pointers'
      BY <1>1, <1>4, <2>1 DEF PipeIInv, Pointers
    <2> QED
      BY <1>2, <1>3, <2>4, <2>5 DEF PipeIInv
  <1>6. CASE ~PendingNew
    <2>1. buf' = buf /\ outSize' = outSize
      BY <1>6 DEF HandleEndpoints, CtrlOut, PendingNew
    <2>2. Pointers'
      BY <1>1, <1>4, <2>1 DEF PipeIInv, Pointers
    <2> QED
      BY <1>1, <1>2, <1>3, <2>1, <2>2, PagesKept DEF PipeIInv
  <1> QED
    BY <1>5, <1>6

LEMMA BusResetHandled ==
    ASSUME PipeIInv, Idle, HandleBusReset, UNCHANGED <<dfuVars, flash, hostVars>>
    PROVE  PipeIInv'
  <1>1. /\ "BUS" \in intsts /\ intsts' = intsts \ {"BUS"}
        /\ inPtr' = 0 /\ inSize' = 0 /\ outSize' = 0 /\ outLimit' = 0
        /\ UNCHANGED <<outToggle, usbAddr, buf, ep0, ep1, ep1Pid, packet, stalled, request,
                       hostAddr, stage, moved, got, lost, host, block, image, flash>>
    BY DEF HandleBusReset, hostUsbVars, hostVars
  <1>2. DfuTypes' /\ Writing' /\ BufferTypes'
    BY <1>1, StateKept, PagesKept
  <1>3. Pointers'
    BY <1>1, Sizes DEF PipeIInv, Pointers
  <1>4. HostTypes' /\ Order' /\ Asked' /\ Pending'
    BY <1>1 DEF PipeIInv, HostTypes, Order, Asked, RequestOfHost, LengthOf, Pending, PendingNew, Handled
  <1> QED
    BY <1>2, <1>3, <1>4 DEF PipeIInv

-----------------------------------------------------------------------------
(* The host's side of a transfer *)

\* A step of the host that leaves the handler and the device alone.
LEMMA HostSide ==
    ASSUME PipeIInv, UNCHANGED <<handlerVars, dfuVars, flash>>,
           ep0' \in {ep0, "none"}
    PROVE  DfuTypes' /\ BufferTypes' /\ Pointers' /\ Idle' = Idle
  <1>1. UNCHANGED <<buf, inPtr, inSize, outSize, outLimit, bState, command_Count, block_num, data_len, writing>>
    BY DEF handlerVars, dfuVars, progVars
  <1> QED
    BY <1>1 DEF PipeIInv, DfuTypes, BufferTypes, Pointers, Idle

LEMMA InTokenKeeps ==
    ASSUME PipeIInv, DataIn \/ StatusIn, UNCHANGED <<dfuVars, flash, hostVars>>
    PROVE  PipeIInv'
  <1>1. /\ address = hostAddr /\ Handled /\ ~stalled /\ ep0 # "none" /\ stage \in {"in", "statusIn"}
        /\ \/ ep0' = "none" /\ packet' = (IF ep0 = "zero" THEN packet ELSE NoPacket)
              /\ intsts' = intsts \cup {"EP0"}
           \/ UNCHANGED <<ep0, packet, intsts>>
        /\ UNCHANGED <<handlerVars, ep1, ep1Pid, stalled, address, request, host, block, image>>
    BY DEF DataIn, StatusIn, InToken, Answers, Handled, hostVars
  <1>2. /\ moved' \in Nat /\ stage' \in {"in", "statusIn", "statusOut", "done"}
        /\ stage = "in" => stage' \in {"in", "statusOut"}
        /\ stage = "statusIn" => stage' \in {"statusIn", "done"}
    BY DEF DataIn, StatusIn, InToken, Read, StatusRead, PipeIInv, HostTypes
  <1>3. Idle
    BY <1>1 DEF PipeIInv, Writing
  <1>4. DfuTypes' /\ BufferTypes' /\ Pointers' /\ Idle'
    BY <1>1, <1>3, HostSide
  <1>5. HostTypes'
    BY <1>1, <1>2 DEF PipeIInv, HostTypes, Stages
  <1>6. Order'
    BY <1>1, <1>2 DEF PipeIInv, Order, Handled
  <1>7. Asked'
    BY <1>1, <1>2 DEF PipeIInv, Asked, RequestOfHost, LengthOf, Handled
  <1>8. Pending'
    <2>1. stage' = "statusOut" => outLimit = 0
      BY <1>1, <1>2 DEF PipeIInv, Pending
    <2>2. stage' = "in" => outLimit = 0
      BY <1>1, <1>2 DEF PipeIInv, Pending
    <2>3. outSize' = outSize /\ outLimit' = outLimit /\ outToggle' = outToggle /\ ep1Pid' = ep1Pid
      BY <1>1 DEF handlerVars
    <2>4. PendingNew' => PendingNew /\ packet' = packet
      BY <1>1, <2>3 DEF PendingNew, PipeIInv, Pointers
    <2> QED
      BY <2>1, <2>2, <2>3, <2>4 DEF PipeIInv, Pending
  <1> QED
    BY <1>4, <1>5, <1>6, <1>7, <1>8 DEF PipeIInv, Writing

LEMMA OutTokenKeeps ==
    ASSUME PipeIInv, StatusOut \/ DataOut(<<"page", Image(block * BlockPages + moved)>>),
           UNCHANGED <<dfuVars, flash, hostVars>>
    PROVE  PipeIInv'
  <1>1. /\ Handled /\ ep1 /\ ep1' = FALSE /\ intsts' = intsts \cup {"EP1"} /\ stage \in {"out", "statusOut"}
        /\ stage = "out" => packet' = <<"page", Image(block * BlockPages + moved)>>
        /\ stage = "out" => UNCHANGED <<stage, moved>> \/ Sent
        /\ stage = "statusOut" => stage' \in {"statusOut", "done"} /\ moved' = moved
        /\ UNCHANGED <<handlerVars, ep0, ep0Pid, stalled, address, request, hostAddr, got, host, block, image>>
    BY DEF DataOut, StatusOut, OutToken, Answers, Handled, hostVars
  <1>2. /\ moved' \in Nat /\ stage' \in {"out", "statusOut", "statusIn", "done"}
        /\ stage = "out" => stage' \in {"out", "statusIn"}
        /\ stage' = "out" => moved' < request.wLength
        /\ stage = "statusOut" => stage' \in {"statusOut", "done"}
    <2>1. CASE stage = "out"
      <3>1. request.wLength \in Nat /\ moved \in Nat /\ moved < request.wLength
        BY <2>1, Sizes DEF PipeIInv, Asked, HostTypes
      <3> QED
        BY <1>1, <2>1, <3>1 DEF Sent
    <2>2. CASE stage = "statusOut"
      BY <1>1, <2>2 DEF PipeIInv, HostTypes
    <2> QED
      BY <1>1, <2>1, <2>2
  <1>3. Idle
    BY <1>1 DEF PipeIInv, Writing
  <1>4. DfuTypes' /\ BufferTypes' /\ Pointers' /\ Idle'
    BY <1>1, <1>3, HostSide
  <1>5. HostTypes'
    BY <1>1, <1>2 DEF PipeIInv, HostTypes, Stages
  <1>6. Order'
    BY <1>1, <1>2 DEF PipeIInv, Order, Handled
  <1>7. Asked'
    <2>1. stage = "out" => request.bRequest \notin ReadRequests
      BY DEF PipeIInv, Asked, ReadRequests
    <2> QED
      BY <1>1, <1>2, <2>1 DEF PipeIInv, Asked, RequestOfHost, LengthOf, Handled
  <1>8. Pending'
    <2>1. UNCHANGED <<outSize, outLimit, outToggle, ep0>>
      BY <1>1 DEF handlerVars
    <2>2. CASE stage = "out"
      <3>1. block * BlockPages + moved \in Nat
        <4>1. block * BlockPages \in Nat
          BY Sizes, TimesNat DEF PipeIInv, HostTypes
        <4> QED
          BY <4>1 DEF PipeIInv, HostTypes
      <3> QED
        BY <1>1, <1>2, <2>1, <2>2, <3>1 DEF Pending, Image
    <2>3. CASE stage = "statusOut"
      BY <1>1, <1>2, <2>1, <2>3, Sizes DEF Pending, PendingNew, PipeIInv, Pointers
    <2> QED
      BY <1>1, <2>2, <2>3
  <1> QED
    BY <1>4, <1>5, <1>6, <1>7, <1>8 DEF PipeIInv, Writing

LEMMA GiveUpKeeps ==
    ASSUME PipeIInv, SeeStall \/ (Idle /\ Timeout), UNCHANGED <<dfuVars, flash, hostVars>>
    PROVE  PipeIInv'
  <1>1. /\ Handled /\ stage # "idle" /\ stage' \in {"stalled", "failed"}
        /\ UNCHANGED <<handlerVars, hardwareVars, intsts, request, hostAddr, moved, got, lost, host, block, image>>
    BY DEF SeeStall, Timeout, Active, Handled, hostVars
  <1>2. Idle
    BY DEF SeeStall, PipeIInv, Writing
  <1>3. DfuTypes' /\ BufferTypes' /\ Pointers' /\ Idle'
    BY <1>1, <1>2, HostSide DEF hardwareVars
  <1>4. HostTypes' /\ Order' /\ Asked' /\ Pending'
    BY <1>1 DEF PipeIInv, HostTypes, Stages, Order, Asked, RequestOfHost, LengthOf, Pending, PendingNew,
                Handled, handlerVars, hardwareVars
  <1> QED
    BY <1>3, <1>4 DEF PipeIInv, Writing

-----------------------------------------------------------------------------
(* The host begins and ends a transfer *)

LEMMA LengthOfBlock ==
    ASSUME NEW b \in Nat, image \in Nat, b * BlockPages < image
    PROVE  LengthOf(b) \in 1 .. BlockPages
  <1>1. b * BlockPages \in Nat /\ BlockPages \in Nat /\ BlockPages > 0
    BY Sizes, TimesNat
  <1>2. (b + 1) * BlockPages = b * BlockPages + BlockPages
    BY <1>1
  <1>3. CASE (b + 1) * BlockPages <= image
    BY <1>1, <1>3 DEF LengthOf
  <1>4. CASE ~((b + 1) * BlockPages <= image)
    <2>1. image - b * BlockPages \in 1 .. BlockPages
      BY <1>1, <1>2, <1>4
    <2> QED
      BY <1>4, <2>1 DEF LengthOf
  <1> QED
    BY <1>3, <1>4

\* What the host asks for is what RequestOfHost says.
LEMMA HostAsks ==
    ASSUME PipeIInv, Ask
    PROVE  \E r : /\ Request(r) /\ RequestOfHost'
                  /\ r.bRequest = "DFU_DNLOAD" => r.wLength \in 0 .. BlockPages
                  /\ r.bRequest = "DFU_UPLOAD" => r.wLength = BlockPages
                  /\ r.bRequest = "DFU_DETACH" => r.wLength = 0
  <1>1. /\ UNCHANGED <<host, block, image>> /\ HostRequest /\ host \in Hosts /\ block \in Nat /\ image \in Nat
        /\ BlockPages \in Nat /\ 0 \in 0 .. BlockPages
    BY Sizes DEF Ask, hostVars, PipeIInv, HostTypes
  <1>2. \A r : Request(r) => request' = r
    BY DEF Request
  <1>3. LengthOf(block)' = LengthOf(block)
    BY <1>1 DEF LengthOf
  <1>4. CASE host \in {"off", "done"}
    <2>1. PICK r \in Others : Request(r)
      BY <1>1, <1>4 DEF HostRequest
    <2>2. r \in OtherRequests
      BY DEF Others, OtherRequests
    <2> QED
      BY <1>1, <1>2, <1>4, <2>1, <2>2 DEF RequestOfHost, OtherRequests, Msg
  <1>5. CASE host = "download"
    <2>1. CASE block * BlockPages < image /\ Request(Msg("DFU_DNLOAD", block, LengthOf(block)))
      <3>1. LengthOf(block) \in 0 .. BlockPages
        BY <1>1, <2>1, LengthOfBlock
      <3> QED
        BY <1>1, <1>2, <1>3, <1>5, <2>1, <3>1 DEF RequestOfHost, Msg
    <2>2. CASE block * BlockPages >= image /\ Request(Msg("DFU_DNLOAD", block, 0))
      BY <1>1, <1>2, <1>5, <2>2 DEF RequestOfHost, Msg
    <2> QED
      BY <1>1, <1>5, <2>1, <2>2 DEF HostRequest
  <1>6. CASE host \in {"attach", "probe", "poll", "manifest", "abort", "upload"}
    BY <1>1, <1>2, <1>6 DEF HostRequest, RequestOfHost, Msg
  <1> QED
    BY <1>1, <1>4, <1>5, <1>6 DEF Hosts

LEMMA AskKeepsPipe == ASSUME PipeIInv, Ask PROVE PipeIInv'
  <1>1. PICK r : /\ Request(r) /\ RequestOfHost'
                 /\ r.bRequest = "DFU_DNLOAD" => r.wLength \in 0 .. BlockPages
                 /\ r.bRequest = "DFU_UPLOAD" => r.wLength = BlockPages
                 /\ r.bRequest = "DFU_DETACH" => r.wLength = 0
    BY HostAsks
  <1>2. /\ Idle /\ stage = "idle" /\ intsts = {} /\ request' = r /\ moved' = 0 /\ got' = << >>
        /\ \/ stage' = FirstStage(r) /\ intsts' = {"SETUP"}
           \/ stage' = "failed" /\ intsts' = {}
        /\ UNCHANGED <<handlerVars, hardwareVars, hostAddr, dfuVars, flash, host, block, image>>
    BY <1>1 DEF Ask, Request, hostVars
  <1>3. DfuTypes' /\ BufferTypes' /\ Pointers' /\ Idle'
    BY <1>2, HostSide DEF hardwareVars
  <1>4. FirstStage(r) \in {"in", "out", "statusIn"}
    BY DEF FirstStage
  <1>5. HostTypes' /\ Order'
    BY <1>2, <1>4 DEF PipeIInv, HostTypes, Stages, Order, Handled
  <1>6. Asked'
    <2>1. stage' = "in" => r.bRequest \in ReadRequests
      BY <1>2 DEF FirstStage
    <2>2. stage' = "out" => r.wLength > 0 /\ r.bRequest \notin ReadRequests
      BY <1>2 DEF FirstStage
    <2>3. stage' = "statusIn" => r.bRequest \notin ReadRequests
      BY <1>2 DEF FirstStage
    <2>4. stage' = "out" => r.bRequest = "DFU_DNLOAD" /\ 0 < r.wLength
      BY <1>1, <1>2, <2>2, Sizes DEF RequestOfHost, OtherRequests, Msg, ReadRequests, PipeIInv, HostTypes, Hosts
    <2> QED
      BY <1>1, <1>2, <1>4, <2>1, <2>3, <2>4 DEF Asked, Handled
  <1>7. Pending'
    BY <1>2, <1>4 DEF Pending, PendingNew, Handled
  <1> QED
    BY <1>3, <1>5, <1>6, <1>7 DEF PipeIInv, Writing

LEMMA HostSteps == ASSUME PipeIInv, HostGoesOn \/ HostStop \/ HostStart \/ BusReset PROVE PipeIInv'
  <1>1. /\ UNCHANGED <<handlerVars, hardwareVars, dfuVars, flash, image>>
        /\ stage' = "idle" /\ moved' \in Nat /\ request' \in {request, NoRequest}
        /\ host' \in Hosts /\ block' \in Nat
        /\ intsts' \in {intsts, intsts \cup {"BUS"}}
        /\ ~Idle => HostStop \/ BusReset
    <2>1. CASE HostGoesOn
      <3>1. Idle /\ host' \in Hosts /\ block' \in Nat
        BY <2>1 DEF HostGoesOn, Succeeded, AfterStatus, AfterUpload, Refused, PipeIInv, HostTypes, Hosts, Writing
      <3> QED
        BY <2>1, <3>1 DEF HostGoesOn, EndTransfer
    <2>2. CASE HostStop \/ BusReset
      BY <2>2 DEF HostStop, BusReset, ResetBus, EndTransfer, Hosts
    <2>3. CASE HostStart
      BY <2>3 DEF HostStart, usbVars, hostUsbVars, Hosts, PipeIInv, HostTypes
    <2> QED
      BY <2>1, <2>2, <2>3
  <1>2. DfuTypes' /\ BufferTypes' /\ Pointers' /\ Idle' = Idle
    BY <1>1, HostSide DEF hardwareVars
  <1>3. HostTypes'
    BY <1>1 DEF PipeIInv, HostTypes, Stages
  <1>4. /\ ~Handled' => host' \in {"attach", "off", "probe", "upload"}
        /\ "BUS" \in intsts' => host' = "attach" /\ hostAddr' = 0
    <2>1. CASE HostGoesOn
      <3>1. Handled /\ "BUS" \notin intsts /\ intsts' = intsts
        BY <2>1 DEF HostGoesOn, Succeeded, Refused, PipeIInv, Order, Asked, Handled, FirstStage
      <3> QED
        BY <3>1 DEF Handled
    <2>2. CASE HostStop
      <3>1. "BUS" \notin intsts /\ intsts' = intsts
        BY <2>2 DEF HostStop, PipeIInv, Order
      <3> QED
        BY <2>2, <3>1 DEF HostStop
    <2>3. CASE HostStart
      <3>1. "BUS" \notin intsts /\ intsts' = intsts
        BY <2>3 DEF HostStart, PipeIInv, Order, usbVars
      <3> QED
        BY <2>3, <3>1 DEF HostStart
    <2>4. CASE BusReset
      BY <2>4 DEF BusReset, ResetBus
    <2> QED
      BY <2>1, <2>2, <2>3, <2>4
  <1>5. Order'
    BY <1>1, <1>4 DEF PipeIInv, Order, Handled, hardwareVars
  <1>6. Asked'
    BY <1>1, <1>4 DEF PipeIInv, Asked, NoRequest, Msg
  <1>7. Pending'
    BY <1>1 DEF PipeIInv, Pending, PendingNew, handlerVars, hardwareVars
  <1>8. Writing'
    <2> SUFFICES ASSUME ~Idle PROVE Writing'
      BY <1>2 DEF Writing
    <2>1. /\ bState = "dfuDNLOAD_SYNC" /\ command_Count + 1 = Polls
          /\ ep0 = "none" /\ ~ep1 /\ ~stalled /\ intsts \subseteq {"BUS"}
      BY DEF PipeIInv, Writing
    <2>2. /\ bState' = "dfuDNLOAD_SYNC" /\ command_Count' + 1 = Polls
          /\ ep0' = "none" /\ ~ep1' /\ ~stalled' /\ intsts' \subseteq {"BUS"}
      BY <1>1, <2>1 DEF dfuVars, hardwareVars
    <2>3. host' \in {"attach", "off"}
      BY <1>1 DEF HostStop, BusReset
    <2> QED
      BY <1>1, <2>2, <2>3 DEF Writing
  <1> QED
    BY <1>2, <1>3, <1>5, <1>6, <1>7, <1>8 DEF PipeIInv

LEMMA RestartKeepsPipe == ASSUME PipeIInv, DfuIInv, Restart PROVE PipeIInv'
  <1>1. /\ UsbRestart(BlankBuffer) /\ bState' = "dfuIDLE" /\ command_Count' = 0
        /\ block_num' = 0 /\ data_len' = 0 /\ writing' = 0
        /\ host' = "attach" /\ block' = 0 /\ image' = image
        /\ flash' \in {flash, [flash EXCEPT ![Page] = Erased]}
    BY DEF Restart, ResetProg
  <1>2. DfuTypes' /\ Writing'
    BY <1>1, Sizes DEF DfuTypes, States, Writing, Idle
  <1>3. BufferTypes'
    BY <1>1 DEF UsbRestart, BlankBuffer, PipeIInv, BufferTypes, Pages
  <1>4. Pointers'
    BY <1>1, Sizes DEF UsbRestart, Pointers
  <1>5. HostTypes' /\ Order' /\ Asked' /\ Pending'
    BY <1>1 DEF UsbRestart, NoRequest, Msg, PipeIInv, HostTypes, Stages, Hosts, Order, Asked, Pending,
                PendingNew, Handled
  <1> QED
    BY <1>2, <1>3, <1>4, <1>5 DEF PipeIInv

LEMMA InitPipe == ASSUME Init PROVE PipeIInv
  <1>1. image \in Nat
    BY SizesAssumption DEF Init
  <1>2. DfuTypes /\ Writing
    BY Sizes DEF Init, DfuTypes, States, Writing, Idle
  <1>3. BufferTypes
    BY DEF Init, UsbInit, BlankBuffer, BufferTypes, Pages
  <1>4. Pointers
    BY Sizes DEF Init, UsbInit, Pointers
  <1>5. HostTypes /\ Order /\ Asked /\ Pending
    BY <1>1 DEF Init, UsbInit, NoRequest, Msg, HostTypes, Stages, Hosts, Order, Asked, Pending,
                PendingNew, Handled
  <1> QED
    BY <1>2, <1>3, <1>4, <1>5 DEF PipeIInv

LEMMA PipeNext == ASSUME PipeIInv, DfuIInv, [Next]_vars PROVE PipeIInv'
  <1>1. CASE ClassRequest
    BY <1>1, StatusKeeps, WriteStarts, PageKeeps, ProgKeeps, UploadKeeps DEF ClassRequest
  <1>2. CASE Pipe
    <2>1. UNCHANGED <<dfuVars, flash, hostVars>>
      BY <1>2 DEF Pipe
    <2> QED
      BY <1>2, <2>1, StandardKeeps, EndpointsKeep, BusResetHandled, InTokenKeeps, OutTokenKeeps, GiveUpKeeps
         DEF Pipe
  <1>3. CASE UNCHANGED vars
    BY <1>3 DEF vars, usbVars, handlerVars, hardwareVars, hostUsbVars, dfuVars, progVars, hostVars,
                PipeIInv, DfuTypes, BufferTypes, Pointers, HostTypes, Order, Asked, RequestOfHost, LengthOf,
                Pending, PendingNew, Writing, Idle, Handled
  <1> QED
    BY <1>1, <1>2, <1>3, AskKeepsPipe, HostSteps, RestartKeepsPipe DEF Next, Transfer

(* What the control pipe, the handler and the host know of each other at   *)
(* any time: usbd_user.c never has both data stages under way, handles     *)
(* events in their order and leaves EP0 and EP1 alone while WriteData is   *)
(* between two pages.                                                      *)
THEOREM PipeInvariance == Spec => []PipeIInv
  <1>1. Init => PipeIInv
    BY InitPipe
  <1>2. PipeIInv /\ DfuIInv /\ [Next]_vars => PipeIInv'
    BY PipeNext
  <1> QED
    BY <1>1, <1>2, DfuInvariance, PTL DEF Spec

(* Every pointer of usbd_user.c stays within the buffer of a block, and    *)
(* every state of dfu_transfer.c is one of its states, for every size of   *)
(* blocks and flash and every number of polls.                             *)
THEOREM DfuTypesHold == Spec => []TypeOK
  <1>1. PipeIInv => TypeOK
    <2> SUFFICES ASSUME PipeIInv PROVE TypeOK
      OBVIOUS
    <2>1. inPtr + inSize \in 0 .. BlockPages /\ outSize \in 0 .. outLimit
      BY Sizes DEF PipeIInv, Pointers
    <2> QED
      BY <2>1 DEF PipeIInv, DfuTypes, BufferTypes, Pointers, HostTypes, Stages, Order, TypeOK
  <1> QED
    BY <1>1, PipeInvariance, PTL

-----------------------------------------------------------------------------
(* What the host reads *)

\* A request for data has been handled.
Replying == stage \in {"in", "statusOut"} /\ Handled /\ Idle

\* One packet that is not full.
Single(answer) ==
    \/ stage = "in" /\ ep0 = "short" /\ ep0Pid = "DATA1" /\ packet = answer /\ moved = 0 /\ got = << >>
    \/ stage = "statusOut" /\ got = <<answer>>

\* The buffer holds the block as far as there is one.
BlockRead ==
    \A k \in 0 .. BlockPages - 1 :
        LET p == request.wValue * BlockPages + k IN p \in DOMAIN flash => buf[k] = flash[p]

GotPages ==
    /\ moved \in 0 .. BlockPages
    /\ got = [k \in 1 .. moved |-> <<"page", buf[k - 1]>>]

\* Pages that EP0 has been given.
Loaded == BlockPages - inSize

\* Page after page: the last one loaded, which the host may have read, or
\* the next one due.
Paged ==
    /\ BlockRead /\ GotPages
    /\ \/ /\ stage = "in" /\ ep0 = "full" /\ ep0Pid = Pid(Loaded) /\ packet = <<"page", buf[Loaded - 1]>>
          /\ moved \in {Loaded - 1, Loaded} /\ moved < BlockPages
          /\ inSize > 0 => inPtr = Loaded
       \/ /\ stage = "in" /\ "EP0" \in intsts /\ ep0Pid = Pid(Loaded + 1)
          /\ moved = Loaded /\ inSize > 0 /\ inPtr = Loaded
       \/ stage = "statusOut" /\ moved = BlockPages

\* The block lies behind the flash.
NoPages ==
    /\ got = << >> /\ request.wValue > LastBlock
    /\ \/ stage = "in" /\ ep0 = "zero" /\ ep0Pid = "DATA1" /\ moved = 0
       \/ stage = "statusOut"

NoReply == stage = "in" /\ ep0 = "none" /\ intsts = {}

UploadReply ==
    \/ Paged
    \/ NoPages
    \/ NoReply /\ bState \notin {"dfuIDLE", "dfuUPLOAD_IDLE"}

Reply ==
    /\ request.bRequest = "DFU_GETSTATUS" => Single(<<"status", bState>>)
    /\ request.bRequest = "DFU_GETSTATE" => Single(<<"state", bState>>)
    /\ request = Msg("GET_DESCRIPTOR", 1, 1) => Single(<<"descriptor", 1>>)
    /\ request = Msg("GET_DESCRIPTOR", 2, 1) => NoReply /\ stalled
    /\ request.bRequest = "GET_CONFIGURATION" => NoReply /\ stalled
    /\ request.bRequest = "DFU_UPLOAD" => UploadReply

\* The host acts on the state, or the end of the flash, when the transfer is
\* over.
Told ==
    stage = "done" =>
        /\ request.bRequest = "DFU_GETSTATUS" => got = << <<"status", bState>> >>
        /\ request.bRequest = "DFU_UPLOAD" /\ got = << >> => request.wValue > LastBlock

ReplyIInv == (Replying => Reply) /\ Told

LEMMA Pids ==
    /\ Pid(1) = "DATA1" /\ Pid(2) = "DATA0"
    /\ Flipped("DATA1") = "DATA0" /\ Flipped("DATA0") = "DATA1"
    /\ \A n \in Nat : Pid(n) \in {"DATA0", "DATA1"} /\ Pid(n + 1) = Flipped(Pid(n)) /\ Pid(n + 1) # Pid(n)
  <1>1. ASSUME NEW n \in Nat PROVE (n % 2 = 0 /\ (n + 1) % 2 = 1) \/ (n % 2 = 1 /\ (n + 1) % 2 = 0)
    OBVIOUS
  <1>2. \A n \in Nat : Pid(n) \in {"DATA0", "DATA1"} /\ Pid(n + 1) = Flipped(Pid(n)) /\ Pid(n + 1) # Pid(n)
    BY <1>1 DEF Pid, Flipped
  <1> QED
    BY <1>2 DEF Pid, Flipped

\* The step that leaves the host with a request that has been handled.
LEMMA ReplyStep ==
    ASSUME PipeIInv, DfuIInv, [Next]_vars, Replying', request'.bRequest \in ReadRequests
    PROVE  \/ /\ request' = request /\ stage = "in" /\ stage' = "in" /\ moved' = 0 /\ got' = << >> /\ intsts' \cap {"EP0", "EP1"} = {}
              /\ \/ GetStatus \/ GetState \/ GetDescriptor \/ NoDescriptor \/ GetConfiguration \/ Upload
                 \/ (WritePage /\ writing' = data_len /\ request.bRequest = "DFU_GETSTATUS")
           \/ /\ Replying /\ UNCHANGED <<dfuVars, flash, hostVars, request>>
              /\ HandleEndpoints \/ DataIn \/ StatusOut \/ UNCHANGED vars
  <1>1. stage' \in {"in", "statusOut"} /\ Handled' /\ Idle'
    BY DEF Replying
  <1>2. ASSUME NEW name, NEW stall, TakeSetup(name, stall), UNCHANGED hostVars
        PROVE  /\ request' = request /\ stage = "in" /\ stage' = "in" /\ moved' = 0 /\ got' = << >>
               /\ intsts' = {} /\ name = request.bRequest
    BY <1>1, <1>2, SetupTaken DEF FirstStage
  <1>3. CASE ClassRequest
    <2>1. CASE GetStatus \/ GetState \/ Upload
      <3>1. \E name, stall : TakeSetup(name, stall) /\ UNCHANGED hostVars
        BY <2>1 DEF GetStatus, GetState, Upload
      <3>2. request' = request /\ stage = "in" /\ stage' = "in" /\ moved' = 0 /\ got' = << >> /\ intsts' = {}
        BY <1>2, <3>1
      <3> QED
        BY <2>1, <3>2
    <2>2. CASE GetStatusWrites
      <3>1. Idle' = FALSE
        BY <2>2 DEF GetStatusWrites, StartsWrite, progVars, Idle, PipeIInv, DfuTypes
      <3> QED
        BY <1>1, <3>1
    <2>3. CASE WritePage
      <3>1. /\ ~Idle /\ writing' = data_len
            /\ UNCHANGED <<request, stage, moved, got, intsts>>
        BY <1>1, <2>3 DEF WritePage, Idle, progVars, hostUsbVars
      <3>2. stage = "in" /\ request.bRequest = "DFU_GETSTATUS" /\ moved = 0 /\ got = << >> /\ intsts \subseteq {"BUS"}
        BY <1>1, <3>1 DEF PipeIInv, Writing
      <3> QED
        BY <2>3, <3>1, <3>2
    <2>4. CASE Download \/ Detach \/ Abort \/ ClearStatus
      <3>1. \E name, stall : /\ TakeSetup(name, stall) /\ UNCHANGED hostVars
                             /\ name \in {"DFU_DNLOAD", "DFU_DETACH", "DFU_ABORT", "DFU_CLRSTATUS"}
        BY <2>4 DEF Download, Detach, Abort, ClearStatus
      <3>2. request'.bRequest \in {"DFU_DNLOAD", "DFU_DETACH", "DFU_ABORT", "DFU_CLRSTATUS"}
        BY <1>2, <3>1
      <3> QED
        BY <3>2 DEF ReadRequests
    <2> QED
      BY <1>3, <2>1, <2>2, <2>3, <2>4 DEF ClassRequest
  <1>4. CASE Pipe
    <2>1. UNCHANGED <<dfuVars, flash, hostVars>> /\ Idle
      <3>1. UNCHANGED <<dfuVars, flash, hostVars>>
        BY <1>4 DEF Pipe
      <3> QED
        BY <1>1, <3>1 DEF dfuVars, progVars, Idle
    <2>2. CASE StandardRequest
      <3>1. CASE GetDescriptor \/ NoDescriptor \/ GetConfiguration
        <4>1. \E name, stall : TakeSetup(name, stall) /\ UNCHANGED hostVars
          BY <2>1, <3>1 DEF GetDescriptor, NoDescriptor, GetConfiguration, NotSupported
        <4>2. request' = request /\ stage = "in" /\ stage' = "in" /\ moved' = 0 /\ got' = << >> /\ intsts' = {}
          BY <1>2, <4>1
        <4> QED
          BY <3>1, <4>2
      <3>2. CASE SetAddress \/ SetConfiguration
        <4>1. \E name, stall : /\ TakeSetup(name, stall) /\ UNCHANGED hostVars
                               /\ name \in {"SET_ADDRESS", "SET_CONFIGURATION"}
          BY <2>1, <3>2 DEF SetAddress, SetConfiguration
        <4>2. request'.bRequest \in {"SET_ADDRESS", "SET_CONFIGURATION"}
          BY <1>2, <4>1
        <4> QED
          BY <4>2 DEF ReadRequests
      <3> QED
        BY <2>2, <3>1, <3>2 DEF StandardRequest
    <2>3. CASE HandleEndpoints
      <3>1. UNCHANGED <<request, stage>> /\ Handled
        BY <2>3 DEF HandleEndpoints, hostUsbVars, Handled
      <3> QED
        BY <1>1, <2>1, <2>3, <3>1 DEF Replying
    <2>4. CASE HandleBusReset
      <3>1. stage' = stage /\ "BUS" \in intsts
        BY <2>4 DEF HandleBusReset, hostUsbVars
      <3> QED
        BY <1>1, <3>1 DEF PipeIInv, Order
    <2>5. CASE Timeout \/ SeeStall
      BY <1>1, <2>5 DEF Timeout, SeeStall
    <2>6. CASE DataIn
      <3>1. stage = "in" /\ Handled /\ request' = request
        BY <2>6 DEF DataIn, InToken, Answers, Handled
      <3> QED
        BY <2>1, <2>6, <3>1 DEF Replying
    <2>7. CASE StatusIn
      BY <1>1, <2>7 DEF StatusIn, InToken, StatusRead
    <2>8. CASE StatusOut
      <3>1. stage = "statusOut" /\ Handled /\ request' = request
        BY <2>8 DEF StatusOut, OutToken, Answers, Handled
      <3> QED
        BY <2>1, <2>8, <3>1 DEF Replying
    <2>9. CASE DataOut(<<"page", Image(block * BlockPages + moved)>>)
      BY <1>1, <2>9 DEF DataOut, OutToken, Sent
    <2> QED
      BY <1>4, <2>2, <2>3, <2>4, <2>5, <2>6, <2>7, <2>8, <2>9 DEF Pipe
  <1>5. CASE Ask
    <2>1. PICK r : Request(r)
      BY <1>5, HostAsks
    <2> QED
      BY <1>1, <2>1 DEF Request, Handled
  <1>6. CASE HostGoesOn \/ HostStart \/ HostStop \/ BusReset \/ Restart
    <2>1. stage' = "idle"
      BY <1>6 DEF HostGoesOn, HostStart, HostStop, BusReset, Restart, EndTransfer, ResetBus, UsbRestart,
                  usbVars, hostUsbVars
    <2> QED
      BY <1>1, <2>1
  <1>7. CASE UNCHANGED vars
    BY <1>1, <1>7 DEF vars, usbVars, hostUsbVars, hostVars, dfuVars, progVars, Replying, Handled, Idle
  <1> QED
    BY <1>3, <1>4, <1>5, <1>6, <1>7 DEF Next, Transfer

\* How packets and endpoints go on while a reply is read.
LEMMA ReplyMoves ==
    ASSUME PipeIInv, Replying, HandleEndpoints \/ DataIn \/ StatusOut
    PROVE  /\ outLimit = 0 \/ (stage = "in" /\ ep0 = "none" /\ "EP0" \notin intsts)
           /\ stage = "statusOut" => got' = got /\ moved' = moved
  BY DEF Replying, PipeIInv, Pending, HandleEndpoints, hostUsbVars, DataIn, StatusOut, OutToken

LEMMA SingleKept ==
    ASSUME PipeIInv, Replying, Replying', NEW answer, Single(answer),
           HandleEndpoints \/ DataIn \/ StatusOut \/ UNCHANGED vars
    PROVE  Single(answer)'
  <1>1. CASE HandleEndpoints
    <2>1. /\ UNCHANGED <<stage, moved, got, ep0Pid>>
          /\ ep0 = "short" => "EP0" \notin intsts
      BY <1>1 DEF HandleEndpoints, hostUsbVars, PipeIInv, Order
    <2>2. ep0 = "short" => ep0' = ep0 /\ packet' = packet
      BY <1>1, <2>1 DEF HandleEndpoints, PacketAfterIn
    <2> QED
      BY <2>1, <2>2 DEF Single
  <1>2. CASE DataIn
    <2>1. /\ stage = "in" /\ ep0 = "short" /\ ep0Pid = "DATA1" /\ packet = answer /\ moved = 0 /\ got = << >>
      BY <1>2 DEF DataIn, Single
    <2>2. ep0Pid = Pid(moved + 1)
      BY <2>1, Pids
    <2>3. got' = <<answer>> /\ stage' = "statusOut"
      BY <1>2, <2>1, <2>2 DEF DataIn, InToken, Read
    <2> QED
      BY <2>3 DEF Single
  <1>3. CASE StatusOut
    BY <1>3 DEF StatusOut, OutToken, Single, Replying
  <1>4. CASE UNCHANGED vars
    BY <1>4 DEF vars, usbVars, hardwareVars, hostUsbVars, Single
  <1> QED
    BY <1>1, <1>2, <1>3, <1>4

\* The buffer is not written while it is read.
LEMMA BufferKept ==
    ASSUME PipeIInv, outLimit = 0, HandleEndpoints \/ DataIn \/ StatusOut \/ UNCHANGED vars
    PROVE  buf' = buf
  <1>1. ~(outSize < outLimit)
    BY DEF PipeIInv, Pointers
  <1> QED
    BY <1>1 DEF HandleEndpoints, CtrlOut, DataIn, InToken, StatusOut, OutToken, vars, usbVars, handlerVars

\* One page more has been read.
LEMMA PageRead ==
    ASSUME NEW m \in Nat, m < BlockPages, GotPages, moved = m, moved' = m + 1, buf' = buf,
           got' = Append(got, <<"page", buf[m]>>)
    PROVE  GotPages'
  <1> DEFINE P(k) == <<"page", buf[k - 1]>>
  <1>1. BlockPages \in Nat
    BY Sizes
  <1>2. got = [k \in 1 .. m |-> P(k)]
    BY DEF GotPages
  <1>3. Append(got, P(m + 1)) = [k \in 1 .. m + 1 |-> P(k)]
    <2> HIDE DEF P
    <2> QED
      BY <1>2
  <1>4. P(m + 1) = <<"page", buf[m]>>
    BY m + 1 - 1 = m
  <1>5. got' = [k \in 1 .. m + 1 |-> P(k)]
    <2> HIDE DEF P
    <2> QED
      BY <1>3, <1>4
  <1> QED
    BY <1>1, <1>5 DEF GotPages

LEMMA PagedKept ==
    ASSUME PipeIInv, Replying, Replying', Paged, request.wLength = BlockPages,
           UNCHANGED <<flash, request>>, HandleEndpoints \/ DataIn \/ StatusOut \/ UNCHANGED vars
    PROVE  Paged'
  <1> DEFINE n == Loaded
  <1>1. /\ n \in Nat /\ n <= BlockPages /\ inSize = BlockPages - n /\ inSize \in Nat /\ BlockPages \in Nat
        /\ inSize > 0 <=> n < BlockPages
    BY Sizes DEF PipeIInv, Pointers, Loaded
  <1>2. outLimit = 0
    BY DEF Paged, PipeIInv, Pending, Replying
  <1>3. buf' = buf
    BY <1>2, BufferKept
  <1>4. BlockRead'
    BY <1>3 DEF Paged, BlockRead
  <1>5. moved \in Nat /\ moved <= BlockPages
    BY <1>1 DEF Paged, GotPages
  <1>6. CASE HandleEndpoints
    <2>1. /\ UNCHANGED <<stage, moved, got, ep0Pid>> /\ intsts' = {}
          /\ "EP0" \in intsts => ep0 = "none"
      BY <1>6 DEF HandleEndpoints, hostUsbVars, PipeIInv, Order
    <2>2. GotPages'
      BY <1>3, <2>1 DEF Paged, GotPages
    <2>3. CASE stage = "statusOut"
      BY <1>4, <2>1, <2>2, <2>3 DEF Paged
    <2>4. CASE stage = "in" /\ "EP0" \notin intsts
      <3>1. UNCHANGED <<ep0, inSize, inPtr>> /\ (ep0 = "full" => packet' = packet)
        BY <1>6, <2>4 DEF HandleEndpoints, PacketAfterIn
      <3> QED
        BY <1>3, <1>4, <2>1, <2>2, <2>4, <3>1 DEF Paged, Loaded
    <2>5. CASE stage = "in" /\ "EP0" \in intsts
      <3>1. ep0Pid = Pid(n + 1) /\ moved = n /\ inSize > 0 /\ inPtr = n
        BY <2>1, <2>5 DEF Paged
      <3>2. /\ ep0' = "full" /\ inSize' = inSize - 1
            /\ inSize' > 0 => inPtr' = n + 1
            /\ packet' = <<"page", buf[n]>>
        <4> HIDE DEF n
        <4> QED
          BY <1>1, <1>6, <2>5, <3>1 DEF HandleEndpoints, CtrlIn, PacketAfterIn
      <3>3. Loaded' = n + 1
        <4> HIDE DEF n
        <4> QED
          BY <1>1, <3>2 DEF Loaded
      <3>4. /\ ep0Pid' = Pid(Loaded') /\ packet' = <<"page", buf'[Loaded' - 1]>>
            /\ moved' = Loaded' - 1 /\ moved' < BlockPages
        <4> HIDE DEF n
        <4> QED
          BY <1>1, <1>3, <2>1, <3>1, <3>2, <3>3
      <3> QED
        BY <1>4, <2>1, <2>2, <2>5, <3>2, <3>3, <3>4 DEF Paged
    <2> QED
      BY <2>3, <2>4, <2>5 DEF Replying
  <1>7. CASE DataIn
    <2>1. /\ stage = "in" /\ ep0 = "full" /\ ep0Pid = Pid(n) /\ packet = <<"page", buf[n - 1]>>
          /\ moved \in {n - 1, n} /\ moved < BlockPages /\ (inSize > 0 => inPtr = n)
      BY <1>7 DEF DataIn, InToken, Paged, PipeIInv, Order
    <2>2. UNCHANGED <<inSize, inPtr>> /\ Loaded' = n
      BY <1>7 DEF DataIn, InToken, handlerVars, Loaded
    <2> HIDE DEF n
    <2>3. CASE moved = n
      <3>1. ep0Pid # Pid(moved + 1) /\ Flipped(ep0Pid) = Pid(n + 1)
        BY <1>1, <2>1, <2>3, Pids
      <3>2. /\ UNCHANGED <<stage, moved, got>> /\ ep0' = "none" /\ ep0Pid' = Pid(n + 1) /\ "EP0" \in intsts'
        BY <1>7, <3>1 DEF DataIn, InToken
      <3>3. GotPages'
        BY <1>3, <3>2 DEF Paged, GotPages
      <3>4. inSize > 0 /\ inPtr = n
        BY <1>1, <2>1, <2>3
      <3> QED
        BY <1>4, <2>1, <2>2, <2>3, <3>2, <3>3, <3>4 DEF Paged
    <2>4. CASE moved + 1 = n
      <3>1. ep0Pid = Pid(moved + 1) /\ packet = <<"page", buf[moved]>>
        <4>1. n - 1 = moved
          BY <1>1, <1>5, <2>4
        <4> QED
          BY <2>1, <2>4, <4>1
      <3>2. /\ got' = Append(got, packet) /\ moved' = n
            /\ stage' = IF n = BlockPages THEN "statusOut" ELSE "in"
        BY <1>7, <2>1, <2>4, <3>1 DEF DataIn, InToken, Read
      <3>3. GotPages'
        BY <1>3, <1>5, <2>1, <2>4, <3>1, <3>2, PageRead DEF Paged
      <3>4. \/ ep0' = "none" /\ ep0Pid' = Pid(n + 1) /\ "EP0" \in intsts'
            \/ UNCHANGED <<ep0, ep0Pid, packet>>
        BY <1>1, <1>7, <2>1, Pids DEF DataIn, InToken
      <3>5. CASE n = BlockPages
        <4>1. stage' = "statusOut" /\ moved' = BlockPages
          BY <3>2, <3>5
        <4> QED
          BY <1>4, <3>3, <4>1 DEF Paged
      <3>6. CASE n # BlockPages
        <4>1. inSize > 0 /\ inPtr = n /\ n < BlockPages /\ stage' = "in"
          BY <1>1, <2>1, <3>2, <3>6
        <4> QED
          BY <1>3, <1>4, <2>1, <2>2, <3>2, <3>3, <3>4, <4>1 DEF Paged
      <3> QED
        BY <3>5, <3>6
    <2>5. moved = n \/ moved + 1 = n
      BY <1>1, <1>5, <2>1
    <2> QED
      BY <2>3, <2>4, <2>5
  <1>8. CASE StatusOut
    <2>1. stage = "statusOut" /\ stage' = "statusOut" /\ got' = got /\ moved' = moved
      BY <1>8 DEF StatusOut, OutToken, Replying
    <2> QED
      BY <1>3, <1>4, <2>1 DEF Paged, GotPages
  <1>9. CASE UNCHANGED vars
    BY <1>9 DEF vars, usbVars, handlerVars, hardwareVars, hostUsbVars, Paged, GotPages, BlockRead, Loaded
  <1> QED
    BY <1>6, <1>7, <1>8, <1>9

LEMMA NoPagesKept ==
    ASSUME PipeIInv, Replying, Replying', NoPages, request' = request,
           HandleEndpoints \/ DataIn \/ StatusOut \/ UNCHANGED vars
    PROVE  NoPages'
  <1>1. CASE HandleEndpoints
    <2>1. /\ UNCHANGED <<stage, moved, got, ep0Pid>>
          /\ ep0 = "zero" => "EP0" \notin intsts
      BY <1>1 DEF HandleEndpoints, hostUsbVars, PipeIInv, Order
    <2>2. ep0 = "zero" => ep0' = ep0
      BY <1>1, <2>1 DEF HandleEndpoints
    <2> QED
      BY <2>1, <2>2 DEF NoPages
  <1>2. CASE DataIn
    <2>1. stage = "in" /\ ep0 = "zero" /\ ep0Pid = "DATA1" /\ moved = 0 /\ got = << >>
      BY <1>2 DEF DataIn, NoPages
    <2>2. ep0Pid = Pid(moved + 1)
      BY <2>1, Pids
    <2>3. got' = << >> /\ stage' = "statusOut"
      BY <1>2, <2>1, <2>2 DEF DataIn, InToken, Read
    <2> QED
      BY <2>3 DEF NoPages
  <1>3. CASE StatusOut
    BY <1>3 DEF StatusOut, OutToken, NoPages, Replying
  <1>4. CASE UNCHANGED vars
    BY <1>4 DEF vars, usbVars, hardwareVars, hostUsbVars, NoPages
  <1> QED
    BY <1>1, <1>2, <1>3, <1>4

\* A host that gets no reply gets none later.
LEMMA NoReplyKept ==
    ASSUME NoReply, HandleEndpoints \/ DataIn \/ StatusOut \/ UNCHANGED vars
    PROVE  NoReply' /\ stalled' = stalled
  BY DEF NoReply, HandleEndpoints, DataIn, InToken, StatusOut, vars, usbVars, hardwareVars, hostUsbVars

-----------------------------------------------------------------------------

\* What the handlers of the requests prepare.
LEMMA ReplyPrepared ==
    ASSUME PipeIInv, DfuIInv, request' = request, stage = "in", stage' = "in", moved' = 0, got' = << >>,
           intsts' \cap {"EP0", "EP1"} = {},
           \/ GetStatus \/ GetState \/ GetDescriptor \/ NoDescriptor \/ GetConfiguration \/ Upload
           \/ (WritePage /\ writing' = data_len /\ request.bRequest = "DFU_GETSTATUS")
    PROVE  Reply'
  <1>1. CASE GetStatus \/ (WritePage /\ writing' = data_len /\ request.bRequest = "DFU_GETSTATUS")
    <2>1. request.bRequest = "DFU_GETSTATUS"
      BY <1>1 DEF GetStatus, TakeSetup
    <2>2. PrepareCtrlIn(<<"status", bState'>>, "short", 1)
      BY <1>1 DEF GetStatus, WritePage
    <2>3. Single(<<"status", bState>>)'
      BY <2>2 DEF PrepareCtrlIn, Single
    <2> QED
      BY <2>1, <2>3 DEF Reply, Msg
  <1>2. CASE GetState
    <2>1. request.bRequest = "DFU_GETSTATE" /\ bState' = bState
      BY <1>2 DEF GetState, TakeSetup, dfuVars
    <2>2. PrepareCtrlIn(<<"state", bState>>, "short", 1)
      BY <1>2 DEF GetState
    <2>3. Single(<<"state", bState>>)'
      BY <2>1, <2>2 DEF PrepareCtrlIn, Single
    <2> QED
      BY <2>1, <2>3 DEF Reply, Msg
  <1>3. CASE GetDescriptor
    <2>1. request.bRequest = "GET_DESCRIPTOR"
      BY <1>3 DEF GetDescriptor, TakeSetup
    <2>2. /\ ep0' = "short" /\ ep0Pid' = "DATA1" /\ request.wValue = 1
          /\ packet' = <<"descriptor", request.wValue>>
      BY <1>3 DEF GetDescriptor, PrepareCtrlIn, Descriptors
    <2>3. request = Msg("GET_DESCRIPTOR", 1, 1) => Single(<<"descriptor", 1>>)'
      BY <2>2 DEF Msg, Single
    <2>4. request # Msg("GET_DESCRIPTOR", 2, 1)
      BY <2>2 DEF Msg
    <2> QED
      BY <2>1, <2>3, <2>4 DEF Reply
  <1>4. CASE NoDescriptor \/ GetConfiguration
    <2>1. /\ request.bRequest \in {"GET_DESCRIPTOR", "GET_CONFIGURATION"}
          /\ request.bRequest = "GET_DESCRIPTOR" => request.wValue # 1
          /\ intsts' = {} /\ stalled' = TRUE /\ ep0' = "none"
      BY <1>4 DEF NoDescriptor, GetConfiguration, NotSupported, Descriptors, TakeSetup, PipeIInv,
                  Order
    <2> QED
      BY <2>1 DEF Reply, NoReply, Msg
  <1>5. CASE Upload
    <2>1. /\ request.bRequest = "DFU_UPLOAD" /\ intsts' = {} /\ flash' = flash /\ request.wLength = BlockPages
      BY <1>5 DEF Upload, TakeSetup, PipeIInv, Order, Asked
    <2>2. ASSUME bState \notin {"dfuIDLE", "dfuUPLOAD_IDLE"}, NothingIn, bState' = bState
          PROVE  UploadReply'
      <3>1. NoReply'
        BY <2>1, <2>2 DEF NoReply, NothingIn
      <3> QED
        BY <2>2, <3>1 DEF UploadReply
    <2>3. ASSUME buf' = ReadBlock(request.wValue),
                 PrepareCtrlIn(<<"page", buf'[0]>>, "full", request.wLength)
          PROVE  UploadReply'
      <3>1. BlockPages \in Nat /\ BlockPages > 0 /\ DOMAIN buf = 0 .. BlockPages - 1
        BY Sizes DEF PipeIInv, BufferTypes
      <3>2. BlockRead'
        BY <2>1, <2>3, <3>1 DEF BlockRead, ReadBlock
      <3>3. GotPages'
        BY <3>1 DEF GotPages
      <3>4. /\ ep0' = "full" /\ ep0Pid' = "DATA1" /\ packet' = <<"page", buf'[0]>> /\ inSize' = BlockPages - 1
            /\ inSize' > 0 => inPtr' = 1
        BY <2>1, <2>3, <3>1 DEF PrepareCtrlIn
      <3>5. Loaded' = 1
        BY <3>1, <3>4 DEF Loaded
      <3>6. ep0Pid' = Pid(Loaded') /\ packet' = <<"page", buf'[Loaded' - 1]>> /\ moved' = Loaded' - 1
        BY <3>4, <3>5, Pids
      <3>7. Paged'
        BY <3>1, <3>2, <3>3, <3>4, <3>5, <3>6 DEF Paged
      <3> QED
        BY <3>7 DEF UploadReply
    <2>4. ASSUME PrepareCtrlIn(packet, "zero", 0), request.wValue > LastBlock PROVE UploadReply'
      <3>1. NoPages'
        BY <2>4 DEF NoPages, PrepareCtrlIn
      <3> QED
        BY <3>1 DEF UploadReply
    <2>5. UploadReply'
      <3>1. \/ bState \notin {"dfuIDLE", "dfuUPLOAD_IDLE"} /\ NothingIn /\ bState' = bState
            \/ /\ buf' = ReadBlock(request.wValue)
               /\ PrepareCtrlIn(<<"page", buf'[0]>>, "full", request.wLength)
            \/ PrepareCtrlIn(packet, "zero", 0) /\ request.wValue > LastBlock
        BY <1>5 DEF Upload
      <3> QED
        BY <2>2, <2>3, <2>4, <3>1
    <2> QED
      BY <2>1, <2>5 DEF Reply, Msg
  <1> QED
    BY <1>1, <1>2, <1>3, <1>4, <1>5

\* While the host reads, the reply stays what it is.
LEMMA ReplyKept ==
    ASSUME PipeIInv, Replying, Reply, Replying', UNCHANGED <<dfuVars, flash, hostVars, request>>,
           HandleEndpoints \/ DataIn \/ StatusOut \/ UNCHANGED vars
    PROVE  Reply'
  <1>1. bState' = bState
    BY DEF dfuVars
  <1>2. request.bRequest = "DFU_GETSTATUS" => Single(<<"status", bState>>)'
    BY <1>1, SingleKept DEF Reply, Single
  <1>3. request.bRequest = "DFU_GETSTATE" => Single(<<"state", bState>>)'
    BY <1>1, SingleKept DEF Reply, Single
  <1>4. request = Msg("GET_DESCRIPTOR", 1, 1) => Single(<<"descriptor", 1>>)'
    BY SingleKept DEF Reply
  <1>5. request = Msg("GET_DESCRIPTOR", 2, 1) => (NoReply /\ stalled)'
    BY NoReplyKept DEF Reply
  <1>6. request.bRequest = "GET_CONFIGURATION" => (NoReply /\ stalled)'
    BY NoReplyKept DEF Reply
  <1>7. request.bRequest = "DFU_UPLOAD" => UploadReply'
    <2> SUFFICES ASSUME request.bRequest = "DFU_UPLOAD" PROVE UploadReply'
      OBVIOUS
    <2>1. request.wLength = BlockPages
      BY DEF PipeIInv, Asked
    <2>2. CASE Paged
      BY <2>1, <2>2, PagedKept DEF UploadReply
    <2>3. CASE NoPages
      BY <2>3, NoPagesKept DEF UploadReply
    <2>4. CASE NoReply /\ bState \notin {"dfuIDLE", "dfuUPLOAD_IDLE"}
      BY <1>1, <2>4, NoReplyKept DEF UploadReply
    <2> QED
      BY <2>2, <2>3, <2>4 DEF Reply, UploadReply
  <1> QED
    BY <1>2, <1>3, <1>4, <1>5, <1>6, <1>7 DEF Reply

\* A transfer is over when its status stage is.
LEMMA DoneStep ==
    ASSUME PipeIInv, [Next]_vars, stage' = "done"
    PROVE  /\ UNCHANGED <<dfuVars, flash, hostVars, request, got>>
           /\ stage = "done" \/ StatusOut \/ StatusIn
  <1>1. CASE ClassRequest
    <2>1. CASE WritePage
      BY <2>1 DEF WritePage, hostUsbVars, PipeIInv, Writing
    <2>2. CASE ~WritePage
      <3>1. \E name, stall : TakeSetup(name, stall) /\ UNCHANGED hostVars
        BY <1>1, <2>2 DEF ClassRequest, GetStatus, GetStatusWrites, GetState, Download, Detach, Abort,
                          ClearStatus, Upload
      <3>2. stage' = stage /\ (stage # "idle" => stage = FirstStage(request))
        BY <3>1, SetupTaken
      <3> QED
        BY <3>2 DEF FirstStage
    <2> QED
      BY <2>1, <2>2
  <1>2. CASE Pipe
    <2>1. UNCHANGED <<dfuVars, flash, hostVars>>
      BY <1>2 DEF Pipe
    <2>2. CASE StandardRequest \/ HandleEndpoints \/ HandleBusReset
      <3>1. UNCHANGED hostUsbVars
        BY <2>2 DEF StandardRequest, GetDescriptor, SetAddress, SetConfiguration, NoDescriptor,
                    GetConfiguration, NotSupported, TakeSetup,
                    HandleEndpoints, HandleBusReset
      <3> QED
        BY <2>1, <3>1 DEF hostUsbVars
    <2>3. CASE Timeout \/ SeeStall
      BY <2>3 DEF Timeout, SeeStall
    <2>4. CASE DataIn
      BY <2>4 DEF DataIn, InToken, Read
    <2>5. CASE DataOut(<<"page", Image(block * BlockPages + moved)>>)
      BY <2>5 DEF DataOut, OutToken, Sent
    <2>6. CASE StatusIn \/ StatusOut
      <3>1. request' = request /\ got' = got
        BY <2>6 DEF StatusIn, StatusOut, InToken, OutToken, StatusRead
      <3> QED
        BY <2>1, <2>6, <3>1
    <2> QED
      BY <1>2, <2>2, <2>3, <2>4, <2>5, <2>6 DEF Pipe
  <1>3. CASE Ask
    <2>1. PICK r : Request(r)
      BY <1>3, HostAsks
    <2> QED
      BY <2>1 DEF Request, FirstStage
  <1>4. CASE HostGoesOn \/ HostStart \/ HostStop \/ BusReset \/ Restart
    BY <1>4 DEF HostGoesOn, HostStart, HostStop, BusReset, Restart, EndTransfer, ResetBus, UsbRestart,
                usbVars, hostUsbVars
  <1>5. CASE UNCHANGED vars
    BY <1>5 DEF vars, usbVars, hostUsbVars
  <1> QED
    BY <1>1, <1>2, <1>3, <1>4, <1>5 DEF Next, Transfer

LEMMA GotSome == ASSUME GotPages, moved = BlockPages PROVE got # << >>
  <1>1. BlockPages \in Nat /\ 1 \in 1 .. BlockPages
    BY Sizes
  <1>2. DOMAIN got = 1 .. BlockPages
    BY DEF GotPages
  <1>3. DOMAIN << >> = {}
    OBVIOUS
  <1> QED
    BY <1>1, <1>2, <1>3

LEMMA ReplyNext == ASSUME PipeIInv, DfuIInv, PipeIInv', ReplyIInv, [Next]_vars PROVE ReplyIInv'
  <1>1. ASSUME Replying' PROVE Reply'
    <2>1. request'.bRequest \in ReadRequests
      BY <1>1 DEF Replying, PipeIInv, Asked
    <2> QED
      BY <1>1, <2>1, ReplyStep, ReplyPrepared, ReplyKept DEF ReplyIInv
  <1>2. Told'
    <2> SUFFICES ASSUME stage' = "done"
                 PROVE  /\ request'.bRequest = "DFU_GETSTATUS" => got' = << <<"status", bState'>> >>
                        /\ request'.bRequest = "DFU_UPLOAD" /\ got' = << >> => request'.wValue > LastBlock
      BY DEF Told
    <2>1. UNCHANGED <<bState, request, got>> /\ (stage = "done" \/ StatusOut \/ StatusIn)
      BY DoneStep DEF dfuVars
    <2>2. CASE stage = "done"
      BY <2>1, <2>2 DEF ReplyIInv, Told
    <2>3. CASE StatusOut
      <3>1. Replying /\ stage = "statusOut" /\ Reply
        BY <2>3 DEF StatusOut, OutToken, Answers, Replying, Handled, PipeIInv, Writing, ReplyIInv
      <3>2. request.bRequest = "DFU_GETSTATUS" => got = << <<"status", bState>> >>
        BY <3>1 DEF Reply, Single
      <3>3. request.bRequest = "DFU_UPLOAD" /\ got = << >> => request.wValue > LastBlock
        BY <3>1, GotSome DEF Reply, UploadReply, NoReply, NoPages, Paged
      <3> QED
        BY <2>1, <3>2, <3>3
    <2>4. CASE StatusIn
      BY <2>1, <2>4 DEF StatusIn, PipeIInv, Asked, ReadRequests
    <2> QED
      BY <2>1, <2>2, <2>3, <2>4
  <1> QED
    BY <1>1, <1>2 DEF ReplyIInv

(* What the host has read so far of an answer, and what EP0 still holds of *)
(* it, together are the answer that the handler of the request in progress *)
(* has prepared, whichever acknowledgements are lost.                      *)
THEOREM ReplyInvariance == Spec => []ReplyIInv
  <1>1. Init => ReplyIInv
    BY DEF Init, UsbInit, ReplyIInv, Replying, Told
  <1>2. ReplyIInv /\ PipeIInv /\ PipeIInv' /\ DfuIInv /\ [Next]_vars => ReplyIInv'
    BY ReplyNext
  <1> QED
    BY <1>1, <1>2, DfuInvariance, PipeInvariance, PTL DEF Spec

(* A host that has read the whole of an answer has the answer to its own   *)
(* request: no packet of an abandoned transfer, no repetition and no lost  *)
(* acknowledgement puts another one, or another page, in its place.        *)
THEOREM AnswersInPlace == Spec => []AnswerInPlace
  <1>1. DfuIInv /\ PipeIInv /\ ReplyIInv => AnswerInPlace
    <2> SUFFICES ASSUME DfuIInv, PipeIInv, ReplyIInv, stage = "statusOut" PROVE AnswerInPlace
      BY DEF AnswerInPlace
    <2>1. Replying
      BY DEF PipeIInv, Asked, FirstStage, Writing, Replying
    <2>2. Reply /\ request.bRequest \in ReadRequests /\ RequestOfHost
      BY <2>1 DEF ReplyIInv, PipeIInv, Asked
    <2>3. request.bRequest = "GET_DESCRIPTOR" =>
              request \in {Msg("GET_DESCRIPTOR", 1, 1), Msg("GET_DESCRIPTOR", 2, 1)}
      BY <2>2 DEF RequestOfHost, OtherRequests, Msg, PipeIInv, HostTypes, Hosts
    <2>4. CASE request.bRequest = "DFU_UPLOAD"
      <3> SUFFICES ASSUME NEW k \in DOMAIN got,
                          request.wValue * BlockPages + k - 1 \in DOMAIN flash
                   PROVE  got[k] = <<"page", flash[request.wValue * BlockPages + k - 1]>>
        BY <2>4 DEF AnswerInPlace
      <3>1. Paged \/ got = << >>
        BY <2>2, <2>4 DEF Reply, UploadReply, NoPages, NoReply
      <3>2. Paged
        BY <3>1
      <3>3. k \in 1 .. moved /\ moved \in 0 .. BlockPages /\ got[k] = <<"page", buf[k - 1]>>
        BY <3>2 DEF Paged, GotPages
      <3>4. k - 1 \in 0 .. BlockPages - 1
        BY <3>3, Sizes
      <3>5. request.wValue * BlockPages \in Nat
        BY Sizes, TimesNat DEF DfuIInv, BlocksInImage, AsksForImage
      <3> QED
        BY <3>2, <3>3, <3>4, <3>5 DEF Paged, BlockRead
    <2>5. CASE request.bRequest # "DFU_UPLOAD"
      BY <2>2, <2>3, <2>5 DEF AnswerInPlace, Reply, Single, NoReply, ReadRequests, Msg
    <2> QED
      BY <2>4, <2>5
  <1> QED
    BY <1>1, DfuInvariance, PipeInvariance, ReplyInvariance, PTL

-----------------------------------------------------------------------------
(* What the host installs *)

\* The buffer as it will be when the packet in EP1 has been copied.
Arriving == IF PendingNew THEN [buf EXCEPT ![outSize] = packet[2]] ELSE buf
Arrived == outSize + (IF PendingNew THEN 1 ELSE 0)

\* n pages of the host's block have arrived.
BlockIn(n) == \A k \in 0 .. n - 1 : Arriving[k] = Image(block * BlockPages + k)

\* The image is in the flash up to block n.
Flashed(n) == \A p \in DOMAIN flash : p < image /\ p < n * BlockPages => flash[p] = Image(p)

SentOut == IF stage = "out" THEN moved ELSE request.wLength

\* The device has taken the block that the host sends.  Of the packet that
\* waits in EP1 its PID tells whether it has been copied before.
Taken ==
    /\ bState = "dfuDNLOAD_SYNC" /\ block_num = block /\ data_len = request.wLength
    /\ outLimit = request.wLength
    /\ outToggle = IF outSize = 0 THEN "none" ELSE Pid(outSize)
    /\ ep1 \/ "EP1" \in intsts => outSize < outLimit
    /\ "EP1" \in intsts => ep1Pid = Pid(outSize + 1) \/ (outSize > 0 /\ ep1Pid = Pid(outSize))
    /\ Arrived \in {SentOut, SentOut + 1}
    /\ BlockIn(Arrived)

RefusedBlock == stage \in {"out", "statusIn"} /\ ep0 = "none" /\ ~ep1 /\ intsts = {}

Sending == request.bRequest = "DFU_DNLOAD" /\ stage \in {"out", "statusIn", "done"} /\ Handled

DataStage ==
    Sending /\ host = "download" =>
        \/ request.wLength > 0 /\ Taken
        \/ request.wLength = 0 /\ bState = "dfuMANIFEST_SYNC"
        \/ RefusedBlock

\* The block that the host waits for is in the buffer, or in the flash.
Programs ==
    host = "poll" =>
        /\ block * BlockPages < image
        /\ IF bState = "dfuDNLOAD_SYNC"
           THEN /\ block_num = block /\ data_len = LengthOf(block) /\ BlockIn(data_len)
                /\ ~Idle => \A k \in 0 .. writing - 1 :
                                LET p == block * BlockPages + k
                                IN  p \in DOMAIN flash => flash[p] = Image(p)
           ELSE Flashed(block + 1)

Manifests ==
    host = "manifest" => bState \in {"dfuMANIFEST_SYNC", "dfuIDLE"} /\ block * BlockPages >= image

Installing == {"download", "poll", "manifest"}
Confirmed == host \in Installing => Flashed(block)

InstallIInv == DataStage /\ Programs /\ Manifests /\ Confirmed

-----------------------------------------------------------------------------

LEMMA SetupQuiet ==
    ASSUME PipeIInv, NEW name, NEW stall, TakeSetup(name, stall)
    PROVE  ~PendingNew /\ ~PendingNew'
  <1>1. intsts \cap {"BUS", "SETUP"} = {"SETUP"} /\ intsts' = intsts \ {"SETUP"}
    BY DEF TakeSetup
  <1> QED
    BY <1>1 DEF PipeIInv, Order, Handled, PendingNew

\* The handler of the endpoints copies what has arrived.
LEMMA EndpointsCopy ==
    ASSUME PipeIInv, HandleEndpoints
    PROVE  buf' = Arriving /\ ~PendingNew' /\ outSize' = Arrived
  <1>1. ~PendingNew'
    BY DEF HandleEndpoints, PendingNew
  <1>2. CASE PendingNew
    <2>1. inSize = 0
      BY <1>2 DEF PipeIInv, Pointers, PendingNew
    <2> QED
      BY <1>1, <1>2, <2>1 DEF HandleEndpoints, CtrlOut, PendingNew, PacketAfterIn, Arriving, Arrived
  <1>3. CASE ~PendingNew
    <2>1. buf' = buf /\ outSize' = outSize
      BY <1>3 DEF HandleEndpoints, CtrlOut, PendingNew
    <2> QED
      BY <1>1, <1>3, <2>1 DEF Arriving, Arrived, PipeIInv, Pointers
  <1> QED
    BY <1>2, <1>3

\* A step that takes no packet from the host leaves what has arrived.
LEMMA ArrivedKept ==
    ASSUME PipeIInv, buf' = buf, UNCHANGED <<outSize, outLimit, outToggle, ep1Pid, packet>>,
           "EP1" \in intsts' <=> "EP1" \in intsts
    PROVE  Arriving' = Arriving /\ Arrived' = Arrived /\ PendingNew' = PendingNew
  <1>1. PendingNew' = PendingNew
    BY DEF PendingNew
  <1> QED
    BY <1>1 DEF Arriving, Arrived

\* An empty packet leaves the packet in the buffer.
LEMMA InTokenArrived ==
    ASSUME PipeIInv, DataIn \/ StatusIn
    PROVE  /\ Arriving' = Arriving /\ Arrived' = Arrived
           /\ UNCHANGED <<outSize, outLimit, outToggle, ep1, ep1Pid>>
           /\ "EP1" \in intsts' <=> "EP1" \in intsts
  <1>1. /\ ep0 # "none" /\ ("EP1" \in intsts' <=> "EP1" \in intsts) /\ ep1' = ep1
        /\ UNCHANGED <<buf, outSize, outLimit, outToggle, ep1Pid>>
        /\ ep0 = "zero" => packet' = packet
    BY DEF DataIn, StatusIn, InToken, handlerVars
  <1>2. CASE ep0 = "zero"
    BY <1>1, <1>2, ArrivedKept
  <1>3. CASE ep0 # "zero"
    <2>1. ~PendingNew /\ ~PendingNew'
      BY <1>1, <1>3 DEF PendingNew, PipeIInv, Pointers
    <2> QED
      BY <1>1, <2>1 DEF Arriving, Arrived
  <1> QED
    BY <1>2, <1>3

\* The steps of an installation.
LEMMA InstallStep ==
    ASSUME PipeIInv, [Next]_vars, host' \in Installing, ~HostGoesOn
    PROVE  /\ UNCHANGED <<host, block, image>>
           /\ \/ UNCHANGED <<dfuVars, flash, Arriving>>
              \/ host = "download" /\ UNCHANGED <<dfuVars, flash>>
              \/ host = "download" /\ Download
              \/ host \in {"poll", "manifest"} /\ GetStatus
              \/ host \in {"poll", "manifest"} /\ GetStatusWrites
              \/ host \in {"poll", "manifest"} /\ WritePage
  <1>1. CASE ClassRequest
    <2>1. UNCHANGED <<host, block, image>>
      BY <1>1 DEF ClassRequest, GetStatus, GetStatusWrites, GetState, Download, Detach, Abort,
                  ClearStatus, Upload, WritePage, hostVars
    <2>2. CASE WritePage
      <3>1. host # "download"
        BY <2>2, <2>1 DEF WritePage, PipeIInv, Writing, Asked, RequestOfHost, Msg
      <3> QED
        BY <2>1, <2>2, <3>1 DEF Installing
    <2>3. ASSUME NEW name, NEW stall, TakeSetup(name, stall)
          PROVE  /\ host = "download" => name = "DFU_DNLOAD"
                 /\ host # "download" => name = "DFU_GETSTATUS"
      <3>1. ~Handled /\ request.bRequest = name
        BY <2>3 DEF TakeSetup, Handled
      <3>2. stage # "idle"
        BY <2>1, <3>1 DEF PipeIInv, Asked, Installing
      <3> QED
        BY <2>1, <3>1, <3>2 DEF PipeIInv, Asked, RequestOfHost, Installing, Msg
    <2>4. CASE GetState \/ Detach \/ Abort \/ ClearStatus \/ Upload
      <3>1. \E name, stall : /\ TakeSetup(name, stall)
                             /\ name \in {"DFU_GETSTATE", "DFU_DETACH", "DFU_ABORT", "DFU_CLRSTATUS", "DFU_UPLOAD"}
        BY <2>4 DEF GetState, Detach, Abort, ClearStatus, Upload
      <3> QED
        BY <2>3, <3>1
    <2>5. CASE Download
      <3>1. \E name, stall : TakeSetup(name, stall) /\ name = "DFU_DNLOAD"
        BY <2>5 DEF Download
      <3>2. host = "download"
        BY <2>3, <3>1
      <3> QED
        BY <2>1, <2>5, <3>2
    <2>6. CASE GetStatus \/ GetStatusWrites
      <3>1. \E name, stall : TakeSetup(name, stall) /\ name = "DFU_GETSTATUS"
        BY <2>6 DEF GetStatus, GetStatusWrites
      <3>2. host # "download"
        BY <2>3, <3>1
      <3>3. host \in {"poll", "manifest"}
        BY <2>1, <3>2 DEF Installing
      <3> QED
        BY <2>1, <2>6, <3>3
    <2> QED
      BY <1>1, <2>2, <2>4, <2>5, <2>6 DEF ClassRequest
  <1>2. CASE Pipe
    <2>1. UNCHANGED <<dfuVars, flash, host, block, image>>
      BY <1>2 DEF Pipe, hostVars
    <2>2. CASE StandardRequest
      <3>1. \E name, stall : TakeSetup(name, stall)
        BY <2>2 DEF StandardRequest, GetDescriptor, SetAddress, SetConfiguration, NoDescriptor,
                    GetConfiguration, NotSupported
      <3>2. buf' = buf
        BY <2>2 DEF StandardRequest, GetDescriptor, SetAddress, SetConfiguration, NoDescriptor,
                    GetConfiguration, NotSupported, StatusOnly
      <3> QED
        BY <2>1, <3>1, <3>2, SetupQuiet DEF Arriving
    <2>3. CASE HandleEndpoints
      BY <2>1, <2>3, EndpointsCopy DEF Arriving
    <2>4. CASE HandleBusReset
      BY <2>1, <2>4 DEF HandleBusReset, PipeIInv, Order, Installing
    <2>5. CASE Timeout \/ SeeStall
      <3>1. UNCHANGED <<handlerVars, hardwareVars, intsts>>
        BY <2>5 DEF Timeout, SeeStall
      <3> QED
        BY <2>1, <3>1, ArrivedKept DEF handlerVars, hardwareVars
    <2>6. CASE DataIn \/ StatusIn
      BY <2>1, <2>6, InTokenArrived
    <2>7. CASE StatusOut
      <3>1. outLimit = 0 /\ outLimit' = 0 /\ buf' = buf /\ outSize' = outSize
        BY <2>7 DEF StatusOut, OutToken, handlerVars, PipeIInv, Pending
      <3>2. ~PendingNew /\ ~PendingNew'
        BY <3>1 DEF PendingNew, PipeIInv, Pointers
      <3> QED
        BY <2>1, <3>1, <3>2 DEF Arriving
    <2>8. CASE DataOut(<<"page", Image(block * BlockPages + moved)>>)
      <3>1. stage = "out"
        BY <2>8 DEF DataOut
      <3>2. host = "download"
        BY <2>1, <3>1 DEF PipeIInv, Asked, RequestOfHost, Installing, Msg
      <3> QED
        BY <2>1, <3>2
    <2> QED
      BY <1>2, <2>2, <2>3, <2>4, <2>5, <2>6, <2>7, <2>8 DEF Pipe
  <1>3. CASE Ask
    <2>1. PICK r : Request(r)
      BY <1>3, HostAsks
    <2>2. UNCHANGED <<handlerVars, hardwareVars>> /\ "EP1" \notin intsts /\ "EP1" \notin intsts'
      BY <2>1 DEF Request
    <2> QED
      BY <1>3, <2>2, ArrivedKept DEF Ask, hostVars, handlerVars, hardwareVars
  <1>4. CASE HostStart \/ HostStop \/ BusReset \/ Restart
    BY <1>4 DEF HostStart, HostStop, BusReset, Restart, Installing
  <1>5. CASE UNCHANGED vars
    BY <1>5, ArrivedKept DEF vars, usbVars, handlerVars, hardwareVars, hostVars
  <1> QED
    BY <1>1, <1>2, <1>3, <1>4, <1>5 DEF Next, Transfer

\* The steps of the data stage and of the status stage after it.
LEMMA SendingStep ==
    ASSUME PipeIInv, [Next]_vars, Sending'
    PROVE  /\ UNCHANGED <<host, block, image, flash, request>>
           /\ \/ Download /\ stage' = FirstStage(request) /\ moved' = 0 /\ intsts' = {}
              \/ /\ Sending /\ UNCHANGED dfuVars
                 /\ \/ HandleEndpoints \/ StatusIn \/ UNCHANGED vars
                    \/ DataOut(<<"page", Image(block * BlockPages + moved)>>)
  <1>1. request'.bRequest = "DFU_DNLOAD" /\ stage' \in {"out", "statusIn", "done"} /\ Handled'
    BY DEF Sending
  <1>2. ASSUME NEW name, NEW stall, TakeSetup(name, stall), UNCHANGED hostVars
        PROVE  /\ UNCHANGED <<host, block, image, request>> /\ name = "DFU_DNLOAD"
               /\ stage' = FirstStage(request) /\ moved' = 0 /\ intsts' = {}
    <2>1. /\ UNCHANGED <<host, block, image, request, stage, moved>> /\ request.bRequest = name /\ intsts' = {}
          /\ stage # "idle" => stage = FirstStage(request) /\ moved = 0
      BY <1>2, SetupTaken
    <2> QED
      BY <1>1, <2>1
  <1>3. CASE ClassRequest
    <2>1. CASE Download
      <3>1. TakeSetup("DFU_DNLOAD", FALSE) /\ UNCHANGED hostVars /\ flash' = flash
        BY <2>1 DEF Download
      <3>2. /\ UNCHANGED <<host, block, image, request>>
            /\ stage' = FirstStage(request) /\ moved' = 0 /\ intsts' = {}
        BY <1>2, <3>1
      <3> QED
        BY <2>1, <3>1, <3>2
    <2>2. CASE WritePage
      BY <1>1, <2>2 DEF WritePage, hostUsbVars, PipeIInv, Writing
    <2>3. CASE ~Download /\ ~WritePage
      <3>1. \E name, stall : /\ TakeSetup(name, stall) /\ UNCHANGED hostVars
                             /\ name \in {"DFU_GETSTATUS", "DFU_GETSTATE", "DFU_DETACH", "DFU_ABORT",
                                          "DFU_CLRSTATUS", "DFU_UPLOAD"}
        BY <1>3, <2>3 DEF ClassRequest, GetStatus, GetStatusWrites, GetState, Detach, Abort, ClearStatus, Upload
      <3> QED
        BY <1>2, <3>1
    <2> QED
      BY <2>1, <2>2, <2>3
  <1>4. CASE Pipe
    <2>1. UNCHANGED <<dfuVars, flash, hostVars, host, block, image>>
      BY <1>4 DEF Pipe, hostVars
    <2>2. CASE StandardRequest
      <3>1. \E name, stall : /\ TakeSetup(name, stall) /\ UNCHANGED hostVars
                             /\ name \in {"GET_DESCRIPTOR", "SET_ADDRESS", "SET_CONFIGURATION", "GET_CONFIGURATION"}
        BY <2>1, <2>2 DEF StandardRequest, GetDescriptor, SetAddress, SetConfiguration,
                          NoDescriptor, GetConfiguration, NotSupported
      <3> QED
        BY <1>2, <3>1
    <2>3. CASE HandleEndpoints
      <3>1. UNCHANGED <<request, stage>> /\ Handled
        BY <2>3 DEF HandleEndpoints, hostUsbVars, Handled
      <3> QED
        BY <1>1, <2>1, <2>3, <3>1 DEF Sending
    <2>4. CASE HandleBusReset
      BY <1>1, <2>4 DEF HandleBusReset, hostUsbVars, PipeIInv, Order
    <2>5. CASE Timeout \/ SeeStall
      BY <1>1, <2>5 DEF Timeout, SeeStall
    <2>6. CASE DataIn
      BY <1>1, <2>6 DEF DataIn, InToken, Read
    <2>7. CASE StatusIn
      <3>1. stage = "statusIn" /\ Handled /\ request' = request
        BY <2>7 DEF StatusIn, InToken, Answers, Handled
      <3> QED
        BY <1>1, <2>1, <2>7, <3>1 DEF Sending
    <2>8. CASE StatusOut
      <3>1. stage = "statusOut" /\ request' = request
        BY <2>8 DEF StatusOut, OutToken
      <3> QED
        BY <1>1, <3>1 DEF PipeIInv, Asked, ReadRequests
    <2>9. CASE DataOut(<<"page", Image(block * BlockPages + moved)>>)
      <3>1. stage = "out" /\ Handled /\ request' = request
        BY <2>9 DEF DataOut, OutToken, Answers, Handled
      <3> QED
        BY <1>1, <2>1, <2>9, <3>1 DEF Sending
    <2> QED
      BY <1>4, <2>2, <2>3, <2>4, <2>5, <2>6, <2>7, <2>8, <2>9 DEF Pipe
  <1>5. CASE Ask
    <2>1. PICK r : Request(r)
      BY <1>5, HostAsks
    <2> QED
      BY <1>1, <2>1 DEF Request, Handled
  <1>6. CASE HostGoesOn \/ HostStart \/ HostStop \/ BusReset \/ Restart
    <2>1. stage' = "idle"
      BY <1>6 DEF HostGoesOn, HostStart, HostStop, BusReset, Restart, EndTransfer, ResetBus, UsbRestart,
                  usbVars, hostUsbVars
    <2> QED
      BY <1>1, <2>1
  <1>7. CASE UNCHANGED vars
    BY <1>1, <1>7 DEF vars, usbVars, hostUsbVars, hostVars, dfuVars, progVars, Sending, Handled
  <1> QED
    BY <1>3, <1>4, <1>5, <1>6, <1>7 DEF Next, Transfer

-----------------------------------------------------------------------------
(* A block on its way *)

LEMMA OutPids ==
    \A n \in Nat : Pid(n) # "none" /\ Pid(n + 1) # "none" /\ Pid(n + 1) # Pid(n)
  BY Pids

\* Whether the packet in EP1 is new follows from its PID.
LEMMA TakenPending ==
    ASSUME PipeIInv, Taken
    PROVE  PendingNew <=> "EP1" \in intsts /\ ep1Pid = Pid(outSize + 1)
  <1>1. outSize \in Nat
    BY DEF PipeIInv, Pointers
  <1> QED
    BY <1>1, OutPids DEF Taken, PendingNew

LEMMA TakenByEndpoints ==
    ASSUME PipeIInv, Taken, HandleEndpoints, UNCHANGED <<dfuVars, host, block, image>>
    PROVE  Taken'
  <1>1. /\ UNCHANGED <<request, stage, moved, outLimit, bState, block_num, data_len>> /\ intsts' = {}
    BY DEF HandleEndpoints, hostUsbVars, dfuVars, progVars
  <1>2. buf' = Arriving /\ ~PendingNew' /\ outSize' = Arrived /\ outSize \in Nat
    BY EndpointsCopy DEF PipeIInv, Pointers
  <1>3. Arriving' = Arriving /\ Arrived' = Arrived
    <2>1. Arrived \in Nat
      BY <1>2 DEF Arrived
    <2> QED
      BY <1>2, <2>1 DEF Arriving, Arrived
  <1>4. BlockIn(Arrived)'
    BY <1>3 DEF Taken, BlockIn
  <1>5. Arrived' \in {SentOut', SentOut' + 1}
    BY <1>1, <1>3 DEF Taken, SentOut
  <1>6. /\ outToggle' = IF outSize' = 0 THEN "none" ELSE Pid(outSize')
        /\ ep1' => outSize' < outLimit
    <2>1. CASE "EP1" \notin intsts
      <3>1. ~PendingNew /\ UNCHANGED <<outToggle, outSize, ep1>>
        BY <2>1 DEF HandleEndpoints, PendingNew
      <3> QED
        BY <3>1 DEF Taken
    <2>2. CASE "EP1" \in intsts /\ ep1Pid = Pid(outSize + 1)
      <3>1. PendingNew /\ outToggle # ep1Pid /\ outSize < outLimit
        BY <2>2, TakenPending DEF PendingNew
      <3>2. outToggle' = ep1Pid /\ outSize' = outSize + 1 /\ (ep1' => outSize + 1 < outLimit)
        BY <2>2, <3>1 DEF HandleEndpoints, CtrlOut
      <3> QED
        BY <1>2, <2>2, <3>2
    <2>3. CASE "EP1" \in intsts /\ ep1Pid # Pid(outSize + 1)
      <3>1. ~PendingNew /\ outSize > 0 /\ ep1Pid = Pid(outSize) /\ outSize < outLimit /\ outToggle = ep1Pid
        BY <2>3, TakenPending DEF Taken
      <3>2. outToggle' = ep1Pid /\ outSize' = outSize
        BY <2>3, <3>1 DEF HandleEndpoints, CtrlOut
      <3> QED
        BY <3>1, <3>2
    <2> QED
      BY <2>1, <2>2, <2>3
  <1> QED
    BY <1>1, <1>4, <1>5, <1>6 DEF Taken

LEMMA TakenByStatus ==
    ASSUME PipeIInv, Taken, StatusIn, Sending', UNCHANGED <<dfuVars, host, block, image>>
    PROVE  Taken'
  <1>1. /\ Arriving' = Arriving /\ Arrived' = Arrived
        /\ UNCHANGED <<outSize, outLimit, outToggle, ep1, ep1Pid>>
        /\ "EP1" \in intsts' <=> "EP1" \in intsts
    BY InTokenArrived
  <1>2. stage = "statusIn" /\ request' = request /\ stage' \in {"statusIn", "done"}
    BY DEF StatusIn, InToken, StatusRead
  <1>3. SentOut' = SentOut
    BY <1>2 DEF SentOut
  <1>4. BlockIn(Arrived)'
    BY <1>1 DEF Taken, BlockIn
  <1> QED
    BY <1>1, <1>2, <1>3, <1>4 DEF Taken, dfuVars, progVars

LEMMA TakenByData ==
    ASSUME PipeIInv, Taken, DataOut(<<"page", Image(block * BlockPages + moved)>>), Sending',
           UNCHANGED <<dfuVars, host, block, image>>
    PROVE  Taken'
  <1>1. /\ stage = "out" /\ ep1 /\ ep1' = FALSE /\ ep1Pid' = Pid(moved + 1)
        /\ packet' = <<"page", Image(block * BlockPages + moved)>>
        /\ "EP1" \notin intsts /\ "EP1" \in intsts'
        /\ UNCHANGED <<buf, outSize, outLimit, outToggle, request, bState, block_num, data_len>>
        /\ UNCHANGED <<stage, moved>> \/ Sent
    BY DEF DataOut, OutToken, handlerVars, dfuVars, progVars, PipeIInv, Order
  <1>2. /\ outSize \in Nat /\ moved \in Nat /\ request.wLength \in Nat /\ moved < request.wLength
        /\ outSize < outLimit /\ outLimit \in Nat /\ outLimit <= BlockPages /\ DOMAIN buf = 0 .. BlockPages - 1 /\ BlockPages \in Nat
    BY <1>1, Sizes DEF PipeIInv, Pointers, HostTypes, Asked, Taken, BufferTypes
  <1>3. ~PendingNew /\ Arrived = outSize /\ Arriving = buf
    BY <1>1, <1>2 DEF PendingNew, Arrived, Arriving
  <1>4. outSize \in {moved, moved + 1}
    BY <1>1, <1>3 DEF Taken, SentOut
  <1>5. SentOut' \in {moved, moved + 1}
    BY <1>1, <1>2 DEF Sent, SentOut
  <1>6. CASE outSize = moved
    <2>1. PendingNew'
      BY <1>1, <1>2, <1>6, OutPids DEF PendingNew, Taken
    <2>2. Arrived' = outSize + 1
      BY <1>1, <2>1 DEF Arrived
    <2>3. Arriving' = [buf EXCEPT ![outSize] = Image(block * BlockPages + outSize)]
      BY <1>1, <1>6, <2>1 DEF Arriving
    <2>4. ASSUME NEW k \in 0 .. outSize PROVE Arriving'[k] = Image(block * BlockPages + k)
      <3>1. k \in DOMAIN buf
        BY <1>2
      <3>2. CASE k = outSize
        BY <2>3, <3>1, <3>2
      <3>3. CASE k # outSize
        <4>1. k \in 0 .. Arrived - 1
          BY <1>2, <1>3, <3>3
        <4> QED
          BY <1>3, <2>3, <3>1, <3>3, <4>1 DEF Taken, BlockIn
      <3> QED
        BY <3>2, <3>3
    <2>5. BlockIn(Arrived)'
      BY <1>2, <2>2, <2>4 DEF BlockIn
    <2>6. Arrived' \in {SentOut', SentOut' + 1}
      BY <1>2, <1>5, <1>6, <2>2
    <2> QED
      BY <1>1, <1>2, <1>6, <2>5, <2>6 DEF Taken
  <1>7. CASE outSize = moved + 1
    <2>1. ~PendingNew'
      BY <1>1, <1>2, <1>7 DEF PendingNew, Taken
    <2>2. Arrived' = outSize /\ Arriving' = buf
      BY <1>1, <1>2, <2>1 DEF Arrived, Arriving
    <2>3. BlockIn(Arrived)'
      BY <1>3, <2>2 DEF Taken, BlockIn
    <2>4. Arrived' \in {SentOut', SentOut' + 1}
      BY <1>2, <1>5, <1>7, <2>2
    <2> QED
      BY <1>1, <1>2, <1>7, <2>3, <2>4 DEF Taken
  <1> QED
    BY <1>4, <1>6, <1>7

LEMMA DataStageNext ==
    ASSUME PipeIInv, PipeIInv', DfuIInv, DataStage, [Next]_vars
    PROVE  DataStage'
  <1> SUFFICES ASSUME Sending', host' = "download"
               PROVE  \/ request'.wLength > 0 /\ Taken'
                      \/ request'.wLength = 0 /\ bState' = "dfuMANIFEST_SYNC"
                      \/ RefusedBlock'
    BY DEF DataStage
  <1>1. /\ UNCHANGED <<host, block, image, flash, request>>
        /\ host = "download" /\ stage' \in {"out", "statusIn", "done"}
    BY SendingStep DEF Sending
  <1>2. request.bRequest = "DFU_DNLOAD" /\ request.wValue = block /\ request.wLength \in 0 .. BlockPages
    BY <1>1 DEF PipeIInv, Asked, RequestOfHost, Msg
  <1>3. CASE Download /\ stage' = FirstStage(request) /\ moved' = 0 /\ intsts' = {}
    <2>1. CASE Accepting /\ request.wLength > 0
      <3>1. /\ bState' = "dfuDNLOAD_SYNC" /\ block_num' = block /\ data_len' = request.wLength
            /\ outSize' = 0 /\ outLimit' = request.wLength /\ outToggle' = "none"
        BY <1>2, <1>3, <2>1 DEF Download, PrepareDownload, PrepareCtrlOut, TakeSetup
      <3>2. ~PendingNew' /\ Arrived' = 0
        BY <1>3, <3>1 DEF PendingNew, Arrived
      <3>3. stage' = "out" /\ SentOut' = 0
        BY <1>2, <1>3, <2>1 DEF FirstStage, ReadRequests, SentOut
      <3>4. BlockIn(Arrived)'
        BY <3>2 DEF BlockIn
      <3>5. Taken'
        BY <1>1, <1>2, <1>3, <2>1, <3>1, <3>2, <3>3, <3>4 DEF Taken
      <3> QED
        BY <1>1, <2>1, <3>5
    <2>2. CASE Accepting /\ ~(request.wLength > 0)
      BY <1>1, <1>2, <1>3, <2>2, Sizes DEF Download
    <2>3. CASE ~Accepting
      <3>1. stage' \in {"out", "statusIn"}
        BY <1>2, <1>3 DEF FirstStage, ReadRequests
      <3> QED
        BY <1>3, <2>3, <3>1 DEF Download, NothingIn, NothingOut, RefusedBlock
    <2> QED
      BY <2>1, <2>2, <2>3
  <1>4. CASE /\ Sending /\ UNCHANGED dfuVars
             /\ \/ HandleEndpoints \/ StatusIn \/ UNCHANGED vars
                \/ DataOut(<<"page", Image(block * BlockPages + moved)>>)
    <2>1. CASE request.wLength > 0 /\ Taken
      <3>1. CASE UNCHANGED vars
        BY <2>1, <3>1 DEF vars, usbVars, handlerVars, hardwareVars, hostUsbVars, hostVars, dfuVars, progVars,
                          Taken, Arrived, Arriving, PendingNew, SentOut, BlockIn
      <3>2. CASE ~(UNCHANGED vars)
        BY <1>1, <1>4, <2>1, <3>2, TakenByEndpoints, TakenByStatus, TakenByData
      <3> QED
        BY <3>1, <3>2
    <2>2. CASE request.wLength = 0 /\ bState = "dfuMANIFEST_SYNC"
      BY <1>1, <1>4, <2>2 DEF dfuVars
    <2>3. CASE RefusedBlock
      <3>1. UNCHANGED vars
        BY <1>4, <2>3 DEF RefusedBlock, HandleEndpoints, StatusIn, InToken, DataOut, OutToken
      <3> QED
        BY <2>3, <3>1 DEF RefusedBlock, vars, usbVars, hardwareVars, hostUsbVars
    <2> QED
      BY <1>1, <1>4, <2>1, <2>2, <2>3 DEF DataStage
  <1> QED
    BY <1>3, <1>4, SendingStep

-----------------------------------------------------------------------------
(* From the buffer to the flash *)

\* A page is programmed.
LEMMA PageInstalled ==
    ASSUME PipeIInv, DfuIInv, Programs, Confirmed, host = "poll", WritePage, UNCHANGED <<host, block, image>>
    PROVE  Programs' /\ Flashed(block)'
  <1>1. ~Idle /\ UNCHANGED <<buf, intsts, block_num, data_len>>
    BY DEF WritePage, progVars
  <1>2. /\ bState = "dfuDNLOAD_SYNC" /\ command_Count + 1 = Polls /\ intsts \subseteq {"BUS"}
    BY <1>1 DEF PipeIInv, Writing
  <1>3. /\ block_num = block /\ data_len = LengthOf(block) /\ BlockIn(data_len) /\ block * BlockPages < image
        /\ \A k \in 0 .. writing - 1 :
              block * BlockPages + k \in DOMAIN flash => flash[block * BlockPages + k] = Image(block * BlockPages + k)
    BY <1>1, <1>2 DEF Programs
  <1>4. /\ block * BlockPages \in Nat /\ image \in Nat /\ BlockPages \in Nat /\ FlashPages \in Nat
        /\ data_len \in 1 .. BlockPages /\ writing \in 0 .. data_len - 1
        /\ DOMAIN flash = 0 .. FlashPages - 1
    <2>1. block \in Nat /\ block * BlockPages \in Nat /\ image \in Nat /\ BlockPages \in Nat /\ FlashPages \in Nat
      BY Sizes, TimesNat DEF PipeIInv, HostTypes
    <2>2. data_len \in 1 .. BlockPages
      BY <1>3, <2>1, LengthOfBlock
    <2>3. writing \in 0 .. data_len - 1
      BY <1>1, <2>1, <2>2 DEF PipeIInv, DfuTypes, Idle
    <2> QED
      BY <2>1, <2>2, <2>3 DEF PipeIInv, BufferTypes
  <1> DEFINE start == block * BlockPages
  <1>5. ~PendingNew /\ ~PendingNew' /\ Arriving = buf /\ Arriving' = buf
    BY <1>1, <1>2 DEF PendingNew, Arriving
  <1>6. Page = start + writing /\ buf[writing] = Image(start + writing)
    BY <1>3, <1>4, <1>5 DEF Page, BlockIn
  <1>7. Flashed(block)
    BY DEF Confirmed, Installing
  <1>8. LengthOf(block)' = LengthOf(block)
    BY DEF LengthOf
  <1>9. BlockIn(data_len)'
    BY <1>1, <1>3, <1>5 DEF BlockIn
  <1> HIDE DEF start
  <1>10. start \in Nat
    BY <1>4 DEF start
  <1>11. CASE Page \in DOMAIN flash
    <2>1. flash' = [flash EXCEPT ![start + writing] = Image(start + writing)] /\ writing' = writing + 1
          /\ start + writing \in DOMAIN flash
      BY <1>6, <1>11 DEF WritePage
    <2>2. ASSUME NEW k \in 0 .. writing, start + k \in DOMAIN flash PROVE flash'[start + k] = Image(start + k)
      <3>1. CASE k = writing
        BY <2>1, <2>2, <3>1
      <3>2. CASE k # writing
        <4>1. k \in 0 .. writing - 1 /\ start + k # start + writing
          BY <1>4, <1>10, <3>2
        <4> QED
          BY <1>3, <2>1, <2>2, <4>1 DEF start
      <3> QED
        BY <3>1, <3>2
    <2>3. ASSUME NEW p \in DOMAIN flash, p < image, p < start PROVE flash'[p] = Image(p)
      <3>1. p # start + writing /\ flash[p] = Image(p)
        BY <1>4, <1>7, <1>10, <2>3 DEF Flashed, start
      <3> QED
        BY <2>1, <3>1
    <2>4. DOMAIN flash' = DOMAIN flash
      BY <2>1
    <2>5. Flashed(block)'
      BY <2>3, <2>4 DEF Flashed, start
    <2>6. CASE writing' # data_len
      <3>1. bState' = bState
        BY <2>6 DEF WritePage
      <3> QED
        BY <1>1, <1>2, <1>3, <1>4, <1>8, <1>9, <2>1, <2>2, <2>4, <2>5, <3>1 DEF Programs, start
    <2>7. CASE writing' = data_len
      <3>1. bState' = "dfuDNLOAD_IDLE"
        BY <1>2, <2>7, PolledFrom DEF WritePage, PipeIInv
      <3>2. ASSUME NEW p \in DOMAIN flash, p < image, p < (block + 1) * BlockPages PROVE flash'[p] = Image(p)
        <4>1. CASE p < start
          BY <2>3, <3>2, <4>1
        <4>2. CASE ~(p < start)
          <5> DEFINE k == p - start
          <5>1. p \in Nat /\ k \in Nat /\ p = start + k
            BY <1>4, <1>10, <4>2
          <5>2. (block + 1) * BlockPages = start + BlockPages
            BY <1>4 DEF start, PipeIInv, HostTypes
          <5>3. k < data_len
            BY <1>3, <1>4, <1>10, <3>2, <5>1, <5>2 DEF LengthOf, start
          <5>4. k \in 0 .. writing
            BY <1>4, <2>1, <2>7, <5>1, <5>3
          <5> QED
            BY <2>2, <3>2, <5>1, <5>4
        <4> QED
          BY <4>1, <4>2
      <3>3. Flashed(block + 1)'
        BY <2>4, <3>2 DEF Flashed
      <3> QED
        BY <1>3, <2>5, <3>1, <3>3 DEF Programs
    <2> QED
      BY <2>6, <2>7
  <1>12. CASE Page \notin DOMAIN flash
    <2>1. flash' = flash /\ writing' = data_len
      BY <1>12 DEF WritePage
    <2>2. bState' = "dfuDNLOAD_IDLE"
      BY <1>2, <2>1, PolledFrom DEF WritePage, PipeIInv
    <2>3. ASSUME NEW p \in DOMAIN flash, p < image PROVE flash[p] = Image(p)
      <3>1. p \in Nat /\ p < start + writing
        BY <1>4, <1>6, <1>10, <1>12
      <3>2. CASE p < start
        BY <1>7, <2>3, <3>2 DEF Flashed, start
      <3>3. CASE ~(p < start)
        <4> DEFINE k == p - start
        <4>1. k \in 0 .. writing - 1 /\ p = start + k
          BY <1>4, <1>10, <3>1, <3>3
        <4> QED
          BY <1>3, <2>3, <4>1 DEF start
      <3> QED
        BY <3>2, <3>3
    <2>4. Flashed(block + 1)' /\ Flashed(block)'
      BY <2>1, <2>3 DEF Flashed
    <2> QED
      BY <1>3, <2>2, <2>4 DEF Programs
  <1> QED
    BY <1>11, <1>12

LEMMA StatusInstalls ==
    ASSUME PipeIInv, Programs, Manifests, host \in {"poll", "manifest"},
           GetStatus \/ GetStatusWrites, UNCHANGED <<host, block, image>>
    PROVE  Programs' /\ Manifests'
  <1>1. /\ UNCHANGED <<buf, flash, block_num, data_len>> /\ Idle /\ ~PendingNew /\ ~PendingNew'
        /\ \/ ~StartsWrite /\ bState' = Polled[1] /\ writing' = writing
           \/ StartsWrite /\ bState' = bState /\ writing' = 0
    BY SetupQuiet DEF GetStatus, GetStatusWrites, progVars
  <1>2. Arriving' = Arriving /\ LengthOf(block)' = LengthOf(block)
    BY <1>1 DEF Arriving, LengthOf
  <1>3. CASE host = "manifest"
    BY <1>1, <1>3, PolledFrom DEF Manifests, Programs, StartsWrite, PipeIInv
  <1>4. CASE host = "poll" /\ bState = "dfuDNLOAD_SYNC"
    <2>1. /\ block_num = block /\ data_len = LengthOf(block) /\ BlockIn(data_len) /\ block * BlockPages < image
      BY <1>4 DEF Programs
    <2>2. data_len > 0
      BY <2>1, LengthOfBlock DEF PipeIInv, HostTypes
    <2>3. bState' = "dfuDNLOAD_SYNC"
      BY <1>1, <1>4, <2>2, PolledFrom DEF StartsWrite, PipeIInv
    <2>4. ~Idle' => writing' = 0
      BY <1>1 DEF Idle
    <2> QED
      BY <1>1, <1>2, <1>4, <2>1, <2>3, <2>4 DEF Programs, Manifests, BlockIn
  <1>5. CASE host = "poll" /\ bState # "dfuDNLOAD_SYNC"
    <2>1. bState' # "dfuDNLOAD_SYNC" /\ Flashed(block + 1)
      BY <1>1, <1>5, PolledFrom DEF StartsWrite, Programs, PipeIInv
    <2> QED
      BY <1>1, <1>5, <2>1 DEF Programs, Manifests, Flashed
  <1> QED
    BY <1>3, <1>4, <1>5

\* The host goes on to the next request, block or phase.
LEMMA GoesOnInstalling ==
    ASSUME PipeIInv, ReplyIInv, InstallIInv, HostGoesOn, host' \in Installing
    PROVE  Programs' /\ Manifests' /\ Confirmed'
  <1>1. /\ stage = "done" /\ Succeeded
        /\ UNCHANGED <<handlerVars, hardwareVars, intsts, bState, block_num, data_len, writing, flash, image>>
    <2>1. UNCHANGED <<handlerVars, hardwareVars, intsts, dfuVars, flash, image>>
      BY DEF HostGoesOn
    <2>2. Succeeded
      BY DEF HostGoesOn, Refused, Installing
    <2> QED
      BY <2>1, <2>2 DEF Succeeded, dfuVars, progVars
  <1>2. UNCHANGED <<Arriving, Arrived, Idle>>
    <2>1. Idle' = Idle
      BY <1>1 DEF Idle
    <2> QED
      BY <1>1, <2>1, ArrivedKept DEF handlerVars, hardwareVars
  <1>3. RequestOfHost /\ Handled /\ Idle
    BY <1>1 DEF PipeIInv, Asked, FirstStage, Writing
  <1>4. CASE host = "probe"
    <2>1. host' = "download" /\ block' = 0
      BY <1>1, <1>4 DEF Succeeded, AfterStatus, Installing
    <2>2. DOMAIN flash = 0 .. FlashPages - 1 /\ 0 * BlockPages = 0
      BY Sizes DEF PipeIInv, BufferTypes
    <2>3. Flashed(block)'
      BY <1>1, <2>1, <2>2 DEF Flashed
    <2> QED
      BY <2>1, <2>3 DEF Programs, Manifests, Confirmed
  <1>5. CASE host = "poll"
    <2>1. got[1][2] = bState
      BY <1>1, <1>3, <1>5 DEF ReplyIInv, Told, RequestOfHost, Msg
    <2>2. CASE host' = "download"
      <3>1. bState = "dfuDNLOAD_IDLE" /\ block' = block + 1
        BY <1>1, <1>5, <2>1, <2>2 DEF Succeeded, AfterStatus
      <3>2. Flashed(block + 1)
        BY <1>5, <3>1 DEF InstallIInv, Programs
      <3> QED
        BY <1>1, <2>2, <3>1, <3>2 DEF Programs, Manifests, Confirmed, Flashed
    <2>3. CASE UNCHANGED <<host, block>>
      <3>1. LengthOf(block)' = LengthOf(block)
        BY <1>1, <2>3 DEF LengthOf
      <3> QED
        BY <1>1, <1>2, <1>3, <1>5, <2>3, <3>1
           DEF InstallIInv, Programs, Manifests, Confirmed, Flashed, BlockIn, Installing
    <2> QED
      BY <1>1, <1>5, <2>2, <2>3 DEF Succeeded, AfterStatus
  <1>6. CASE host = "manifest"
    <2>1. UNCHANGED <<host, block>>
      BY <1>1, <1>6 DEF Succeeded, AfterStatus, Installing
    <2> QED
      BY <1>1, <1>6, <2>1 DEF InstallIInv, Programs, Manifests, Confirmed, Flashed, Installing
  <1>7. CASE host = "download"
    <2>1. /\ block' = block /\ host' = IF request.wLength > 0 THEN "poll" ELSE "manifest"
          /\ request.wLength \in 0 .. BlockPages
          /\ \/ block * BlockPages < image /\ request.wLength = LengthOf(block)
             \/ block * BlockPages >= image /\ request.wLength = 0
      <3>1. block' = block /\ host' = IF request.wLength > 0 THEN "poll" ELSE "manifest"
        BY <1>1, <1>7 DEF Succeeded
      <3> QED
        BY <1>3, <1>7, <3>1 DEF RequestOfHost, Msg, PipeIInv, Asked
    <2>2. \/ request.wLength > 0 /\ Taken
          \/ request.wLength = 0 /\ bState = "dfuMANIFEST_SYNC"
      <3>1. request.bRequest = "DFU_DNLOAD"
        BY <1>3, <1>7 DEF RequestOfHost, Msg
      <3> QED
        BY <1>1, <1>3, <1>7, <3>1 DEF InstallIInv, DataStage, Sending, RefusedBlock
    <2>3. Confirmed'
      BY <1>1, <1>7, <2>1 DEF InstallIInv, Confirmed, Flashed, Installing
    <2>4. CASE request.wLength > 0
      <3>1. host' = "poll" /\ block * BlockPages < image /\ request.wLength = LengthOf(block) /\ Taken
        BY <2>1, <2>2, <2>4
      <3>2. BlockIn(request.wLength)
        <4>1. Arrived \in {request.wLength, request.wLength + 1} /\ BlockIn(Arrived)
          BY <1>1, <3>1 DEF Taken, SentOut
        <4>2. 0 .. request.wLength - 1 \subseteq 0 .. Arrived - 1
          BY <2>1, <4>1
        <4> QED
          BY <4>1, <4>2 DEF BlockIn
      <3>3. LengthOf(block)' = LengthOf(block)
        BY <1>1, <2>1 DEF LengthOf
      <3>4. bState = "dfuDNLOAD_SYNC" /\ block_num = block /\ data_len = LengthOf(block)
        BY <3>1 DEF Taken
      <3>5. BlockIn(data_len)'
        BY <1>1, <1>2, <2>1, <3>1, <3>2, <3>4 DEF BlockIn
      <3> QED
        BY <1>1, <1>2, <1>3, <2>1, <2>3, <3>1, <3>3, <3>4, <3>5 DEF Programs, Manifests
    <2>5. CASE request.wLength = 0
      <3>1. host' = "manifest" /\ bState = "dfuMANIFEST_SYNC" /\ block * BlockPages >= image
        <4>1. block * BlockPages < image => LengthOf(block) \in 1 .. BlockPages
          BY LengthOfBlock DEF PipeIInv, HostTypes
        <4> QED
          BY <2>1, <2>2, <2>5, <4>1
      <3> QED
        BY <1>1, <2>1, <2>3, <3>1 DEF Programs, Manifests
    <2> QED
      BY <2>1, <2>4, <2>5
  <1> QED
    BY <1>1, <1>4, <1>5, <1>6, <1>7 DEF Succeeded, AfterUpload, Installing

LEMMA InstallNext ==
    ASSUME PipeIInv, PipeIInv', DfuIInv, ReplyIInv, InstallIInv, [Next]_vars
    PROVE  InstallIInv'
  <1>1. DataStage'
    BY DataStageNext DEF InstallIInv
  <1>2. CASE host' \notin Installing
    BY <1>1, <1>2 DEF InstallIInv, Programs, Manifests, Confirmed, Installing
  <1>3. CASE host' \in Installing /\ HostGoesOn
    BY <1>1, <1>3, GoesOnInstalling DEF InstallIInv
  <1>4. CASE host' \in Installing /\ ~HostGoesOn
    <2>1. UNCHANGED <<host, block, image>>
      BY <1>4, InstallStep
    <2>2. LengthOf(block)' = LengthOf(block)
      BY <2>1 DEF LengthOf
    <2>3. CASE UNCHANGED <<dfuVars, flash, Arriving>>
      <3>1. UNCHANGED <<bState, block_num, data_len, writing, Idle>>
        BY <2>3 DEF dfuVars, progVars, Idle
      <3>2. Programs'
        BY <2>1, <2>2, <2>3, <3>1 DEF InstallIInv, Programs, Flashed, BlockIn
      <3> QED
        BY <1>1, <2>1, <2>3, <3>1, <3>2 DEF InstallIInv, Manifests, Confirmed, Flashed
    <2>4. CASE host = "download" /\ flash' = flash
      BY <1>1, <2>1, <2>4 DEF InstallIInv, Programs, Manifests, Confirmed, Flashed
    <2>5. CASE host \in {"poll", "manifest"} /\ (GetStatus \/ GetStatusWrites)
      <3>1. flash' = flash
        BY <2>5 DEF GetStatus, GetStatusWrites
      <3>2. Confirmed'
        BY <2>1, <3>1 DEF InstallIInv, Confirmed, Flashed
      <3> QED
        BY <1>1, <2>1, <2>5, <3>2, StatusInstalls DEF InstallIInv
    <2>6. CASE host \in {"poll", "manifest"} /\ WritePage
      <3>1. host = "poll"
        BY <2>6 DEF WritePage, PipeIInv, Writing, InstallIInv, Manifests
      <3>2. Programs' /\ Flashed(block)'
        BY <2>1, <2>6, <3>1, PageInstalled DEF InstallIInv
      <3> QED
        BY <1>1, <2>1, <3>1, <3>2 DEF InstallIInv, Manifests, Confirmed
    <2>7. Download => flash' = flash
      BY DEF Download
    <2> QED
      BY <1>4, <2>3, <2>4, <2>5, <2>6, <2>7, InstallStep
  <1> QED
    BY <1>2, <1>3, <1>4

(* A block is on its way to the buffer, in the buffer or in the flash,     *)
(* depending on what the host does, and all before it is in the flash.     *)
THEOREM InstallInvariance == Spec => []InstallIInv
  <1>1. Init => InstallIInv
    BY DEF Init, UsbInit, InstallIInv, DataStage, Sending, Programs, Manifests, Confirmed, Installing
  <1>2. InstallIInv /\ PipeIInv /\ PipeIInv' /\ DfuIInv /\ ReplyIInv /\ [Next]_vars => InstallIInv'
    BY InstallNext
  <1> QED
    BY <1>1, <1>2, DfuInvariance, PipeInvariance, ReplyInvariance, PTL DEF Spec

(* What DFU_GETSTATUS has let the host take for programmed is in the       *)
(* flash, page for page as the host has sent it, for every size of blocks  *)
(* and images and whatever was repeated, lost or abandoned before.         *)
THEOREM ConfirmedInFlash == Spec => []ConfirmedIsFlashed
  <1>1. PipeIInv /\ InstallIInv => ConfirmedIsFlashed
    <2> SUFFICES ASSUME PipeIInv, InstallIInv, host \in Installing, NEW p \in DOMAIN flash,
                        p < image, p < block * BlockPages \/ host = "manifest"
                 PROVE  flash[p] = Image(p)
      BY DEF ConfirmedIsFlashed, Installing
    <2>1. Flashed(block)
      BY DEF InstallIInv, Confirmed
    <2>2. p \in Nat /\ image \in Nat /\ block * BlockPages \in Nat
      BY Sizes, TimesNat DEF PipeIInv, BufferTypes, HostTypes
    <2>3. p < block * BlockPages
      BY <2>2 DEF InstallIInv, Manifests
    <2> QED
      BY <2>1, <2>3 DEF Flashed
  <1> QED
    BY <1>1, PipeInvariance, InstallInvariance, PTL

-----------------------------------------------------------------------------
(* Whom the host waits for *)

\* Device and host agree on the address, but for what is still to be
\* handled and for an acknowledgement that was lost.
AddressAgrees ==
    /\ address # hostAddr =>
        "BUS" \in intsts \/ lost \/ ("EP0" \in intsts /\ setAddress /\ address = 0 /\ inSize = 0)
    /\ "EP0" \in intsts /\ setAddress /\ "BUS" \notin intsts => usbAddr = hostAddr
    /\ host = "attach" /\ stage # "done" => hostAddr = 0
    /\ Active => address = hostAddr
    /\ Active /\ Handled => setAddress = (request.bRequest = "SET_ADDRESS")
    /\ stage = "statusIn" /\ Handled /\ setAddress => usbAddr = request.wValue /\ inSize = 0

\* The endpoint of the stage that comes next has been prepared.
Prompt ==
    /\ stage = "in" /\ Handled /\ (ep0 # "none" \/ "EP0" \in intsts) => ep1
    /\ stage = "statusOut" => ep1 \/ lost
    /\ stage = "statusIn" /\ Handled =>
        /\ request.bRequest \in {"SET_ADDRESS", "SET_CONFIGURATION", "DFU_DETACH"} =>
                ep0 = "zero" /\ ep0Pid = "DATA1"
        /\ request.bRequest = "DFU_ABORT" => stalled

\* No endpoint has been prepared.
Fallen == ep0 = "none" /\ ~ep1 /\ intsts = {}

\* A download is refused, or its endpoints are prepared in time.
DownloadPrompt ==
    Sending /\ stage # "done" =>
        /\ ~Accepting
        /\ \/ Fallen
           \/ /\ ep0 = "zero" /\ ep0Pid = "DATA1"
              /\ stage = "out" => lost \/ (Arrived = moved /\ (ep1 \/ "EP1" \in intsts))

Explained ==
    stage = "failed" =>
        \/ lost
        \/ request.bRequest = "DFU_CLRSTATUS"
        \/ request.bRequest = "DFU_UPLOAD" /\ bState \notin {"dfuIDLE", "dfuUPLOAD_IDLE"}
        \/ request.bRequest = "DFU_DNLOAD" /\ ~Accepting /\ Fallen

WaitIInv == AddressAgrees /\ Prompt /\ DownloadPrompt /\ Explained

-----------------------------------------------------------------------------

LEMMA AddressAsked ==
    ASSUME PipeIInv, stage # "idle", request.bRequest = "SET_ADDRESS"
    PROVE  host = "attach" /\ request.wValue = 1
  BY DEF PipeIInv, Asked, RequestOfHost, HostTypes, Hosts, OtherRequests, Msg

\* A handler of a request leaves the address to the acknowledgement.
LEMMA SetupAgrees ==
    ASSUME PipeIInv, AddressAgrees, NEW name, NEW stall, TakeSetup(name, stall), UNCHANGED <<hostVars, address>>,
           name = "SET_ADDRESS" => usbAddr' = request.wValue /\ inSize' = 0
    PROVE  AddressAgrees'
  <1>1. /\ intsts = {"SETUP"} /\ intsts' = {} /\ request.bRequest = name
        /\ setAddress' = (name = "SET_ADDRESS")
        /\ UNCHANGED <<request, hostAddr, stage, lost, host, address>>
    BY SetupTaken
  <1>2. address # hostAddr => lost
    BY <1>1 DEF AddressAgrees
  <1>3. stage = "statusIn" /\ setAddress' => usbAddr' = request.wValue /\ inSize' = 0
    BY <1>1
  <1> QED
    BY <1>1, <1>2, <1>3 DEF AddressAgrees, Active, Handled

LEMMA EndpointsAgree ==
    ASSUME PipeIInv, AddressAgrees, HandleEndpoints, UNCHANGED hostVars
    PROVE  AddressAgrees'
  <1>1. /\ UNCHANGED <<setAddress, usbAddr, request, hostAddr, stage, lost, host>>
        /\ intsts' = {} /\ intsts \subseteq {"EP0", "EP1"} /\ Handled
    BY DEF HandleEndpoints, hostUsbVars, hostVars, Handled
  <1>2. CASE "EP0" \notin intsts
    <2>1. UNCHANGED <<address, inSize>>
      BY <1>2 DEF HandleEndpoints
    <2> QED
      BY <1>1, <1>2, <2>1 DEF AddressAgrees, Active, Handled
  <1>3. CASE "EP0" \in intsts
    <2>1. address' = IF inSize = 0 /\ setAddress /\ address = 0 THEN usbAddr ELSE address
      <3>1. inSize \in Nat
        BY DEF PipeIInv, Pointers
      <3> QED
        BY <1>3, <3>1 DEF HandleEndpoints, CtrlIn
    <2>2. setAddress => usbAddr = hostAddr
      BY <1>1, <1>3 DEF AddressAgrees
    <2>3. /\ address' # hostAddr => lost
          /\ Active => address' = hostAddr
      BY <1>1, <2>1, <2>2 DEF AddressAgrees
    <2>4. ~(stage = "statusIn" /\ setAddress)
      <3> SUFFICES ASSUME stage = "statusIn", setAddress PROVE FALSE
        OBVIOUS
      <3>1. usbAddr = request.wValue /\ request.bRequest = "SET_ADDRESS" /\ hostAddr = usbAddr
        BY <1>1, <2>2 DEF AddressAgrees, Active
      <3>2. host = "attach" /\ request.wValue = 1
        BY <3>1, AddressAsked
      <3> QED
        BY <3>1, <3>2 DEF AddressAgrees
    <2> QED
      BY <1>1, <2>3, <2>4 DEF AddressAgrees, Active, Handled
  <1> QED
    BY <1>2, <1>3

\* A packet for the host; the status stage of SET_ADDRESS moves the host.
LEMMA InTokenAgrees ==
    ASSUME PipeIInv, AddressAgrees, Prompt, DataIn \/ StatusIn, UNCHANGED hostVars
    PROVE  AddressAgrees'
  <1>1. /\ UNCHANGED <<address, setAddress, usbAddr, inSize, request, host>> /\ Handled
        /\ Handled' /\ "BUS" \notin intsts /\ address = hostAddr
        /\ stage \in {"in", "statusIn"}
        /\ \/ UNCHANGED lost /\ "EP0" \in intsts' /\ intsts' = intsts \cup {"EP0"}
           \/ lost' /\ intsts' = intsts
    BY DEF DataIn, StatusIn, InToken, Answers, handlerVars, hostVars, Handled, PipeIInv, Order
  <1>2. /\ setAddress = (request.bRequest = "SET_ADDRESS")
        /\ host = "attach" => hostAddr = 0
    BY <1>1 DEF AddressAgrees, Active
  <1>3. CASE DataIn
    <2>1. ~setAddress /\ hostAddr' = hostAddr /\ stage = "in" /\ stage' \in {"in", "statusOut"}
      BY <1>2, <1>3 DEF DataIn, InToken, Read, PipeIInv, Asked, ReadRequests
    <2> QED
      BY <1>1, <1>2, <2>1 DEF AddressAgrees, Active, Handled
  <1>4. CASE StatusIn /\ ~setAddress
    <2>1. hostAddr' = hostAddr /\ stage = "statusIn" /\ stage' \in {"statusIn", "done"}
      BY <1>2, <1>4 DEF StatusIn, InToken, StatusRead
    <2> QED
      BY <1>1, <1>2, <1>4, <2>1 DEF AddressAgrees, Active, Handled
  <1>5. CASE StatusIn /\ setAddress
    <2>1. /\ stage = "statusIn" /\ moved = 0 /\ request.bRequest = "SET_ADDRESS" /\ ep0Pid = "DATA1"
          /\ usbAddr = request.wValue /\ inSize = 0
      BY <1>1, <1>2, <1>5 DEF StatusIn, Prompt, AddressAgrees
    <2>2. host = "attach" /\ hostAddr = 0
      BY <1>2, <2>1, AddressAsked
    <2>3. stage' = "done" /\ hostAddr' = usbAddr
      <3>1. ep0Pid = Pid(moved + 1)
        BY <2>1, Pids
      <3> QED
        BY <1>5, <2>1, <3>1 DEF StatusIn, InToken, StatusRead
    <2> QED
      BY <1>1, <2>1, <2>2, <2>3 DEF AddressAgrees, Active
  <1> QED
    BY <1>3, <1>4, <1>5

\* The other steps of the pipe leave the addresses alone.
LEMMA OthersAgree ==
    ASSUME PipeIInv, AddressAgrees, UNCHANGED hostVars,
           \/ WritePage \/ StatusOut \/ DataOut(<<"page", Image(block * BlockPages + moved)>>)
           \/ SeeStall \/ Timeout
    PROVE  AddressAgrees'
  <1>1. /\ UNCHANGED <<address, setAddress, usbAddr, request, hostAddr, host>>
        /\ lost => lost'
        /\ "EP0" \in intsts' <=> "EP0" \in intsts
        /\ "BUS" \in intsts' <=> "BUS" \in intsts
        /\ Handled' = Handled
    BY DEF WritePage, StatusOut, DataOut, OutToken, SeeStall, Timeout, handlerVars, hardwareVars, hostUsbVars,
           hostVars, Handled
  <1>2. CASE WritePage
    <2>1. stage' = stage /\ "EP0" \notin intsts /\ stage # "statusIn"
      BY <1>2 DEF WritePage, hostUsbVars, PipeIInv, Writing
    <2> QED
      BY <1>1, <2>1 DEF AddressAgrees, Active
  <1>3. CASE ~WritePage
    <2>1. inSize' = inSize /\ stage # "idle" /\ stage # "done"
      BY <1>3 DEF StatusOut, DataOut, OutToken, SeeStall, Timeout, handlerVars, Active
    <2>2. Active' => Active
      BY <1>3 DEF StatusOut, DataOut, OutToken, SeeStall, Timeout, Active
    <2>3. stage' = "statusIn" /\ Handled /\ setAddress => stage = "statusIn"
      <3>1. stage = "out" => request.bRequest = "DFU_DNLOAD"
        BY DEF PipeIInv, Asked
      <3> QED
        BY <1>3, <3>1 DEF StatusOut, DataOut, OutToken, Sent, SeeStall, Timeout, AddressAgrees, Active
    <2> QED
      BY <1>1, <2>1, <2>2, <2>3 DEF AddressAgrees
  <1> QED
    BY <1>2, <1>3

LEMMA HostAgrees ==
    ASSUME PipeIInv, AddressAgrees, HostGoesOn \/ HostStop \/ HostStart \/ BusReset \/ Restart
    PROVE  AddressAgrees'
  <1>1. ~Active' /\ stage' = "idle"
    BY DEF HostGoesOn, HostStart, HostStop, BusReset, Restart, EndTransfer, ResetBus, UsbRestart,
           usbVars, hostUsbVars, Active
  <1>2. CASE HostGoesOn \/ HostStop \/ HostStart
    <2>1. UNCHANGED <<address, setAddress, usbAddr, inSize, intsts, hostAddr>>
      BY <1>2 DEF HostGoesOn, HostStop, HostStart, usbVars, handlerVars, hardwareVars, hostUsbVars
    <2>2. address # hostAddr /\ lost => lost'
      BY <1>2 DEF HostGoesOn, HostStop, HostStart, EndTransfer, usbVars, hostUsbVars
    <2>3. host' = "attach" => host = "attach" /\ stage # "done"
      BY <1>2 DEF HostGoesOn, Succeeded, AfterStatus, AfterUpload, Refused, HostStop, HostStart
    <2> QED
      BY <1>1, <2>1, <2>2, <2>3 DEF AddressAgrees
  <1>3. CASE BusReset
    BY <1>1, <1>3 DEF BusReset, ResetBus, AddressAgrees
  <1>4. CASE Restart
    BY <1>1, <1>4 DEF Restart, UsbRestart, AddressAgrees
  <1> QED
    BY <1>2, <1>3, <1>4

LEMMA AskAgrees ==
    ASSUME PipeIInv, PipeIInv', AddressAgrees, Ask
    PROVE  AddressAgrees'
  <1>1. PICK r : Request(r)
    BY HostAsks
  <1>2. /\ UNCHANGED <<address, setAddress, usbAddr, inSize, hostAddr, host>> /\ stage = "idle" /\ intsts = {}
        /\ \/ address = hostAddr /\ intsts' = {"SETUP"}
           \/ stage' = "failed" /\ intsts' = {} /\ lost' = lost
    BY <1>1 DEF Ask, Request, handlerVars, hardwareVars, hostVars
  <1> QED
    BY <1>2 DEF AddressAgrees, Active, Handled

LEMMA AddressNext ==
    ASSUME PipeIInv, PipeIInv', AddressAgrees, Prompt, [Next]_vars
    PROVE  AddressAgrees'
  <1>1. CASE ClassRequest /\ ~WritePage
    <2>1. /\ UNCHANGED <<hostVars, address>>
          /\ \E name, stall : /\ TakeSetup(name, stall)
                              /\ name \in {"DFU_GETSTATUS", "DFU_GETSTATE", "DFU_DNLOAD", "DFU_DETACH",
                                           "DFU_ABORT", "DFU_CLRSTATUS", "DFU_UPLOAD"}
      BY <1>1 DEF ClassRequest, GetStatus, GetStatusWrites, GetState, Download, Detach, Abort, ClearStatus, Upload
    <2> QED
      BY <2>1, SetupAgrees
  <1>2. CASE WritePage
    <2>1. UNCHANGED hostVars
      BY <1>2 DEF WritePage
    <2> QED
      BY <1>2, <2>1, OthersAgree
  <1>3. CASE Pipe
    <2>1. UNCHANGED hostVars
      BY <1>3 DEF Pipe
    <2>2. CASE StandardRequest
      <3>1. CASE SetAddress
        <4>1. TakeSetup("SET_ADDRESS", FALSE) /\ address' = address /\ usbAddr' = request.wValue /\ inSize' = 0
          BY <3>1 DEF SetAddress, StatusOnly
        <4> QED
          BY <2>1, <4>1, SetupAgrees
      <3>2. CASE ~SetAddress
        <4>1. /\ address' = address
              /\ \E name, stall : /\ TakeSetup(name, stall)
                                  /\ name \in {"GET_DESCRIPTOR", "SET_CONFIGURATION", "GET_CONFIGURATION"}
          BY <2>2, <3>2 DEF StandardRequest, GetDescriptor, SetConfiguration, NoDescriptor,
                            GetConfiguration, NotSupported, StatusOnly
        <4> QED
          BY <2>1, <4>1, SetupAgrees
      <3> QED
        BY <3>1, <3>2
    <2>3. CASE HandleBusReset
      <3>1. /\ stage' = "idle" /\ hostAddr' = 0 /\ address' = 0 /\ ~setAddress'
        BY <2>3 DEF HandleBusReset, hostUsbVars, PipeIInv, Order
      <3> QED
        BY <3>1 DEF AddressAgrees, Active
    <2> QED
      BY <1>3, <2>1, <2>2, <2>3, EndpointsAgree, InTokenAgrees, OthersAgree DEF Pipe
  <1>4. CASE UNCHANGED vars
    BY <1>4 DEF vars, usbVars, handlerVars, hardwareVars, hostUsbVars, hostVars, AddressAgrees, Active, Handled
  <1> QED
    BY <1>1, <1>2, <1>3, <1>4, AskAgrees, HostAgrees DEF Next, Transfer

-----------------------------------------------------------------------------

\* The step that leaves the host waiting for a status.
LEMMA StatusStep ==
    ASSUME PipeIInv, [Next]_vars, stage' = "statusIn", Handled'
    PROVE  /\ request' = request
           /\ \/ SetAddress \/ SetConfiguration \/ Detach \/ Abort
              \/ request.bRequest \in {"DFU_DNLOAD", "DFU_CLRSTATUS"}
              \/ stage = "statusIn" /\ (HandleEndpoints \/ StatusIn \/ UNCHANGED vars)
  <1>1. ASSUME NEW name, NEW stall, TakeSetup(name, stall), UNCHANGED hostVars
        PROVE  request' = request /\ request.bRequest = name /\ name \notin ReadRequests
    <2>1. /\ UNCHANGED <<request, stage>> /\ request.bRequest = name
          /\ stage # "idle" => stage = FirstStage(request)
      BY <1>1, SetupTaken
    <2> QED
      BY <2>1 DEF FirstStage
  <1>2. CASE ClassRequest
    <2>1. CASE WritePage
      BY <2>1 DEF WritePage, hostUsbVars, PipeIInv, Writing
    <2>2. CASE Detach \/ Abort
      <3>1. \E name, stall : TakeSetup(name, stall) /\ UNCHANGED hostVars
        BY <2>2 DEF Detach, Abort
      <3>2. request' = request
        BY <1>1, <3>1
      <3> QED
        BY <2>2, <3>2
    <2>3. CASE Download \/ ClearStatus
      <3>1. \E name, stall : /\ TakeSetup(name, stall) /\ UNCHANGED hostVars
                             /\ name \in {"DFU_DNLOAD", "DFU_CLRSTATUS"}
        BY <2>3 DEF Download, ClearStatus
      <3>2. request' = request /\ request.bRequest \in {"DFU_DNLOAD", "DFU_CLRSTATUS"}
        BY <1>1, <3>1
      <3> QED
        BY <3>2
    <2>4. CASE GetStatus \/ GetStatusWrites \/ GetState \/ Upload
      <3>1. \E name, stall : /\ TakeSetup(name, stall) /\ UNCHANGED hostVars
                             /\ name \in {"DFU_GETSTATUS", "DFU_GETSTATE", "DFU_UPLOAD"}
        BY <2>4 DEF GetStatus, GetStatusWrites, GetState, Upload
      <3>2. PICK name \in {"DFU_GETSTATUS", "DFU_GETSTATE", "DFU_UPLOAD"} : name \notin ReadRequests
        BY <1>1, <3>1
      <3> QED
        BY <3>2 DEF ReadRequests
    <2> QED
      BY <1>2, <2>1, <2>2, <2>3, <2>4 DEF ClassRequest
  <1>3. CASE Pipe
    <2>1. UNCHANGED hostVars
      BY <1>3 DEF Pipe
    <2>2. CASE SetAddress \/ SetConfiguration
      <3>1. request' = request
        BY <2>2 DEF SetAddress, SetConfiguration, TakeSetup, hostUsbVars
      <3> QED
        BY <2>2, <3>1
    <2>3. CASE GetDescriptor \/ NoDescriptor \/ GetConfiguration
      <3>1. \E name, stall : /\ TakeSetup(name, stall) /\ UNCHANGED hostVars
                             /\ name \in {"GET_DESCRIPTOR", "GET_CONFIGURATION"}
        BY <2>1, <2>3 DEF GetDescriptor, NoDescriptor, GetConfiguration, NotSupported
      <3>2. PICK name \in {"GET_DESCRIPTOR", "GET_CONFIGURATION"} : name \notin ReadRequests
        BY <1>1, <3>1
      <3> QED
        BY <3>2 DEF ReadRequests
    <2>4. CASE HandleEndpoints
      BY <2>4 DEF HandleEndpoints, hostUsbVars
    <2>5. CASE HandleBusReset
      BY <2>5 DEF HandleBusReset, hostUsbVars, PipeIInv, Order
    <2>6. CASE Timeout \/ SeeStall \/ StatusOut
      BY <2>6 DEF Timeout, SeeStall, StatusOut, OutToken
    <2>7. CASE DataIn
      BY <2>7 DEF DataIn, InToken, Read
    <2>8. CASE StatusIn
      BY <2>8 DEF StatusIn, InToken
    <2>9. CASE DataOut(<<"page", Image(block * BlockPages + moved)>>)
      BY <2>9 DEF DataOut, OutToken, PipeIInv, Asked
    <2> QED
      BY <1>3, <2>2, <2>3, <2>4, <2>5, <2>6, <2>7, <2>8, <2>9 DEF Pipe, StandardRequest
  <1>4. CASE Ask
    <2>1. PICK r : Request(r)
      BY <1>4, HostAsks
    <2> QED
      BY <2>1 DEF Request, Handled
  <1>5. CASE HostGoesOn \/ HostStart \/ HostStop \/ BusReset \/ Restart
    BY <1>5 DEF HostGoesOn, HostStart, HostStop, BusReset, Restart, EndTransfer, ResetBus, UsbRestart,
                usbVars, hostUsbVars
  <1>6. CASE UNCHANGED vars
    BY <1>6 DEF vars, usbVars, hostUsbVars
  <1> QED
    BY <1>2, <1>3, <1>4, <1>5, <1>6 DEF Next, Transfer

\* What EP0 is to send waits for the host, unless it has been acknowledged.
LEMMA StatusKept ==
    ASSUME PipeIInv, HandleEndpoints
    PROVE  /\ ep0 # "none" => ep0' = ep0
           /\ UNCHANGED <<ep0Pid, stalled, stage, moved, lost, request>>
           /\ intsts' = {}
           /\ "EP1" \notin intsts => ep1' = ep1
  BY DEF HandleEndpoints, hostUsbVars, PipeIInv, Order

LEMMA PromptNext ==
    ASSUME PipeIInv, PipeIInv', DfuIInv, Prompt, [Next]_vars
    PROVE  Prompt'
  <1>1. ASSUME stage' = "in", Handled', ep0' # "none" \/ "EP0" \in intsts' PROVE ep1'
    <2>1. Replying' /\ request'.bRequest \in ReadRequests
      BY <1>1 DEF PipeIInv, Writing, Asked, Replying
    <2>2. CASE /\ intsts' \cap {"EP0", "EP1"} = {}
               /\ \/ GetStatus \/ GetState \/ GetDescriptor \/ NoDescriptor \/ GetConfiguration \/ Upload
                  \/ (WritePage /\ writing' = data_len)
      BY <1>1, <2>2 DEF GetStatus, GetState, GetDescriptor, NoDescriptor, GetConfiguration,
                        NotSupported, Upload, WritePage,
                        PrepareCtrlOut, NothingIn
    <2>3. CASE HandleEndpoints
      <3>1. stage = "in" /\ Handled /\ (ep0 # "none" \/ "EP0" \in intsts)
        BY <1>1, <2>3 DEF HandleEndpoints, hostUsbVars, Handled
      <3>2. ep1 /\ "EP1" \notin intsts
        BY <3>1 DEF Prompt, PipeIInv, Order
      <3> QED
        BY <2>3, <3>2, StatusKept
    <2>4. CASE DataIn
      BY <2>4 DEF DataIn, InToken, Answers, Handled, Prompt
    <2>5. CASE StatusOut
      BY <1>1, <2>5 DEF StatusOut, OutToken
    <2>6. CASE UNCHANGED vars
      BY <1>1, <2>6 DEF vars, usbVars, hardwareVars, hostUsbVars, Handled, Prompt
    <2> QED
      BY <2>1, <2>2, <2>3, <2>4, <2>5, <2>6, ReplyStep
  <1>2. ASSUME stage' = "statusOut" PROVE ep1' \/ lost'
    <2>1. Replying' /\ request'.bRequest \in ReadRequests
      BY <1>2 DEF PipeIInv, Writing, Asked, FirstStage, Replying
    <2>2. CASE HandleEndpoints
      <3>1. ep1 \/ lost
        BY <1>2, <2>2, StatusKept DEF Prompt
      <3> QED
        BY <2>2, <3>1, StatusKept DEF PipeIInv, Order
    <2>3. CASE DataIn
      BY <2>3 DEF DataIn, InToken, Answers, Handled, Prompt
    <2>4. CASE StatusOut
      BY <1>2, <2>4 DEF StatusOut, OutToken
    <2>5. CASE UNCHANGED vars
      BY <1>2, <2>5 DEF vars, usbVars, hardwareVars, hostUsbVars, Prompt
    <2> QED
      BY <1>2, <2>1, <2>2, <2>3, <2>4, <2>5, ReplyStep
  <1>3. ASSUME stage' = "statusIn", Handled'
        PROVE  /\ request'.bRequest \in {"SET_ADDRESS", "SET_CONFIGURATION", "DFU_DETACH"} =>
                    ep0' = "zero" /\ ep0Pid' = "DATA1"
               /\ request'.bRequest = "DFU_ABORT" => stalled'
    <2>1. CASE SetAddress \/ SetConfiguration
      BY <2>1 DEF SetAddress, SetConfiguration, StatusOnly, TakeSetup, hostUsbVars
    <2>2. CASE Detach
      BY <2>2 DEF Detach, PrepareDownload, PrepareCtrlIn, TakeSetup, hostUsbVars
    <2>3. CASE Abort
      BY <2>3 DEF Abort, TakeSetup, hostUsbVars
    <2>4. CASE request' = request /\ request.bRequest \in {"DFU_DNLOAD", "DFU_CLRSTATUS"}
      BY <2>4
    <2>5. CASE stage = "statusIn" /\ HandleEndpoints
      <3>1. Handled
        BY <2>5 DEF HandleEndpoints, Handled
      <3> QED
        BY <2>5, <3>1, StatusKept DEF Prompt
    <2>6. CASE stage = "statusIn" /\ StatusIn
      <3>1. Handled /\ ~stalled /\ request' = request /\ moved = 0
        BY <2>6 DEF StatusIn, InToken, Answers, Handled
      <3>2. ep0Pid # "DATA1"
        BY <1>3, <2>6, <3>1, Pids DEF StatusIn, InToken, StatusRead
      <3> QED
        BY <2>6, <3>1, <3>2 DEF Prompt
    <2>7. CASE UNCHANGED vars
      BY <1>3, <2>7 DEF vars, usbVars, hardwareVars, hostUsbVars, Handled, Prompt
    <2> QED
      BY <1>3, <2>1, <2>2, <2>3, <2>4, <2>5, <2>6, <2>7, StatusStep
  <1> QED
    BY <1>1, <1>2, <1>3 DEF Prompt

LEMMA DownloadPromptNext ==
    ASSUME PipeIInv, PipeIInv', DfuIInv, DataStage, DownloadPrompt, [Next]_vars
    PROVE  DownloadPrompt'
  <1> SUFFICES ASSUME Sending', stage' # "done"
               PROVE  /\ ~Accepting'
                      /\ \/ Fallen'
                         \/ /\ ep0' = "zero" /\ ep0Pid' = "DATA1"
                            /\ stage' = "out" => lost' \/ (Arrived' = moved' /\ (ep1' \/ "EP1" \in intsts'))
    BY DEF DownloadPrompt
  <1>1. UNCHANGED <<host, block, image, flash, request>>
    BY SendingStep
  <1>2. CASE Download /\ stage' = FirstStage(request) /\ moved' = 0 /\ intsts' = {}
    <2>1. CASE Accepting
      <3>1. /\ bState' \in {"dfuDNLOAD_SYNC", "dfuMANIFEST_SYNC"} /\ ep0' = "zero" /\ ep0Pid' = "DATA1"
            /\ outSize' = 0 /\ ep1' = TRUE
        BY <1>2, <2>1 DEF Download, PrepareDownload, PrepareCtrlIn, PrepareCtrlOut
      <3>2. Arrived' = 0
        BY <1>2, <3>1 DEF Arrived, PendingNew
      <3> QED
        BY <1>2, <3>1, <3>2 DEF Accepting
    <2>2. CASE ~Accepting
      BY <1>2, <2>2 DEF Download, NothingIn, NothingOut, Fallen, Accepting
    <2> QED
      BY <2>1, <2>2
  <1>3. CASE /\ Sending /\ UNCHANGED dfuVars
             /\ \/ HandleEndpoints \/ StatusIn \/ UNCHANGED vars
                \/ DataOut(<<"page", Image(block * BlockPages + moved)>>)
    <2>1. stage # "done"
      BY <1>3 DEF HandleEndpoints, StatusIn, DataOut, vars, usbVars, hostUsbVars
    <2>2. ~Accepting /\ ~Accepting'
      BY <1>3, <2>1 DEF DownloadPrompt, Accepting, dfuVars
    <2>3. CASE UNCHANGED vars
      BY <2>1, <2>3, <1>3 DEF vars, usbVars, handlerVars, hardwareVars, hostUsbVars, hostVars, dfuVars, DownloadPrompt,
                              Accepting, Fallen, Arrived, PendingNew
    <2>4. CASE Fallen
      <3>1. UNCHANGED vars
        BY <1>3, <2>4 DEF Fallen, HandleEndpoints, StatusIn, InToken, DataOut, OutToken
      <3> QED
        BY <2>3, <3>1
    <2>5. CASE ~Fallen
      <3>1. /\ ep0 = "zero" /\ ep0Pid = "DATA1"
            /\ stage = "out" => lost \/ (Arrived = moved /\ (ep1 \/ "EP1" \in intsts))
        BY <1>3, <2>1, <2>5 DEF DownloadPrompt
      <3>2. stage = "out" => Taken /\ request.wLength \in Nat /\ moved < request.wLength
        <4> SUFFICES ASSUME stage = "out" PROVE Taken /\ request.wLength \in Nat /\ moved < request.wLength
          OBVIOUS
        <4>1. request.wLength \in Nat /\ request.wLength > 0 /\ moved < request.wLength /\ RequestOfHost
          BY Sizes DEF PipeIInv, Asked, HostTypes
        <4>2. host = "download"
          BY <1>3, <4>1 DEF RequestOfHost, OtherRequests, Msg, Sending, PipeIInv, HostTypes, Hosts
        <4> QED
          BY <1>3, <3>1, <4>1, <4>2 DEF DataStage, RefusedBlock
      <3>3. CASE HandleEndpoints
        <4>1. /\ ep0' = "zero" /\ ep0Pid' = "DATA1" /\ UNCHANGED <<stage, moved, lost>>
          BY <3>1, <3>3, StatusKept
        <4>2. ASSUME stage = "out", ~lost PROVE Arrived' = moved /\ ep1'
          <5>1. /\ Arrived = moved /\ (ep1 \/ "EP1" \in intsts) /\ outSize \in Nat
                /\ outLimit = request.wLength
            BY <3>1, <3>2, <4>2 DEF PipeIInv, Pointers, Taken
          <5>2. Arrived' = moved
            BY <3>3, <5>1, EndpointsCopy DEF Arrived, PipeIInv, HostTypes
          <5>3. CASE "EP1" \notin intsts
            BY <3>3, <5>1, <5>2, <5>3, StatusKept
          <5>4. CASE "EP1" \in intsts /\ outToggle # ep1Pid
            <6>1. PendingNew /\ outSize + 1 = moved
              BY <3>2, <4>2, <5>1, <5>4 DEF Taken, PendingNew, Arrived
            <6> QED
              BY <3>2, <3>3, <4>2, <5>1, <5>2, <5>4, <6>1 DEF HandleEndpoints, CtrlOut, PendingNew
          <5>5. CASE "EP1" \in intsts /\ outToggle = ep1Pid
            BY <3>3, <5>2, <5>5 DEF HandleEndpoints, CtrlOut
          <5> QED
            BY <5>3, <5>4, <5>5
        <4> QED
          BY <2>2, <4>1, <4>2
      <3>4. CASE StatusIn
        <4>1. stage' = "done"
          BY <3>1, <3>4, Pids DEF StatusIn, InToken, StatusRead
        <4> QED
          BY <4>1
      <3>5. CASE DataOut(<<"page", Image(block * BlockPages + moved)>>)
        <4>1. /\ stage = "out" /\ ep1 /\ ep1Pid' = Pid(moved + 1) /\ "EP1" \notin intsts /\ "EP1" \in intsts'
              /\ UNCHANGED <<outSize, outLimit, outToggle, ep0, ep0Pid, request>>
              /\ lost' \/ (~lost /\ Sent)
          BY <3>5 DEF DataOut, OutToken, handlerVars, PipeIInv, Order
        <4>2. ASSUME ~lost', stage' = "out" PROVE Arrived' = moved'
          <5>1. Taken /\ ~lost /\ Sent /\ Arrived = moved /\ moved \in Nat
            BY <3>1, <3>2, <4>1, <4>2 DEF PipeIInv, HostTypes
          <5>2. outSize = moved /\ outSize \in Nat /\ outSize < outLimit
            BY <4>1, <5>1 DEF Arrived, PendingNew, Taken, PipeIInv, Pointers
          <5>3. moved' = moved + 1
            BY <4>1, <4>2, <5>1 DEF Sent
          <5>4. PendingNew'
            BY <4>1, <5>1, <5>2, OutPids DEF PendingNew, Taken
          <5> QED
            BY <4>1, <5>2, <5>3, <5>4 DEF Arrived
        <4> QED
          BY <2>2, <3>1, <4>1, <4>2
      <3> QED
        BY <1>3, <2>3, <3>3, <3>4, <3>5
    <2> QED
      BY <2>4, <2>5
  <1> QED
    BY <1>2, <1>3, SendingStep

\* How a host comes to give up.
LEMMA FailedStep ==
    ASSUME PipeIInv, [Next]_vars, stage' = "failed"
    PROVE  \/ /\ stage = "failed" /\ UNCHANGED <<request, lost, bState>>
              /\ intsts = {} => UNCHANGED <<ep0, ep1, intsts>>
           \/ Pipe /\ Idle /\ Timeout /\ UNCHANGED <<request, lost, bState, ep0, ep1, intsts>>
           \/ Ask /\ address # hostAddr /\ lost' = lost /\ intsts = {}
  <1>1. CASE ClassRequest
    <2>1. CASE WritePage
      BY <2>1 DEF WritePage, hostUsbVars, PipeIInv, Writing
    <2>2. CASE ~WritePage
      <3>1. \E name, stall : TakeSetup(name, stall) /\ UNCHANGED hostVars
        BY <1>1, <2>2 DEF ClassRequest, GetStatus, GetStatusWrites, GetState, Download, Detach, Abort,
                          ClearStatus, Upload
      <3>2. stage' = stage /\ (stage # "idle" => stage = FirstStage(request))
        BY <3>1, SetupTaken
      <3> QED
        BY <3>2 DEF FirstStage
    <2> QED
      BY <2>1, <2>2
  <1>2. CASE Pipe
    <2>1. UNCHANGED <<bState, hostVars>>
      BY <1>2 DEF Pipe, dfuVars
    <2>2. CASE StandardRequest
      <3>1. \E name, stall : TakeSetup(name, stall)
        BY <2>2 DEF StandardRequest, GetDescriptor, SetAddress, SetConfiguration, NoDescriptor,
                    GetConfiguration, NotSupported
      <3>2. stage' = stage /\ (stage # "idle" => stage = FirstStage(request))
        BY <2>1, <3>1, SetupTaken
      <3> QED
        BY <3>2 DEF FirstStage
    <2>3. CASE HandleEndpoints
      BY <2>1, <2>3 DEF HandleEndpoints, hostUsbVars
    <2>4. CASE HandleBusReset
      BY <2>1, <2>4 DEF HandleBusReset, hostUsbVars
    <2>5. CASE Timeout /\ Idle
      BY <1>2, <2>1, <2>5 DEF Timeout, hardwareVars
    <2>6. CASE SeeStall \/ StatusOut
      BY <2>6 DEF SeeStall, StatusOut, OutToken
    <2>7. CASE DataIn \/ StatusIn
      BY <2>7 DEF DataIn, StatusIn, InToken, Read, StatusRead
    <2>8. CASE DataOut(<<"page", Image(block * BlockPages + moved)>>)
      BY <2>8 DEF DataOut, OutToken, Sent
    <2> QED
      BY <1>2, <2>2, <2>3, <2>4, <2>5, <2>6, <2>7, <2>8 DEF Pipe
  <1>3. CASE Ask
    <2>1. PICK r : Request(r)
      BY <1>3, HostAsks
    <2> QED
      BY <1>3, <2>1 DEF Request, FirstStage
  <1>4. CASE HostGoesOn \/ HostStart \/ HostStop \/ BusReset \/ Restart
    BY <1>4 DEF HostGoesOn, HostStart, HostStop, BusReset, Restart, EndTransfer, ResetBus, UsbRestart,
                usbVars, hostUsbVars
  <1>5. CASE UNCHANGED vars
    BY <1>5 DEF vars, usbVars, hardwareVars, hostUsbVars, dfuVars
  <1> QED
    BY <1>1, <1>2, <1>3, <1>4, <1>5 DEF Next, Transfer

\* A host that gives up has a reason to.
LEMMA TimeoutReason ==
    ASSUME PipeIInv, ReplyIInv, AddressAgrees, Prompt, DownloadPrompt, Idle, Timeout
    PROVE  \/ lost
           \/ request.bRequest = "DFU_CLRSTATUS"
           \/ request.bRequest = "DFU_UPLOAD" /\ bState \notin {"dfuIDLE", "dfuUPLOAD_IDLE"}
           \/ request.bRequest = "DFU_DNLOAD" /\ ~Accepting /\ Fallen
  <1>1. /\ Active /\ intsts = {} /\ address = hostAddr /\ Handled /\ ~stalled
        /\ IF stage \in {"in", "statusIn"} THEN ep0 = "none" ELSE ~ep1
    BY DEF Timeout, AddressAgrees, Active, Handled
  <1>2. CASE stage = "in"
    <2>1. Reply /\ request.bRequest \in ReadRequests /\ RequestOfHost
      BY <1>1, <1>2 DEF ReplyIInv, Replying, PipeIInv, Asked
    <2>2. request.bRequest = "GET_DESCRIPTOR" =>
              request \in {Msg("GET_DESCRIPTOR", 1, 1), Msg("GET_DESCRIPTOR", 2, 1)}
      BY <2>1 DEF RequestOfHost, OtherRequests, Msg, PipeIInv, HostTypes, Hosts
    <2> QED
      BY <1>1, <1>2, <2>1, <2>2
         DEF Reply, Single, UploadReply, Paged, NoPages, NoReply, ReadRequests
  <1>3. CASE stage = "statusOut"
    BY <1>1, <1>3 DEF Prompt
  <1>4. CASE stage = "out"
    BY <1>1, <1>4 DEF DownloadPrompt, Sending, PipeIInv, Asked
  <1>5. CASE stage = "statusIn"
    <2>1. RequestOfHost /\ request.bRequest \notin ReadRequests
      BY <1>5 DEF PipeIInv, Asked
    <2>2. request.bRequest \in {"SET_ADDRESS", "SET_CONFIGURATION", "DFU_DETACH", "DFU_ABORT", "DFU_CLRSTATUS",
                                "DFU_DNLOAD"}
      BY <2>1 DEF RequestOfHost, OtherRequests, Msg, ReadRequests, PipeIInv, HostTypes, Hosts
    <2> QED
      BY <1>1, <1>5, <2>2 DEF Prompt, DownloadPrompt, Sending
  <1> QED
    BY <1>1, <1>2, <1>3, <1>4, <1>5 DEF Active

LEMMA ExplainedNext ==
    ASSUME PipeIInv, ReplyIInv, WaitIInv, [Next]_vars
    PROVE  Explained'
  <1> SUFFICES ASSUME stage' = "failed" PROVE Explained'
    BY DEF Explained
  <1>1. CASE /\ stage = "failed" /\ UNCHANGED <<request, lost, bState>>
             /\ intsts = {} => UNCHANGED <<ep0, ep1, intsts>>
    BY <1>1 DEF WaitIInv, Explained, Fallen, Accepting
  <1>2. CASE Pipe /\ Idle /\ Timeout /\ UNCHANGED <<request, lost, bState, ep0, ep1, intsts>>
    <2>1. \/ lost
          \/ request.bRequest = "DFU_CLRSTATUS"
          \/ request.bRequest = "DFU_UPLOAD" /\ bState \notin {"dfuIDLE", "dfuUPLOAD_IDLE"}
          \/ request.bRequest = "DFU_DNLOAD" /\ ~Accepting /\ Fallen
      BY <1>2, TimeoutReason DEF WaitIInv
    <2> QED
      BY <1>2, <2>1 DEF Explained, Fallen, Accepting
  <1>3. CASE address # hostAddr /\ lost' = lost /\ intsts = {}
    BY <1>3 DEF WaitIInv, AddressAgrees, Explained
  <1> QED
    BY <1>1, <1>2, <1>3, FailedStep

(* Device and host agree on the address, and the endpoint of the stage     *)
(* that comes next is prepared before the host needs it.                   *)
THEOREM WaitInvariance == Spec => []WaitIInv
  <1>1. Init => WaitIInv
    BY DEF Init, UsbInit, WaitIInv, AddressAgrees, Prompt, DownloadPrompt, Sending, Explained, Active
  <1>2. WaitIInv /\ PipeIInv /\ PipeIInv' /\ DfuIInv /\ ReplyIInv /\ InstallIInv /\ [Next]_vars => WaitIInv'
    BY AddressNext, PromptNext, DownloadPromptNext, ExplainedNext DEF WaitIInv, InstallIInv
  <1> QED
    BY <1>1, <1>2, DfuInvariance, PipeInvariance, ReplyInvariance, InstallInvariance, PTL DEF Spec

(* usbd_user.c and dfu_transfer.c leave a host waiting only after a lost   *)
(* acknowledgement, for a status stage that DFU_CLRSTATUS does not have,   *)
(* or for a transfer that the state of the device does not allow.          *)
THEOREM TimeoutsAreExplained == Spec => []TimeoutsExplained
  <1>1. WaitIInv => TimeoutsExplained
    BY DEF WaitIInv, Explained, Fallen, TimeoutsExplained
  <1> QED
    BY <1>1, WaitInvariance, PTL

-----------------------------------------------------------------------------
(* The size of the flash, and the end of an upload *)

LEMMA LeastNumber ==
    ASSUME NEW S \in SUBSET Nat, S # {}
    PROVE  \E n \in S : \A k \in S : n <= k
  <1> DEFINE R == {ss \in Nat \X Nat : ss[1] < ss[2]}
  <1>1. IsWellFoundedOn(R, Nat)
    BY NatLessThanWellFounded DEF OpToRel
  <1>2. PICK n \in S : \A k \in S : ~ (<<k, n>> \in R)
    <2> HIDE DEF R
    <2> QED
      BY <1>1, WFMin
  <1>3. ASSUME NEW k \in S, k < n PROVE FALSE
    <2>1. <<k, n>> \in R
      BY <1>3
    <2> QED
      BY <1>2, <2>1
  <1> QED
    BY <1>3

LEMMA Induction ==
    ASSUME NEW S, 0 \in S, \A n \in Nat : n \in S => n + 1 \in S
    PROVE  \A n \in Nat : n \in S
  <1> SUFFICES ASSUME NEW n \in Nat, n \notin S PROVE FALSE
    OBVIOUS
  <1>1. PICK m \in {k \in Nat : k \notin S} : \A k \in {j \in Nat : j \notin S} : m <= k
    BY LeastNumber
  <1>2. m # 0 /\ m - 1 \in Nat /\ m - 1 \in S
    BY <1>1
  <1> QED
    BY <1>1, <1>2

\* What the loop of GetApromSize has come to after n turns.
Doubling(f, n) == IF n = 0 THEN SmallestPages ELSE 2 * f[n - 1]

\* The recursive definition has a solution, and stands for it.
LEMMA DoublingUnfolds ==
    \E size : /\ size = [k \in 0 .. FlashPages |-> Doubling(size, k)]
              /\ ApromPages = size[CHOOSE k \in DOMAIN size :
                                      /\ size[k] >= FlashPages
                                      /\ \A j \in DOMAIN size : size[j] >= FlashPages => k <= j]
  <1> DEFINE Body(f, n) == IF n = 0 THEN SmallestPages ELSE 2 * f[n - 1]
             Solved == {n \in Nat : \E f : f = [i \in 0 .. n |-> Body(f, i)]}
             size == CHOOSE f : f = [k \in 0 .. FlashPages |-> Body(f, k)]
  <1>1. 0 \in Solved
    <2> DEFINE f == [i \in 0 .. 0 |-> SmallestPages]
    <2>1. f = [i \in 0 .. 0 |-> Body(f, i)]
      OBVIOUS
    <2> QED
      BY <2>1
  <1>2. ASSUME NEW n \in Nat, n \in Solved PROVE n + 1 \in Solved
    <2>1. PICK f : f = [i \in 0 .. n |-> Body(f, i)]
      BY <1>2
    <2> DEFINE g == [i \in 0 .. n + 1 |-> IF i <= n THEN f[i] ELSE Body(f, n + 1)]
    <2>2. ASSUME NEW i \in 0 .. n + 1 PROVE g[i] = Body(g, i)
      <3>1. i # 0 => i - 1 \in 0 .. n + 1 /\ i - 1 <= n /\ g[i - 1] = f[i - 1]
        OBVIOUS
      <3>2. Body(g, i) = Body(f, i)
        <4> HIDE DEF g
        <4> QED
          BY <3>1
      <3>3. i <= n => f[i] = Body(f, i)
        <4> HIDE DEF Body
        <4>1. ASSUME i <= n PROVE i \in 0 .. n
          BY <4>1
        <4> QED
          BY <2>1, <4>1, Zenon
      <3>4. g[i] = Body(f, i)
        <4> HIDE DEF Body
        <4> QED
          BY <3>3
      <3> QED
        BY <3>2, <3>4
    <2>3. g = [i \in 0 .. n + 1 |-> Body(g, i)]
      <3> HIDE DEF Body
      <3> QED
        BY <2>2
    <2> QED
      <3> HIDE DEF g, Body
      <3> QED
        BY <2>3
  <1>3. FlashPages \in Solved
    <2> HIDE DEF Solved
    <2> QED
      BY <1>1, <1>2, Sizes, Induction
  <1>4. PICK f : f = [k \in 0 .. FlashPages |-> Body(f, k)]
    BY <1>3
  <1>5. size = [k \in 0 .. FlashPages |-> Body(size, k)]
    BY <1>4, Zenon
  <1>6. ApromPages = size[CHOOSE k \in DOMAIN size :
                             /\ size[k] >= FlashPages
                             /\ \A j \in DOMAIN size : size[j] >= FlashPages => k <= j]
    BY Zenon DEF ApromPages
  <1> QED
    <2> HIDE DEF size
    <2> QED
      BY <1>5, <1>6, Zenon DEF Doubling

\* The size is found, is no less than the flash's and is one of whole blocks.
LEMMA ApromSize ==
    \E m \in Nat \ {0} : ApromPages = m * BlockPages /\ ApromPages >= FlashPages
  <1>1. /\ BlockPages \in Nat \ {0} /\ SmallestPages \in Nat \ {0} /\ FlashPages \in Nat
        /\ \E n \in 1 .. SmallestPages : SmallestPages = n * BlockPages
    BY SizesAssumption
  <1>2. PICK size : /\ size = [k \in 0 .. FlashPages |-> Doubling(size, k)]
                    /\ ApromPages = size[CHOOSE k \in DOMAIN size :
                                            /\ size[k] >= FlashPages
                                            /\ \A j \in DOMAIN size : size[j] >= FlashPages => k <= j]
    BY DoublingUnfolds
  <1>3. DOMAIN size = 0 .. FlashPages /\ \A k \in 0 .. FlashPages : size[k] = Doubling(size, k)
    BY <1>2
  <1> DEFINE Grown == {k \in Nat : k <= FlashPages =>
                          /\ size[k] \in Nat /\ size[k] >= k + 1
                          /\ \E m \in Nat \ {0} : size[k] = m * BlockPages}
  <1>4. 0 \in Grown
    <2>1. size[0] = SmallestPages
      BY <1>1, <1>3 DEF Doubling
    <2>2. \E m \in Nat \ {0} : SmallestPages = m * BlockPages
      BY <1>1
    <2> QED
      BY <1>1, <2>1, <2>2
  <1>5. ASSUME NEW k \in Nat, k \in Grown, k + 1 <= FlashPages
        PROVE  /\ size[k + 1] \in Nat /\ size[k + 1] >= k + 2
               /\ \E m \in Nat \ {0} : size[k + 1] = m * BlockPages
    <2>1. size[k] \in Nat /\ size[k] >= k + 1
      BY <1>1, <1>5
    <2>2. PICK m \in Nat \ {0} : size[k] = m * BlockPages
      BY <1>1, <1>5
    <2>3. size[k + 1] = 2 * size[k]
      BY <1>1, <1>3, <1>5 DEF Doubling
    <2>4. 2 * m \in Nat \ {0} /\ 2 * (m * BlockPages) = (2 * m) * BlockPages
      BY <1>1, <2>2
    <2> QED
      BY <2>1, <2>2, <2>3, <2>4
  <1>6. \A k \in Nat : k \in Grown => k + 1 \in Grown
    BY <1>5
  <1>7. \A k \in Nat : k \in Grown
    <2> HIDE DEF Grown
    <2> QED
      BY <1>4, <1>6, Induction
  <1>8. \A k \in 0 .. FlashPages :
           size[k] \in Nat /\ size[k] >= k + 1 /\ \E m \in Nat \ {0} : size[k] = m * BlockPages
    BY <1>7
  <1> DEFINE Enough == {k \in 0 .. FlashPages : size[k] >= FlashPages}
  <1>9. PICK k \in Enough : \A j \in Enough : k <= j
    <2>1. FlashPages \in Enough
      BY <1>1, <1>8
    <2>2. Enough \in SUBSET Nat
      OBVIOUS
    <2> HIDE DEF Enough
    <2> QED
      BY <2>1, <2>2, LeastNumber
  <1> DEFINE found == CHOOSE i \in DOMAIN size :
                          /\ size[i] >= FlashPages
                          /\ \A j \in DOMAIN size : size[j] >= FlashPages => i <= j
  <1>10. found \in 0 .. FlashPages /\ size[found] >= FlashPages
    BY <1>3, <1>9
  <1>11. ApromPages = size[found]
    BY <1>2
  <1> HIDE DEF found
  <1> QED
    BY <1>8, <1>10, <1>11

LEMMA WholeBlocks ==
    ASSUME NEW m \in Nat, NEW n \in Nat \ {0}, NEW q \in Int, q = (m * n) \div n
    PROVE  q = m
  OBVIOUS

LEMMA MoreBlocks ==
    ASSUME NEW b \in Nat, NEW m \in Nat, NEW n \in Nat, b >= m
    PROVE  b * n >= m * n
  OBVIOUS

\* Behind the last block there is no flash.
LEMMA BehindLast == ASSUME NEW b \in Nat, b > LastBlock PROVE b * BlockPages >= FlashPages
  <1>1. BlockPages \in Nat \ {0} /\ FlashPages \in Nat
    BY Sizes
  <1>2. PICK m \in Nat \ {0} : ApromPages = m * BlockPages /\ ApromPages >= FlashPages
    BY ApromSize
  <1>3. LastBlock = m - 1
    <2>1. (m * BlockPages) \div BlockPages = m
      BY <1>1, WholeBlocks
    <2> QED
      BY <1>2, <2>1 DEF LastBlock
  <1>4. b >= m
    BY <1>2, <1>3
  <1>5. b * BlockPages >= m * BlockPages /\ b * BlockPages \in Nat
    BY <1>1, <1>4, MoreBlocks, TimesNat
  <1> QED
    BY <1>1, <1>2, <1>5

(* An upload does not end before it has read all of the flash: an answer   *)
(* without pages is the answer to a request for a block behind the flash,  *)
(* and the doubled size that GetApromSize finds is not less than it.       *)
THEOREM UploadsAreComplete == Spec => UploadIsComplete
  <1>1. PipeIInv /\ ReplyIInv /\ [Next]_vars
            => [host = "upload" /\ host' = "done" => block * BlockPages >= FlashPages]_vars
    <2> SUFFICES ASSUME PipeIInv, ReplyIInv, [Next]_vars, host = "upload", host' = "done"
                 PROVE  block * BlockPages >= FlashPages
      OBVIOUS
    <2>1. stage = "done" /\ got = << >>
      <3>1. HostGoesOn
        BY DEF Next, Transfer, ClassRequest, GetStatus, GetStatusWrites, WritePage, GetState, Download, Detach,
               Abort, ClearStatus, Upload, Pipe, Ask, HostStart, HostStop, BusReset, Restart, vars, hostVars
      <3> QED
        BY <3>1 DEF HostGoesOn, Succeeded, Refused, AfterStatus, AfterUpload
    <2>2. request = Msg("DFU_UPLOAD", block, BlockPages)
      BY <2>1 DEF PipeIInv, Asked, RequestOfHost
    <2>3. request.bRequest = "DFU_UPLOAD" /\ request.wValue = block
      BY <2>2 DEF Msg
    <2>4. block > LastBlock
      BY <2>1, <2>3 DEF ReplyIInv, Told
    <2> QED
      BY <2>4, BehindLast DEF PipeIInv, HostTypes
  <1> QED
    BY <1>1, PipeInvariance, ReplyInvariance, PTL DEF Spec, UploadIsComplete
=============================================================================
