# A verified model of the creator-pad firmware

TLA+ modules, TLC configurations and TLAPS proofs for the firmware in `src/`:
the event-driven application of the Devine EZ-Creator pad (Nuvoton NUC123,
Cortex-M0, no operating system) and its DFU bootloader. Paths below are those of
the sources: `core/` and `drivers/` stand for `src/src/application/core/src/` and
`src/src/application/drivers/src/`, `loader/` for `src/src/loader/`.

Contents: [the system](#the-system), [modules](#modules), [runs](#runs),
[fairness](#fairness), [proofs](#proofs), [what the models leave
out](#what-the-models-leave-out), [disagreements](#disagreements-with-the-code),
[plan](#plan).

## The system

One main loop and a few interrupts. Interrupt handlers and event handlers call
`event_publish`; the main loop takes the events from a ring buffer, calls the
handlers that subscribed, and sleeps when there is nothing left. SysTick runs at
the lowest interrupt priority; USB, ADC and PWM interrupt it as well as the main
loop. The only protection is PRIMASK, set by the critical section.

| component | state | operations | talks to | hard because |
|---|---|---|---|---|
| Event queue: `core/scheduler.c`, `core/rbuff.c`, `critical_section.h` | ring buffer `in`, `out`, `size`, memory; PRIMASK | `scheduler_init`, `event_publish`, the read in `scheduler_check_events` | every handler and interrupt | three contexts, no operation atomic by itself; overflow; initialised after interrupts are on |
| Handler table: `core/scheduler.c` | one array for all handlers, `index`/`len` per event, `index_free` | `event_subscribe`, `scheduler_space`, `scheduler_run_event` | all modules at start-up, the loop | insertion moves what is behind, and every index stored there must follow |
| Main loop: `scheduler_loop`, `drivers/systick.c` | the event being run, PRIMASK, `idle_flag` | check, run, idle, WFI | queue, interrupts | an interrupt between the last check and WFI |
| Cyclic tasks: `core/cyclic_tasks.c` | `last`, `counter` per class | handler of `EVENT_SYSTICK` | SysTick, the queue | the handler runs late, or for several ticks at once; a full queue refuses its event while the ticks count on |
| Keys, pads, LEDs: `keys.c`, `pads.c`, `led_toggle.c`, `leds.c` | scans and their memories, LED states | tasks on cyclic events, handlers of presses | queue, ADC values, the shell's `led` command | edges against repeated scans, hysteresis, presses lost to a full queue, LEDs set by the shell behind the back of `led_toggle.c` |
| Traces: `core/trace.c`, `drivers/analog_inputs.c`, `drivers/usb_out.c` | two buffers per input, transmit queue, transfer under way | ADC and PWM interrupts, `analog_inputs_task`, EP5 interrupt | USB host | buffers change hands between an interrupt and the main loop without critical section |
| Virtual COM port: `drivers/cdc_serial.c`, `core/shell.c` | two ring buffers, endpoint flags and sizes, line state | `VCOM_TransferData`, `EP2_Handler`, `EP3_Handler`, `_write`, `_read` | USB host, shell | acknowledgements between any two steps, repeated packets, open and close, zero-length packets, events refused by the full queue |
| Bootloader: `loader/dfu_transfer.c`, `fmc_user.c`, `main.c` | DFU state, request count, block, buffer, flash | DFU requests, page programming, size of the flash | control transfers, USB host | interrupted downloads, loss of power, one count for three states, pages that are not there |
| Programs: `core/programs.c`, `core/ttime.c`, `drivers/leds.c` | time accumulators, LED position, the row being driven | tasks on cyclic events | keys, bootloader, LED rows | sampled conditions over seconds, a display that is multiplexed while it changes |
| Shell commands, line editor (vendored) | none of their own; `led` writes the LEDs | formatting | COM port, LEDs | |
| USB control transfers: `loader/usbd_user.c`, `USBD_IRQHandler` | pointers and sizes of the two stages, toggles, address, stalls, one packet buffer for both endpoints | setup, IN and OUT events, bus reset, standard requests | host, class requests | a transfer abandoned at any packet, lost acknowledgements, state that outlives a transfer |
| Descriptors, clocks, pins, start-up, tools, OpenOCD scripts | constants | | | |

What makes each of them correct is listed with its module; the hazards, each at
its line, are in `PROJECT.json`.

## Modules

An action has the name of the function it models; a function that an interrupt
can split is split where it touches memory that the interrupt touches as well,
and has `pc` values in between. History variables (called so in their comments)
record what the code does not, and no guard reads them, but for named bounds.

**SchedulerEvents** — the events that queue and table have in common.
**EventFifo** — what the event queue promises: accept or refuse, and hand out
once each in order.
**EventQueue** — how it does it: `rbuff_put_byte` and `rbuff_get_byte` one memory
access at a time, in three contexts `main`, `systick`, `usb` with Cortex-M
preemption (`Running`), `critical_section_enter` and `_exit` with the value they
save and restore, and `rbuff_init` without them. `sz[c]` is the register that
holds a loaded `size` between load and store. `DrainedMeansDelivered` compares
what was accepted with what was handed out whenever the loop finds the queue
empty; `IndicesAgree` relates the two indices with the size; `FifoSpec` is the
refinement of EventFifo, `open`, `fifo` and `dropped` mapped to the boot state,
the occupied slots and `event_queue_full`. `QuietBoot` says whether a USB
interrupt may come within `rbuff_init`; the code does nothing against it.

**Subscriptions** — what the handler table promises: a list of handlers per event.
**EventTable** — the shared array: `InsertAt` is the `memmove`, `ShiftBehind` the
renumbering, `CallHandler` one turn of the loop, which reads `index` and `len`
again because the fields are volatile. `Separate`: intervals never overlap.
`SubscriptionsSpec`: the refinement. All of the code's modules subscribe at start-up;
`event_subscribe` may come between any two calls here, which includes that, and is
more than the code does.
The two have no variable in common, and **MC_Scheduler** lets one of them run while
the other stands still, as **MC_Vcom** does with the two halves of the COM port.

**EventLoop** — `scheduler_loop`: check, run, `systick_idle` with PRIMASK set around
WFI, interrupts that arrive, pend and are taken. A publication is one step here,
which EventQueue and its proof justify. Each queued event carries a count of how
often the processor has gone to sleep on it: `SleptOnOnce`.
**Controls** — extends EventLoop by the handlers of keys, pads and LEDs: what a
cyclic event's handlers publish is computed from the scans, and what they find
is published event by event into the queue that the interrupts fill.
`LedsFollowPresses` says that each press toggles its LED once, counting presses
by a history of its own (`up`: found released since the last press). `VCOM_Task`, which
runs on the same event as the checks, may wake the shell, and `shell_cmd_led_set` sets
a LED; the history `odd` counts the commands that changed one with the presses.
`PressesRun` says that no accepted press stays in the queue. `PressesUpto` is the loop of
`keys_check_task`. Every step of Controls is a step of EventLoop with its variables
updated beside it.

**CyclicTasks** — the tick that counts, is queued or refused, and is handled later;
`NeverEarly`, `OnSchedule`, and `RateKept`, which does not hold.
**Programs** — extends CyclicTasks by the event queue as a sequence of at most
`QueueSize` events, which refuses what it has no room for (`event_queue_full`), the two
handlers of class 0 (the scan of the keys, and `leds_task`, which drives the next
row of LEDs) and the two programs with their `ttime.c` accumulators. Each event's
handlers are one step and see the ticks there are by then; ticks come between any
two steps. `BootsWhenHeld` relates the reset to the time between two checks (kept
by the histories `broken` and `checked`, which the code does not have). The time counts
from the last check that found the keys not held, which may be up to a period of the
checks before the press, and a release between two checks is seen by none.
`LightMoves` and `LightPace` are about the bank LEDs, `StepsAreSeen` about the
bank LEDs and the rows: no step of the light passes before its row has come
round, as long as the queue has refused nothing, and given that each row has a run
within a period of the light even if a queue full of ticks waits at its beginning
(`DisplayAssumption`; in the code 4 rows, 128 events and a period of 500 ticks). `PublishedUpto` is the
loop of `cyclic_tasks`, class by class. Every step of Programs is one of CyclicTasks
or leaves its variables alone (proved).

**TraceCapture** — two traces per input, `trace_put` in `ADC_IRQHandler`, the
queue, `analog_inputs_task` step by step, EP5. `TriggerInPlace` relates a
finished trace with the samples taken since its reset; `NothingStranded` the
traces' states with the queue and the trace being sent; `FrozenWhileSent` is the
action property that nothing is captured into a trace under way; `FinishedIsSent`
the liveness of it all. `QuietGet` says whether a sample may come within the
unprotected `rbuff_get_word`. Two branches of the code are named in comments and not
modelled, because nothing reaches them: the full queue in `Enqueue`, which has a slot for
each input, and the zero-length packet of `usb_out.c`, since 292 bytes of a trace are
no multiple of a packet.

**VcomSend**, **VcomReceive** — the two halves of `VCOM_TransferData`, which share
no state. Bytes are numbered in the order of their acceptance, so that "once and
in order" is equality with a run of consecutive numbers (`HostReadsStream`,
`ReceivedInOrder`). Sending has the line state, opening and closing, packets, the
zero-length packet (`TransfersEnd`); receiving has the data toggle, repeated
packets, bus resets, configuration and the refused event, and ends at
`VCOM_rx_buffer`: what `_read` makes of the bytes is [left
out](#what-the-models-leave-out). Its names begin with `Rx` where both halves have one.
`PacketsTaken`: a packet waits for ever only behind a buffer that was filled by packets
whose events were refused; `HostGoesOn`, which would have it never wait for ever, does
not hold.
`NewPacketsAccepted` is the converse of `ReceivedInOrder`: the toggle, which drops
repeated packets, drops no new one, but for the first after SET_CONFIGURATION,
which the USB library handles without telling `cdc_serial.c`. `QuietAck` says whether
an acknowledgement may come between the store of the size and the arming of the
endpoint.

**UsbControl** — the control pipe of the bootloader: the globals of `usbd_user.c`,
the two endpoints with their shared packet buffer, and the host's side of a
transfer. `TakeSetup` is what every request begins with; `CtrlIn` and `CtrlOut` are
the functions of that name, `NotSupported` the stall that
answers a descriptor there is not, and `HandleEndpoints` one call of the handler that finds
either or both. The host's transactions (`DataIn`, `StatusIn`, `DataOut`,
`StatusOut`) may lose their acknowledgement, once in a transfer, and are then
repeated with the same PID; the host may give up (`Timeout`), be stopped, or reset
the bus. No specification of its own: Dfu composes these steps.
**Dfu** — the DFU requests over UsbControl, with a host that keeps to the protocol,
started and stopped at any point, enumeration requests in between, and a device
that may lose power at any point. `GetStatusWrites` and `WritePage` are the request
that programs the block, page by page; `Polled` is the cascade of three `if`s in
one request; `ApromPages` is the loop of `GetApromSize`. `ConfirmedIsFlashed`: what
the host takes for programmed is; `OnlyTheImage`: nothing else is written;
`AnswerInPlace`: what the host has read answers its request and no other;
`TimeoutsExplained`: the device leaves the host waiting only after a lost
acknowledgement, for the status stage that DFU_CLRSTATUS does not have, and for data
that it has refused for its state, with no endpoint prepared; `UploadIsComplete`: an
upload ends behind the flash, not before; `DownloadsFinish`: the host is not left
polling for ever. `SuccessMeansInstalled`, that a host which comes to the end of its
download has its image in the flash, does not hold for an image that does not fit.
What the model assumes of the host: SETUP is sent when the handler has seen the
packets before it (`main` calls the handler every few microseconds); and of the
controller: it answers NAK between SETUP and the handler's answer. Between two pages
of `WriteData` only the host moves.

**EventQueueProofs**, **EventTableProofs**, **EventLoopProofs** (EventLoop and Controls),
**ProgramsProofs** (CyclicTasks and Programs), **TraceCaptureProofs**,
**VcomSendProofs**, **VcomReceiveProofs**, **DfuProofs** — below. The `MC_*` modules give the constants their values.

## Runs

| run | states | bounds, and why they are enough | shows |
|---|---|---|---|
| `scheduler` | 97,228 | 3 events, one per context; 2 slots: full, empty, wrapped and overflowing within three publications; 2 refusals; 2 handlers, 5 places in the table: an interval in front, between and behind, grown in any order | no preemption at any memory access tears, loses or repeats an event; one list of handlers per event |
| `event_queue_boot` | violated | the queue, a USB interrupt within `rbuff_init` | an accepted event that is never run |
| `controls` | 358,938 | one key, one pad, tick and USB, a command to the shell, 3 slots, so that one tick's events overflow the queue | presses and LEDs, the sleep |
| `cyclic_tasks` | 4,590,163 | 3 classes of periods 3, 3, 6 and offsets 2, 1, 0, two of them with programs; keys held for 5 ticks, a step in 2; a queue of 2, which two ticks, or the classes of one, fill, so that the third is refused; 14 ticks: two periods of the slowest class, several attempts at the combination; 2 rows of LEDs, which with 2 events is as many as `DisplayAssumption` allows for a light that moves every 3 ticks | schedule, late runs and refused ticks, the combination, the light and its display; stops at the last tick or the reset, so deadlock is not checked |
| `cyclic_tasks_rate` | violated | the same | delays add up |
| `trace_capture` | 38,294 | 2 inputs, 3 samples with 2 before the trigger, 2 slots, 2 packets: both inputs finish while either is sent | hand-over of buffers |
| `trace_capture_race` | violated | the same, a sample within `rbuff_get_word` | a queued trace is not counted |
| `vcom` | 19,964 | packets of 2, buffers of 4, numbers modulo 7: more than can be under way; two full packets fill the receive buffer and a third waits | the stream to the host; the stream to the receive buffer, repeated and new packets |
| `vcom_send_ack` | violated | the sending half, an acknowledgement within the preparation of a packet | an unread packet is overwritten |
| `vcom_receive_refused` | violated | the receiving half | the host is blocked behind a buffer nobody is told of |
| `dfu` | 636,134 | blocks of 2 pages and 2 packets, a flash of 3 pages that is taken for 4 (2, doubled once); images of 1 (a short block), 3 (a full one and a short one) and 4 pages (one that is not there); 2 polls instead of 5: one that counts only and one that acts; one lost acknowledgement in a transfer | downloads, uploads, and what interrupts them |
| `dfu_too_large` | violated | the same, an image of 4 pages only | the host is told of success with a page missing |

Every property of a passing run is violated by at least one mutant, a definition
next to the one it would replace with what a plausible mistake would make of it.

Bounds that guard actions: `MaxDropped` (refused publications), `MaxTicks` (ticks),
`Untouched` (Dfu: uploads and requests besides those of a download come before the
flash is written for the first time, or, an upload, after a download), `IdleMod`,
`TxMod`, `RxMod` (counters and numbers that wrap). No bound keeps a queue from filling
up or an event from being refused.

## Fairness

- EventLoop, Controls: the processor executes (`WF` of the main loop), takes an
  interrupt that is pending and unmasked, and SysTick keeps ticking. Nothing is
  assumed of USB, the ADC or the user.
- TraceCapture: converter and PWM are free-running hardware; the task runs on every
  tick (`controls` shows that queued events are run); the host reads EP5, because
  it is what a host that captures traces does.
- VcomSend: the task runs on every tick; the host reads what EP2 offers.
- VcomReceive: the task as before, and `SF` of `shell_input`: its event, once queued,
  is run, while the task's own steps interrupt its being enabled. That an event is ever
  accepted is not assumed.
- Dfu: a host that was started goes on, or is stopped, and the device answers. One
  acknowledgement at most is lost in a transfer, so that a repetition arrives; USB
  gives up after three.

EventQueue, EventTable, CyclicTasks and Programs have safety properties only.

## Proofs

For every value of the constants that the modules' assumptions allow:

- **EventQueueProofs**, for a boot that no interrupt disturbs (`QuietBoot`):
  `Invariance` (`IInv`), `IndicesNeverTorn`, `Refinement` (EventQueue implements
  EventFifo), `NothingLost`. `DrainedMeansDelivered` is not inductive, and neither
  is the agreement of the indices: a put is three steps. `IInv` adds where each
  context can be (`Placement`), that whoever is in a critical section is alone and
  masks the others (`Exclusion`), what each point of a put or a get knows of
  `size` and the slot it is about to touch (`PutKnows`, `GetKnows`), and how far
  the write index is ahead of the read index at each of them (`IndicesMatch`).
  The refinement takes effect at the store of `size`; every other step stutters.
- **EventTableProofs**: `Invariance`, `NeverOverlap`, `Refinement`. `TableIInv` adds to
  `Separate` that the used part has no holes, that events without handlers have
  index 0, which is why `>` in the renumbering leaves them alone, and that the
  calls made so far are the beginning of the list.
- **EventLoopProofs**: `LoopInvariance`, `NeverSleptOnTwice`, `RunsEventLoop`. An event
  that comes between the last check of the queue and WFI is slept on;
  `FreshBeforeSleep` says that whatever is in the queue when the loop goes to sleep
  has come since that check, so that the sleep is its first. Controls implements
  EventLoop, so that this holds of the keys and pads, too.
  Controls' own: `ControlsInvariance`, `ControlsTypes`, `PressesToggle`. That a press
  toggles its LED once becomes inductive with the presses that still wait, in the queue
  or to be published by the handler that runs: the LED is on exactly if the number of
  presses that were accepted, less those waiting, and of the shell's commands
  that changed it, is odd (`Follows`; `CommandFollows` is the step of the command). It needs that the memory
  of a check is what the last check found (`Remembered`), that nothing waits to be
  published while no handler runs (`NothingToDo`), and that the loop of
  `keys_check_task` publishes the event of each control that is newly pressed, once
  (`PressesUptoOnce`). `PressesAssumption`: the events of the presses are
  distinct, as enumerators of `enum events` are, and nobody but the checks of
  `keys.c` and `pads.c` publishes them.
- **ProgramsProofs**: first CyclicTasks, `Invariance`, `NoClassEarly`, `Punctual`. A class
  is never considered run before it was published (`fired <= last`), which is why the
  correction cannot shorten a period. `Punctual` needs a second invariant that ties
  `counter` to the quotient of ticks and period (`Phase`). `RunsCyclicTasks` carries them over to
  Programs.
  `BootInvariance`, `BootOnHold`, `LightInTime`, `LightToAndFro`: `BootIInv` says that the
  accumulator is the time from the last check that found the keys not held to the last
  check of all, which makes `BootsWhenHeld` inductive. `LightIInv` adds to `LightPace`
  that the accumulator belongs to the time of the last call (`Paid`) and where the
  light may be for each direction (`Walks`). In these the queue plays no part: they
  hold for any order of the events.
  `ProgramsTypes`: the queue holds one event of SysTick for each tick that it has
  accepted and the handler has not seen, and never more than `QueueSize` events
  (`QueueIInv`, `RoomFor`), because the handler publishes events of classes and no other
  (`PublishedClasses`).
  `ProgramsInvariance`, `EveryStepSeen`: here the order in the queue is everything, and
  all of it holds until the first refusal only, which may be that of a row.
  `SeenIInv` cuts the queue at the event of the light, which is in it at most once:
  what stands before it drives all rows that have not been driven since the last
  step (`Awaits`), and holds no more ticks than have come since it was published; while
  it is not in the queue, every tick that was handled since has driven a row or has a
  row's event waiting. An event of the light is published `Time` ticks after the one
  before, of which no more are unhandled than the queue holds, and the rest suffice for the rows:
  that is `DisplayAssumption`, and it is tight in the run.
- **TraceCaptureProofs**, for a system in which no sample arrives within
  `rbuff_get_word` (`QuietGet`; `trace_capture_race` shows what happens otherwise):
  `TraceInvariance`, `TraceTypes`, `TriggerWhereItBelongs`, `NothingIsStranded`,
  `NotChangedWhileSent`. That a trace under way is not captured into needs to know
  who owns which trace: `TraceIInv` says that the two traces of an input only change
  places (`Pairs`), that whatever waits on the queue or is being sent is a finished
  backup (`InHand`), that every finished backup is one of the two (`NoneForgotten`),
  that no trace waits twice, also between the store of `size` and the read of the
  slot (`Ring`), where the task holds a trace (`Points`) and how far each trace has
  been captured (`Captures`). Only backups wait, at most one per input, so that an
  input with something to hand over always finds a slot: `rbuff_put_word` never
  drops a trace if the queue has a slot for each input.
- **VcomSendProofs**: `SendTypes`, whenever acknowledgements come; `PortInvariance` and
  `HostReadsAll` if none comes within the preparation of a packet (`QuietAck`;
  `vcom_send_ack` shows what happens otherwise). `PortIInv` adds to the types what
  `gu32TxSize` and the armed endpoint tell about the packet under way at each point of
  `VCOM_TransferData` (`Port`), and that, while the port is open, what the host reads
  next, what is in the endpoint and what is in the buffer are consecutive numbers
  (`InOrder`). Numbers count modulo
  `TxMod`, and `OutstandingBounds` shows that there are more of them than bytes under
  way, so that equal numbers are equal bytes.
- **VcomReceiveProofs**: `NewAccepted`: unless the host repeats a packet or has
  configured the device anew, its next PID is not the one the device saw last.
  `StreamInvariance`, `ReceiveTypes`, `BufferKeepsOrder`: from the receive buffer to the
  packet the host sends next, the numbers are consecutive (`InOrder`); a packet that is repeated
  is one the device has seen (`RepeatsSeen`), and it is known who has the packet in
  the endpoint's buffer, the interrupt, the task or nobody (`Handshake`).
- **DfuProofs**, in layers, each relying on the invariants before it.
  `DfuInvariance`, `OnlyTheImageWritten`: the page that `WriteData` is at lies in the
  block announced last (`WritesInBlock`), and every block that was announced, or asked
  for in a request that the handler has not yet seen, lies in the image
  (`BlocksInImage`). The control pipe plays no part but that it never invents a request.
  `PipeInvariance`, `DfuTypesHold`: what the host asks for in each of its states, which
  events may be pending together (`Order`), what belongs to the request in progress
  (`Asked`), which packet may still arrive (`Pending`), and that the pipe stands still
  while a block is programmed (`Writing`).
  `ReplyInvariance`, `AnswersInPlace`: what the host has read and what EP0 still holds
  are together the answer that the handler has prepared. The toggle is related with
  the number of packets loaded and read (`Paged`), so that a packet is read again, or
  dropped, exactly when its acknowledgement was lost.
  `UploadsAreComplete`: an answer without pages is the answer to a block behind the
  size that `GetApromSize` has found, which is at least the flash's. That the loop
  ends, and with a size of whole blocks, is proved by induction over its turns
  (`ApromSize`); it needs that the smallest size is one of whole blocks (2 KB, blocks
  of 1 KB).
  `InstallInvariance`, `ConfirmedInFlash`: the same for the data that the host sends:
  the pages of its block that are in the buffer, or arriving, are in their places
  (`DataStage`, `Taken`), the block that is being programmed is the one the host waits
  for (`Programs`), and what was confirmed before stays in the flash (`Confirmed`).
  `WaitInvariance`, `TimeoutsAreExplained`: device and host agree on the address unless
  an acknowledgement was lost or the handler has yet to see an event that will make
  them (`AddressAgrees`), and a host that waits either has an
  endpoint prepared for it or an event pending at the handler (`Prompt`,
  `DownloadPrompt`).

So every invariant and every action property of a passing run is a theorem, and so
are the two refinements.

Recursive definitions are functions over an interval of numbers (`PressesUpto`,
`PublishedUpto`, the sizes of `ApromPages`). That such a function exists
(`PressesUptoUnfolds`, `PublishedUptoUnfolds`, `DoublingUnfolds`), and what it computes,
is proved from the least element of a set of numbers (`LeastNumber`, `Induction`), which is
cited from the library's theorem on well-founded relations as a fact about sets: the
library's induction rules, which have operators as parameters, are not used.

Only model-checked: the liveness properties (`PressesRun`, `FinishedIsSent`,
`EveryByteSent`, `TransfersEnd`, `PacketsTaken`, `DownloadsFinish`), since fairness and
ENABLED are out of the prover's reach. The six violated properties are false, and
their runs show why.

## What the models leave out

- The values of samples, bytes, keys' names, the text of the shell, descriptors,
  clocks, pins and diagnostic counters: no property is about them.
- `idle_time_*`, the measurement of the processor load: `cpu_load_task` records and
  prints it, and nothing depends on it.
- SET_FEATURE, CLEAR_FEATURE and vendor requests of the control pipe, suspend and
  resume; the bus reset while the device sends (EP2, EP5), whose effect on an armed
  endpoint the sources do not settle; the line coding of the COM port.
- The blinking and the debouncing of the key in the bootloader's `main.c`: the reset by
  that key is a `Restart` between two calls of the handler. Image sizes that are not
  whole pages: a page of the model is what is erased at once, its words are programmed
  in order and a loss of power leaves all of it erased.
- `powerdown_task`, `VCOM_Send`: called by nobody.
- `_read` (`cdc_serial.c:479-494`), which empties `VCOM_rx_buffer` for the line editor: it
  stores each byte at the place of the first, so that the editor gets the last byte of a
  call and otherwise what was in its memory. `shell_input` models that the buffer is
  emptied; no property says that the shell gets what was received.
- DFU_UPLOAD of no bytes (`dfu_transfer.c:224-228`): the modelled host never asks for it.
- What a unit test would show as well: `_write` drops the bytes that find the buffer
  full and returns their number all the same; `keys_diagnostic_task` compares with a memory that `keys_check_task` has
  just updated and prints nothing.
- 32-bit overflow of `systick_ticks` (50 days): differences are computed modulo
  2^32, as the unbounded numbers of the model would be.

## Disagreements with the code

Each is the violated property of a run; the counterexample is the scenario.

- `event_queue_boot`: `scheduler_init` clears the queue with the USB interrupt
  enabled (`scheduler.c:56`, `main.c:42`). A publication between the stores leaves
  `in` and `size` apart, and every later event is handed out one publication late.
- `cyclic_tasks_rate`: the "Correction" of `cyclic_tasks.c:60` has the wrong sign; a
  late run delays all that follow.
- `trace_capture_race`: `analog_inputs.c:203` reads the queue that the ADC interrupt
  writes, without critical section: a trace queued between its load and its store of
  `size` is not counted. It stays in the slot that `out` points at, and its input does
  not exchange its buffers, until another input queues a trace; from then on each trace
  is handed out one publication late.
- `vcom_send_ack`: `cdc_serial.c:427` records the size before the endpoint is armed;
  the acknowledgement of a zero-length packet in between clears it, and the next
  tick overwrites a packet that the host has not read.
- `vcom_receive_refused`: `cdc_serial.c:453` publishes the shell's event once for each
  packet and does not look whether the queue took it. If the packets whose events were
  refused fill the buffer, the next packet never fits, nothing publishes the event
  again, and the host is blocked until the device is reset.
- `dfu_too_large`: `dfu_transfer.c:179-180` ignores that `WriteData` failed, and the status
  stays OK; a host whose image has more pages than the flash is told that it is installed.

## Plan

Done: SchedulerEvents, EventFifo, EventQueue, Subscriptions, EventTable, EventLoop, Controls,
CyclicTasks, Programs, TraceCapture, VcomSend, VcomReceive, UsbControl, Dfu; the
proofs above.

Next, in this order:

1. `_read` and the input of the line editor, with what the editor's memory holds.
2. A bus reset in VcomSend and TraceCapture, with the endpoints' configuration;
   suspend and resume.
3. A byte stream as the abstract specification of the two directions of the COM port,
   and an atomic "install" for the download, refined with the invariants above
   (`PortIInv`, `StreamIInv`, `InstallIInv`).
4. The load measurement of `systick.c` with the wrapping counter.
