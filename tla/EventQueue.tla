----------------------------- MODULE EventQueue -----------------------------
(***************************************************************************)
(* The event queue of scheduler.c as its three contexts use it: the main   *)
(* loop (thread mode), SysTick_Handler (lowest interrupt priority, set by  *)
(* SysTick_Config) and USBD_IRQHandler (default priority, so it preempts   *)
(* both).  The ring buffer operations of rbuff.c are split at their memory *)
(* accesses, because none of them is atomic: what keeps them whole is the  *)
(* critical section, PRIMASK, that event_publish and                       *)
(* scheduler_check_events hold around them.  rbuff_init, called by         *)
(* scheduler_init, is split the same way and holds no critical section.    *)
(***************************************************************************)
EXTENDS SchedulerEvents, Integers, Sequences

CONSTANTS
    TickEvent,      \* EVENT_SYSTICK
    UsbEvent,       \* EVENT_USB
    HandlerEvents,  \* what event handlers publish
    QueueSize,      \* EVENT_QUEUE_SZ
    QuietBoot,      \* TRUE: no USB interrupt arrives within rbuff_init
    MaxDropped      \* bound on event_queue_full

ASSUME QueueSizeAssumption == QueueSize \in Nat \ {0}
ASSUME EventsAssumption ==
    /\ TickEvent \in Events
    /\ UsbEvent \in Events
    /\ HandlerEvents \subseteq Events
ASSUME BoundAssumption == QuietBoot \in BOOLEAN /\ MaxDropped \in Nat

VARIABLES
    primask,            \* 1: interrupts are disabled
    pc,                 \* where each context is; "off": handler not active
    pmask,              \* local of each context: what critical_section_enter returned
    pub,                \* argument of each context's event_publish
    sz,                 \* register of each context holding a loaded event_queue.size
    m, max, in, out, size,  \* struct rbuff event_queue
    event,              \* local of scheduler_check_events
    event_queue_full,   \* refused publications
    owed                \* history: publications accepted minus deliveries, per event

queueVars == <<m, max, in, out, size>>
vars == <<primask, pc, pmask, pub, sz, queueVars, event, event_queue_full, owed>>

-----------------------------------------------------------------------------
(* Contexts and preemption *)

Contexts == {"main", "systick", "usb"}

Priority == [main |-> 0, systick |-> 1, usb |-> 2]

Active(c) == pc[c] # "off"

\* The processor runs c: nothing of higher priority is active.
Running(c) ==
    /\ Active(c)
    /\ \A d \in Contexts : Priority[d] > Priority[c] => ~Active(d)

\* Control points of rbuff_init within scheduler_init.
InitWindow == {"init_in", "init_out", "init_size"}

\* Control points inside the critical section.
PutPoints == {"put_check", "put_write", "put_size", "put_full", "put_exit"}
GetPoints == {"get_check", "get_size", "get_read", "get_exit", "get_none"}
Locked == PutPoints \cup GetPoints

Labels == {"off", "boot", "poll", "run", "publish"} \cup InitWindow \cup Locked

Goto(c, label) == pc' = [pc EXCEPT ![c] = label]

-----------------------------------------------------------------------------
(* rbuff.c: in and out advance by "++" and "&= max-1", max a power of two *)

Advance(i) == IF i + 1 = QueueSize THEN 0 ELSE i + 1

\* The slot k places after the start of the memory, k < 2 * max.
Slot(k) == IF k < QueueSize THEN k ELSE k - QueueSize

Init ==
    /\ primask = 0
    /\ pc = [main |-> "boot", systick |-> "off", usb |-> "off"]
    /\ pmask = [c \in Contexts |-> 0]
    /\ pub = [c \in Contexts |-> NoEvent]
    /\ sz = [c \in Contexts |-> 0]
    /\ m = [i \in 0 .. QueueSize - 1 |-> NoEvent]
    /\ max = 0 /\ in = 0 /\ out = 0 /\ size = 0
    /\ event = NoEvent
    /\ event_queue_full = 0
    /\ owed = [e \in Events \cup {NoEvent} |-> 0]

\* rbuff_init: buffer->m and buffer->max, then rbuff_clear's three stores.
InitMax ==
    /\ Running("main")
    /\ pc["main"] = "boot"
    /\ max' = QueueSize
    /\ Goto("main", "init_in")
    /\ UNCHANGED <<primask, pmask, pub, sz, m, in, out, size, event, event_queue_full, owed>>

InitIn ==
    /\ Running("main")
    /\ pc["main"] = "init_in"
    /\ in' = 0
    /\ Goto("main", "init_out")
    /\ UNCHANGED <<primask, pmask, pub, sz, m, max, out, size, event, event_queue_full, owed>>

InitOut ==
    /\ Running("main")
    /\ pc["main"] = "init_out"
    /\ out' = 0
    /\ Goto("main", "init_size")
    /\ UNCHANGED <<primask, pmask, pub, sz, m, max, in, size, event, event_queue_full, owed>>

\* With the last store scheduler_init goes on to systick_init and the loop.
InitSize ==
    /\ Running("main")
    /\ pc["main"] = "init_size"
    /\ size' = 0
    /\ Goto("main", "poll")
    /\ UNCHANGED <<primask, pmask, pub, sz, m, max, in, out, event, event_queue_full, owed>>

scheduler_init == InitMax \/ InitIn \/ InitOut \/ InitSize

-----------------------------------------------------------------------------
(* Interrupts: each handler reaches event_publish with its own event *)

InterruptEnter(c, e) ==
    /\ primask = 0
    /\ ~Active(c)
    /\ \A d \in Contexts : Priority[d] > Priority[c] => ~Active(d)
    /\ event_queue_full < MaxDropped
    /\ Goto(c, "publish")
    /\ pub' = [pub EXCEPT ![c] = e]
    /\ UNCHANGED <<primask, pmask, sz, queueVars, event, event_queue_full, owed>>

\* SysTick_Config runs after rbuff_init, so the tick cannot hit the window.
SysTick_Handler ==
    /\ pc["main"] \notin {"boot"} \cup InitWindow
    /\ InterruptEnter("systick", TickEvent)

\* main() enables the USB interrupt long before scheduler_init.
USBD_IRQHandler ==
    /\ QuietBoot => pc["main"] \notin InitWindow
    /\ InterruptEnter("usb", UsbEvent)

-----------------------------------------------------------------------------
(* event_publish *)

\* A handler called by scheduler_run_event publishes an event of its own.
HandlerPublish(e) ==
    /\ Running("main")
    /\ pc["main"] = "run"
    /\ event_queue_full < MaxDropped
    /\ Goto("main", "publish")
    /\ pub' = [pub EXCEPT !["main"] = e]
    /\ UNCHANGED <<primask, pmask, sz, queueVars, event, event_queue_full, owed>>

\* Mutant: __disable_irq() forgotten.
EnterUnmasked(c, from, to) ==
    /\ Running(c)
    /\ pc[c] = from
    /\ pmask' = [pmask EXCEPT ![c] = primask]
    /\ primask' = primask
    /\ Goto(c, to)
    /\ UNCHANGED <<pub, sz, queueVars, event, event_queue_full, owed>>

\* PRIMASK is read and interrupts are disabled: an interrupt between the two
\* returns with PRIMASK as it was, so they are one step.
critical_section_enter(c, from, to) ==
    /\ Running(c)
    /\ pc[c] = from
    /\ pmask' = [pmask EXCEPT ![c] = primask]
    /\ primask' = 1
    /\ Goto(c, to)
    /\ UNCHANGED <<pub, sz, queueVars, event, event_queue_full, owed>>

\* Mutant: __enable_irq() is conditional on the wrong value of pmask.
ExitStaysMasked(c, from, to) ==
    /\ Running(c)
    /\ pc[c] = from
    /\ primask' = IF pmask[c] = 1 THEN 0 ELSE primask
    /\ Goto(c, to)
    /\ UNCHANGED <<pmask, pub, sz, queueVars, event, event_queue_full, owed>>

critical_section_exit(c, from, to) ==
    /\ Running(c)
    /\ pc[c] = from
    /\ primask' = IF pmask[c] = 0 THEN 0 ELSE primask
    /\ Goto(c, to)
    /\ UNCHANGED <<pmask, pub, sz, queueVars, event, event_queue_full, owed>>

\* Mutant: event_publish has no critical section of its own in a handler.
PutEnterHandlerUnmasked(c) ==
    IF c = "main" THEN critical_section_enter(c, "publish", "put_check")
                  ELSE EnterUnmasked(c, "publish", "put_check")

PutEnter(c) == critical_section_enter(c, "publish", "put_check")

PutCheck(c) ==
    /\ Running(c)
    /\ pc[c] = "put_check"
    /\ Goto(c, IF size < max THEN "put_write" ELSE "put_full")
    /\ UNCHANGED <<primask, pmask, pub, sz, queueVars, event, event_queue_full, owed>>

\* p[in] = e; in++; in &= max-1; and the load of size++.
PutWrite(c) ==
    /\ Running(c)
    /\ pc[c] = "put_write"
    /\ m' = [m EXCEPT ![in] = pub[c]]
    /\ in' = Advance(in)
    /\ sz' = [sz EXCEPT ![c] = size]
    /\ Goto(c, "put_size")
    /\ UNCHANGED <<primask, pmask, pub, max, out, size, event, event_queue_full, owed>>

\* The store of size++.
PutSize(c) ==
    /\ Running(c)
    /\ pc[c] = "put_size"
    /\ size' = sz[c] + 1
    /\ owed' = [owed EXCEPT ![pub[c]] = @ + 1]
    /\ Goto(c, "put_exit")
    /\ UNCHANGED <<primask, pmask, pub, sz, m, max, in, out, event, event_queue_full>>

PutFull(c) ==
    /\ Running(c)
    /\ pc[c] = "put_full"
    /\ event_queue_full' = event_queue_full + 1
    /\ Goto(c, "put_exit")
    /\ UNCHANGED <<primask, pmask, pub, sz, queueVars, event, owed>>

\* Back in the handler that published, or out of the interrupt.
PutExit(c) ==
    critical_section_exit(c, "put_exit", IF c = "main" THEN "run" ELSE "off")

event_publish(c) ==
    \/ PutEnter(c) \/ PutCheck(c) \/ PutWrite(c)
    \/ PutSize(c) \/ PutFull(c) \/ PutExit(c)

-----------------------------------------------------------------------------
(* scheduler_check_events: rbuff_get_byte decrements size first *)

GetEnter == critical_section_enter("main", "poll", "get_check")

GetCheck ==
    /\ Running("main")
    /\ pc["main"] = "get_check"
    /\ sz' = [sz EXCEPT !["main"] = size]
    /\ Goto("main", IF size > 0 THEN "get_size" ELSE "get_none")
    /\ UNCHANGED <<primask, pmask, pub, queueVars, event, event_queue_full, owed>>

\* Mutant: the critical section covers the size and not the slot.
GetSizeLeaves ==
    /\ Running("main")
    /\ pc["main"] = "get_size"
    /\ size' = sz["main"] - 1
    /\ primask' = 0
    /\ Goto("main", "get_read")
    /\ UNCHANGED <<pmask, pub, sz, m, max, in, out, event, event_queue_full, owed>>

GetSize ==
    /\ Running("main")
    /\ pc["main"] = "get_size"
    /\ size' = sz["main"] - 1
    /\ Goto("main", "get_read")
    /\ UNCHANGED <<primask, pmask, pub, sz, m, max, in, out, event, event_queue_full, owed>>

GetRead ==
    /\ Running("main")
    /\ pc["main"] = "get_read"
    /\ event' = m[out]
    /\ out' = Advance(out)
    /\ owed' = [owed EXCEPT ![m[out]] = @ - 1]
    /\ Goto("main", "get_exit")
    /\ UNCHANGED <<primask, pmask, pub, sz, m, max, in, size, event_queue_full>>

GetExit == critical_section_exit("main", "get_exit", "run")

\* The queue was empty: the loop breaks, idles and polls again.
GetNone == critical_section_exit("main", "get_none", "poll")

\* The handlers of the event have returned.
RunDone ==
    /\ Running("main")
    /\ pc["main"] = "run"
    /\ Goto("main", "poll")
    /\ UNCHANGED <<primask, pmask, pub, sz, queueVars, event, event_queue_full, owed>>

scheduler_check_events ==
    GetEnter \/ GetCheck \/ GetSize \/ GetRead \/ GetExit \/ GetNone \/ RunDone

-----------------------------------------------------------------------------

Next ==
    \/ scheduler_init
    \/ SysTick_Handler
    \/ USBD_IRQHandler
    \/ \E e \in HandlerEvents : HandlerPublish(e)
    \/ \E c \in Contexts : event_publish(c)
    \/ scheduler_check_events

Spec == Init /\ [][Next]_vars

-----------------------------------------------------------------------------
(* Properties *)

Booted == pc["main"] \notin {"boot"} \cup InitWindow

\* What the queue holds for the outside: an event counts as published with
\* the store of size, and as taken with the read that follows its decrement.
Held == size + (IF pc["main"] = "get_read" THEN 1 ELSE 0)
Contents == [i \in 1 .. Held |-> m[Slot(out + i - 1)]]

Fifo == INSTANCE EventFifo WITH
            Capacity <- QueueSize, open <- Booted, fifo <- Contents,
            dropped <- event_queue_full

(* The variables have their types (scheduler.c, rbuff.h).                  *)
TypeOK ==
    /\ primask \in {0, 1}
    /\ pc \in [Contexts -> Labels]
    /\ pmask \in [Contexts -> {0, 1}]
    /\ pub \in [Contexts -> Events \cup {NoEvent}]
    /\ sz \in [Contexts -> 0 .. QueueSize]
    /\ m \in [0 .. QueueSize - 1 -> Events \cup {NoEvent}]
    /\ max \in {0, QueueSize}
    /\ in \in 0 .. QueueSize - 1
    /\ out \in 0 .. QueueSize - 1
    /\ size \in 0 .. QueueSize
    /\ event \in Events \cup {NoEvent}
    /\ event_queue_full \in Nat
    /\ owed \in [Events \cup {NoEvent} -> Int]

(* When scheduler_check_events finds the queue empty, every publication it *)
(* accepted has been handed to the handlers, and nothing else has: what    *)
(* test_scheduler_basic expects of publish followed by check_events.       *)
DrainedMeansDelivered ==
    pc["main"] = "get_none" => \A e \in Events \cup {NoEvent} : owed[e] = 0

(* Between operations the write index stands size slots after the read     *)
(* index: a torn rbuff operation would leave the two apart for good.       *)
IndicesAgree ==
    Booted /\ (\A c \in Contexts : pc[c] \notin Locked) => in = Slot(out + size)

(* event_publish and scheduler_check_events are atomic and first-in        *)
(* first-out whatever preempts what: the queue implements EventFifo.       *)
FifoSpec == Fifo!Spec

-----------------------------------------------------------------------------
(* The inductive invariant of a boot that no interrupt disturbs *)

\* Only main initialises, polls and dispatches; a handler only publishes.
Placement ==
    /\ pc["main"] \in {"boot", "poll", "run", "publish"} \cup InitWindow \cup Locked
    /\ \A c \in Contexts \ {"main"} : pc[c] \in {"off", "publish"} \cup PutPoints

\* PRIMASK is set by exactly the one context inside a critical section, and
\* that context is the one the processor runs.
Exclusion ==
    /\ primask = 1 => \E c \in Contexts : pc[c] \in Locked
    /\ \A c \in Contexts : pc[c] \in Locked =>
          /\ primask = 1
          /\ pmask[c] = 0
          /\ \A d \in Contexts \ {c} :
                /\ pc[d] \notin Locked
                /\ Priority[d] > Priority[c] => ~Active(d)

\* A queue that is not open is empty, and no handler is inside rbuff_init.
BootState ==
    /\ ~Booted => in = 0 /\ out = 0 /\ size = 0 /\ pc["systick"] = "off"
    /\ pc["main"] \in InitWindow => pc["usb"] = "off"
    /\ max = IF pc["main"] = "boot" THEN 0 ELSE QueueSize

\* What each point of rbuff_put_byte knows.
PutKnows(c) ==
    /\ pc[c] \in PutPoints \cup {"publish"} => pub[c] \in Events
    /\ pc[c] = "put_write" => size < max
    /\ pc[c] = "put_size" => sz[c] = size /\ size < max /\ m[Slot(out + size)] = pub[c]
    /\ pc[c] = "put_full" => size = max

\* What each point of rbuff_get_byte knows.
GetKnows ==
    /\ pc["main"] = "get_size" => sz["main"] = size /\ size > 0
    /\ pc["main"] = "get_read" => size < max
    /\ pc["main"] = "get_none" => size = 0

\* The slots between the indices: the contents, and the slot a put has
\* filled or a get is about to empty.
Between ==
    size + IF \/ pc["main"] = "get_read"
              \/ \E c \in Contexts : pc[c] = "put_size" THEN 1 ELSE 0
IndicesMatch == in = Slot(out + Between)

(* Everything the queue's correctness rests on: who may be where, who      *)
(* masks interrupts, and what each step of a put or a get relies on.       *)
IInv ==
    /\ TypeOK
    /\ Placement
    /\ Exclusion
    /\ BootState
    /\ \A c \in Contexts : PutKnows(c)
    /\ GetKnows
    /\ IndicesMatch
=============================================================================
