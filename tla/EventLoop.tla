------------------------------ MODULE EventLoop ------------------------------
(***************************************************************************)
(* scheduler_loop(): run the handlers of every queued event, then sleep in *)
(* systick_idle() until an interrupt.  A publication is one step here;     *)
(* that EventQueue makes it one is proved there.  What this module adds is *)
(* the loop itself, the masked sleep, and what the interrupts that arrive  *)
(* around it do.                                                           *)
(***************************************************************************)
EXTENDS Naturals, Sequences

CONSTANTS
    Events,     \* enum events
    NoEvent,    \* no event is being run
    Sources,    \* the interrupts that publish
    EventOf,    \* what each of them publishes
    Publishes,  \* Publishes[e]: the sequences that the handlers of e may publish
    QueueSize,  \* EVENT_QUEUE_SZ
    IdleMod     \* idle_missed wraps here: 2^32

ASSUME SourcesAssumption == "systick" \in Sources /\ EventOf \in [Sources -> Events]
ASSUME PublishesAssumption == Publishes \in [Events -> SUBSET Seq(Events)]
ASSUME BoundsAssumption == QueueSize \in Nat /\ IdleMod \in Nat \ {0}

VARIABLES
    pc,             \* of the main loop
    queue,          \* the queued events, each with how often it was slept on
    running,        \* the event whose handlers run
    todo,           \* what they have still to publish
    primask,        \* interrupts are disabled
    pending,        \* interrupts that wait for them to be enabled
    idle_flag,      \* the main loop has gone idle since the last tick
    idle_missed     \* ticks for which it had not

mainVars == <<pc, running, todo>>
vars == <<mainVars, queue, primask, pending, idle_flag, idle_missed>>

Init ==
    /\ pc = "check"
    /\ queue = << >>
    /\ running = NoEvent
    /\ todo = << >>
    /\ primask = 0
    /\ pending = {}
    /\ idle_flag = 0
    /\ idle_missed = 0

\* Mutant: the queue is full one event too late.
event_publish_past(e) ==
    queue' = IF Len(queue) <= QueueSize THEN Append(queue, [event |-> e, sleeps |-> 0])
                                        ELSE queue

\* event_publish: refused when the queue is full.
event_publish(e) ==
    queue' = IF Len(queue) < QueueSize THEN Append(queue, [event |-> e, sleeps |-> 0])
                                       ELSE queue

-----------------------------------------------------------------------------
(* Interrupts *)

\* The tick counts as missed when the loop was not idle since the last one.
TickIdle ==
    /\ idle_missed' = IF idle_flag = 0 THEN (idle_missed + 1) % IdleMod ELSE idle_missed
    /\ idle_flag' = 0

Handler(s) ==
    /\ event_publish(EventOf[s])
    /\ IF s = "systick" THEN TickIdle ELSE UNCHANGED <<idle_flag, idle_missed>>
    /\ UNCHANGED <<mainVars, primask>>

\* An interrupt is taken as it arrives, unless PRIMASK holds it back.
Arrive(s) ==
    \/ primask = 0 /\ pending = {} /\ Handler(s) /\ UNCHANGED pending
    \/ /\ primask = 1
       /\ pending' = pending \cup {s}
       /\ UNCHANGED <<mainVars, queue, primask, idle_flag, idle_missed>>

\* The held back interrupts are taken as soon as interrupts are enabled.
TakePending(s) ==
    /\ primask = 0
    /\ s \in pending
    /\ pending' = pending \ {s}
    /\ Handler(s)

Tick == Arrive("systick")

-----------------------------------------------------------------------------
(* scheduler_check_events *)

MainRuns == primask = 1 \/ pending = {}

\* Mutant: the loop idles after each event.
CheckOne ==
    /\ MainRuns
    /\ pc = "check"
    /\ IF queue = << >> \/ running # NoEvent
          THEN pc' = "idle" /\ running' = NoEvent /\ UNCHANGED <<queue, todo>>
          ELSE /\ pc' = "run"
               /\ running' = Head(queue).event
               /\ queue' = Tail(queue)
               /\ \E s \in Publishes[running'] : todo' = s
    /\ UNCHANGED <<primask, pending, idle_flag, idle_missed>>

\* Mutant: the ring is read at the wrong end.
CheckNewest ==
    /\ MainRuns
    /\ pc = "check"
    /\ IF queue = << >>
          THEN pc' = "idle" /\ running' = NoEvent /\ UNCHANGED <<queue, todo>>
          ELSE /\ pc' = "run"
               /\ running' = queue[Len(queue)].event
               /\ queue' = SubSeq(queue, 1, Len(queue) - 1)
               /\ \E s \in Publishes[running'] : todo' = s
    /\ UNCHANGED <<primask, pending, idle_flag, idle_missed>>

Check ==
    /\ MainRuns
    /\ pc = "check"
    /\ IF queue = << >>
          THEN pc' = "idle" /\ running' = NoEvent /\ UNCHANGED <<queue, todo>>
          ELSE /\ pc' = "run"
               /\ running' = Head(queue).event
               /\ queue' = Tail(queue)
               /\ \E s \in Publishes[running'] : todo' = s
    /\ UNCHANGED <<primask, pending, idle_flag, idle_missed>>

\* scheduler_run_event: its handlers publish, one event at a time.
RunPublish ==
    /\ MainRuns
    /\ pc = "run"
    /\ todo # << >>
    /\ event_publish(Head(todo))
    /\ todo' = Tail(todo)
    /\ UNCHANGED <<pc, running, primask, pending, idle_flag, idle_missed>>

RunReturn ==
    /\ MainRuns
    /\ pc = "run"
    /\ todo = << >>
    /\ pc' = "check"
    /\ UNCHANGED <<queue, running, todo, primask, pending, idle_flag, idle_missed>>

-----------------------------------------------------------------------------
(* systick_idle *)

IdleFlag ==
    /\ MainRuns
    /\ pc = "idle"
    /\ idle_flag' = 1
    /\ pc' = "mask"
    /\ UNCHANGED <<queue, running, todo, primask, pending, idle_missed>>

\* __disable_irq() and __WFI(): what is queued now is slept on.
IdleSleep ==
    /\ MainRuns
    /\ pc = "mask"
    /\ primask' = 1
    /\ pc' = "wfi"
    /\ queue' = [k \in DOMAIN queue |-> [queue[k] EXCEPT !.sleeps = @ + 1]]
    /\ UNCHANGED <<running, todo, pending, idle_flag, idle_missed>>

\* An interrupt wakes the processor even though it is masked, and runs when
\* __enable_irq() unmasks it.
IdleWake ==
    /\ pc = "wfi"
    /\ pending # {}
    /\ primask' = 0
    /\ pc' = "check"
    /\ UNCHANGED <<queue, running, todo, pending, idle_flag, idle_missed>>

systick_idle == IdleFlag \/ IdleSleep \/ IdleWake

\* The interrupts of the converter wake it as well, and publish nothing.
OtherWake ==
    /\ pc = "wfi"
    /\ primask' = 0
    /\ pc' = "check"
    /\ UNCHANGED <<queue, running, todo, pending, idle_flag, idle_missed>>

-----------------------------------------------------------------------------

Main == Check \/ RunPublish \/ RunReturn \/ systick_idle

Next ==
    \/ Main
    \/ OtherWake
    \/ \E s \in Sources : Arrive(s)
    \/ \E s \in Sources : TakePending(s)

\* The processor keeps running, takes the interrupts it can take, and the
\* timer keeps ticking; nothing is assumed of the other interrupts.
Fairness ==
    /\ WF_vars(Main)
    /\ \A s \in Sources : WF_vars(TakePending(s))
    /\ WF_vars(Tick)

Spec == Init /\ [][Next]_vars /\ Fairness

-----------------------------------------------------------------------------
(* Properties *)

Queued(e) == \E k \in DOMAIN queue : queue[k].event = e

(* The variables have their types.                                         *)
TypeOK ==
    /\ pc \in {"check", "run", "idle", "mask", "wfi"}
    /\ queue \in Seq([event : Events, sleeps : Nat]) /\ Len(queue) <= QueueSize
    /\ running \in Events \cup {NoEvent}
    /\ todo \in Seq(Events)
    /\ primask \in {0, 1}
    /\ pending \subseteq Sources
    /\ idle_flag \in {0, 1}
    /\ idle_missed \in 0 .. IdleMod - 1

(* An interrupt between the last check of the queue and the sleep leaves   *)
(* its event behind.  The event waits for one wake-up, never for two: the  *)
(* loop drains the queue before it sleeps again.                           *)
SleptOnOnce == \A k \in DOMAIN queue : queue[k].sleeps <= 1
=============================================================================
