----------------------------- MODULE CyclicTasks -----------------------------
(***************************************************************************)
(* cyclic_tasks.c: the handler of EVENT_SYSTICK that publishes the cyclic  *)
(* events.  SysTick_Handler counts a tick and publishes EVENT_SYSTICK,     *)
(* which a full queue refuses; the scheduler runs the handler when it gets *)
(* to an event, with the value systick_ticks has by then.                  *)
(***************************************************************************)
EXTENDS Integers

CONSTANTS
    Classes,    \* 1 .. CYCLIC_CLASSES - 1: all but the class of every tick
    Time,       \* cyclic_classes[i].time
    Offset,     \* cyclic_offsets[i]
    MaxTicks    \* bound on systick_ticks

ASSUME ClassesAssumption ==
    /\ Classes \subseteq Nat \ {0}
    /\ Time \in [Classes -> Nat \ {0}]
    /\ Offset \in [Classes -> Nat]
    /\ \A c \in Classes : Offset[c] < Time[c]
ASSUME TicksAssumption == MaxTicks \in Nat

VARIABLES
    systick_ticks,
    backlog,        \* EVENT_SYSTICKs in the event queue
    last, counter,  \* of struct cyclic_class
    fired,          \* history: when each class was published last
    late            \* history: 1 once two ticks have waited at a time, 2
                    \* once the event of one has been refused

vars == <<systick_ticks, backlog, last, counter, fired, late>>

Init ==
    /\ systick_ticks = 0
    /\ backlog = 0
    /\ last = [c \in Classes |-> 0 - Offset[c]]
    /\ counter = [c \in Classes |-> 0]
    /\ fired = [c \in Classes |-> 0 - Offset[c]]
    /\ late = 0

\* The tick is counted, whether or not the queue has room for its event.
Counted(queued) ==
    /\ systick_ticks < MaxTicks
    /\ systick_ticks' = systick_ticks + 1
    /\ backlog' = backlog + queued
    /\ late' = IF queued = 0 THEN 2
               ELSE IF backlog > 0 /\ late = 0 THEN 1 ELSE late
    /\ UNCHANGED <<last, counter, fired>>

SysTick_Handler == \E queued \in {0, 1} : Counted(queued)

delta(c) == systick_ticks - last[c]

\* Mutant: due one tick early.
DueEarly(c) == delta(c) >= Time[c] - 1

Due(c) == delta(c) >= Time[c]

\* Mutant: the correction has lost its meaning.
CorrectBack(c) == systick_ticks - Time[c]

Correction(c) == systick_ticks - (Time[c] - delta(c))

DueClasses == {c \in Classes : Due(c)}

\* Class 0 is published on every run and keeps no time.
cyclic_tasks ==
    /\ backlog > 0
    /\ backlog' = backlog - 1
    /\ last' = [c \in Classes |-> IF c \in DueClasses THEN Correction(c) ELSE last[c]]
    /\ counter' = [c \in Classes |-> IF c \in DueClasses THEN counter[c] + 1 ELSE counter[c]]
    /\ fired' = [c \in Classes |-> IF c \in DueClasses THEN systick_ticks ELSE fired[c]]
    /\ UNCHANGED <<systick_ticks, late>>

Next == SysTick_Handler \/ cyclic_tasks

Spec == Init /\ [][Next]_vars

-----------------------------------------------------------------------------
(* Properties *)

(* The variables have their types.                                         *)
TypeOK ==
    /\ systick_ticks \in Nat
    /\ backlog \in Nat
    /\ last \in [Classes -> Int]
    /\ counter \in [Classes -> Nat]
    /\ fired \in [Classes -> Int]
    /\ late \in 0 .. 2

(* However late the scheduler runs the handler, and whatever ticks it is   *)
(* not told of, a class is never published twice within its period: a late *)
(* run is not followed by a short one.                                     *)
NeverEarly ==
    [][\A c \in Classes :
          counter'[c] # counter[c] => systick_ticks - fired[c] >= Time[c]]_vars

(* As long as every tick is queued and handled before the next one, each   *)
(* class has been published exactly once per period, on the phase of its   *)
(* offset.                                                                 *)
OnSchedule ==
    late = 0 /\ backlog = 0 =>
        \A c \in Classes : counter[c] = (systick_ticks + Offset[c]) \div Time[c]

(* The corrected time of the last run makes up for late ones: as long as   *)
(* the handler is run for every tick, no more than one publication of a    *)
(* class is ever outstanding.                                              *)
RateKept ==
    late < 2 /\ backlog = 0 =>
        \A c \in Classes : counter[c] >= (systick_ticks + Offset[c]) \div Time[c] - 1

(* A class is never considered run before it was last published, which is  *)
(* why a correction cannot bring the next publication forward.             *)
IInv ==
    /\ TypeOK
    /\ \A c \in Classes : fired[c] <= last[c]
=============================================================================
