------------------------------ MODULE Programs ------------------------------
(***************************************************************************)
(* programs.c and ttime.c on top of the cyclic tasks: the combination of   *)
(* keys that starts the bootloader and the running light of the bank LEDs, *)
(* which leds.c shows row by row.                                          *)
(* The events of the classes go through the queue with those of SysTick,   *)
(* their handlers get the ticks there are when they run, and a full queue  *)
(* refuses events while the ticks count on.                                *)
(***************************************************************************)
EXTENDS CyclicTasks, Sequences, FiniteSets

CONSTANTS
    ClassOrder,     \* the classes in the order of the table
    SYSTICK,        \* EVENT_SYSTICK; the event of class c is c itself
    BootClass,      \* the class of EVENT_CYCLIC_5
    KnightClass,    \* the class of EVENT_CYCLIC_7
    HoldTime,       \* 400 * TICKS_MULTIPLIER
    StepTime,       \* 50 * TICKS_MULTIPLIER
    Rows,           \* rows of LEDs: 4
    RowOf,          \* the row of each bank LED
    QueueSize,      \* EVENT_QUEUE_SZ: 128
    Combination,    \* {KEY_SPECIAL_LEFT, KEY_SPECIAL_RIGHT}
    Scans           \* the sets of keys that a scan may find pressed

ASSUME ProgramsAssumption ==
    /\ {BootClass, KnightClass} \subseteq Classes /\ BootClass # KnightClass
    /\ HoldTime \in Nat \ {0} /\ StepTime \in Nat \ {0}
    /\ QueueSize \in Nat \ {0}
    /\ Rows \in Nat \ {0} /\ RowOf \in [0 .. 3 -> 0 .. Rows - 1]
ASSUME OrderAssumption ==
    /\ ClassOrder \in Seq(Classes) /\ {ClassOrder[k] : k \in DOMAIN ClassOrder} = Classes
    /\ \A j, k \in DOMAIN ClassOrder : ClassOrder[j] = ClassOrder[k] => j = k
    /\ SYSTICK \notin {0} \cup Classes
\* All rows are driven within a period of the light, even if a queue full of
\* ticks waits at its beginning: 4 rows, 128 events, 500 ticks.
ASSUME DisplayAssumption == Rows + QueueSize <= Time[KnightClass] + 1

VARIABLES
    queue,
    event_queue_full,       \* whether it has counted a refused event
    keys_state,             \* keys found pressed by the last scan
    boot_accumulator,       \* struct ticks_accumulator of bootloader_check_task
    booted,                 \* bootloader_run has been called
    knight_accumulator,     \* struct ticks_accumulator of knightrider_task
    count, direction,
    bank_leds,              \* which of LED_BANK_FB_1 .. 4 are on, from 0
    row,                    \* the row that leds_task drives next
    broken,     \* history: when a check last found the keys not held
    checked,    \* history: when the last check was
    steps,      \* history: steps of the light
    shown       \* history: bank LEDs that were driven since the last step

bootVars == <<boot_accumulator, booted, broken, checked>>
knightVars == <<knight_accumulator, count, direction, bank_leds, steps>>
displayVars == <<row, shown>>
programVars == <<keys_state, bootVars, knightVars, displayVars>>
allVars == <<vars, queue, event_queue_full, programVars>>

accumulator0 == [previous |-> 0, accumulator |-> 0]

ProgramsInit ==
    /\ Init
    /\ queue = << >> /\ event_queue_full = 0
    /\ keys_state = {}
    /\ boot_accumulator = accumulator0 /\ booted = FALSE
    /\ broken = 0 /\ checked = 0
    /\ knight_accumulator = accumulator0
    /\ count = 0 /\ direction = 0 /\ bank_leds = {} /\ steps = 0
    /\ row = 0 /\ shown = {}

-----------------------------------------------------------------------------
(* ttime.c *)

Accumulated(memory) == memory.accumulator + (systick_ticks - memory.previous)

\* Mutant: one tick more.
ElapsedLater(memory, wait) == Accumulated(memory) > wait

\* What ttime_elapsed returns, and what it leaves in its memory.
Elapsed(memory, wait) == Accumulated(memory) >= wait

\* Mutant: what has elapsed is not taken off.
ttime_elapsed_keeps(memory, wait) ==
    [previous |-> systick_ticks, accumulator |-> Accumulated(memory)]

ttime_elapsed(memory, wait) ==
    [previous |-> systick_ticks,
     accumulator |-> IF Elapsed(memory, wait)
                     THEN Accumulated(memory) % wait ELSE Accumulated(memory)]

\* Mutant: the time since the last check is counted later on.
ttime_reset_keeps(memory) == [memory EXCEPT !.accumulator = 0]

ttime_reset(memory) == [previous |-> systick_ticks, accumulator |-> 0]

-----------------------------------------------------------------------------
(* programs.c *)

\* Exactly the two keys are pressed.
Held == Combination \subseteq keys_state /\ Cardinality(keys_state) = 2

bootloader_check_task ==
    /\ \/ /\ Held
          /\ booted' = Elapsed(boot_accumulator, HoldTime)
          /\ boot_accumulator' = ttime_elapsed(boot_accumulator, HoldTime)
          /\ UNCHANGED broken
       \/ /\ ~Held
          /\ boot_accumulator' = ttime_reset(boot_accumulator)
          /\ broken' = systick_ticks
          /\ UNCHANGED booted
    /\ checked' = systick_ticks
    /\ UNCHANGED <<keys_state, knightVars, displayVars>>

\* Mutant: the light does not turn at its end.
TurnNever(at) == IF at = 0 THEN 1 ELSE direction

\* Which way the light goes on from where it is.
Turn(at) == IF at = 0 THEN 1 ELSE IF at = 3 THEN -1 ELSE direction

\* The default of the switch goes back to the first LED.
Step ==
    LET at == IF count \in 0 .. 3 THEN count ELSE 0 IN
    /\ bank_leds' = {at}
    /\ direction' = Turn(at)
    /\ count' = at + Turn(at)
    /\ steps' = steps + 1
    /\ shown' = {}

knightrider_task ==
    /\ knight_accumulator' = ttime_elapsed(knight_accumulator, StepTime)
    /\ IF Elapsed(knight_accumulator, StepTime)
       THEN Step ELSE UNCHANGED <<count, direction, bank_leds, steps, shown>>
    /\ UNCHANGED <<keys_state, bootVars, row>>

-----------------------------------------------------------------------------
(* EVENT_CYCLIC_1, on every tick that is handled *)

keys_scan_task == keys_state' \in Scans

\* Mutant: behind the last row there is none.
leds_task_stays ==
    /\ shown' = shown \cup {led \in bank_leds : RowOf[led] = row}
    /\ row' = IF row < Rows THEN row + 1 ELSE row

\* One row is driven, with the columns of its LEDs that are on.  The default
\* of the switch goes back to the first row.
leds_task ==
    LET driven == IF row < Rows THEN row ELSE 0 IN
    /\ shown' = shown \cup {led \in bank_leds : RowOf[led] = driven}
    /\ row' = driven + 1

Cyclic1 == keys_scan_task /\ leds_task /\ UNCHANGED <<bootVars, knightVars>>

-----------------------------------------------------------------------------
(* Ticks, and the events in the order of the queue *)

\* event_publish in SysTick_Handler
Tick ==
    /\ \/ /\ Len(queue) < QueueSize
          /\ Counted(1)
          /\ queue' = Append(queue, SYSTICK)
          /\ UNCHANGED event_queue_full
       \/ /\ Len(queue) >= QueueSize
          /\ Counted(0)
          /\ event_queue_full' = 1
          /\ UNCHANGED queue
    /\ UNCHANGED programVars

\* What the handler has published when it has come to each of the classes.
PublishedUpto(due) ==
    LET sent[n \in 0 .. Len(ClassOrder)] ==
            IF n = 0 THEN <<0>>
            ELSE IF ClassOrder[n] \in due THEN Append(sent[n - 1], ClassOrder[n])
            ELSE sent[n - 1]
    IN  sent

\* The handler of EVENT_SYSTICK publishes class 0, then the classes that are
\* due, and the queue takes those it has room for.
RunSystick ==
    /\ Head(queue) = SYSTICK
    /\ cyclic_tasks
    /\ LET sent == PublishedUpto(DueClasses)[Len(ClassOrder)]
           room == QueueSize - Len(Tail(queue)) IN
          IF Len(sent) <= room
          THEN queue' = Tail(queue) \o sent /\ UNCHANGED event_queue_full
          ELSE queue' = Tail(queue) \o SubSeq(sent, 1, room) /\ event_queue_full' = 1
    /\ UNCHANGED programVars

\* The other classes have handlers elsewhere.
RunClass(c) ==
    /\ Head(queue) = c
    /\ queue' = Tail(queue)
    /\ \/ c = 0 /\ Cyclic1
       \/ c = BootClass /\ bootloader_check_task
       \/ c = KnightClass /\ knightrider_task
       \/ c \notin {0, BootClass, KnightClass} /\ UNCHANGED programVars
    /\ UNCHANGED <<vars, event_queue_full>>

\* bootloader_run resets the processor.
ProgramsNext ==
    /\ ~booted
    /\ \/ Tick
       \/ queue # << >> /\ RunSystick
       \/ queue # << >> /\ \E c \in {0} \cup Classes : RunClass(c)

ProgramsSpec == ProgramsInit /\ [][ProgramsNext]_allVars

-----------------------------------------------------------------------------
(* Properties *)

(* The variables have their types, count never needs the default of the    *)
(* switch, and the queue holds as many events of SysTick as are waiting    *)
(* and never more events than it has room for.                             *)
ProgramsTypeOK ==
    /\ TypeOK
    /\ queue \in Seq({SYSTICK, 0} \cup Classes) /\ Len(queue) <= QueueSize
    /\ event_queue_full \in {0, 1}
    /\ Cardinality({k \in DOMAIN queue : queue[k] = SYSTICK}) = backlog
    /\ keys_state \in Scans \cup {{}}
    /\ boot_accumulator \in [previous : Nat, accumulator : Nat]
    /\ knight_accumulator \in [previous : Nat, accumulator : Nat]
    /\ booted \in BOOLEAN
    /\ count \in 0 .. 3 /\ direction \in {-1, 0, 1}
    /\ bank_leds \subseteq 0 .. 3
    /\ row \in 0 .. Rows /\ shown \subseteq bank_leds
    /\ broken \in Nat /\ checked \in Nat /\ steps \in Nat

(* The bootloader is started by the first check that finds the two keys    *)
(* held when HoldTime has passed since a check found them not held, and by *)
(* no other: no earlier, shorter press is counted, and checks that come    *)
(* late, or were refused by the queue, are counted with the time that has  *)
(* passed.  The time before the press and after the last check that missed *)
(* it belongs to it, and a release between two checks is not seen.         *)
BootsWhenHeld == booted = (checked - broken >= HoldTime)

(* The light is on one LED and goes to one beside it, to and fro, however  *)
(* many periods a late handler has missed.                                 *)
LightMoves ==
    [][\A i \in bank_leds, j \in bank_leds' :
          bank_leds' # bank_leds => j - i \in {-1, 1}]_allVars

(* As long as the queue has refused no event, the light does not leave an  *)
(* LED before the rows have come round to it, so that no step remains      *)
(* unseen, also when the handlers of a queue full of ticks come late and   *)
(* at once (by less than a step takes longer than the rows).               *)
StepsAreSeen ==
    [][steps' # steps /\ event_queue_full = 0 => bank_leds \subseteq shown]_allVars

(* The light takes no more than one step in each StepTime of ticks.        *)
LightPace == steps * StepTime + knight_accumulator.accumulator <= systick_ticks
=============================================================================
