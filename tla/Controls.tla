------------------------------ MODULE Controls ------------------------------
(***************************************************************************)
(* The keys, pads and LEDs on top of the main loop: keys.c, pads.c,        *)
(* led_toggle.c, leds.c, and the led command of shell.c.  Every cyclic     *)
(* event scans the keys or the pads, compares with what was found the time *)
(* before and publishes an event for each press; the handler of that event *)
(* toggles the LED of the control.  The events pass through the queue of   *)
(* EventLoop, which the interrupts fill as well.  A control stands for its *)
(* LED.                                                                    *)
(***************************************************************************)
EXTENDS EventLoop, FiniteSets

CONSTANTS
    KeyOrder,               \* keys_t, in the order in which they are checked
    PadOrder,               \* the same for the pads
    PressEvent,             \* key_to_event and pad_as_key_to_event
    KeyAny, PadAny,         \* EVENT_KEY_ANY_PRESSED, EVENT_PAD_ANY_PRESSED
    Cyclic1, Cyclic2,       \* EVENT_CYCLIC_1, EVENT_CYCLIC_2
    VcomRx                  \* EVENT_USB_VCOM_RX

Keys == {KeyOrder[k] : k \in DOMAIN KeyOrder}
Pads == {PadOrder[k] : k \in DOMAIN PadOrder}
Levels == {"low", "between", "high"}

PressEvents == {PressEvent[c] : c \in DOMAIN PressEvent}

ASSUME ControlsAssumption ==
    /\ KeyOrder \in Seq(Keys) /\ PadOrder \in Seq(Pads) /\ Keys \cap Pads = {}
    /\ \A j, k \in DOMAIN KeyOrder : KeyOrder[j] = KeyOrder[k] => j = k
    /\ \A j, k \in DOMAIN PadOrder : PadOrder[j] = PadOrder[k] => j = k
    /\ PressEvent \in [Keys \cup Pads -> Events]
    /\ {KeyAny, PadAny, Cyclic1, Cyclic2, VcomRx} \subseteq Events \ PressEvents
    /\ Cyclic1 # Cyclic2 /\ VcomRx \notin {Cyclic1, Cyclic2} /\ NoEvent \notin Events

\* Each control has an event of its own, and only the checks publish it.
ASSUME PressesAssumption ==
    /\ \A c, d \in Keys \cup Pads : PressEvent[c] = PressEvent[d] => c = d
    /\ \A s \in Sources : EventOf[s] \notin PressEvents
    /\ \A e \in Events \ {Cyclic1, Cyclic2} :
          \A q \in Publishes[e] : \A k \in DOMAIN q : q[k] \notin PressEvents

VARIABLES
    down,                               \* the keys that are held
    level,                              \* analog_inputs_value of each pad
    keys_state, keys_state_memory,      \* sets of keys
    pads_state, pads_state_memory,      \* sets of pads
    leds_state,                         \* the controls whose LED is on
    up,         \* history: the controls found released since their last press
    odd         \* history: those with an odd number of presses published and
                \* of commands that changed their LED

inputVars == <<down, level>>
scanVars == <<keys_state, keys_state_memory, pads_state, pads_state_memory>>
controlVars == <<inputVars, scanVars, leds_state, up, odd>>
allVars == <<vars, controlVars>>

ControlsInit ==
    /\ Init
    /\ down = {} /\ level = [p \in Pads |-> "low"]
    /\ keys_state = {} /\ keys_state_memory = {}
    /\ pads_state = {} /\ pads_state_memory = {}
    /\ leds_state = {}
    /\ up = Keys \cup Pads /\ odd = {}

Flip(S, T) == (S \ T) \cup (T \ S)

-----------------------------------------------------------------------------
(* The user, and the conversions of the pads' signals *)

Touch(k) == down' = Flip(down, {k}) /\ UNCHANGED level

Strike(p) == \E v \in Levels \ {level[p]} : level' = [level EXCEPT ![p] = v] /\ UNCHANGED down

-----------------------------------------------------------------------------
(* Handlers *)

\* What a check has published when it has come to each of the controls.
PressesUpto(order, hits) ==
    LET sent[n \in 0 .. Len(order)] ==
            IF n = 0 THEN << >>
            ELSE IF order[n] \in hits THEN Append(sent[n - 1], PressEvent[order[n]])
            ELSE sent[n - 1]
    IN  sent

\* The presses that a check finds, in their order, and that there was one.
Presses(order, hits, any) ==
    LET sent == PressesUpto(order, hits)[Len(order)]
    IN  IF hits = {} THEN sent ELSE Append(sent, any)

\* A press is a control found pressed that was found released before.
Seen(pressed, released) ==
    up' = (up \ pressed) \cup released

\* Mutant: the memory is not updated.
keys_check_task_forgets(before) ==
    /\ todo' = before \o Presses(KeyOrder, keys_state' \ keys_state_memory, KeyAny)
    /\ UNCHANGED keys_state_memory

\* `before` is what the handlers before it have published.
keys_check_task(before) ==
    /\ todo' = before \o Presses(KeyOrder, keys_state' \ keys_state_memory, KeyAny)
    /\ keys_state_memory' = keys_state'

\* EVENT_CYCLIC_1: VCOM_Task may have received something for the shell; then
\* keys_scan_task and keys_check_task.  keys_diagnostic_task finds nothing
\* that the check has not put in the memory already.
KeysTasks ==
    /\ keys_state' = down
    /\ \E before \in {<< >>, <<VcomRx>>} : keys_check_task(before)
    /\ Seen(down, Keys \ down)
    /\ UNCHANGED <<pads_state, pads_state_memory, leds_state>>

\* Mutant: one threshold for both directions.
pads_scan_one_level == pads_state' = {p \in Pads : level[p] = "high"}

\* A pad between the two levels keeps its state.
pads_as_key_scan_task ==
    pads_state' = {p \in Pads : level[p] = "high" \/ (level[p] = "between" /\ p \in pads_state)}

pads_as_key_check_task ==
    /\ todo' = Presses(PadOrder, pads_state' \ pads_state_memory, PadAny)
    /\ pads_state_memory' = pads_state'

PadsTasks ==
    /\ pads_as_key_scan_task
    /\ pads_as_key_check_task
    /\ Seen({p \in Pads : level[p] = "high"}, {p \in Pads : level[p] = "low"})
    /\ UNCHANGED <<keys_state, keys_state_memory, leds_state>>

\* led_toggle.c: the handler of each press toggles one LED.
led_toggle(e) ==
    /\ leds_state' = Flip(leds_state, {c \in DOMAIN PressEvent : PressEvent[c] = e})
    /\ UNCHANGED <<scanVars, up>>

\* leds_set: what is shown is the last bit of the state.
leds_set(c, on) == leds_state' = IF on THEN leds_state \cup {c} ELSE leds_state \ {c}

-----------------------------------------------------------------------------
(* The main loop with these handlers *)

\* The next event is taken from the queue and its handlers run.
CheckAndRun ==
    /\ Check
    /\ \/ running' = Cyclic1 /\ KeysTasks
       \/ running' = Cyclic2 /\ PadsTasks
       \/ running' \notin {Cyclic1, Cyclic2} /\ led_toggle(running')
    /\ odd' = Flip(odd, IF running' \in {Cyclic1, Cyclic2} THEN up \ up' ELSE {})
    /\ UNCHANGED inputVars

\* A press that finds the queue full is forgotten.
Publish ==
    /\ RunPublish
    /\ odd' = IF queue' = queue
              THEN Flip(odd, {c \in DOMAIN PressEvent : PressEvent[c] = Head(todo)}) ELSE odd
    /\ UNCHANGED <<inputVars, scanVars, leds_state, up>>

\* The led command, given to shell_input, the handler of EVENT_USB_VCOM_RX.
shell_cmd_led_set(c, on) ==
    /\ MainRuns /\ pc = "run" /\ running = VcomRx
    /\ leds_set(c, on)
    /\ odd' = Flip(odd, Flip(leds_state, leds_state'))
    /\ UNCHANGED <<vars, inputVars, scanVars, up>>

OtherSteps ==
    /\ \/ RunReturn
       \/ systick_idle \/ OtherWake
       \/ \E s \in Sources : Arrive(s) \/ TakePending(s)
    /\ UNCHANGED controlVars

Inputs ==
    /\ \/ \E k \in Keys : Touch(k)
       \/ \E p \in Pads : Strike(p)
    /\ UNCHANGED <<vars, scanVars, leds_state, up, odd>>

ControlsNext ==
    \/ CheckAndRun \/ Publish \/ OtherSteps
    \/ \E c \in Keys \cup Pads, on \in BOOLEAN : shell_cmd_led_set(c, on)
    \/ Inputs

ControlsSpec == ControlsInit /\ [][ControlsNext]_allVars /\ Fairness

-----------------------------------------------------------------------------
(* Properties *)

\* How often the press of c waits to be published or run.
Waiting(c) ==
    Cardinality({k \in DOMAIN queue : queue[k].event = PressEvent[c]})
    + Cardinality({k \in DOMAIN todo : todo[k] = PressEvent[c]})

(* The scans' memories agree with the scans, and the LEDs are those of     *)
(* controls.                                                               *)
ControlsTypeOK ==
    /\ TypeOK
    /\ down \subseteq Keys /\ level \in [Pads -> Levels]
    /\ keys_state \subseteq Keys /\ keys_state_memory \subseteq Keys
    /\ pads_state \subseteq Pads /\ pads_state_memory \subseteq Pads
    /\ leds_state \subseteq Keys \cup Pads
    /\ up \subseteq Keys \cup Pads /\ odd \subseteq Keys \cup Pads

(* Every press toggles the LED of its control once, whatever the shell has *)
(* set it to: holding a key, or a pad's signal that hovers between its     *)
(* levels, does not repeat it, none but those the full queue refused are   *)
(* lost, and nothing but a press or a command changes a LED.               *)
LedsFollowPresses ==
    \A c \in Keys \cup Pads :
        (c \in leds_state) = ((c \in odd) # (Waiting(c) % 2 = 1))

(* A press that the queue has accepted is run: neither the interrupt that  *)
(* is lost on the way to sleep nor the events behind it keep it there.     *)
PressesRun ==
    \A c \in Keys \cup Pads :
        Queued(PressEvent[c]) ~> (running = PressEvent[c] /\ pc = "run")
=============================================================================
