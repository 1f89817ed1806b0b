---------------------------- MODULE TraceCapture ----------------------------
(***************************************************************************)
(* Capture and transmission of the pads' traces: trace.c, analog_inputs.c  *)
(* and usb_out.c.  ADC_IRQHandler records into the active trace of an      *)
(* input, puts it on trace_transmit_queue when it is finished and goes on  *)
(* with the backup.  In the main loop analog_inputs_task takes a trace     *)
(* from the queue, sends it through the vendor endpoint, and resets it     *)
(* when USBD_IRQHandler has sent all of it.  The queue is a ring buffer    *)
(* that the two contexts share with no critical section; its operations in *)
(* the main loop are split at their memory accesses.                       *)
(***************************************************************************)
EXTENDS Naturals, FiniteSets

CONSTANTS
    ANALOG_INPUTS,  \* how many inputs
    TRACE_SIZE,     \* samples of a trace
    TRACE_DELAY,    \* samples before the trigger
    QueueSize,      \* slots of trace_transmit_queue
    Packets,        \* packets of 64 bytes that sizeof(trace) takes
    QuietGet,       \* TRUE: no sample arrives within rbuff_get_word
    NoTrace         \* NULL

ASSUME SizesAssumption ==
    /\ ANALOG_INPUTS \in Nat \ {0} /\ QueueSize \in Nat /\ ANALOG_INPUTS <= QueueSize
    /\ TRACE_DELAY \in Nat \ {0} /\ TRACE_SIZE \in Nat /\ TRACE_DELAY < TRACE_SIZE
    /\ Packets \in Nat \ {0} /\ QuietGet \in BOOLEAN

Inputs == 0 .. ANALOG_INPUTS - 1
Traces == {"primary", "secondary"} \X Inputs

ASSUME NoTraceAssumption == NoTrace \notin Traces

VARIABLES
    state, count,           \* of struct trace
    trace_active, trace_backup,
    m, in, out, size,       \* trace_transmit_queue
    analog_inputs_channel,
    converting,             \* a conversion runs for this channel
    pc, tr,                 \* of analog_inputs_task; tr is static there
    sz,                     \* its register with the loaded size
    usb_out_tx_size,        \* in packets
    fresh,                  \* history: samples in a row since the last reset
    after                   \* history: of these, the trigger and what followed

traceVars == <<state, count, trace_active, trace_backup, fresh, after>>
queueVars == <<m, in, out, size>>
adcVars == <<analog_inputs_channel, converting>>
mainVars == <<pc, tr, sz>>
vars == <<traceVars, queueVars, adcVars, mainVars, usb_out_tx_size>>

Init ==
    /\ state = [t \in Traces |-> "IDLE"]
    /\ count = [t \in Traces |-> 0]
    /\ trace_active = [i \in Inputs |-> <<"primary", i>>]
    /\ trace_backup = [i \in Inputs |-> <<"secondary", i>>]
    /\ m = [k \in 0 .. QueueSize - 1 |-> NoTrace]
    /\ in = 0 /\ out = 0 /\ size = 0
    /\ analog_inputs_channel = 0
    /\ converting = TRUE
    /\ pc = "wait"
    /\ tr = NoTrace
    /\ sz = 0
    /\ usb_out_tx_size = 0
    /\ fresh = [t \in Traces |-> 0]
    /\ after = [t \in Traces |-> 0]

Capped(n) == IF n < TRACE_SIZE THEN n ELSE TRACE_SIZE

-----------------------------------------------------------------------------
(* trace_put; `above` says whether the sample exceeds the trigger level *)

\* Mutant: the trigger is armed from the first sample on.
PutIdleArmed(t, above) ==
    /\ state[t] = "IDLE"
    /\ count' = [count EXCEPT ![t] = IF @ + 1 >= TRACE_DELAY THEN TRACE_DELAY ELSE @ + 1]
    /\ state' = [state EXCEPT ![t] = IF above THEN "RUNNING" ELSE @]
    /\ after' = [after EXCEPT ![t] = IF above THEN 1 ELSE 0]

PutIdle(t, above) ==
    LET armed == count[t] + 1 >= TRACE_DELAY IN
    /\ state[t] = "IDLE"
    /\ count' = [count EXCEPT ![t] = IF armed THEN TRACE_DELAY ELSE @ + 1]
    /\ state' = [state EXCEPT ![t] = IF armed /\ above THEN "RUNNING" ELSE @]
    /\ after' = [after EXCEPT ![t] = IF armed /\ above THEN 1 ELSE 0]

\* Mutant: the trace is finished one sample too late.
PutRunningLong(t) ==
    /\ state[t] = "RUNNING"
    /\ count' = [count EXCEPT ![t] = @ + 1]
    /\ state' = [state EXCEPT ![t] = IF count[t] >= TRACE_SIZE THEN "FINISHED" ELSE @]
    /\ after' = [after EXCEPT ![t] = @ + 1]

PutRunning(t) ==
    /\ state[t] = "RUNNING"
    /\ count' = [count EXCEPT ![t] = @ + 1]
    /\ state' = [state EXCEPT ![t] = IF count[t] + 1 >= TRACE_SIZE THEN "FINISHED" ELSE @]
    /\ after' = [after EXCEPT ![t] = @ + 1]

trace_put(t, above) ==
    \/ /\ PutIdle(t, above) \/ PutRunning(t)
       /\ fresh' = [fresh EXCEPT ![t] = Capped(@ + 1)]
    \/ state[t] = "FINISHED" /\ UNCHANGED <<state, count, after, fresh>>

-----------------------------------------------------------------------------
(* Interrupts of the ADC and of the PWM that triggers it *)

\* Mutant: the trace is not queued while another one waits.
EnqueueIfEmpty(t) ==
    IF size > 0 THEN UNCHANGED queueVars
    ELSE /\ m' = [m EXCEPT ![in] = t]
         /\ in' = (in + 1) % QueueSize
         /\ size' = size + 1
         /\ UNCHANGED out

\* rbuff_put_word.  With a slot for each input the queue is never full here
\* (NothingStranded); if it were, analog_inputs.c would drop the oldest trace
\* through a pointer it has not initialised, of which the first branch keeps
\* what becomes of the queue.
Enqueue(t) ==
    IF size = QueueSize
    THEN /\ out' = (out + 1) % QueueSize
         /\ in' = (in + 1) % QueueSize
         /\ m' = [m EXCEPT ![in] = t]
         /\ UNCHANGED size
    ELSE /\ m' = [m EXCEPT ![in] = t]
         /\ in' = (in + 1) % QueueSize
         /\ size' = size + 1
         /\ UNCHANGED out

\* A finished trace is exchanged for a backup that has been sent and reset.
Hand(i) ==
    IF state'[trace_active[i]] = "FINISHED" /\ state[trace_backup[i]] = "IDLE"
    THEN /\ Enqueue(trace_active[i])
         /\ trace_active' = [trace_active EXCEPT ![i] = trace_backup[i]]
         /\ trace_backup' = [trace_backup EXCEPT ![i] = trace_active[i]]
    ELSE UNCHANGED <<trace_active, trace_backup, queueVars>>

InGet == pc \in {"get_size", "get_read"}

ADC_IRQHandler ==
    /\ converting
    /\ QuietGet => ~InGet
    /\ \E above \in BOOLEAN : trace_put(trace_active[analog_inputs_channel], above)
    /\ Hand(analog_inputs_channel)
    /\ converting' = FALSE
    /\ UNCHANGED <<analog_inputs_channel, mainVars, usb_out_tx_size>>

\* analog_inputs_next selects the next channel, whose conversion follows.
PWMA_IRQHandler ==
    /\ ~converting
    /\ analog_inputs_channel' = (analog_inputs_channel + 1) % ANALOG_INPUTS
    /\ converting' = TRUE
    /\ UNCHANGED <<traceVars, queueVars, mainVars, usb_out_tx_size>>

-----------------------------------------------------------------------------
(* analog_inputs_task, on every EVENT_CYCLIC_1 *)

usb_out_ready == usb_out_tx_size = 0

TaskStart ==
    /\ pc = "wait"
    /\ usb_out_ready
    /\ pc' = IF tr # NoTrace THEN "reset_count" ELSE "get"
    /\ UNCHANGED <<traceVars, queueVars, adcVars, tr, sz, usb_out_tx_size>>

\* Mutant: trace_reset stores the state before the count.
ResetStateFirst ==
    /\ pc = "reset_count"
    /\ state' = [state EXCEPT ![tr] = "IDLE"]
    /\ fresh' = [fresh EXCEPT ![tr] = 0]
    /\ after' = [after EXCEPT ![tr] = 0]
    /\ pc' = "reset_state"
    /\ UNCHANGED <<count, trace_active, trace_backup, queueVars, adcVars, tr, sz, usb_out_tx_size>>

\* trace_reset: the two stores are in this order, so that the interrupt
\* cannot take the trace before its count is reset.
ResetCount ==
    /\ pc = "reset_count"
    /\ count' = [count EXCEPT ![tr] = 0]
    /\ pc' = "reset_state"
    /\ UNCHANGED <<state, trace_active, trace_backup, fresh, after, queueVars, adcVars, tr, sz, usb_out_tx_size>>

ResetState ==
    /\ pc = "reset_state"
    /\ state' = [state EXCEPT ![tr] = "IDLE"]
    /\ fresh' = [fresh EXCEPT ![tr] = 0]
    /\ after' = [after EXCEPT ![tr] = 0]
    /\ tr' = NoTrace
    /\ pc' = "get"
    /\ UNCHANGED <<count, trace_active, trace_backup, queueVars, adcVars, sz, usb_out_tx_size>>

\* rbuff_get_word: nothing to send, or size is loaded,
GetCheck ==
    /\ pc = "get"
    /\ sz' = size
    /\ pc' = IF size > 0 THEN "get_size" ELSE "wait"
    /\ UNCHANGED <<traceVars, queueVars, adcVars, tr, usb_out_tx_size>>

\* decremented and stored, and the slot is read.
GetSize ==
    /\ pc = "get_size"
    /\ size' = sz - 1
    /\ pc' = "get_read"
    /\ UNCHANGED <<traceVars, m, in, out, adcVars, tr, sz, usb_out_tx_size>>

GetRead ==
    /\ pc = "get_read"
    /\ tr' = m[out]
    /\ out' = (out + 1) % QueueSize
    /\ pc' = "send"
    /\ UNCHANGED <<traceVars, m, in, size, adcVars, sz, usb_out_tx_size>>

\* Mutant: the task does not keep the trace until it has been sent.
SendForgets ==
    /\ pc = "send"
    /\ usb_out_tx_size' = Packets
    /\ state' = [state EXCEPT ![tr] = "IDLE"]
    /\ count' = [count EXCEPT ![tr] = 0]
    /\ fresh' = [fresh EXCEPT ![tr] = 0]
    /\ after' = [after EXCEPT ![tr] = 0]
    /\ pc' = "wait"
    /\ UNCHANGED <<trace_active, trace_backup, queueVars, adcVars, tr, sz>>

usb_out_send ==
    /\ pc = "send"
    /\ usb_out_tx_size' = Packets
    /\ pc' = "wait"
    /\ UNCHANGED <<traceVars, queueVars, adcVars, tr, sz>>

analog_inputs_task ==
    TaskStart \/ ResetCount \/ ResetState \/ GetCheck \/ GetSize \/ GetRead \/ usb_out_send

\* EP5_Handler: the host has read a packet, and the next one is prepared.  The
\* length of a trace is no multiple of that of a packet, so that the packet
\* without data that would end such a transfer is never sent.
usb_out_transmitting ==
    /\ usb_out_tx_size > 0
    /\ usb_out_tx_size' = usb_out_tx_size - 1
    /\ UNCHANGED <<traceVars, queueVars, adcVars, mainVars>>

-----------------------------------------------------------------------------

Next ==
    \/ ADC_IRQHandler
    \/ PWMA_IRQHandler
    \/ analog_inputs_task
    \/ usb_out_transmitting

\* The converter and its trigger run on their own, the task runs on every
\* tick, and the host reads the endpoint.
Fairness ==
    /\ WF_vars(ADC_IRQHandler) /\ WF_vars(PWMA_IRQHandler)
    /\ WF_vars(analog_inputs_task)
    /\ WF_vars(usb_out_transmitting)

Spec == Init /\ [][Next]_vars /\ Fairness

-----------------------------------------------------------------------------
(* Properties *)

Queued == {m[(out + k) % QueueSize] : k \in 0 .. size - 1}

(* The variables have their types.                                         *)
TypeOK ==
    /\ state \in [Traces -> {"IDLE", "RUNNING", "FINISHED"}]
    /\ count \in [Traces -> 0 .. TRACE_SIZE]
    /\ trace_active \in [Inputs -> Traces] /\ trace_backup \in [Inputs -> Traces]
    /\ m \in [0 .. QueueSize - 1 -> Traces \cup {NoTrace}]
    /\ in \in 0 .. QueueSize - 1 /\ out \in 0 .. QueueSize - 1 /\ size \in 0 .. QueueSize
    /\ analog_inputs_channel \in Inputs /\ converting \in BOOLEAN
    /\ pc \in {"wait", "reset_count", "reset_state", "get", "get_size", "get_read", "send"}
    /\ tr \in Traces \cup {NoTrace}
    /\ sz \in 0 .. QueueSize
    /\ usb_out_tx_size \in 0 .. Packets
    /\ fresh \in [Traces -> 0 .. TRACE_SIZE] /\ after \in [Traces -> 0 .. TRACE_SIZE]

(* A finished trace holds TRACE_SIZE samples in a row, and the trigger is  *)
(* the last of TRACE_DELAY samples before what it shows, also when the     *)
(* trace was reset while the interrupt waited for it.                      *)
TriggerInPlace ==
    \A t \in Traces : state[t] = "FINISHED" =>
        fresh[t] = TRACE_SIZE /\ after[t] = TRACE_SIZE - TRACE_DELAY + 1

(* Every trace put on the transmit queue is on it once, or is being sent:  *)
(* none is forgotten, and none is sent twice.                              *)
NothingStranded ==
    ~InGet =>
        /\ Cardinality(Queued) = size
        /\ tr \notin Queued
        /\ \A i \in Inputs :
              state[trace_backup[i]] = "FINISHED" <=> trace_backup[i] \in Queued \cup {tr}

(* A trace that is being sent does not change until all of it is sent.     *)
FrozenWhileSent ==
    [][usb_out_tx_size > 0 =>
          state'[tr] = state[tr] /\ count'[tr] = count[tr] /\ fresh'[tr] = fresh[tr]]_vars

(* While the host reads, every finished trace is sent and made ready for   *)
(* the next capture.                                                       *)
FinishedIsSent ==
    \A t \in Traces : state[t] = "FINISHED" ~> state[t] = "IDLE"
=============================================================================
