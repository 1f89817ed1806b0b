------------------------- MODULE TraceCaptureProofs -------------------------
(***************************************************************************)
(* For every number of inputs, length of traces and size of the queue, as  *)
(* long as no sample arrives within rbuff_get_word: a finished trace shows *)
(* its trigger where it belongs, it is queued once or being sent, and it   *)
(* does not change while it is being sent.                                 *)
(***************************************************************************)
EXTENDS TraceCapture, FunctionTheorems, FiniteSetTheorems, TLAPS

USE SizesAssumption, NoTraceAssumption

-----------------------------------------------------------------------------
(* The transmit queue as a ring *)

\* rbuff_get_word stores size before it reads the slot.
Held == IF pc = "get_read" THEN size + 1 ELSE size

Place(k) == (out + k) % QueueSize

Waits(t) == \E k \in 0 .. Held - 1 : m[Place(k)] = t

Ring ==
    /\ Held \in 0 .. QueueSize
    /\ in = Place(Held)
    /\ \A j \in 0 .. Held - 1, k \in 0 .. Held - 1 : m[Place(j)] = m[Place(k)] => j = k
    /\ pc = "get_size" => sz = size /\ size > 0

-----------------------------------------------------------------------------
(* The inductive invariant *)

\* The two traces of input i are its own and change places.
Pairs ==
    \A i \in Inputs :
        /\ trace_active[i] \in Traces /\ trace_active[i][2] = i
        /\ trace_backup[i] \in Traces /\ trace_backup[i][2] = i
        /\ trace_active[i] # trace_backup[i]

\* What is on the queue or being sent is a finished backup,
Delivered(t) == t \in Traces /\ t = trace_backup[t[2]] /\ state[t] = "FINISHED"

InHand ==
    /\ \A t : Waits(t) => Delivered(t)
    /\ tr # NoTrace => Delivered(tr)
    /\ ~Waits(tr)

\* and every finished backup is one of the two.
NoneForgotten ==
    \A i \in Inputs :
        state[trace_backup[i]] = "FINISHED" => Waits(trace_backup[i]) \/ tr = trace_backup[i]

\* Where the task is says whether it holds a trace.
Points ==
    /\ pc \in {"get", "get_size", "get_read"} => tr = NoTrace
    /\ pc \in {"reset_count", "reset_state", "send"} => tr # NoTrace
    /\ usb_out_tx_size > 0 => pc = "wait" /\ tr # NoTrace

\* How far trace t has been captured.
Captured(t) ==
    /\ state[t] = "IDLE" => count[t] <= TRACE_DELAY /\ fresh[t] >= count[t]
    /\ state[t] = "RUNNING" =>
        /\ count[t] \in TRACE_DELAY .. TRACE_SIZE - 1 /\ fresh[t] >= count[t]
        /\ after[t] = count[t] - TRACE_DELAY + 1
    /\ state[t] = "FINISHED" => fresh[t] = TRACE_SIZE /\ after[t] = TRACE_SIZE - TRACE_DELAY + 1

Captures ==
    /\ \A t \in Traces : Captured(t)
    /\ pc = "reset_state" => count[tr] = 0

TraceIInv ==
    /\ TypeOK
    /\ Ring /\ Pairs /\ InHand /\ NoneForgotten /\ Points /\ Captures

-----------------------------------------------------------------------------

LEMMA PlaceInQueue ==
    ASSUME out \in 0 .. QueueSize - 1, NEW k \in 0 .. QueueSize
    PROVE  Place(k) \in 0 .. QueueSize - 1
  BY DEF Place

\* Places less than a turn apart are different.
LEMMA PlacesDiffer ==
    ASSUME out \in 0 .. QueueSize - 1,
           NEW j \in 0 .. QueueSize - 1, NEW k \in 0 .. QueueSize - 1, j # k
    PROVE  Place(j) # Place(k)
  BY DEF Place

\* The place behind place k, seen from the front and from behind it.
LEMMA PlaceNext ==
    ASSUME out \in 0 .. QueueSize - 1, NEW k \in 0 .. QueueSize - 1
    PROVE  /\ (Place(k) + 1) % QueueSize = Place(k + 1)
           /\ (((out + 1) % QueueSize) + k) % QueueSize = Place(k + 1)
           /\ Place(0) = out
  BY DEF Place

\* What trace_put leaves of a trace.
LEMMA PutCaptures ==
    ASSUME TypeOK, NEW t \in Traces, NEW above \in BOOLEAN, Captured(t), trace_put(t, above)
    PROVE  /\ Captured(t)'
           /\ \A u \in Traces \ {t} :
                 /\ state'[u] = state[u] /\ count'[u] = count[u]
                 /\ fresh'[u] = fresh[u] /\ after'[u] = after[u]
           /\ state' \in [Traces -> {"IDLE", "RUNNING", "FINISHED"}]
           /\ count' \in [Traces -> 0 .. TRACE_SIZE]
           /\ fresh' \in [Traces -> 0 .. TRACE_SIZE] /\ after' \in [Traces -> 0 .. TRACE_SIZE]
  <1>1. /\ state \in [Traces -> {"IDLE", "RUNNING", "FINISHED"}]
        /\ count \in [Traces -> 0 .. TRACE_SIZE]
        /\ fresh \in [Traces -> 0 .. TRACE_SIZE] /\ after \in [Traces -> 0 .. TRACE_SIZE]
    BY DEF TypeOK
  <1>2. CASE PutIdle(t, above) /\ fresh' = [fresh EXCEPT ![t] = Capped(@ + 1)]
    <2>1. state[t] = "IDLE" /\ count[t] <= TRACE_DELAY /\ fresh[t] >= count[t]
      BY <1>2 DEF PutIdle, Captured
    <2>2. /\ fresh'[t] \in 0 .. TRACE_SIZE
          /\ fresh'[t] >= fresh[t] + 1 \/ fresh'[t] = TRACE_SIZE
      BY <1>1, <1>2 DEF Capped
    <2>3. CASE count[t] + 1 >= TRACE_DELAY
      <3>1. /\ count'[t] = TRACE_DELAY
            /\ state'[t] = IF above THEN "RUNNING" ELSE "IDLE"
            /\ after'[t] = IF above THEN 1 ELSE 0
        BY <1>1, <1>2, <2>1, <2>3 DEF PutIdle
      <3>2. fresh'[t] >= TRACE_DELAY
        BY <1>1, <2>1, <2>2, <2>3
      <3> QED
        BY <1>1, <1>2, <2>2, <3>1, <3>2 DEF PutIdle, Captured
    <2>4. CASE count[t] + 1 < TRACE_DELAY
      <3>1. count'[t] = count[t] + 1 /\ state'[t] = "IDLE" /\ after'[t] = 0
        BY <1>1, <1>2, <2>1, <2>4 DEF PutIdle
      <3> QED
        BY <1>1, <1>2, <2>1, <2>2, <2>4, <3>1 DEF PutIdle, Captured
    <2> QED
      BY <1>1, <2>3, <2>4
  <1>3. CASE PutRunning(t) /\ fresh' = [fresh EXCEPT ![t] = Capped(@ + 1)]
    <2>1. /\ state[t] = "RUNNING" /\ count[t] \in TRACE_DELAY .. TRACE_SIZE - 1
          /\ fresh[t] >= count[t] /\ after[t] = count[t] - TRACE_DELAY + 1
      BY <1>3 DEF PutRunning, Captured
    <2>2. /\ fresh'[t] \in 0 .. TRACE_SIZE
          /\ fresh'[t] >= fresh[t] + 1 \/ fresh'[t] = TRACE_SIZE
      BY <1>1, <1>3 DEF Capped
    <2>3. /\ count'[t] = count[t] + 1 /\ after'[t] = after[t] + 1
          /\ state'[t] = IF count[t] + 1 >= TRACE_SIZE THEN "FINISHED" ELSE "RUNNING"
      BY <1>1, <1>3, <2>1 DEF PutRunning
    <2> QED
      BY <1>1, <1>3, <2>1, <2>2, <2>3 DEF PutRunning, Captured
  <1>4. CASE state[t] = "FINISHED" /\ UNCHANGED <<state, count, after, fresh>>
    BY <1>1, <1>4 DEF Captured
  <1> QED
    BY <1>2, <1>3, <1>4 DEF trace_put

-----------------------------------------------------------------------------
(* ADC_IRQHandler *)

\* A trace waits once at most, and only backups wait: while one input has
\* nothing to send, there is a slot left for it.
LEMMA SlotLeft ==
    ASSUME TypeOK, Ring, Pairs, InHand, NEW i \in Inputs, state[trace_backup[i]] # "FINISHED"
    PROVE  Held < QueueSize
  <1> DEFINE places == 0 .. Held - 1
             inputOf == [k \in places |-> m[Place(k)][2]]
  <1>1. Held \in Nat /\ ANALOG_INPUTS \in Nat
    BY DEF Ring
  <1>2. \A k \in places : Delivered(m[Place(k)])
    BY DEF InHand, Waits
  <1>3. \A k \in places : inputOf[k] \in Inputs \ {i}
    <2> SUFFICES ASSUME NEW k \in places PROVE m[Place(k)][2] \in Inputs \ {i}
      OBVIOUS
    <2>1. Delivered(m[Place(k)])
      BY <1>2
    <2> QED
      BY <2>1 DEF Delivered, Traces
  <1>4. \A j \in places, k \in places : inputOf[j] = inputOf[k] => j = k
    <2> SUFFICES ASSUME NEW j \in places, NEW k \in places, m[Place(j)][2] = m[Place(k)][2]
                 PROVE  j = k
      OBVIOUS
    <2>1. m[Place(j)] = trace_backup[m[Place(j)][2]] /\ m[Place(k)] = trace_backup[m[Place(k)][2]]
      BY <1>2 DEF Delivered
    <2>2. m[Place(j)] = m[Place(k)]
      BY <2>1
    <2> QED
      BY <2>2 DEF Ring
  <1>5. inputOf \in Injection(places, Inputs \ {i})
    BY <1>3, <1>4 DEF Injection, IsInjective
  <1>6. /\ IsFiniteSet(Inputs) /\ Cardinality(Inputs) = ANALOG_INPUTS
        /\ Cardinality(places) = Held
    <2>1. IsFiniteSet(0 .. ANALOG_INPUTS - 1) /\ Cardinality(0 .. ANALOG_INPUTS - 1) = ANALOG_INPUTS
      BY <1>1, FS_Interval, 0 \in Int, ANALOG_INPUTS - 1 \in Int
    <2>2. Cardinality(0 .. Held - 1) = Held
      BY <1>1, FS_Interval, 0 \in Int, Held - 1 \in Int
    <2> QED
      BY <2>1, <2>2 DEF Inputs
  <1>7. IsFiniteSet(Inputs \ {i}) /\ Cardinality(Inputs \ {i}) = ANALOG_INPUTS - 1
    BY <1>6, FS_RemoveElement
  <1>8. Cardinality(places) <= Cardinality(Inputs \ {i})
    BY <1>5, <1>7, FS_Injection
  <1> QED
    BY <1>1, <1>6, <1>7, <1>8

\* A trace is put behind those that wait.
LEMMA EnqueueWaits ==
    ASSUME TypeOK, Ring, ~InGet, NEW t \in Traces, ~Waits(t), size < QueueSize, Enqueue(t),
           UNCHANGED <<pc, sz>>
    PROVE  /\ Ring' /\ \A u : Waits(u)' <=> (Waits(u) \/ u = t)
           /\ m' \in [0 .. QueueSize - 1 -> Traces \cup {NoTrace}]
           /\ in' \in 0 .. QueueSize - 1 /\ out' = out /\ size' \in 0 .. QueueSize
  <1>1. /\ m \in [0 .. QueueSize - 1 -> Traces \cup {NoTrace}] /\ size \in 0 .. QueueSize - 1
        /\ out \in 0 .. QueueSize - 1 /\ Held = size /\ in = Place(size) /\ QueueSize \in Nat
    BY DEF TypeOK, Ring, Held, InGet
  <1>2. /\ out' = out /\ size' = size + 1 /\ m' = [m EXCEPT ![Place(size)] = t]
        /\ in' = (Place(size) + 1) % QueueSize
    BY <1>1 DEF Enqueue
  <1>3. Held' = size + 1 /\ \A k : Place(k)' = Place(k)
    BY <1>1, <1>2 DEF Held, Place, InGet
  <1>4. Place(size) \in 0 .. QueueSize - 1 /\ in' = Place(size + 1) /\ Place(size + 1) \in 0 .. QueueSize - 1
    BY <1>1, <1>2, PlaceInQueue, PlaceNext
  <1>5. /\ m'[Place(size)] = t
        /\ \A k \in 0 .. size - 1 : m'[Place(k)] = m[Place(k)]
    BY <1>1, <1>2, <1>4, PlaceInQueue, PlacesDiffer
  <1>6. \A u : Waits(u)' <=> (Waits(u) \/ u = t)
    <2> SUFFICES ASSUME NEW u PROVE Waits(u)' <=> (Waits(u) \/ u = t)
      OBVIOUS
    <2>1. Waits(u)' <=> \E k \in 0 .. size : m'[Place(k)] = u
      BY <1>1, <1>3 DEF Waits
    <2>2. Waits(u) <=> \E k \in 0 .. size - 1 : m[Place(k)] = u
      BY <1>1 DEF Waits
    <2>3. \A k \in 0 .. size : k = size \/ k \in 0 .. size - 1
      BY <1>1
    <2>4. 0 .. size - 1 \subseteq 0 .. size /\ size \in 0 .. size
      BY <1>1
    <2> QED
      BY <1>5, <2>1, <2>2, <2>3, <2>4
  <1>7. \A k \in 0 .. size - 1 : m[Place(k)] # t
    BY <1>1 DEF Waits
  <1>8. ASSUME NEW j \in 0 .. size, NEW k \in 0 .. size, m'[Place(j)] = m'[Place(k)] PROVE j = k
    <2>1. CASE j = size \/ k = size
      BY <1>1, <1>5, <1>7, <1>8, <2>1
    <2>2. CASE j # size /\ k # size
      <3>1. j \in 0 .. size - 1 /\ k \in 0 .. size - 1
        BY <1>1, <2>2
      <3>2. m[Place(j)] = m[Place(k)]
        BY <1>5, <1>8, <3>1
      <3> QED
        BY <1>1, <3>1, <3>2 DEF Ring
    <2> QED
      BY <2>1, <2>2
  <1>9. Ring'
    <2>1. Held' - 1 = size /\ Held' \in 0 .. QueueSize /\ pc' # "get_size"
      BY <1>1, <1>3 DEF InGet
    <2> QED
      BY <1>3, <1>4, <1>8, <2>1 DEF Ring
  <1> QED
    BY <1>1, <1>2, <1>4, <1>6, <1>9

\* The trace that is captured is not in hand.
LEMMA ActiveIsFree ==
    ASSUME TypeOK, Pairs, InHand, NEW i \in Inputs
    PROVE  /\ ~Waits(trace_active[i]) /\ tr # trace_active[i]
           /\ \A j \in Inputs : trace_backup[j] # trace_active[i]
  <1>1. \A j \in Inputs : trace_backup[j] # trace_active[i]
    BY DEF Pairs
  <1>2. ~Delivered(trace_active[i])
    BY <1>1 DEF Pairs, Delivered
  <1>3. trace_active[i] # NoTrace
    BY DEF Pairs
  <1> QED
    BY <1>1, <1>2, <1>3 DEF InHand

LEMMA HandKeeps ==
    ASSUME TypeOK, Ring, Pairs, InHand, NoneForgotten, Points, QuietGet, ~InGet,
           NEW i \in Inputs, Hand(i), UNCHANGED mainVars,
           \A u \in Traces \ {trace_active[i]} : state'[u] = state[u]
    PROVE  /\ Ring' /\ Pairs' /\ InHand' /\ NoneForgotten'
           /\ trace_active' \in [Inputs -> Traces] /\ trace_backup' \in [Inputs -> Traces]
           /\ m' \in [0 .. QueueSize - 1 -> Traces \cup {NoTrace}]
           /\ in' \in 0 .. QueueSize - 1 /\ out' \in 0 .. QueueSize - 1 /\ size' \in 0 .. QueueSize
  <1> DEFINE a == trace_active[i]
             b == trace_backup[i]
  <1>1. ~Waits(a) /\ tr # a /\ \A j \in Inputs : trace_backup[j] # a
    BY ActiveIsFree
  <1>2. UNCHANGED <<pc, sz, tr>>
    BY DEF mainVars
  <1>3. trace_active \in [Inputs -> Traces] /\ trace_backup \in [Inputs -> Traces]
    BY DEF TypeOK
  <1>4. a \in Traces /\ b \in Traces /\ a[2] = i /\ b[2] = i /\ a # b
    BY DEF Pairs
  <1>5. \A t : Delivered(t) => t # a /\ state'[t] = "FINISHED" /\ t[2] \in Inputs
    BY <1>1 DEF Delivered, Traces
  <1>6. CASE UNCHANGED <<trace_active, trace_backup, queueVars>>
    <2>1. UNCHANGED <<m, in, out, size, trace_active, trace_backup, tr, pc, sz>>
      BY <1>2, <1>6 DEF queueVars
    <2>2. Held' = Held /\ \A k : Place(k)' = Place(k)
      BY <2>1 DEF Held, Place
    <2>3. Ring' /\ \A t : Waits(t)' <=> Waits(t)
      BY <2>1, <2>2 DEF Ring, Waits
    <2>4. \A t : Delivered(t) => Delivered(t)'
      BY <1>5, <2>1 DEF Delivered
    <2>5. InHand'
      BY <2>1, <2>3, <2>4 DEF InHand
    <2>6. NoneForgotten'
      <3> SUFFICES ASSUME NEW j \in Inputs, state'[trace_backup[j]] = "FINISHED"
                   PROVE  Waits(trace_backup[j]) \/ tr = trace_backup[j]
        BY <2>1, <2>3 DEF NoneForgotten
      <3>1. state[trace_backup[j]] = "FINISHED"
        BY <1>1, <1>3
      <3> QED
        BY <3>1 DEF NoneForgotten
    <2> QED
      BY <2>1, <2>3, <2>5, <2>6 DEF Pairs, TypeOK
  <1>7. CASE /\ state'[a] = "FINISHED" /\ state[b] = "IDLE" /\ Enqueue(a)
             /\ trace_active' = [trace_active EXCEPT ![i] = b]
             /\ trace_backup' = [trace_backup EXCEPT ![i] = a]
    <2>1. size < QueueSize
      BY <1>7, SlotLeft DEF Held, InGet
    <2>2. /\ Ring' /\ \A u : Waits(u)' <=> (Waits(u) \/ u = a)
          /\ m' \in [0 .. QueueSize - 1 -> Traces \cup {NoTrace}]
          /\ in' \in 0 .. QueueSize - 1 /\ out' = out /\ size' \in 0 .. QueueSize
      BY <1>1, <1>2, <1>4, <1>7, <2>1, EnqueueWaits
    <2>3. trace_active' \in [Inputs -> Traces] /\ trace_backup' \in [Inputs -> Traces]
      BY <1>3, <1>4, <1>7
    <2>4. /\ trace_backup'[i] = a /\ trace_active'[i] = b
          /\ \A j \in Inputs \ {i} : trace_backup'[j] = trace_backup[j] /\ trace_active'[j] = trace_active[j]
      BY <1>3, <1>7
    <2>5. Pairs'
      BY <1>4, <2>4 DEF Pairs
    <2>6. \A t : t = a => Delivered(t)'
      BY <1>4, <1>7, <2>4 DEF Delivered
    <2>7. \A t : Delivered(t) => Delivered(t)'
      <3> SUFFICES ASSUME NEW t, Delivered(t) PROVE Delivered(t)'
        OBVIOUS
      <3>1. t \in Traces /\ t = trace_backup[t[2]] /\ state[t] = "FINISHED" /\ state'[t] = "FINISHED"
        BY <1>5 DEF Delivered
      <3>2. t[2] \in Inputs \ {i}
        BY <1>5, <1>7, <3>1
      <3>3. trace_backup'[t[2]] = trace_backup[t[2]]
        BY <2>4, <3>2
      <3> QED
        BY <3>1, <3>3 DEF Delivered
    <2>8. InHand'
      BY <1>1, <1>2, <2>2, <2>6, <2>7 DEF InHand
    <2>9. NoneForgotten'
      <3> SUFFICES ASSUME NEW j \in Inputs, NEW u, u = trace_backup'[j], state'[u] = "FINISHED"
                   PROVE  Waits(u)' \/ tr' = u
        BY DEF NoneForgotten
      <3>1. CASE j = i
        BY <2>2, <2>4, <3>1
      <3>2. CASE j # i
        <4>1. u = trace_backup[j] /\ state[u] = "FINISHED"
          BY <1>1, <1>3, <2>4, <3>2
        <4>2. Waits(u) \/ tr = u
          BY <4>1 DEF NoneForgotten
        <4> QED
          BY <1>2, <2>2, <4>2
      <3> QED
        BY <3>1, <3>2
    <2>10. out' \in 0 .. QueueSize - 1
      BY <2>2 DEF TypeOK
    <2> QED
      BY <2>2, <2>3, <2>5, <2>8, <2>9, <2>10
  <1> QED
    BY <1>6, <1>7 DEF Hand

LEMMA ADCKeeps == TraceIInv /\ QuietGet /\ ADC_IRQHandler => TraceIInv'
  <1> SUFFICES ASSUME TraceIInv, QuietGet, ADC_IRQHandler PROVE TraceIInv'
    OBVIOUS
  <1> USE DEF TraceIInv
  <1> DEFINE a == trace_active[analog_inputs_channel]
  <1>1. a \in Traces /\ analog_inputs_channel \in Inputs
    BY DEF TypeOK
  <1>2. PICK above \in BOOLEAN : trace_put(a, above)
    BY DEF ADC_IRQHandler
  <1>3. /\ ~InGet /\ Hand(analog_inputs_channel) /\ converting' = FALSE
        /\ UNCHANGED <<analog_inputs_channel, mainVars, usb_out_tx_size>>
    BY DEF ADC_IRQHandler
  <1>4. UNCHANGED <<pc, tr, sz>>
    BY <1>3 DEF mainVars
  <1>5. /\ \A u \in Traces \ {a} :
              /\ state'[u] = state[u] /\ count'[u] = count[u]
              /\ fresh'[u] = fresh[u] /\ after'[u] = after[u]
        /\ \A u : u = a => Captured(u)'
        /\ state' \in [Traces -> {"IDLE", "RUNNING", "FINISHED"}]
        /\ count' \in [Traces -> 0 .. TRACE_SIZE]
        /\ fresh' \in [Traces -> 0 .. TRACE_SIZE] /\ after' \in [Traces -> 0 .. TRACE_SIZE]
    <2> SUFFICES ASSUME NEW t \in Traces, t = a
                 PROVE  /\ Captured(t)'
                        /\ \A u \in Traces \ {t} :
                              /\ state'[u] = state[u] /\ count'[u] = count[u]
                              /\ fresh'[u] = fresh[u] /\ after'[u] = after[u]
                        /\ state' \in [Traces -> {"IDLE", "RUNNING", "FINISHED"}]
                        /\ count' \in [Traces -> 0 .. TRACE_SIZE]
                        /\ fresh' \in [Traces -> 0 .. TRACE_SIZE]
                        /\ after' \in [Traces -> 0 .. TRACE_SIZE]
      BY <1>1
    <2>1. Captured(t) /\ trace_put(t, above)
      BY <1>2 DEF Captures
    <2> QED
      BY <1>2, <2>1, PutCaptures
  <1>6. /\ Ring' /\ Pairs' /\ InHand' /\ NoneForgotten'
        /\ trace_active' \in [Inputs -> Traces] /\ trace_backup' \in [Inputs -> Traces]
        /\ m' \in [0 .. QueueSize - 1 -> Traces \cup {NoTrace}]
        /\ in' \in 0 .. QueueSize - 1 /\ out' \in 0 .. QueueSize - 1 /\ size' \in 0 .. QueueSize
    BY <1>1, <1>3, <1>5, HandKeeps
  <1>7. TypeOK'
    BY <1>3, <1>4, <1>5, <1>6 DEF TypeOK
  <1>8. Points'
    BY <1>3, <1>4 DEF Points
  <1>9. Captures'
    <2>1. \A t \in Traces \ {a} : Captured(t)'
      BY <1>5 DEF Captures, Captured
    <2>2. pc = "reset_state" => tr \in Traces \ {a}
      BY <1>1, ActiveIsFree DEF Points, TypeOK
    <2> QED
      BY <1>4, <1>5, <2>1, <2>2 DEF Captures
  <1> QED
    BY <1>6, <1>7, <1>8, <1>9

-----------------------------------------------------------------------------
(* The other steps *)

LEMMA QueueKept ==
    ASSUME Ring, UNCHANGED <<m, in, out>>, Held' = Held,
           pc' = "get_size" => sz' = size' /\ size' > 0
    PROVE  Ring' /\ \A u : Waits(u)' <=> Waits(u)
  <1>1. \A k : Place(k)' = Place(k)
    BY DEF Place
  <1> QED
    BY <1>1 DEF Ring, Waits

\* Of the traces only what TypeOK says of them matters elsewhere.
LEMMA TracesKept ==
    ASSUME TraceIInv, UNCHANGED traceVars, UNCHANGED tr, Ring', \A u : Waits(u)' <=> Waits(u)
    PROVE  Pairs' /\ InHand' /\ NoneForgotten' /\ \A t \in Traces : Captured(t)'
  <1> USE DEF TraceIInv, traceVars
  <1>1. Pairs' /\ \A t \in Traces : Captured(t)'
    BY DEF Pairs, Captures, Captured
  <1>2. \A t : Delivered(t)' <=> Delivered(t)
    BY DEF Delivered
  <1>3. InHand'
    BY <1>2 DEF InHand
  <1>4. NoneForgotten'
    BY DEF NoneForgotten
  <1> QED
    BY <1>1, <1>3, <1>4

\* Steps that leave the traces, the queue and what is in hand.
LEMMA QuietStep ==
    ASSUME TraceIInv, UNCHANGED <<traceVars, m, in, out, tr>>, TypeOK', Held' = Held,
           pc' = "get_size" => sz' = size' /\ size' > 0,
           Points', pc' = "reset_state" => count[tr] = 0
    PROVE  TraceIInv'
  <1>1. Ring' /\ \A u : Waits(u)' <=> Waits(u)
    BY QueueKept DEF TraceIInv
  <1>2. Pairs' /\ InHand' /\ NoneForgotten' /\ \A t \in Traces : Captured(t)'
    BY <1>1, TracesKept
  <1>3. Captures'
    BY <1>2 DEF Captures, traceVars
  <1> QED
    BY <1>1, <1>2, <1>3 DEF TraceIInv

LEMMA OtherStepsKeep ==
    ASSUME TraceIInv,
           PWMA_IRQHandler \/ TaskStart \/ GetCheck \/ GetSize \/ usb_out_send \/ usb_out_transmitting
    PROVE  TraceIInv'
  <1> USE DEF queueVars, adcVars, mainVars
  <1>1. TypeOK /\ Ring /\ InHand /\ Points /\ Captures
    BY DEF TraceIInv
  <1>2. CASE PWMA_IRQHandler
    <2>0. analog_inputs_channel' \in Inputs
      <3>1. analog_inputs_channel \in Nat /\ ANALOG_INPUTS \in Nat \ {0}
        BY <1>1 DEF TypeOK, Inputs
      <3> QED
        BY <1>2, <3>1 DEF PWMA_IRQHandler, Inputs
    <2>1. TypeOK'
      BY <1>1, <1>2, <2>0 DEF TypeOK, PWMA_IRQHandler, traceVars
    <2>2. Points' /\ Held' = Held
      BY <1>1, <1>2 DEF Points, PWMA_IRQHandler, Held
    <2> QED
      BY <1>1, <1>2, <2>1, <2>2, QuietStep DEF PWMA_IRQHandler, Ring, Captures
  <1>3. CASE TaskStart
    <2>1. TypeOK'
      BY <1>1, <1>3 DEF TypeOK, TaskStart, traceVars
    <2>2. Points' /\ Held' = Held
      BY <1>1, <1>3 DEF Points, TaskStart, Held, usb_out_ready
    <2> QED
      BY <1>1, <1>3, <2>1, <2>2, QuietStep DEF TaskStart
  <1>4. CASE GetCheck
    <2>1. TypeOK'
      BY <1>1, <1>4 DEF TypeOK, GetCheck, traceVars
    <2>2. Points' /\ Held' = Held
      BY <1>1, <1>4 DEF Points, GetCheck, Held
    <2> QED
      BY <1>1, <1>4, <2>1, <2>2, QuietStep DEF GetCheck
  <1>5. CASE GetSize
    <2>1. sz = size /\ size \in 1 .. QueueSize
      BY <1>1, <1>5 DEF TypeOK, GetSize, Ring
    <2>2. TypeOK'
      BY <1>1, <1>5, <2>1 DEF TypeOK, GetSize, traceVars
    <2>3. Points' /\ Held' = Held
      BY <1>1, <1>5, <2>1 DEF Points, GetSize, Held
    <2> QED
      BY <1>1, <1>5, <2>2, <2>3, QuietStep DEF GetSize
  <1>6. CASE usb_out_send
    <2>1. TypeOK'
      BY <1>1, <1>6 DEF TypeOK, usb_out_send, traceVars
    <2>2. Points' /\ Held' = Held
      BY <1>1, <1>6 DEF Points, usb_out_send, Held
    <2> QED
      BY <1>1, <1>6, <2>1, <2>2, QuietStep DEF usb_out_send
  <1>7. CASE usb_out_transmitting
    <2>1. TypeOK'
      BY <1>1, <1>7 DEF TypeOK, usb_out_transmitting, traceVars
    <2>2. Points' /\ Held' = Held
      BY <1>1, <1>7 DEF Points, usb_out_transmitting, Held, TypeOK
    <2> QED
      BY <1>1, <1>7, <2>1, <2>2, QuietStep DEF usb_out_transmitting, Ring, Captures
  <1> QED
    BY <1>2, <1>3, <1>4, <1>5, <1>6, <1>7

LEMMA ResetKeeps ==
    ASSUME TraceIInv, ResetCount \/ ResetState
    PROVE  TraceIInv'
  <1> USE DEF TraceIInv, queueVars, adcVars
  <1>1. /\ tr \in Traces /\ Delivered(tr) /\ state[tr] = "FINISHED"
        /\ count \in [Traces -> 0 .. TRACE_SIZE] /\ state \in [Traces -> {"IDLE", "RUNNING", "FINISHED"}]
        /\ fresh \in [Traces -> 0 .. TRACE_SIZE] /\ after \in [Traces -> 0 .. TRACE_SIZE]
    BY DEF TypeOK, InHand, Points, Delivered, ResetCount, ResetState
  <1>2. Held' = Held /\ UNCHANGED <<m, in, out, trace_active, trace_backup>> /\ pc' # "get_size"
    BY DEF Held, ResetCount, ResetState
  <1>3. Ring' /\ \A u : Waits(u)' <=> Waits(u)
    BY <1>2, QueueKept
  <1>4. Pairs'
    BY <1>2 DEF Pairs
  <1>5. CASE ResetCount
    <2>1. TypeOK'
      BY <1>1, <1>5 DEF TypeOK, ResetCount
    <2>2. InHand' /\ NoneForgotten'
      BY <1>3, <1>5 DEF ResetCount, InHand, NoneForgotten, Delivered
    <2>3. Points'
      BY <1>5 DEF ResetCount, Points
    <2>4. Captures'
      BY <1>1, <1>5 DEF ResetCount, Captures, Captured
    <2> QED
      BY <1>3, <1>4, <2>1, <2>2, <2>3, <2>4
  <1>6. CASE ResetState
    <2>1. TypeOK'
      BY <1>1, <1>6 DEF TypeOK, ResetState
    <2>2. state'[tr] = "IDLE" /\ tr' = NoTrace /\ \A t \in Traces \ {tr} : state'[t] = state[t]
      BY <1>1, <1>6 DEF ResetState
    <2>3. InHand'
      <3>1. \A t : Waits(t) => Delivered(t)'
        BY <1>2, <2>2 DEF InHand, Delivered
      <3>2. ~Waits(NoTrace)
        BY DEF InHand, Delivered
      <3> QED
        BY <1>3, <2>2, <3>1, <3>2 DEF InHand
    <2>4. NoneForgotten'
      <3> SUFFICES ASSUME NEW i \in Inputs, NEW u, u = trace_backup[i], state'[u] = "FINISHED"
                   PROVE  Waits(u)
        BY <1>2, <1>3 DEF NoneForgotten
      <3>1. u \in Traces /\ u # tr
        BY <2>2 DEF Pairs
      <3> QED
        BY <2>2, <3>1 DEF NoneForgotten
    <2>5. Points'
      BY <1>6 DEF ResetState, Points
    <2>6. Captures'
      <3>1. /\ \A t \in Traces \ {tr} : fresh'[t] = fresh[t] /\ after'[t] = after[t]
            /\ count' = count /\ count[tr] = 0 /\ fresh'[tr] = 0 /\ pc' # "reset_state"
        BY <1>1, <1>6 DEF ResetState, Captures
      <3> QED
        BY <1>1, <2>2, <3>1 DEF Captures, Captured
    <2> QED
      BY <1>3, <1>4, <2>1, <2>3, <2>4, <2>5, <2>6
  <1> QED
    BY <1>5, <1>6

LEMMA GetReadKeeps ==
    ASSUME TraceIInv, GetRead
    PROVE  TraceIInv'
  <1> USE DEF TraceIInv, adcVars
  <1>1. /\ pc = "get_read" /\ pc' = "send" /\ tr' = m[out] /\ out' = (out + 1) % QueueSize
        /\ UNCHANGED <<traceVars, m, in, size, adcVars, sz, usb_out_tx_size>>
    BY DEF GetRead
  <1>2. UNCHANGED <<state, count, trace_active, trace_backup, fresh, after>>
    BY <1>1 DEF traceVars
  <1>3. /\ Held = size + 1 /\ Held' = size /\ size \in 0 .. QueueSize - 1 /\ QueueSize \in Nat
        /\ out \in 0 .. QueueSize - 1 /\ tr = NoTrace
    BY <1>1 DEF Held, Ring, TypeOK, Points
  <1>4. /\ Place(0) = out
        /\ \A k \in 0 .. size : Place(k)' = Place(k + 1)
    <2>1. \A k : Place(k)' = (((out + 1) % QueueSize) + k) % QueueSize
      BY <1>1 DEF Place
    <2>2. 0 .. size \subseteq 0 .. QueueSize - 1 /\ 0 \in 0 .. QueueSize - 1
      BY <1>3
    <2> QED
      BY <1>3, <2>1, <2>2, PlaceNext
  <1>5. \A u : Waits(u)' <=> Waits(u) /\ u # tr'
    <2> SUFFICES ASSUME NEW u PROVE Waits(u)' <=> Waits(u) /\ u # tr'
      OBVIOUS
    <2>1. Waits(u)' <=> \E k \in 0 .. size - 1 : m[Place(k + 1)] = u
      BY <1>1, <1>3, <1>4 DEF Waits
    <2>2. Waits(u) <=> \E k \in 0 .. size : m[Place(k)] = u
      BY <1>3 DEF Waits
    <2>3. \A k \in 0 .. size : m[Place(k)] = tr' <=> k = 0
      BY <1>1, <1>3, <1>4 DEF Ring
    <2>4. ASSUME Waits(u)' PROVE Waits(u) /\ u # tr'
      <3>1. PICK k \in 0 .. size - 1 : m[Place(k + 1)] = u
        BY <2>1, <2>4
      <3>2. k + 1 \in 0 .. size /\ k + 1 # 0
        BY <1>3, <3>1
      <3> QED
        BY <2>2, <2>3, <3>1, <3>2
    <2>5. ASSUME Waits(u), u # tr' PROVE Waits(u)'
      <3>1. PICK k \in 0 .. size : m[Place(k)] = u
        BY <2>2, <2>5
      <3>2. k # 0
        BY <2>3, <2>5, <3>1
      <3>3. k - 1 \in 0 .. size - 1 /\ (k - 1) + 1 = k
        BY <1>3, <3>1, <3>2
      <3> QED
        BY <2>1, <3>1, <3>3
    <2> QED
      BY <2>4, <2>5
  <1>6. Waits(m[out])
    BY <1>3, <1>4 DEF Waits
  <1>7. Ring'
    <2>1. in' = Place(Held)'
      BY <1>1, <1>3, <1>4 DEF Ring
    <2>2. ASSUME NEW j \in 0 .. size - 1, NEW k \in 0 .. size - 1, m[Place(j + 1)] = m[Place(k + 1)]
          PROVE  j = k
      <3>1. j + 1 \in 0 .. Held - 1 /\ k + 1 \in 0 .. Held - 1
        BY <1>3
      <3>2. j + 1 = k + 1
        BY <2>2, <3>1 DEF Ring
      <3> QED
        BY <3>2
    <2> QED
      BY <1>1, <1>3, <1>4, <2>1, <2>2 DEF Ring
  <1>8. \A u : Delivered(u)' <=> Delivered(u)
    BY <1>2 DEF Delivered
  <1>9. InHand'
    BY <1>1, <1>5, <1>6, <1>8 DEF InHand
  <1>10. NoneForgotten'
    BY <1>2, <1>3, <1>5 DEF NoneForgotten, Pairs
  <1>11. TypeOK'
    <2>1. out' \in 0 .. QueueSize - 1 /\ tr' \in Traces \cup {NoTrace}
      BY <1>1, <1>3 DEF TypeOK
    <2> QED
      BY <1>1, <1>2, <2>1 DEF TypeOK
  <1>12. Points'
    BY <1>1, <1>6 DEF Points, InHand, Delivered
  <1>13. Pairs' /\ Captures'
    BY <1>1, <1>2 DEF Pairs, Captures, Captured
  <1> QED
    BY <1>7, <1>9, <1>10, <1>11, <1>12, <1>13

LEMMA InitEstablishes == Init => TraceIInv
  <1> SUFFICES ASSUME Init PROVE TraceIInv
    OBVIOUS
  <1>1. QueueSize \in Nat \ {0} /\ 0 \in Inputs /\ Held = 0
    BY DEF Init, Inputs, Held
  <1>2. TypeOK
    <2>1. \A i \in Inputs : <<"primary", i>> \in Traces /\ <<"secondary", i>> \in Traces
      BY DEF Traces
    <2> QED
      BY <1>1, <2>1 DEF Init, TypeOK
  <1>3. Ring /\ \A u : ~Waits(u)
    <2>1. in = Place(Held) /\ 0 .. Held - 1 = {}
      BY <1>1 DEF Init, Place
    <2> QED
      BY <1>1, <2>1 DEF Init, Ring, Waits
  <1>4. Pairs
    BY DEF Init, Pairs, Traces
  <1>5. InHand /\ NoneForgotten
    BY <1>3, <1>4 DEF Init, InHand, NoneForgotten, Pairs
  <1>6. Points /\ Captures
    BY DEF Init, Points, Captures, Captured
  <1> QED
    BY <1>2, <1>3, <1>4, <1>5, <1>6 DEF TraceIInv

(* The inductive invariant of capture and transmission: with no sample     *)
(* within rbuff_get_word, the interrupt and the task hand every trace on.  *)
THEOREM TraceInvariance ==
    ASSUME QuietGet
    PROVE  Spec => []TraceIInv
  <1>1. Init => TraceIInv
    BY InitEstablishes
  <1>2. TraceIInv /\ [Next]_vars => TraceIInv'
    <2> SUFFICES ASSUME TraceIInv, [Next]_vars PROVE TraceIInv'
      OBVIOUS
    <2>1. CASE ADC_IRQHandler
      BY <2>1, ADCKeeps
    <2>2. CASE \/ PWMA_IRQHandler \/ TaskStart \/ GetCheck \/ GetSize
               \/ usb_out_send \/ usb_out_transmitting
      BY <2>2, OtherStepsKeep
    <2>3. CASE ResetCount \/ ResetState
      BY <2>3, ResetKeeps
    <2>4. CASE GetRead
      BY <2>4, GetReadKeeps
    <2>5. CASE UNCHANGED vars
      <3>1. UNCHANGED <<traceVars, m, in, out, size, tr, pc, sz>> /\ TypeOK'
        BY <2>5 DEF vars, traceVars, queueVars, adcVars, mainVars, TypeOK, TraceIInv
      <3>2. Points' /\ Held' = Held
        BY <2>5 DEF TraceIInv, Points, Held, vars, queueVars, mainVars
      <3> QED
        BY <3>1, <3>2, QuietStep DEF TraceIInv, Ring, Captures
    <2> QED
      BY <2>1, <2>2, <2>3, <2>4, <2>5 DEF Next, analog_inputs_task
  <1> QED
    BY <1>1, <1>2, PTL DEF Spec

-----------------------------------------------------------------------------
(* What it says of the properties *)

(* No trace is captured into beyond its TRACE_SIZE samples, and every      *)
(* index of trace_transmit_queue stays within its slots.                   *)
THEOREM TraceTypes ==
    ASSUME QuietGet
    PROVE  Spec => []TypeOK
  <1>1. TraceIInv => TypeOK
    BY DEF TraceIInv
  <1> QED
    BY <1>1, TraceInvariance, PTL

(* A finished trace shows its trigger behind TRACE_DELAY samples in a row  *)
(* (trace_put and trace_reset), for every size and delay of a trace.       *)
THEOREM TriggerWhereItBelongs ==
    ASSUME QuietGet
    PROVE  Spec => []TriggerInPlace
  <1>1. TraceIInv => TriggerInPlace
    BY DEF TraceIInv, Captures, Captured, TriggerInPlace
  <1> QED
    BY <1>1, TraceInvariance, PTL

\* As many traces are on the queue as its size says.
LEMMA QueuedOnce ==
    ASSUME TypeOK, Ring, ~InGet
    PROVE  Cardinality(Queued) = size /\ \A t : t \in Queued <=> Waits(t)
  <1> DEFINE places == 0 .. size - 1
             waiting == [k \in places |-> m[Place(k)]]
  <1>1. Held = size /\ size \in Nat
    BY DEF Held, InGet, TypeOK
  <1>2. Queued = {m[Place(k)] : k \in places}
    BY DEF Queued, Place
  <1>3. \A j \in places, k \in places : waiting[j] = waiting[k] => j = k
    BY <1>1 DEF Ring
  <1>4. waiting \in [places -> Queued] /\ \A t \in Queued : \E k \in places : waiting[k] = t
    BY <1>2
  <1>5. waiting \in Bijection(places, Queued)
    <2> HIDE DEF waiting, places
    <2> QED
      BY <1>3, <1>4, Fun_IsBij
  <1>6. IsFiniteSet(places) /\ Cardinality(places) = size
    <2>1. 0 \in Int /\ size - 1 \in Int
      BY <1>1
    <2>2. /\ IsFiniteSet(0 .. size - 1)
          /\ Cardinality(0 .. size - 1) = IF 0 > size - 1 THEN 0 ELSE size - 1 - 0 + 1
      BY <2>1, FS_Interval
    <2> QED
      BY <1>1, <2>2
  <1>7. Cardinality(Queued) = size
    <2> HIDE DEF waiting, places
    <2> QED
      BY <1>5, <1>6, FS_Bijection DEF ExistsBijection
  <1> QED
    BY <1>1, <1>2, <1>7 DEF Waits

(* Every trace handed to the transmit queue is on it once or being sent,   *)
(* for every number of inputs and every queue with a slot for each.        *)
THEOREM NothingIsStranded ==
    ASSUME QuietGet
    PROVE  Spec => []NothingStranded
  <1>1. TraceIInv => NothingStranded
    <2> SUFFICES ASSUME TraceIInv, ~InGet PROVE NothingStranded
      BY DEF NothingStranded
    <2>1. Cardinality(Queued) = size /\ \A t : t \in Queued <=> Waits(t)
      BY QueuedOnce DEF TraceIInv
    <2>2. tr \notin Queued
      BY <2>1 DEF TraceIInv, InHand
    <2>3. ASSUME NEW i \in Inputs
          PROVE  state[trace_backup[i]] = "FINISHED" <=> trace_backup[i] \in Queued \cup {tr}
      <3>1. trace_backup[i] # NoTrace
        BY DEF TraceIInv, Pairs
      <3> QED
        BY <2>1, <3>1 DEF TraceIInv, InHand, Delivered, NoneForgotten
    <2> QED
      BY <2>1, <2>2, <2>3 DEF NothingStranded
  <1> QED
    BY <1>1, TraceInvariance, PTL

(* A trace does not change while usb_out.c sends it from its memory.       *)
THEOREM NotChangedWhileSent ==
    ASSUME QuietGet
    PROVE  Spec => FrozenWhileSent
  <1> DEFINE Frozen == usb_out_tx_size > 0 =>
                 state'[tr] = state[tr] /\ count'[tr] = count[tr] /\ fresh'[tr] = fresh[tr]
  <1>1. TraceIInv /\ [Next]_vars => [Frozen]_vars
    <2> SUFFICES ASSUME TraceIInv, Next, usb_out_tx_size > 0
                 PROVE  state'[tr] = state[tr] /\ count'[tr] = count[tr] /\ fresh'[tr] = fresh[tr]
      BY DEF FrozenWhileSent
    <2>1. pc = "wait" /\ tr \in Traces
      BY DEF TraceIInv, Points, TypeOK
    <2>2. CASE ADC_IRQHandler
      <3>1. PICK above \in BOOLEAN : trace_put(trace_active[analog_inputs_channel], above)
        BY <2>2 DEF ADC_IRQHandler
      <3>2. trace_active[analog_inputs_channel] \in Traces \ {tr}
        BY ActiveIsFree DEF TraceIInv, TypeOK
      <3> QED
        BY <2>1, <3>1, <3>2, PutCaptures DEF TraceIInv, Captures
    <2>3. UNCHANGED <<state, count, fresh>> \/ ADC_IRQHandler
      BY <2>1 DEF Next, PWMA_IRQHandler, analog_inputs_task, TaskStart, ResetCount, ResetState,
         GetCheck, GetSize, GetRead, usb_out_send, usb_out_transmitting, traceVars
    <2> QED
      BY <2>2, <2>3
  <1>2. Spec => [][Frozen]_vars
    BY <1>1, TraceInvariance, PTL DEF Spec
  <1> QED
    BY <1>2 DEF FrozenWhileSent
=============================================================================
