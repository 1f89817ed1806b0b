-------------------------- MODULE EventQueueProofs --------------------------
(***************************************************************************)
(* The event queue is first-in first-out and loses nothing it accepted,    *)
(* for every capacity, every set of events and any number of refusals,     *)
(* provided no USB interrupt arrives within rbuff_init.                    *)
(***************************************************************************)
EXTENDS EventQueue, FiniteSets, FiniteSetTheorems, TLAPS

USE QueueSizeAssumption, EventsAssumption, NoEventAssumption, BoundAssumption

-----------------------------------------------------------------------------
(* Ring arithmetic *)

(* Advancing the slot k places after the start gives the slot k+1 places   *)
(* after it: "in++; in &= max-1" in rbuff_put_byte and rbuff_get_byte.     *)
LEMMA AdvanceSlot ==
    ASSUME NEW k \in 0 .. 2 * QueueSize - 2
    PROVE  /\ Slot(k) \in 0 .. QueueSize - 1
           /\ Advance(Slot(k)) = Slot(k + 1)
BY DEF Slot, Advance

(* An index inside the ring stands for itself, and leaving k places for    *)
(* its successor is leaving k+1 places for it.                             *)
LEMMA SlotShift ==
    ASSUME NEW i \in 0 .. QueueSize - 1, NEW k \in 0 .. QueueSize - 1
    PROVE  /\ Slot(i) = i
           /\ Slot(Advance(i) + k) = Slot(i + k + 1)
BY DEF Slot, Advance

(* Two places less than a turn apart are different slots.                  *)
LEMMA SlotDistinct ==
    ASSUME NEW i \in 0 .. QueueSize - 1,
           NEW j \in 0 .. QueueSize - 1, NEW k \in 0 .. QueueSize - 1,
           j # k
    PROVE  Slot(i + j) # Slot(i + k)
BY DEF Slot

(* The n+1 slots from o on are o and the n slots from its successor on.    *)
LEMMA SlotsSplit ==
    ASSUME NEW o \in 0 .. QueueSize - 1, NEW n \in 0 .. QueueSize - 1
    PROVE  /\ {Slot(o + j) : j \in 0 .. n} = {Slot(Advance(o) + i) : i \in 0 .. n - 1} \cup {o}
           /\ o \notin {Slot(Advance(o) + i) : i \in 0 .. n - 1}
  <1>1. \A i \in 0 .. n - 1 : i + 1 \in 0 .. n /\ Slot(Advance(o) + i) = Slot(o + (i + 1))
    BY DEF Slot, Advance
  <1>2. \A j \in 0 .. n : j = 0 \/ (j - 1 \in 0 .. n - 1 /\ (j - 1) + 1 = j)
    OBVIOUS
  <1>3. Slot(o + 0) = o /\ 0 \in 0 .. n
    BY DEF Slot
  <1>4. \A j \in 0 .. n : Slot(o + j) \in {Slot(Advance(o) + i) : i \in 0 .. n - 1} \cup {o}
    <2> SUFFICES ASSUME NEW j \in 0 .. n, j # 0
                 PROVE  Slot(o + j) \in {Slot(Advance(o) + i) : i \in 0 .. n - 1}
      BY <1>3
    <2>1. j - 1 \in 0 .. n - 1 /\ Slot(Advance(o) + (j - 1)) = Slot(o + j)
      BY DEF Slot, Advance
    <2> QED
      BY <2>1
  <1>5. \A i \in 0 .. n - 1 : Slot(Advance(o) + i) # o
    BY DEF Slot, Advance
  <1> QED
    BY <1>1, <1>3, <1>4, <1>5

-----------------------------------------------------------------------------
(* The inductive invariant *)

LEMMA InitIInv == Init => IInv
  <1> SUFFICES ASSUME Init PROVE IInv
    OBVIOUS
  <1> USE DEF Init
  <1>1. TypeOK
    BY DEF TypeOK, Contexts, Labels
  <1>2. Placement /\ BootState /\ GetKnows
    BY DEF Placement, BootState, GetKnows, Contexts, InitWindow, Booted
  <1>3. Exclusion /\ (\A c \in Contexts : PutKnows(c))
    BY DEF Exclusion, PutKnows, Contexts, Locked, PutPoints, GetPoints
  <1>4. IndicesMatch
    BY DEF IndicesMatch, Between, Contexts, Slot
  <1> QED
    BY <1>1, <1>2, <1>3, <1>4 DEF IInv

(* What the points of scheduler_init, the interrupts, event_publish and    *)
(* scheduler_check_events preserve: one lemma each, one step per action.   *)
LEMMA InitPreserves == ASSUME QuietBoot, IInv, scheduler_init PROVE IInv'
  <1> USE DEF IInv
  <1>1. \A c \in Contexts \ {"main"} : pc[c] = "off"
    BY DEF scheduler_init, InitMax, InitIn, InitOut, InitSize,
           Running, Priority, Contexts, Active
  <1>2. CASE InitMax
    <2> USE <1>2 DEF InitMax, Goto
    <2>1. TypeOK'
      BY DEF TypeOK, Labels, InitWindow, Contexts
    <2>2. Placement' /\ BootState' /\ GetKnows'
      BY <1>1 DEF TypeOK, Placement, BootState, GetKnows, Contexts, Labels, InitWindow, Booted
    <2>3. Exclusion' /\ (\A c \in Contexts : PutKnows(c))'
      BY <1>1 DEF TypeOK, Exclusion, PutKnows, Contexts, Locked, PutPoints, GetPoints, InitWindow
    <2>4. IndicesMatch'
      BY <1>1 DEF TypeOK, IndicesMatch, Between, Contexts, Slot
    <2> QED
      BY <2>1, <2>2, <2>3, <2>4
  <1>3. CASE InitIn
    <2> USE <1>3 DEF InitIn, Goto
    <2>1. TypeOK'
      BY DEF TypeOK, Labels, InitWindow, Contexts
    <2>2. Placement' /\ BootState' /\ GetKnows'
      BY <1>1 DEF TypeOK, Placement, BootState, GetKnows, Contexts, Labels, InitWindow, Booted
    <2>3. Exclusion' /\ (\A c \in Contexts : PutKnows(c))'
      BY <1>1 DEF TypeOK, Exclusion, PutKnows, Contexts, Locked, PutPoints, GetPoints, InitWindow
    <2>4. IndicesMatch'
      BY <1>1 DEF TypeOK, IndicesMatch, Between, Contexts, Slot, BootState, InitWindow, Booted
    <2> QED
      BY <2>1, <2>2, <2>3, <2>4
  <1>4. CASE InitOut
    <2> USE <1>4 DEF InitOut, Goto
    <2>1. TypeOK'
      BY DEF TypeOK, Labels, InitWindow, Contexts
    <2>2. Placement' /\ BootState' /\ GetKnows'
      BY <1>1 DEF TypeOK, Placement, BootState, GetKnows, Contexts, Labels, InitWindow, Booted
    <2>3. Exclusion' /\ (\A c \in Contexts : PutKnows(c))'
      BY <1>1 DEF TypeOK, Exclusion, PutKnows, Contexts, Locked, PutPoints, GetPoints, InitWindow
    <2>4. IndicesMatch'
      BY <1>1 DEF TypeOK, IndicesMatch, Between, Contexts, Slot, BootState, InitWindow, Booted
    <2> QED
      BY <2>1, <2>2, <2>3, <2>4
  <1>5. CASE InitSize
    <2> USE <1>5 DEF InitSize, Goto
    <2>1. TypeOK'
      BY DEF TypeOK, Labels, InitWindow, Contexts
    <2>2. Placement' /\ BootState' /\ GetKnows'
      BY <1>1 DEF TypeOK, Placement, BootState, GetKnows, Contexts, Labels, InitWindow, Booted
    <2>3. Exclusion' /\ (\A c \in Contexts : PutKnows(c))'
      BY <1>1 DEF TypeOK, Exclusion, PutKnows, Contexts, Locked, PutPoints, GetPoints, InitWindow
    <2>4. IndicesMatch'
      BY <1>1 DEF TypeOK, IndicesMatch, Between, Contexts, Slot, BootState, InitWindow, Booted
    <2> QED
      BY <2>1, <2>2, <2>3, <2>4
  <1> QED
    BY <1>2, <1>3, <1>4, <1>5 DEF scheduler_init

-----------------------------------------------------------------------------
(* Control: who is where, and who masks interrupts *)

Control == pc \in [Contexts -> Labels] /\ Placement /\ Exclusion

LEMMA GotoMoves ==
    ASSUME pc \in [Contexts -> Labels], NEW c \in Contexts, NEW to \in Labels, Goto(c, to)
    PROVE  /\ pc' \in [Contexts -> Labels]
           /\ pc'[c] = to
           /\ \A d \in Contexts \ {c} : pc'[d] = pc[d]
BY DEF Goto

(* A step inside the critical section stays alone there.                   *)
LEMMA MoveInside ==
    ASSUME Control, NEW c \in Contexts, NEW to \in Locked,
           pc[c] \in Locked, Goto(c, to), c # "main" => to \in PutPoints,
           UNCHANGED <<primask, pmask>>
    PROVE  Control'
  <1>1. /\ pc' \in [Contexts -> Labels] /\ pc'[c] = to
        /\ \A d \in Contexts \ {c} : pc'[d] = pc[d]
    BY GotoMoves DEF Control, Labels
  <1>2. Placement'
    BY <1>1 DEF Control, Placement, Contexts
  <1>3. Exclusion'
    <2>1. \A d \in Contexts \ {c} : pc[d] \notin Locked /\ pc'[d] = pc[d]
      BY <1>1 DEF Control, Exclusion
    <2>2. primask = 1 /\ pmask[c] = 0
      BY DEF Control, Exclusion
    <2>3. \A d \in Contexts \ {c} : Priority[d] > Priority[c] => ~Active(d)'
      BY <1>1 DEF Control, Exclusion, Active
    <2> QED
      BY <1>1, <2>1, <2>2, <2>3 DEF Exclusion
  <1> QED
    BY <1>1, <1>2, <1>3 DEF Control

(* Entering it is possible only when nobody is inside and nothing of a     *)
(* higher priority is active.                                              *)
LEMMA Enter ==
    ASSUME Control, primask \in {0, 1}, pmask \in [Contexts -> {0, 1}], NEW c \in Contexts, NEW from, NEW to \in Locked,
           from \notin Locked, critical_section_enter(c, from, to),
           c # "main" => to \in PutPoints
    PROVE  Control'
  <1> USE DEF critical_section_enter
  <1>1. /\ pc' \in [Contexts -> Labels] /\ pc'[c] = to
        /\ \A d \in Contexts \ {c} : pc'[d] = pc[d]
    BY GotoMoves DEF Control, Labels
  <1>2. Placement'
    BY <1>1 DEF Control, Placement, Contexts
  <1>3. Exclusion'
    <2>1. \A d \in Contexts : pc[d] \notin Locked
      <3> SUFFICES ASSUME NEW d \in Contexts, pc[d] \in Locked PROVE FALSE
        OBVIOUS
      <3>1. c # d /\ Priority[d] < Priority[c] => ~Active(c)
        BY DEF Control, Exclusion
      <3>2. Active(c) /\ Active(d)
        BY DEF Running, Active, Locked, PutPoints, GetPoints
      <3> QED
        BY <3>1, <3>2 DEF Running, Priority, Contexts
    <2>2. primask = 0 /\ pmask'[c] = 0 /\ primask' = 1
      BY <2>1 DEF Control, Exclusion
    <2>3. \A d \in Contexts \ {c} : Priority[d] > Priority[c] => ~Active(d)'
      BY <1>1 DEF Running, Active
    <2> QED
      BY <1>1, <2>1, <2>2, <2>3 DEF Exclusion
  <1> QED
    BY <1>1, <1>2, <1>3 DEF Control

(* Leaving it enables interrupts, and leaves nobody inside.                *)
LEMMA Leave ==
    ASSUME Control, NEW c \in Contexts, NEW from \in Locked, NEW to \in Labels \ Locked,
           critical_section_exit(c, from, to),
           to \in IF c = "main" THEN {"poll", "run"} ELSE {"off"}
    PROVE  Control' /\ primask' = 0
  <1> USE DEF critical_section_exit
  <1>1. /\ pc' \in [Contexts -> Labels] /\ pc'[c] = to
        /\ \A d \in Contexts \ {c} : pc'[d] = pc[d]
    BY GotoMoves DEF Control, Labels
  <1>2. Placement'
    BY <1>1 DEF Control, Placement, Contexts
  <1>3. primask' = 0 /\ \A d \in Contexts : pc'[d] \notin Locked
    BY <1>1 DEF Control, Exclusion
  <1> QED
    BY <1>1, <1>2, <1>3 DEF Control, Exclusion

(* A step outside it neither enters nor masks.                             *)
LEMMA MoveOutside ==
    ASSUME Control, NEW c \in Contexts, NEW to \in {"poll", "run", "publish"},
           pc[c] \notin Locked, Goto(c, to),
           c # "main" => to = "publish",
           \A d \in Contexts : pc[d] \notin Locked,
           UNCHANGED <<primask, pmask>>
    PROVE  Control'
  <1>1. /\ pc' \in [Contexts -> Labels] /\ pc'[c] = to
        /\ \A d \in Contexts \ {c} : pc'[d] = pc[d]
    BY GotoMoves DEF Control, Labels
  <1>2. to \notin Locked
    BY DEF Locked, PutPoints, GetPoints
  <1>3. Placement'
    BY <1>1 DEF Control, Placement, Contexts
  <1>4. Exclusion'
    BY <1>1, <1>2 DEF Control, Exclusion
  <1> QED
    BY <1>1, <1>3, <1>4 DEF Control

(* A step of an active context outside rbuff_init leaves the boot state.   *)
LEMMA BootKept ==
    ASSUME Control, BootState, NEW c \in Contexts, NEW to \in Labels, Goto(c, to),
           pc[c] \notin {"off", "boot"} \cup InitWindow,
           to \notin {"boot"} \cup InitWindow,
           max' = max,
           ~Booted => UNCHANGED <<in, out, size>>
    PROVE  BootState' /\ Booted' = Booted
  <1>1. /\ pc'[c] = to /\ \A d \in Contexts \ {c} : pc'[d] = pc[d]
    BY GotoMoves DEF Control
  <1>2. Booted' = Booted
    BY <1>1 DEF Booted, Contexts
  <1>3. ~Booted => pc["systick"] = "off" /\ c # "systick"
    BY DEF BootState
  <1>4. pc["main"] \in InitWindow => c = "systick"
    BY DEF BootState, Contexts
  <1> QED
    BY <1>1, <1>2, <1>3, <1>4 DEF BootState, Contexts, Booted

(* Inside the critical section the size is the number of slots filled, but *)
(* for the slot this very context is working on.                           *)
LEMMA BetweenInside ==
    ASSUME Control, NEW c \in Contexts, pc[c] \in Locked
    PROVE  /\ \A d \in Contexts \ {c} : pc[d] \notin Locked
           /\ Between = size + IF pc[c] \in {"put_size", "get_read"} THEN 1 ELSE 0
BY DEF Control, Placement, Exclusion, Between, Contexts, Locked, PutPoints, GetPoints

LEMMA SizeWithinMax == ASSUME TypeOK, BootState PROVE size <= max
BY DEF TypeOK, BootState, Booted, InitWindow

(* A context that found room did so in an open queue.                      *)
LEMMA RoomMeansOpen ==
    ASSUME IInv, NEW c \in Contexts, pc[c] \in {"put_write", "put_size"} PROVE Booted
  <1>1. max > 0
    BY DEF IInv, PutKnows, TypeOK
  <1>2. pc["main"] \notin InitWindow
    BY DEF IInv, BootState, Booted, Contexts, InitWindow
  <1> QED
    BY <1>1, <1>2 DEF IInv, BootState, Booted

-----------------------------------------------------------------------------
(* event_publish *)

LEMMA PublishPreserves ==
    ASSUME QuietBoot, IInv, NEW c \in Contexts, event_publish(c) PROVE IInv'
  <1> USE DEF Labels, Locked, PutPoints, GetPoints, InitWindow
  <1>1. Control /\ TypeOK /\ BootState
    BY DEF IInv, Control, TypeOK
  <1>2. CASE PutEnter(c)
    <2>1. /\ pc[c] = "publish" /\ Goto(c, "put_check") /\ Running(c)
          /\ UNCHANGED <<pub, sz, queueVars, event, event_queue_full, owed>>
          /\ pmask' = [pmask EXCEPT ![c] = primask]
          /\ primask' = 1
      BY <1>2 DEF PutEnter, critical_section_enter
    <2>2. /\ pc' \in [Contexts -> Labels] /\ pc'[c] = "put_check"
          /\ \A d \in Contexts \ {c} : pc'[d] = pc[d]
      BY <1>1, <2>1, GotoMoves DEF Control, Contexts
    <2>3. Control'
      <3>1. critical_section_enter(c, "publish", "put_check")
        BY <1>2 DEF PutEnter
      <3> QED
        BY ONLY <1>1, <3>1, Enter DEF TypeOK, Contexts, Locked, PutPoints, GetPoints
    <2>4. TypeOK'
      BY <1>1, <2>1, <2>2 DEF TypeOK, queueVars
    <2>5. BootState'
      BY <1>1, <2>1, BootKept DEF queueVars, Contexts
    <2>6. (\A d \in Contexts : PutKnows(d))' /\ GetKnows'
      BY <1>1, <2>1, <2>2 DEF IInv, PutKnows, GetKnows, queueVars, Contexts
    <2>7. IndicesMatch'
      BY <2>1, <2>2 DEF IInv, IndicesMatch, Between, queueVars, Contexts
    <2> QED
      BY <2>3, <2>4, <2>5, <2>6, <2>7 DEF IInv, Control
  <1>3. CASE PutCheck(c)
    <2> DEFINE to == IF size < max THEN "put_write" ELSE "put_full"
    <2>1. /\ pc[c] = "put_check" /\ Goto(c, to) /\ Running(c)
          /\ UNCHANGED <<primask, pmask, pub, sz, queueVars, event, event_queue_full, owed>>
      BY <1>3 DEF PutCheck
    <2>2. /\ pc' \in [Contexts -> Labels] /\ pc'[c] = to
          /\ \A d \in Contexts \ {c} : pc'[d] = pc[d]
      BY <1>1, <2>1, GotoMoves DEF Control, Contexts
    <2>3. Control'
      BY <1>1, <2>1, MoveInside DEF Contexts
    <2>4. TypeOK'
      BY <1>1, <2>1, <2>2 DEF TypeOK, queueVars
    <2>5. BootState'
      BY <1>1, <2>1, BootKept DEF queueVars, Contexts
    <2>6. (\A d \in Contexts : PutKnows(d))' /\ GetKnows'
      BY <1>1, <2>1, <2>2, SizeWithinMax DEF IInv, TypeOK, PutKnows, GetKnows, queueVars, Contexts
    <2>7. IndicesMatch'
      BY <2>1, <2>2 DEF IInv, IndicesMatch, Between, queueVars, Contexts
    <2> QED
      BY <2>3, <2>4, <2>5, <2>6, <2>7 DEF IInv, Control
  <1>4. CASE PutWrite(c)
    <2>1. /\ pc[c] = "put_write" /\ Goto(c, "put_size") /\ Running(c)
          /\ UNCHANGED <<primask, pmask, pub, max, out, size, event, event_queue_full, owed>>
          /\ m' = [m EXCEPT ![in] = pub[c]]
          /\ in' = Advance(in)
          /\ sz' = [sz EXCEPT ![c] = size]
      BY <1>4 DEF PutWrite
    <2>2. /\ pc' \in [Contexts -> Labels] /\ pc'[c] = "put_size"
          /\ \A d \in Contexts \ {c} : pc'[d] = pc[d]
      BY <1>1, <2>1, GotoMoves DEF Control, Contexts
    <2>3. Control'
      BY <1>1, <2>1, MoveInside DEF Contexts
    <2>4. TypeOK'
      <3>1. in' \in 0 .. QueueSize - 1
        BY <1>1, <2>1 DEF TypeOK, Advance
      <3>2. /\ m' \in [0 .. QueueSize - 1 -> Events \cup {NoEvent}]
            /\ sz' \in [Contexts -> 0 .. QueueSize]
        BY <1>1, <2>1 DEF TypeOK
      <3> QED
        BY <1>1, <2>1, <2>2, <3>1, <3>2 DEF TypeOK
    <2>5. BootState'
      <3>1. Booted
        BY <2>1, RoomMeansOpen
      <3> QED
        BY <1>1, <2>1, <3>1, BootKept
    <2>6. in = Slot(out + size) /\ size < QueueSize /\ size < max
      <3>1. Between = size
        BY <1>1, <2>1, BetweenInside DEF TypeOK
      <3> QED
        BY <1>1, <2>1, <3>1 DEF IInv, IndicesMatch, PutKnows, TypeOK
    <2>7. (\A d \in Contexts : PutKnows(d))' /\ GetKnows'
      <3>1. \A d \in Contexts \ {c} : pc[d] \notin Locked
        BY <1>1, <2>1, BetweenInside
      <3>2. \A d \in Contexts \ {c} : PutKnows(d)'
        BY <2>1, <2>2, <3>1 DEF IInv, PutKnows
      <3>3. PutKnows(c)'
        <4>1. m'[Slot(out + size)] = pub[c]
          BY <1>1, <2>1, <2>6 DEF TypeOK
        <4> QED
          BY <1>1, <2>1, <2>2, <2>6, <4>1 DEF IInv, PutKnows, TypeOK
      <3>4. GetKnows'
        BY <2>1, <2>2, <3>1 DEF GetKnows, Contexts
      <3> QED
        BY <3>2, <3>3, <3>4
    <2>8. IndicesMatch'
      <3>1. Between' = size + 1
        BY <2>1, <2>2 DEF Between
      <3>2. in' = Slot(out + size + 1)
        BY <1>1, <2>1, <2>6, AdvanceSlot DEF TypeOK
      <3> QED
        BY <1>1, <2>1, <3>1, <3>2 DEF IndicesMatch, TypeOK
    <2> QED
      BY <2>3, <2>4, <2>5, <2>7, <2>8 DEF IInv, Control
  <1>5. CASE PutSize(c)
    <2>1. /\ pc[c] = "put_size" /\ Goto(c, "put_exit") /\ Running(c)
          /\ UNCHANGED <<primask, pmask, pub, sz, m, max, in, out, event, event_queue_full>>
          /\ size' = sz[c] + 1
          /\ owed' = [owed EXCEPT ![pub[c]] = @ + 1]
      BY <1>5 DEF PutSize
    <2>2. /\ pc' \in [Contexts -> Labels] /\ pc'[c] = "put_exit"
          /\ \A d \in Contexts \ {c} : pc'[d] = pc[d]
      BY <1>1, <2>1, GotoMoves DEF Control, Contexts
    <2>3. Control'
      BY <1>1, <2>1, MoveInside DEF Contexts
    <2>4. sz[c] = size /\ size < QueueSize /\ pub[c] \in Events
      BY <1>1, <2>1 DEF IInv, PutKnows, TypeOK
    <2>5. TypeOK'
      BY <1>1, <2>1, <2>2, <2>4 DEF TypeOK
    <2>6. BootState'
      BY <1>1, <2>1, RoomMeansOpen, BootKept
    <2>7. (\A d \in Contexts : PutKnows(d))' /\ GetKnows'
      BY <1>1, <2>1, <2>2, BetweenInside DEF IInv, PutKnows, GetKnows, Contexts
    <2>8. IndicesMatch'
      <3>1. \A d \in Contexts : pc'[d] \notin {"put_size", "get_read"}
        BY <1>1, <2>1, <2>2, BetweenInside
      <3>2. Between = size + 1 /\ Between' = size + 1
        BY <1>1, <2>1, <2>4, <3>1 DEF Between, Contexts, TypeOK
      <3> QED
        BY <2>1, <3>2 DEF IInv, IndicesMatch
    <2> QED
      BY <2>3, <2>5, <2>6, <2>7, <2>8 DEF IInv, Control
  <1>6. CASE PutFull(c)
    <2>1. /\ pc[c] = "put_full" /\ Goto(c, "put_exit") /\ Running(c)
          /\ UNCHANGED <<primask, pmask, pub, sz, queueVars, event, owed>>
          /\ event_queue_full' = event_queue_full + 1
      BY <1>6 DEF PutFull
    <2>2. /\ pc' \in [Contexts -> Labels] /\ pc'[c] = "put_exit"
          /\ \A d \in Contexts \ {c} : pc'[d] = pc[d]
      BY <1>1, <2>1, GotoMoves DEF Control, Contexts
    <2>3. Control'
      BY <1>1, <2>1, MoveInside DEF Contexts
    <2>4. TypeOK'
      BY <1>1, <2>1, <2>2 DEF TypeOK, queueVars
    <2>5. BootState'
      BY <1>1, <2>1, BootKept DEF queueVars, Contexts
    <2>6. (\A d \in Contexts : PutKnows(d))' /\ GetKnows'
      BY <1>1, <2>1, <2>2 DEF IInv, PutKnows, GetKnows, queueVars, Contexts
    <2>7. IndicesMatch'
      BY <2>1, <2>2 DEF IInv, IndicesMatch, Between, queueVars, Contexts
    <2> QED
      BY <2>3, <2>4, <2>5, <2>6, <2>7 DEF IInv, Control
  <1>7. CASE PutExit(c)
    <2> DEFINE to == IF c = "main" THEN "run" ELSE "off"
    <2>1. /\ pc[c] = "put_exit" /\ Goto(c, to) /\ Running(c)
          /\ UNCHANGED <<pmask, pub, sz, queueVars, event, event_queue_full, owed>>
          /\ primask' \in {primask, 0}
      BY <1>7 DEF PutExit, critical_section_exit
    <2>2. /\ pc' \in [Contexts -> Labels] /\ pc'[c] = to
          /\ \A d \in Contexts \ {c} : pc'[d] = pc[d]
      BY <1>1, <2>1, GotoMoves DEF Control, Contexts
    <2>3. Control'
      <3>1. critical_section_exit(c, "put_exit", to)
        BY <1>7 DEF PutExit
      <3> QED
        BY ONLY <1>1, <3>1, Leave DEF Control, Contexts, Locked, PutPoints, GetPoints, Labels
    <2>4. TypeOK'
      BY <1>1, <2>1, <2>2, <2>3 DEF TypeOK, queueVars
    <2>5. BootState'
      BY <1>1, <2>1, BootKept DEF queueVars, Contexts
    <2>6. (\A d \in Contexts : PutKnows(d))' /\ GetKnows'
      BY <1>1, <2>1, <2>2 DEF IInv, PutKnows, GetKnows, queueVars, Contexts
    <2>7. IndicesMatch'
      BY <2>1, <2>2 DEF IInv, IndicesMatch, Between, queueVars, Contexts
    <2> QED
      BY <2>3, <2>4, <2>5, <2>6, <2>7 DEF IInv, Control
  <1> QED
    BY <1>2, <1>3, <1>4, <1>5, <1>6, <1>7 DEF event_publish

-----------------------------------------------------------------------------
(* The interrupts *)

LEMMA InterruptPreserves ==
    ASSUME QuietBoot, IInv, NEW c \in {"systick", "usb"}, NEW e \in Events,
           InterruptEnter(c, e), c = "systick" => Booted,
           pc["main"] \notin InitWindow
    PROVE  IInv'
  <1> USE DEF Labels, Locked, PutPoints, GetPoints
  <1>1. Control /\ TypeOK /\ BootState
    BY DEF IInv, Control, TypeOK
  <1>2. /\ primask = 0 /\ pc[c] = "off" /\ Goto(c, "publish")
        /\ pub' = [pub EXCEPT ![c] = e]
        /\ UNCHANGED <<primask, pmask, sz, queueVars, event, event_queue_full, owed>>
    BY DEF InterruptEnter, Active
  <1>3. /\ pc' \in [Contexts -> Labels] /\ pc'[c] = "publish"
        /\ \A d \in Contexts \ {c} : pc'[d] = pc[d]
    BY <1>1, <1>2, GotoMoves DEF Control, Contexts
  <1>4. Control'
    <2>1. \A d \in Contexts : pc[d] \notin Locked
      BY <1>1, <1>2 DEF Control, Exclusion
    <2> QED
      BY <1>1, <1>2, <2>1, MoveOutside DEF Contexts
  <1>5. TypeOK'
    BY <1>1, <1>2, <1>3 DEF TypeOK, queueVars
  <1>6. BootState'
    BY <1>1, <1>2, <1>3 DEF BootState, Booted, queueVars, Contexts
  <1>7. (\A d \in Contexts : PutKnows(d))' /\ GetKnows'
    BY <1>1, <1>2, <1>3 DEF IInv, PutKnows, GetKnows, queueVars, Contexts, TypeOK
  <1>8. IndicesMatch'
    BY <1>2, <1>3 DEF IInv, IndicesMatch, Between, queueVars, Contexts
  <1> QED
    BY <1>4, <1>5, <1>6, <1>7, <1>8 DEF IInv, Control

-----------------------------------------------------------------------------
(* scheduler_check_events, and the handlers it runs *)

LEMMA CheckPreserves ==
    ASSUME QuietBoot, IInv,
           scheduler_check_events \/ \E e \in HandlerEvents : HandlerPublish(e)
    PROVE  IInv'
  <1> USE DEF Labels, Locked, PutPoints, GetPoints, InitWindow
  <1>1. Control /\ TypeOK /\ BootState
    BY DEF IInv, Control, TypeOK
  <1>2. CASE GetEnter
    <2>1. /\ pc["main"] = "poll" /\ Goto("main", "get_check") /\ Running("main")
          /\ UNCHANGED <<pub, sz, queueVars, event, event_queue_full, owed>>
          /\ pmask' = [pmask EXCEPT !["main"] = primask]
          /\ primask' = 1
      BY <1>2 DEF GetEnter, critical_section_enter
    <2>2. /\ pc' \in [Contexts -> Labels] /\ pc'["main"] = "get_check"
          /\ \A d \in Contexts \ {"main"} : pc'[d] = pc[d]
      BY <1>1, <2>1, GotoMoves DEF Control, Contexts
    <2>3. Control'
      <3>1. critical_section_enter("main", "poll", "get_check")
        BY <1>2 DEF GetEnter
      <3> QED
        BY ONLY <1>1, <3>1, Enter DEF TypeOK, Contexts, Locked, PutPoints, GetPoints
    <2>4. TypeOK'
      BY <1>1, <2>1, <2>2 DEF TypeOK, queueVars, Contexts
    <2>5. BootState'
      BY <1>1, <2>1, BootKept DEF queueVars, Contexts
    <2>6. (\A d \in Contexts : PutKnows(d))' /\ GetKnows'
      BY <1>1, <2>1, <2>2 DEF IInv, PutKnows, GetKnows, queueVars, Contexts
    <2>7. IndicesMatch'
      BY <2>1, <2>2 DEF IInv, IndicesMatch, Between, queueVars, Contexts
    <2> QED
      BY <2>3, <2>4, <2>5, <2>6, <2>7 DEF IInv, Control
  <1>3. CASE GetCheck
    <2> DEFINE to == IF size > 0 THEN "get_size" ELSE "get_none"
    <2>1. /\ pc["main"] = "get_check" /\ Goto("main", to) /\ Running("main")
          /\ UNCHANGED <<primask, pmask, pub, queueVars, event, event_queue_full, owed>>
          /\ sz' = [sz EXCEPT !["main"] = size]
      BY <1>3 DEF GetCheck
    <2>2. /\ pc' \in [Contexts -> Labels] /\ pc'["main"] = to
          /\ \A d \in Contexts \ {"main"} : pc'[d] = pc[d]
      BY <1>1, <2>1, GotoMoves DEF Control, Contexts
    <2>3. Control'
      BY <1>1, <2>1, MoveInside DEF Contexts
    <2>4. TypeOK'
      BY <1>1, <2>1, <2>2 DEF TypeOK, queueVars, Contexts
    <2>5. BootState'
      BY <1>1, <2>1, BootKept DEF queueVars, Contexts
    <2>6. (\A d \in Contexts : PutKnows(d))' /\ GetKnows'
      BY <1>1, <2>1, <2>2, BetweenInside DEF IInv, TypeOK, PutKnows, GetKnows, queueVars, Contexts
    <2>7. IndicesMatch'
      BY <2>1, <2>2 DEF IInv, IndicesMatch, Between, queueVars, Contexts
    <2> QED
      BY <2>3, <2>4, <2>5, <2>6, <2>7 DEF IInv, Control
  <1>4. CASE GetSize
    <2>1. /\ pc["main"] = "get_size" /\ Goto("main", "get_read") /\ Running("main")
          /\ UNCHANGED <<primask, pmask, pub, sz, m, max, in, out, event, event_queue_full, owed>>
          /\ size' = sz["main"] - 1
      BY <1>4 DEF GetSize
    <2>2. /\ pc' \in [Contexts -> Labels] /\ pc'["main"] = "get_read"
          /\ \A d \in Contexts \ {"main"} : pc'[d] = pc[d]
      BY <1>1, <2>1, GotoMoves DEF Control, Contexts
    <2>3. Control'
      BY <1>1, <2>1, MoveInside DEF Contexts
    <2>4. \A d \in Contexts \ {"main"} : pc[d] \notin Locked
      BY <1>1, <2>1, BetweenInside DEF Contexts
    <2>5. sz["main"] = size /\ size \in 1 .. QueueSize /\ size <= max
      BY <1>1, <2>1, SizeWithinMax DEF IInv, GetKnows, TypeOK
    <2>6. TypeOK'
      BY <1>1, <2>1, <2>2, <2>5 DEF TypeOK
    <2>7. BootState'
      BY <1>1, <2>1, BootKept DEF Contexts, Booted
    <2>8. (\A d \in Contexts : PutKnows(d))' /\ GetKnows'
      BY <1>1, <2>1, <2>2, <2>4, <2>5 DEF IInv, PutKnows, GetKnows, Contexts, TypeOK
    <2>9. IndicesMatch'
      <3>1. Between = size /\ Between' = size
        BY <1>1, <2>1, <2>2, <2>4, <2>5 DEF Between, Contexts
      <3> QED
        BY <2>1, <3>1 DEF IInv, IndicesMatch
    <2> QED
      BY <2>3, <2>6, <2>7, <2>8, <2>9 DEF IInv, Control
  <1>5. CASE GetRead
    <2>1. /\ pc["main"] = "get_read" /\ Goto("main", "get_exit") /\ Running("main")
          /\ UNCHANGED <<primask, pmask, pub, sz, m, max, in, size, event_queue_full>>
          /\ event' = m[out]
          /\ out' = Advance(out)
          /\ owed' = [owed EXCEPT ![m[out]] = @ - 1]
      BY <1>5 DEF GetRead
    <2>2. /\ pc' \in [Contexts -> Labels] /\ pc'["main"] = "get_exit"
          /\ \A d \in Contexts \ {"main"} : pc'[d] = pc[d]
      BY <1>1, <2>1, GotoMoves DEF Control, Contexts
    <2>3. Control'
      BY <1>1, <2>1, MoveInside DEF Contexts
    <2>4. \A d \in Contexts \ {"main"} : pc[d] \notin Locked
      BY <1>1, <2>1, BetweenInside DEF Contexts
    <2>5. size \in 0 .. QueueSize /\ size < max /\ max = QueueSize
      BY <1>1, <2>1 DEF IInv, GetKnows, BootState, TypeOK
    <2>6. TypeOK'
      BY <1>1, <2>1, <2>2 DEF TypeOK, Advance
    <2>7. BootState'
      BY <1>1, <2>1, BootKept DEF Contexts, Booted
    <2>8. (\A d \in Contexts : PutKnows(d))' /\ GetKnows'
      BY <1>1, <2>1, <2>2, <2>4 DEF IInv, PutKnows, GetKnows, Contexts
    <2>9. IndicesMatch'
      <3>1. Between = size + 1 /\ Between' = size
        BY <1>1, <2>1, <2>2, <2>4, <2>5 DEF Between, Contexts
      <3>2. Slot(Advance(out) + size) = Slot(out + size + 1)
        BY <1>1, <2>5, SlotShift DEF TypeOK
      <3>3. out + (size + 1) = out + size + 1
        BY <1>1 DEF TypeOK
      <3> QED
        BY <2>1, <3>1, <3>2, <3>3 DEF IInv, IndicesMatch
    <2> QED
      BY <2>3, <2>6, <2>7, <2>8, <2>9 DEF IInv, Control
  <1>6. CASE GetExit
    <2>1. /\ pc["main"] = "get_exit" /\ Goto("main", "run") /\ Running("main")
          /\ UNCHANGED <<pmask, pub, sz, queueVars, event, event_queue_full, owed>>
          /\ primask' \in {primask, 0}
      BY <1>6 DEF GetExit, critical_section_exit
    <2>2. /\ pc' \in [Contexts -> Labels] /\ pc'["main"] = "run"
          /\ \A d \in Contexts \ {"main"} : pc'[d] = pc[d]
      BY <1>1, <2>1, GotoMoves DEF Control, Contexts
    <2>3. Control'
      <3>1. critical_section_exit("main", "get_exit", "run")
        BY <1>6 DEF GetExit
      <3> QED
        BY ONLY <1>1, <3>1, Leave DEF Control, Contexts, Locked, PutPoints, GetPoints, Labels
    <2>4. TypeOK'
      BY <1>1, <2>1, <2>2 DEF TypeOK, queueVars, Contexts
    <2>5. BootState'
      BY <1>1, <2>1, BootKept DEF queueVars, Contexts
    <2>6. (\A d \in Contexts : PutKnows(d))' /\ GetKnows'
      BY <1>1, <2>1, <2>2 DEF IInv, PutKnows, GetKnows, queueVars, Contexts
    <2>7. IndicesMatch'
      BY <2>1, <2>2 DEF IInv, IndicesMatch, Between, queueVars, Contexts
    <2> QED
      BY <2>3, <2>4, <2>5, <2>6, <2>7 DEF IInv, Control
  <1>7. CASE GetNone
    <2>1. /\ pc["main"] = "get_none" /\ Goto("main", "poll") /\ Running("main")
          /\ UNCHANGED <<pmask, pub, sz, queueVars, event, event_queue_full, owed>>
          /\ primask' \in {primask, 0}
      BY <1>7 DEF GetNone, critical_section_exit
    <2>2. /\ pc' \in [Contexts -> Labels] /\ pc'["main"] = "poll"
          /\ \A d \in Contexts \ {"main"} : pc'[d] = pc[d]
      BY <1>1, <2>1, GotoMoves DEF Control, Contexts
    <2>3. Control'
      <3>1. critical_section_exit("main", "get_none", "poll")
        BY <1>7 DEF GetNone
      <3> QED
        BY ONLY <1>1, <3>1, Leave DEF Control, Contexts, Locked, PutPoints, GetPoints, Labels
    <2>4. TypeOK'
      BY <1>1, <2>1, <2>2 DEF TypeOK, queueVars, Contexts
    <2>5. BootState'
      BY <1>1, <2>1, BootKept DEF queueVars, Contexts
    <2>6. (\A d \in Contexts : PutKnows(d))' /\ GetKnows'
      BY <1>1, <2>1, <2>2 DEF IInv, PutKnows, GetKnows, queueVars, Contexts
    <2>7. IndicesMatch'
      BY <2>1, <2>2 DEF IInv, IndicesMatch, Between, queueVars, Contexts
    <2> QED
      BY <2>3, <2>4, <2>5, <2>6, <2>7 DEF IInv, Control
  <1>8. CASE RunDone
    <2>1. /\ pc["main"] = "run" /\ Goto("main", "poll") /\ Running("main")
          /\ UNCHANGED <<primask, pmask, pub, sz, queueVars, event, event_queue_full, owed>>
      BY <1>8 DEF RunDone
    <2>2. /\ pc' \in [Contexts -> Labels] /\ pc'["main"] = "poll"
          /\ \A d \in Contexts \ {"main"} : pc'[d] = pc[d]
      BY <1>1, <2>1, GotoMoves DEF Control, Contexts
    <2>3. Control'
      <3>1. \A d \in Contexts : pc[d] \notin Locked
        BY <1>1, <2>1 DEF Control, Placement, Contexts, Running, Active, Priority
      <3> QED
        BY <1>1, <2>1, <3>1, MoveOutside DEF Contexts
    <2>4. TypeOK'
      BY <1>1, <2>1, <2>2 DEF TypeOK, queueVars, Contexts
    <2>5. BootState'
      BY <1>1, <2>1, BootKept DEF queueVars, Contexts
    <2>6. (\A d \in Contexts : PutKnows(d))' /\ GetKnows'
      BY <1>1, <2>1, <2>2 DEF IInv, PutKnows, GetKnows, queueVars, Contexts
    <2>7. IndicesMatch'
      BY <2>1, <2>2 DEF IInv, IndicesMatch, Between, queueVars, Contexts
    <2> QED
      BY <2>3, <2>4, <2>5, <2>6, <2>7 DEF IInv, Control
  <1>9. CASE \E e \in HandlerEvents : HandlerPublish(e)
    <2>1. /\ pc["main"] = "run" /\ Goto("main", "publish") /\ Running("main")
          /\ UNCHANGED <<primask, pmask, sz, queueVars, event, event_queue_full, owed>>
          /\ \E e \in Events : pub' = [pub EXCEPT !["main"] = e]
      BY <1>9 DEF HandlerPublish
    <2>2. /\ pc' \in [Contexts -> Labels] /\ pc'["main"] = "publish"
          /\ \A d \in Contexts \ {"main"} : pc'[d] = pc[d]
      BY <1>1, <2>1, GotoMoves DEF Control, Contexts
    <2>3. Control'
      <3>1. \A d \in Contexts : pc[d] \notin Locked
        BY <1>1, <2>1 DEF Control, Placement, Contexts, Running, Active, Priority
      <3> QED
        BY <1>1, <2>1, <3>1, MoveOutside DEF Contexts
    <2>4. TypeOK'
      BY <1>1, <2>1, <2>2 DEF TypeOK, queueVars, Contexts
    <2>5. BootState'
      BY <1>1, <2>1, BootKept DEF queueVars, Contexts
    <2>6. (\A d \in Contexts : PutKnows(d))' /\ GetKnows'
      BY <1>1, <2>1, <2>2 DEF IInv, TypeOK, PutKnows, GetKnows, queueVars, Contexts
    <2>7. IndicesMatch'
      BY <2>1, <2>2 DEF IInv, IndicesMatch, Between, queueVars, Contexts
    <2> QED
      BY <2>3, <2>4, <2>5, <2>6, <2>7 DEF IInv, Control
  <1> QED
    BY <1>2, <1>3, <1>4, <1>5, <1>6, <1>7, <1>8, <1>9 DEF scheduler_check_events

-----------------------------------------------------------------------------
(* The theorems *)

(* IInv holds in every state of a boot without interrupts.                 *)
THEOREM Invariance == QuietBoot /\ Spec => []IInv
  <1> SUFFICES ASSUME QuietBoot PROVE Spec => []IInv
    OBVIOUS
  <1>1. Init => IInv
    BY InitIInv
  <1>2. IInv /\ [Next]_vars => IInv'
    <2> SUFFICES ASSUME IInv, [Next]_vars PROVE IInv'
      OBVIOUS
    <2>1. CASE scheduler_init
      BY <2>1, InitPreserves
    <2>2. CASE SysTick_Handler
      <3>1. Booted /\ InterruptEnter("systick", TickEvent)
        BY <2>2 DEF SysTick_Handler, Booted
      <3> QED
        BY <3>1, InterruptPreserves DEF Booted
    <2>3. CASE USBD_IRQHandler
      <3>1. pc["main"] \notin InitWindow /\ InterruptEnter("usb", UsbEvent)
        BY <2>3 DEF USBD_IRQHandler
      <3> QED
        BY <3>1, InterruptPreserves
    <2>4. CASE \E c \in Contexts : event_publish(c)
      BY <2>4, PublishPreserves
    <2>5. CASE scheduler_check_events \/ \E e \in HandlerEvents : HandlerPublish(e)
      BY <2>5, CheckPreserves
    <2>6. CASE UNCHANGED vars
      BY <2>6 DEF vars, queueVars, IInv, TypeOK, Placement, Exclusion, BootState, PutKnows,
                  GetKnows, IndicesMatch, Between, Booted, Active
    <2> QED
      BY <2>1, <2>2, <2>3, <2>4, <2>5, <2>6 DEF Next
  <1> QED
    BY <1>1, <1>2, PTL DEF Spec

(* Between operations the indices agree with the size.                     *)
THEOREM IndicesNeverTorn == QuietBoot /\ Spec => []IndicesAgree
  <1>1. IInv => IndicesAgree
    BY DEF IInv, IndicesAgree, IndicesMatch, Between, TypeOK, Contexts,
           Locked, PutPoints, GetPoints
  <1> QED
    BY <1>1, Invariance, PTL

-----------------------------------------------------------------------------
(* What the queue holds *)

(* Two sequences with the same elements are equal, and one that has one    *)
(* more than another is the other with it appended or removed.             *)
LEMMA SameSequence ==
    ASSUME NEW S, NEW s \in Seq(S), NEW t \in Seq(S), Len(s) = Len(t),
           \A i \in 1 .. Len(s) : s[i] = t[i]
    PROVE  s = t
OBVIOUS

LEMMA AppendedSequence ==
    ASSUME NEW S, NEW s \in Seq(S), NEW e \in S, NEW t \in Seq(S), Len(t) = Len(s) + 1,
           \A i \in 1 .. Len(s) : t[i] = s[i], t[Len(s) + 1] = e
    PROVE  t = Append(s, e)
OBVIOUS

LEMMA TailOfSequence ==
    ASSUME NEW S, NEW s \in Seq(S), NEW t \in Seq(S), Len(s) = Len(t) + 1,
           \A i \in 1 .. Len(t) : t[i] = s[i + 1]
    PROVE  s # << >> /\ t = Tail(s) /\ Head(s) = s[1]
OBVIOUS

Stored == Events \cup {NoEvent}

(* What the queue holds is a sequence of stored events.                    *)
ContentsShape ==
    /\ Held \in 0 .. QueueSize
    /\ Contents \in Seq(Stored) /\ Len(Contents) = Held
    /\ \A i \in 1 .. Held : Contents[i] = m[Slot(out + i - 1)]

LEMMA ContentsTyped == IInv => ContentsShape
  <1> SUFFICES ASSUME IInv PROVE ContentsShape
    OBVIOUS
  <1>1. Held \in 0 .. QueueSize
    BY DEF IInv, TypeOK, Held, GetKnows, Contexts
  <1>2. \A i \in 1 .. Held : m[Slot(out + i - 1)] \in Stored
    <2> SUFFICES ASSUME NEW i \in 1 .. Held PROVE m[Slot(out + i - 1)] \in Stored
      OBVIOUS
    <2>1. out + i - 1 \in 0 .. 2 * QueueSize - 2
      BY <1>1 DEF IInv, TypeOK
    <2>2. Slot(out + i - 1) \in 0 .. QueueSize - 1
      BY <2>1, AdvanceSlot
    <2> QED
      BY <2>2 DEF IInv, TypeOK, Stored
  <1> QED
    BY <1>1, <1>2 DEF Contents, ContentsShape

(* The initial states are those of the abstract queue.                     *)
LEMMA FifoInit == Init => Fifo!Init
  <1> SUFFICES ASSUME Init PROVE Fifo!Init
    OBVIOUS
  <1>1. Held = 0
    BY DEF Init, Held, Contexts
  <1>2. Contents = << >>
    BY <1>1 DEF Contents
  <1> QED
    BY <1>2 DEF Init, Fifo!Init, Booted, InitWindow, Contexts

-----------------------------------------------------------------------------
(* What a step does to what the queue holds *)

FilledKept ==
    /\ Held' = Held /\ out' = out
    /\ \A i \in 1 .. Held : m'[Slot(out + i - 1)] = m[Slot(out + i - 1)]

SilentEffect ==
    FilledKept /\ Booted' = Booted /\ UNCHANGED <<event, event_queue_full, owed>>

OpenEffect ==
    /\ ~Booted /\ Booted' /\ Held = 0 /\ Held' = 0
    /\ UNCHANGED <<event, event_queue_full, owed>>

PutEffect(e) ==
    /\ Booted /\ Booted' /\ Held \in 0 .. QueueSize - 1 /\ Held' = Held + 1
    /\ UNCHANGED <<m, out, event, event_queue_full>>
    /\ m[Slot(out + Held)] = e /\ e \in Events
    /\ owed' = [owed EXCEPT ![e] = @ + 1]

RefuseEffect ==
    /\ FilledKept /\ Booted' = Booted /\ (Booted => Held = QueueSize)
    /\ event_queue_full' = event_queue_full + 1
    /\ UNCHANGED <<event, owed>>

TakeEffect ==
    /\ Booted /\ Booted' /\ Held' \in 0 .. QueueSize - 1 /\ Held = Held' + 1
    /\ event' = m[out] /\ out' = Advance(out)
    /\ owed' = [owed EXCEPT ![m[out]] = @ - 1]
    /\ UNCHANGED <<m, event_queue_full>>

Effect ==
    SilentEffect \/ OpenEffect \/ (\E e \in Events : PutEffect(e)) \/ RefuseEffect \/ TakeEffect

(* A step of c outside rbuff_init that touches neither the filled slots    *)
(* nor the size, and does not read a slot, is silent.                      *)
LEMMA Silent ==
    ASSUME IInv, NEW c \in Contexts, NEW to \in Labels, Goto(c, to),
           pc[c] \notin {"boot", "get_read"} \cup InitWindow,
           to \notin {"boot", "get_read"} \cup InitWindow,
           UNCHANGED <<m, size, out, event, event_queue_full, owed>>
    PROVE  SilentEffect
  <1>1. pc'[c] = to /\ \A d \in Contexts \ {c} : pc'[d] = pc[d]
    BY GotoMoves DEF IInv, TypeOK
  <1>2. Booted' = Booted /\ Held' = Held
    BY <1>1 DEF Booted, Held, Contexts
  <1> QED
    BY <1>2 DEF SilentEffect, FilledKept

LEMMA InitEffect == ASSUME IInv, scheduler_init PROVE Effect
  <1> USE DEF InitWindow, Contexts, Goto
  <1>1. pc["main"] \in {"boot"} \cup InitWindow /\ ~Booted /\ pc' = [pc EXCEPT !["main"] = pc'["main"]]
    BY DEF scheduler_init, InitMax, InitIn, InitOut, InitSize, Booted, IInv, TypeOK
  <1>2. out = 0 /\ size = 0 /\ in = 0 /\ UNCHANGED <<m, event, event_queue_full, owed>>
    BY <1>1 DEF scheduler_init, InitMax, InitIn, InitOut, InitSize, IInv, BootState
  <1>3. out' = 0 /\ size' = 0 /\ pc'["main"] \in InitWindow \cup {"poll"}
    BY <1>2 DEF scheduler_init, InitMax, InitIn, InitOut, InitSize, IInv, TypeOK
  <1>4. Held = 0 /\ Held' = 0
    BY <1>1, <1>2, <1>3 DEF Held
  <1>5. CASE pc'["main"] = "poll"
    <2>1. Booted'
      BY <1>5 DEF Booted
    <2> QED
      BY <1>1, <1>2, <1>4, <2>1 DEF Effect, OpenEffect
  <1>6. CASE pc'["main"] # "poll"
    <2>1. Booted' = Booted
      BY <1>1, <1>3, <1>6 DEF Booted
    <2> QED
      BY <1>2, <1>3, <1>4, <2>1 DEF Effect, SilentEffect, FilledKept
  <1> QED
    BY <1>5, <1>6

LEMMA PublishEffect ==
    ASSUME IInv, NEW c \in Contexts, event_publish(c) PROVE Effect
  <1> USE DEF Labels, Locked, PutPoints, GetPoints, InitWindow
  <1>1. Control /\ TypeOK
    BY DEF IInv, Control, TypeOK
  <1>2. CASE PutEnter(c) \/ PutCheck(c) \/ PutExit(c)
    <2>1. PICK to \in {"put_check", "put_write", "put_full", "run", "off"} : Goto(c, to)
      BY <1>2 DEF PutEnter, PutCheck, PutExit, critical_section_enter, critical_section_exit
    <2>2. /\ pc[c] \in {"publish", "put_check", "put_exit"}
          /\ UNCHANGED <<m, size, out, event, event_queue_full, owed>>
      BY <1>2 DEF PutEnter, PutCheck, PutExit, critical_section_enter, critical_section_exit, queueVars
    <2> QED
      BY <2>1, <2>2, Silent DEF Effect
  <1>3. CASE PutWrite(c)
    <2>1. /\ pc[c] = "put_write" /\ Goto(c, "put_size")
          /\ m' = [m EXCEPT ![in] = pub[c]]
          /\ UNCHANGED <<size, out, event, event_queue_full, owed>>
      BY <1>3 DEF PutWrite
    <2>2. pc'[c] = "put_size" /\ \A d \in Contexts \ {c} : pc'[d] = pc[d]
      BY <1>1, <2>1, GotoMoves DEF Control
    <2>3. Booted' = Booted /\ Held' = Held
      BY <2>1, <2>2 DEF Booted, Held, Contexts
    <2>4. Held = size /\ in = Slot(out + size) /\ size < QueueSize
      <3>1. Between = size /\ pc["main"] # "get_read"
        BY <1>1, <2>1, BetweenInside DEF TypeOK, Contexts
      <3> QED
        BY <1>1, <2>1, <3>1 DEF IInv, IndicesMatch, PutKnows, TypeOK, Held
    <2>5. \A i \in 1 .. Held : m'[Slot(out + i - 1)] = m[Slot(out + i - 1)]
      <3> SUFFICES ASSUME NEW i \in 1 .. Held
                   PROVE  m'[Slot(out + i - 1)] = m[Slot(out + i - 1)]
        OBVIOUS
      <3>1. i - 1 \in 0 .. QueueSize - 1 /\ size \in 0 .. QueueSize - 1 /\ i - 1 # size
        BY <1>1, <2>4 DEF TypeOK
      <3>2. Slot(out + (i - 1)) # Slot(out + size)
        BY <1>1, <3>1, SlotDistinct DEF TypeOK
      <3>3. out + (i - 1) = out + i - 1
        BY <1>1 DEF TypeOK
      <3> QED
        BY <1>1, <2>1, <2>4, <3>2, <3>3 DEF TypeOK
    <2> QED
      BY <2>1, <2>3, <2>5 DEF Effect, SilentEffect, FilledKept
  <1>4. CASE PutSize(c)
    <2>1. /\ pc[c] = "put_size" /\ Goto(c, "put_exit")
          /\ size' = sz[c] + 1
          /\ UNCHANGED <<m, out, event, event_queue_full>>
          /\ owed' = [owed EXCEPT ![pub[c]] = @ + 1]
      BY <1>4 DEF PutSize
    <2>2. pc'[c] = "put_exit" /\ \A d \in Contexts \ {c} : pc'[d] = pc[d]
      BY <1>1, <2>1, GotoMoves DEF Control
    <2>3. Booted /\ Booted'
      BY <2>1, <2>2, RoomMeansOpen DEF Booted, Contexts
    <2>4. /\ Held = size /\ Held' = size + 1 /\ size \in 0 .. QueueSize - 1
          /\ m[Slot(out + size)] = pub[c] /\ pub[c] \in Events
      <3>1. pc["main"] # "get_read" /\ pc'["main"] # "get_read"
        BY <1>1, <2>1, <2>2, BetweenInside DEF Contexts
      <3> QED
        BY <1>1, <2>1, <3>1 DEF IInv, PutKnows, TypeOK, Held
    <2> QED
      BY <2>1, <2>3, <2>4 DEF Effect, PutEffect
  <1>5. CASE PutFull(c)
    <2>1. /\ pc[c] = "put_full" /\ Goto(c, "put_exit")
          /\ event_queue_full' = event_queue_full + 1
          /\ UNCHANGED <<m, size, out, event, owed>>
      BY <1>5 DEF PutFull, queueVars
    <2>2. pc'[c] = "put_exit" /\ \A d \in Contexts \ {c} : pc'[d] = pc[d]
      BY <1>1, <2>1, GotoMoves DEF Control
    <2>3. Booted' = Booted /\ Held = size /\ Held' = size
      BY <1>1, <2>1, <2>2, BetweenInside DEF Booted, Held, Contexts, TypeOK
    <2>4. Booted => size = QueueSize
      BY <2>1 DEF IInv, PutKnows, BootState, Booted
    <2> QED
      BY <2>1, <2>3, <2>4 DEF Effect, RefuseEffect, FilledKept
  <1> QED
    BY <1>2, <1>3, <1>4, <1>5 DEF event_publish

LEMMA CheckEffect ==
    ASSUME IInv, scheduler_check_events \/ \E e \in HandlerEvents : HandlerPublish(e)
    PROVE  Effect
  <1> USE DEF Labels, Locked, PutPoints, GetPoints, InitWindow, Contexts
  <1>1. TypeOK /\ pc \in [Contexts -> Labels]
    BY DEF IInv, TypeOK
  <1>2. CASE GetEnter \/ GetCheck \/ GetExit \/ GetNone \/ RunDone
             \/ \E e \in HandlerEvents : HandlerPublish(e)
    <2>1. PICK to \in {"get_check", "get_size", "get_none", "run", "poll", "publish"} : Goto("main", to)
      BY <1>2 DEF GetEnter, GetCheck, GetExit, GetNone, RunDone, HandlerPublish,
                  critical_section_enter, critical_section_exit
    <2>2. /\ pc["main"] \in {"poll", "get_check", "get_exit", "get_none", "run"}
          /\ UNCHANGED <<m, size, out, event, event_queue_full, owed>>
      BY <1>2 DEF GetEnter, GetCheck, GetExit, GetNone, RunDone, HandlerPublish,
                  critical_section_enter, critical_section_exit, queueVars
    <2> QED
      BY <2>1, <2>2, Silent DEF Effect
  <1>3. CASE GetSize
    <2>1. /\ pc["main"] = "get_size" /\ Goto("main", "get_read")
          /\ size' = sz["main"] - 1
          /\ UNCHANGED <<m, out, event, event_queue_full, owed>>
      BY <1>3 DEF GetSize
    <2>2. pc'["main"] = "get_read"
      BY <1>1, <2>1, GotoMoves
    <2>3. Held = size /\ Held' = size
      BY <1>1, <2>1, <2>2 DEF IInv, GetKnows, Held, TypeOK
    <2>4. Booted /\ Booted'
      BY <2>1, <2>2 DEF Booted
    <2> QED
      BY <2>1, <2>3, <2>4 DEF Effect, SilentEffect, FilledKept
  <1>4. CASE GetRead
    <2>1. /\ pc["main"] = "get_read" /\ Goto("main", "get_exit")
          /\ event' = m[out] /\ out' = Advance(out)
          /\ UNCHANGED <<m, size, event_queue_full>>
          /\ owed' = [owed EXCEPT ![m[out]] = @ - 1]
      BY <1>4 DEF GetRead
    <2>2. pc'["main"] = "get_exit"
      BY <1>1, <2>1, GotoMoves
    <2>3. Held = size + 1 /\ Held' = size /\ size \in 0 .. QueueSize - 1
      <3>1. size < max /\ size \in 0 .. QueueSize /\ max \in {0, QueueSize}
        BY <1>1, <2>1 DEF IInv, GetKnows, TypeOK
      <3> QED
        BY <2>1, <2>2, <3>1 DEF Held
    <2>4. Booted /\ Booted'
      BY <2>1, <2>2 DEF Booted
    <2> QED
      BY <2>1, <2>3, <2>4 DEF Effect, TakeEffect
  <1> QED
    BY <1>2, <1>3, <1>4 DEF scheduler_check_events

LEMMA NextEffect == ASSUME IInv, [Next]_vars PROVE Effect
  <1>1. CASE scheduler_init
    BY <1>1, InitEffect
  <1>2. CASE SysTick_Handler \/ USBD_IRQHandler
    <2>1. PICK c \in {"systick", "usb"}, e \in Events : InterruptEnter(c, e)
      BY <1>2 DEF SysTick_Handler, USBD_IRQHandler
    <2>2. /\ c \in Contexts /\ pc[c] = "off" /\ Goto(c, "publish")
          /\ UNCHANGED <<m, size, out, event, event_queue_full, owed>>
      BY <2>1 DEF InterruptEnter, Active, Contexts, queueVars
    <2> QED
      BY <2>2, Silent DEF Effect, Labels, InitWindow
  <1>3. CASE \E c \in Contexts : event_publish(c)
    BY <1>3, PublishEffect
  <1>4. CASE scheduler_check_events \/ \E e \in HandlerEvents : HandlerPublish(e)
    BY <1>4, CheckEffect
  <1>5. CASE UNCHANGED vars
    BY <1>5 DEF vars, queueVars, Effect, SilentEffect, FilledKept, Booted, Held
  <1> QED
    BY <1>1, <1>2, <1>3, <1>4, <1>5 DEF Next

-----------------------------------------------------------------------------
(* Implementing EventFifo *)

LEMMA StepRefines ==
    ASSUME IInv, IInv', Effect PROVE [Fifo!Next]_(Fifo!vars)
  <1>1. ContentsShape /\ ContentsShape'
    BY ContentsTyped, PTL
  <1>2. ASSUME FilledKept PROVE Contents' = Contents
    <2>1. Len(Contents') = Len(Contents) /\ \A i \in 1 .. Len(Contents) : Contents'[i] = Contents[i]
      BY <1>1, <1>2 DEF ContentsShape, FilledKept
    <2> QED
      BY <1>1, <2>1, SameSequence DEF ContentsShape
  <1>3. CASE SilentEffect
    BY <1>2, <1>3 DEF SilentEffect, Fifo!vars
  <1>4. CASE OpenEffect
    <2>1. Contents = << >> /\ Contents' = << >>
      BY <1>4 DEF OpenEffect, Contents
    <2> QED
      BY <1>4, <2>1 DEF OpenEffect, Fifo!Next, Fifo!Open
  <1>5. ASSUME NEW e \in Events, PutEffect(e) PROVE Fifo!Next
    <2>0. /\ Held \in 0 .. QueueSize - 1 /\ Held' = Held + 1
          /\ m' = m /\ out' = out /\ m[Slot(out + Held)] = e
      BY <1>5 DEF PutEffect
    <2>1. Len(Contents') = Len(Contents) + 1 /\ Len(Contents) < QueueSize
      BY <1>1, <2>0 DEF ContentsShape
    <2>2. \A i \in 1 .. Len(Contents) : Contents'[i] = Contents[i]
      BY <1>1, <2>0 DEF ContentsShape
    <2>3. Contents'[Len(Contents) + 1] = e
      <3>1. out + (Held + 1) - 1 = out + Held
        BY <2>0 DEF IInv, TypeOK
      <3> QED
        BY <1>1, <2>0, <3>1 DEF ContentsShape
    <2>4. Contents' = Append(Contents, e)
      BY <1>1, <2>1, <2>2, <2>3, AppendedSequence DEF ContentsShape, Stored
    <2> QED
      BY <1>5, <2>1, <2>4 DEF PutEffect, Fifo!Next, Fifo!Accept
  <1>6. CASE RefuseEffect
    BY <1>1, <1>2, <1>6 DEF RefuseEffect, ContentsShape, Fifo!Next, Fifo!Refuse
  <1>7. CASE TakeEffect
    <2>0. PICK n \in 0 .. QueueSize - 1 :
             /\ Held' = n /\ Held = n + 1 /\ m' = m /\ out' = Advance(out)
      BY <1>7 DEF TakeEffect
    <2>1. Contents[1] = m[out]
      <3>1. out + 1 - 1 = out /\ Slot(out) = out
        BY DEF IInv, TypeOK, Slot
      <3> QED
        BY <1>1, <2>0, <3>1 DEF ContentsShape
    <2>2. \A i \in 1 .. Len(Contents') : Contents'[i] = Contents[i + 1]
      <3> SUFFICES ASSUME NEW i \in 1 .. n PROVE Contents'[i] = Contents[i + 1]
        BY <1>1, <2>0 DEF ContentsShape
      <3>0. out \in 0 .. QueueSize - 1 /\ i - 1 \in 0 .. QueueSize - 1
        BY <2>0 DEF IInv, TypeOK
      <3>1. Contents'[i] = m[Slot(Advance(out) + i - 1)]
        BY <1>1, <2>0 DEF ContentsShape
      <3>2. i + 1 \in 1 .. Held
        BY <2>0
      <3>3. Contents[i + 1] = m[Slot(out + (i + 1) - 1)]
        BY ONLY <1>1, <3>2 DEF ContentsShape
      <3>4. Slot(Advance(out) + (i - 1)) = Slot(out + (i - 1) + 1)
        BY ONLY QueueSizeAssumption, <3>0, SlotShift
      <3>5. Advance(out) + (i - 1) = Advance(out) + i - 1 /\ out + (i + 1) - 1 = out + (i - 1) + 1
        BY DEF IInv, TypeOK, Advance
      <3> QED
        BY ONLY <3>1, <3>3, <3>4, <3>5
    <2>3. Contents # << >> /\ Contents' = Tail(Contents) /\ Head(Contents) = Contents[1]
      BY <1>1, <2>0, <2>2, TailOfSequence DEF ContentsShape
    <2> QED
      BY <1>7, <2>1, <2>3 DEF TakeEffect, Fifo!Next, Fifo!Take
  <1> QED
    BY <1>3, <1>4, <1>5, <1>6, <1>7 DEF Effect

(* The event queue implements the abstract queue: what event_publish       *)
(* accepts is handed out once, in order, whatever preempts what.           *)
THEOREM Refinement == QuietBoot /\ Spec => FifoSpec
  <1> SUFFICES ASSUME QuietBoot PROVE Spec => FifoSpec
    OBVIOUS
  <1>1. Init => Fifo!Init
    BY FifoInit
  <1>2. IInv /\ IInv' /\ [Next]_vars => [Fifo!Next]_(Fifo!vars)
    BY NextEffect, StepRefines
  <1> QED
    BY <1>1, <1>2, Invariance, PTL DEF Spec, FifoSpec, Fifo!Spec

-----------------------------------------------------------------------------
(* Nothing is lost, duplicated or altered *)

Filled == {Slot(out + i) : i \in 0 .. Held - 1}
Holding(e) == {k \in Filled : m[k] = e}
OwedIsHeld == \A e \in Stored : owed[e] = Cardinality(Holding(e))

(* The filled slots are places of the memory, so those that hold e are     *)
(* finitely many.                                                          *)
FilledWithin == Filled \subseteq 0 .. QueueSize - 1

LEMMA FilledInside == IInv => FilledWithin
  <1> SUFFICES ASSUME IInv PROVE FilledWithin
    OBVIOUS
  <1>1. Held \in 0 .. QueueSize
    BY ContentsTyped DEF ContentsShape
  <1>2. \A i \in 0 .. Held - 1 : Slot(out + i) \in 0 .. QueueSize - 1
    BY <1>1 DEF IInv, TypeOK, Slot
  <1> QED
    BY <1>2 DEF Filled, FilledWithin

LEMMA FilledFinite == ASSUME FilledWithin, NEW e PROVE IsFiniteSet(Holding(e))
  <1>1. Holding(e) \subseteq 0 .. QueueSize - 1
    BY DEF Holding, FilledWithin
  <1>2. IsFiniteSet(0 .. QueueSize - 1)
    BY FS_Interval
  <1> QED
    BY <1>1, <1>2, FS_Subset

LEMMA OwedStep ==
    ASSUME IInv, IInv', OwedIsHeld, Effect PROVE OwedIsHeld'
  <1>0. /\ Held \in 0 .. QueueSize
        /\ owed \in [Stored -> Int] /\ out \in 0 .. QueueSize - 1
    BY ContentsTyped DEF ContentsShape, IInv, TypeOK, Stored
  <1>5. FilledWithin /\ FilledWithin'
    BY FilledInside, PTL
  <1>1. ASSUME FilledKept, owed' = owed PROVE OwedIsHeld'
    <2>1. Filled' = Filled
      BY <1>1 DEF FilledKept, Filled
    <2>2. \A k \in Filled : m'[k] = m[k]
      <3> SUFFICES ASSUME NEW i \in 0 .. Held - 1 PROVE m'[Slot(out + i)] = m[Slot(out + i)]
        BY DEF Filled
      <3>1. i + 1 \in 1 .. Held /\ out + (i + 1) - 1 = out + i
        BY <1>0
      <3> QED
        BY <1>1, <3>1 DEF FilledKept
    <2>3. \A e : Holding(e)' = Holding(e)
      BY <2>1, <2>2 DEF Holding
    <2> QED
      BY <1>1, <2>3 DEF OwedIsHeld
  <1>2. CASE OpenEffect
    <2>1. Filled = {} /\ Filled' = {}
      BY <1>2 DEF OpenEffect, Filled
    <2>2. \A e : Holding(e)' = Holding(e)
      BY <2>1 DEF Holding
    <2> QED
      BY <1>2, <2>2 DEF OpenEffect, OwedIsHeld
  <1>3. ASSUME NEW e \in Events, PutEffect(e) PROVE OwedIsHeld'
    <2> DEFINE k == Slot(out + Held)
    <2>1. Filled' = Filled \cup {k}
      BY <1>0, <1>3 DEF PutEffect, Filled
    <2>2. k \notin Filled
      BY <1>0, <1>3, SlotDistinct DEF PutEffect, Filled
    <2>3. Holding(e)' = Holding(e) \cup {k} /\ k \notin Holding(e)
      BY <1>3, <2>1, <2>2 DEF PutEffect, Holding
    <2>4. \A f \in Stored \ {e} : Holding(f)' = Holding(f)
      BY <1>3, <2>1, <2>2 DEF PutEffect, Holding
    <2>5. Cardinality(Holding(e)') = Cardinality(Holding(e)) + 1
      BY <1>5, <2>3, FilledFinite, FS_AddElement
    <2> QED
      BY <1>0, <1>3, <2>4, <2>5 DEF PutEffect, OwedIsHeld, Stored
  <1>4. CASE TakeEffect
    <2>0. PICK n \in 0 .. QueueSize - 1, e \in Stored :
             /\ Held' = n /\ Held = n + 1 /\ e = m[out]
             /\ m' = m /\ out' = Advance(out)
             /\ owed' = [owed EXCEPT ![e] = @ - 1]
      <3>1. m[out] \in Stored
        BY <1>0 DEF IInv, TypeOK, Stored
      <3> QED
        BY <1>4, <3>1 DEF TakeEffect
    <2>1. (n + 1) - 1 = n
      OBVIOUS
    <2>2. /\ Filled = {Slot(out + j) : j \in 0 .. n}
          /\ Filled' = {Slot(Advance(out) + i) : i \in 0 .. n - 1}
      BY ONLY <2>0, <2>1 DEF Filled
    <2>3. Filled = Filled' \cup {out} /\ out \notin Filled'
      BY ONLY <1>0, <2>2, SlotsSplit
    <2>4. Holding(e) = Holding(e)' \cup {out} /\ out \notin Holding(e)'
      BY ONLY <2>0, <2>3 DEF Holding
    <2>5. \A f \in Stored \ {e} : Holding(f)' = Holding(f)
      BY ONLY <2>0, <2>3 DEF Holding
    <2>6. IsFiniteSet(Holding(e)')
      <3>1. Holding(e)' \subseteq Holding(e)
        BY <2>4
      <3> QED
        BY <1>5, <3>1, FilledFinite, FS_Subset
    <2>7. Cardinality(Holding(e)) = Cardinality(Holding(e)') + 1
      BY ONLY <2>4, <2>6, FS_AddElement
    <2>8. Cardinality(Holding(e)') \in Nat
      BY ONLY <2>6, FS_CardinalityType
    <2>9. owed'[e] = owed[e] - 1 /\ \A f \in Stored \ {e} : owed'[f] = owed[f]
      BY ONLY <1>0, <2>0
    <2>10. owed[e] = Cardinality(Holding(e))
      BY DEF OwedIsHeld
    <2>11. owed'[e] = Cardinality(Holding(e)')
      BY ONLY <2>7, <2>8, <2>9, <2>10
    <2>12. \A f \in Stored \ {e} : owed'[f] = Cardinality(Holding(f)')
      BY <2>5, <2>9 DEF OwedIsHeld
    <2> QED
      BY <2>11, <2>12 DEF OwedIsHeld, Stored
  <1> QED
    BY <1>1, <1>2, <1>3, <1>4 DEF Effect, SilentEffect, RefuseEffect

(* Whenever the scheduler finds the queue empty, every accepted event has  *)
(* been handed out exactly as often as it was published.                   *)
THEOREM NothingLost == QuietBoot /\ Spec => []DrainedMeansDelivered
  <1> SUFFICES ASSUME QuietBoot PROVE Spec => []DrainedMeansDelivered
    OBVIOUS
  <1>1. Init => OwedIsHeld
    <2> SUFFICES ASSUME Init PROVE OwedIsHeld
      OBVIOUS
    <2>1. Held = 0
      BY DEF Init, Held, Contexts
    <2>2. \A e \in Stored : Holding(e) = {}
      BY <2>1 DEF Holding, Filled
    <2> QED
      BY <2>2, FS_EmptySet DEF Init, OwedIsHeld, Stored
  <1>2. IInv /\ IInv' /\ OwedIsHeld /\ [Next]_vars => OwedIsHeld'
    BY NextEffect, OwedStep
  <1>3. IInv /\ OwedIsHeld => DrainedMeansDelivered
    <2> SUFFICES ASSUME IInv, OwedIsHeld, pc["main"] = "get_none"
                 PROVE  \A e \in Stored : owed[e] = 0
      BY DEF DrainedMeansDelivered, Stored
    <2>1. Held = 0
      BY DEF IInv, GetKnows, Held
    <2>2. \A e \in Stored : Holding(e) = {}
      BY <2>1 DEF Holding, Filled
    <2> QED
      BY <2>2, FS_EmptySet DEF OwedIsHeld
  <1> QED
    BY <1>1, <1>2, <1>3, Invariance, PTL DEF Spec
=============================================================================
