-------------------------- MODULE EventLoopProofs --------------------------
(***************************************************************************)
(* For every size of the queue and whatever interrupts and handlers        *)
(* publish: an event is slept on at most once.  An event may be left       *)
(* behind by the last check of the queue, but not by the check after the   *)
(* sleep, because the loop goes to sleep only after it has found the queue *)
(* empty (FreshBeforeSleep).                                               *)
(*                                                                         *)
(* The keys, pads and LEDs run as the loop does (RunsEventLoop), so that   *)
(* this holds of them, too.  For every number of keys and pads, the light  *)
(* of a control is on when it has been pressed an odd number of times,     *)
(* counting the presses still queued or still to be published (Follows).   *)
(* The check of keys.c is a loop, PressesUpto a recursive function: that   *)
(* it publishes each press once is proved by induction over its steps.     *)
(***************************************************************************)
EXTENDS Controls, SequenceTheorems, FunctionTheorems, FiniteSetTheorems,
        WellFoundedInduction, TLAPS

Items == [event : Events, sleeps : Nat]

\* What has come since the loop found the queue empty has not been slept on.
FreshBeforeSleep ==
    pc \in {"idle", "mask"} => \A k \in DOMAIN queue : queue[k].sleeps = 0

LoopIInv == TypeOK /\ SleptOnOnce /\ FreshBeforeSleep

-----------------------------------------------------------------------------

\* A publication puts at the end what has not been slept on.
LEMMA PublishKeeps ==
    ASSUME LoopIInv, NEW e \in Events, event_publish(e), pc' = pc
    PROVE  /\ queue' \in Seq(Items) /\ Len(queue') <= QueueSize
           /\ SleptOnOnce' /\ FreshBeforeSleep'
  <1>1. queue \in Seq(Items) /\ Len(queue) \in Nat /\ Len(queue) <= QueueSize
    BY DEF LoopIInv, TypeOK, Items
  <1>2. CASE queue' = queue
    BY <1>1, <1>2 DEF LoopIInv, SleptOnOnce, FreshBeforeSleep
  <1>3. CASE Len(queue) < QueueSize /\ queue' = Append(queue, [event |-> e, sleeps |-> 0])
    <2>1. [event |-> e, sleeps |-> 0] \in Items
      BY DEF Items
    <2>2. /\ queue' \in Seq(Items) /\ Len(queue') = Len(queue) + 1
          /\ \A k \in 1 .. Len(queue) : queue'[k] = queue[k]
          /\ queue'[Len(queue) + 1] = [event |-> e, sleeps |-> 0]
      BY <1>1, <1>3, <2>1
    <2>3. ASSUME NEW k \in DOMAIN queue'
          PROVE  (k \in DOMAIN queue /\ queue'[k] = queue[k]) \/ queue'[k].sleeps = 0
      BY <1>1, <2>2, <2>3
    <2> QED
      BY <1>1, <1>3, <2>2, <2>3, BoundsAssumption DEF LoopIInv, SleptOnOnce, FreshBeforeSleep
  <1> QED
    BY <1>2, <1>3 DEF event_publish

LEMMA HandlerKeeps ==
    ASSUME LoopIInv, NEW s \in Sources, Handler(s), pending' \subseteq Sources
    PROVE  LoopIInv'
  <1>1. EventOf[s] \in Events
    BY SourcesAssumption
  <1>2. UNCHANGED <<pc, running, todo, primask>>
    BY DEF Handler, mainVars
  <1>3. /\ queue' \in Seq(Items) /\ Len(queue') <= QueueSize
        /\ SleptOnOnce' /\ FreshBeforeSleep'
    BY <1>1, <1>2, PublishKeeps DEF Handler
  <1>4. idle_flag' \in {0, 1} /\ idle_missed' \in 0 .. IdleMod - 1
    BY BoundsAssumption DEF Handler, TickIdle, LoopIInv, TypeOK
  <1> QED
    BY <1>2, <1>3, <1>4 DEF LoopIInv, TypeOK, Items

LEMMA CheckKeeps == ASSUME LoopIInv, Check PROVE LoopIInv'
  <1>1. queue \in Seq(Items) /\ Len(queue) \in Nat
    BY DEF LoopIInv, TypeOK, Items
  <1>2. CASE queue = << >>
    BY <1>2 DEF Check, LoopIInv, TypeOK, SleptOnOnce, FreshBeforeSleep
  <1>3. CASE queue # << >>
    <2>1. /\ pc' = "run" /\ running' = Head(queue).event /\ queue' = Tail(queue)
          /\ todo' \in Publishes[running']
          /\ UNCHANGED <<primask, pending, idle_flag, idle_missed>>
      BY <1>3 DEF Check
    <2>2. Head(queue) \in Items
      BY <1>1, <1>3
    <2>3. running' \in Events
      BY <2>1, <2>2 DEF Items
    <2>4. todo' \in Seq(Events)
      BY <2>1, <2>3, PublishesAssumption
    <2>5. /\ queue' \in Seq(Items) /\ Len(queue') = Len(queue) - 1
          /\ \A k \in DOMAIN queue' : k + 1 \in DOMAIN queue /\ queue'[k] = queue[k + 1]
      BY <1>1, <1>3, <2>1
    <2> QED
      BY <1>1, <2>1, <2>3, <2>4, <2>5, BoundsAssumption DEF LoopIInv, TypeOK, SleptOnOnce, FreshBeforeSleep, Items
  <1> QED
    BY <1>2, <1>3

LEMMA RunKeeps == ASSUME LoopIInv, RunPublish \/ RunReturn PROVE LoopIInv'
  <1>1. CASE RunPublish
    <2>1. todo \in Seq(Events) /\ todo # << >>
      BY <1>1 DEF RunPublish, LoopIInv, TypeOK
    <2>2. Head(todo) \in Events /\ Tail(todo) \in Seq(Events)
      BY <2>1
    <2>3. /\ queue' \in Seq(Items) /\ Len(queue') <= QueueSize
          /\ SleptOnOnce' /\ FreshBeforeSleep'
      BY <1>1, <2>2, PublishKeeps DEF RunPublish
    <2> QED
      BY <1>1, <2>2, <2>3 DEF RunPublish, LoopIInv, TypeOK, Items
  <1>2. CASE RunReturn
    BY <1>2 DEF RunReturn, LoopIInv, TypeOK, SleptOnOnce, FreshBeforeSleep
  <1> QED
    BY <1>1, <1>2

\* A function on 1 .. n is a sequence of length n.
LEMMA FunctionIsSequence ==
  ASSUME NEW S, NEW n \in Nat, NEW f \in [1 .. n -> S]
  PROVE  f \in Seq(S) /\ Len(f) = n
  <1>1. f \in Seq(S)
    <2>1. Seq(S) = UNION {[1 .. m -> S] : m \in Nat}
      BY SeqDef
    <2>2. f \in UNION {[1 .. m -> S] : m \in Nat}
      OBVIOUS
    <2> QED
      BY <2>1, <2>2
  <1>2. DOMAIN f = 1 .. n
    OBVIOUS
  <1>3. DOMAIN f = 1 .. Len(f) /\ Len(f) \in Nat
    BY <1>1, LenProperties, Zenon
  <1> QED
    BY <1>1, <1>2, <1>3, SMT

LEMMA SleepKeeps == ASSUME LoopIInv, IdleSleep PROVE LoopIInv'
  <1>1. queue \in Seq(Items) /\ Len(queue) \in Nat
    BY DEF LoopIInv, TypeOK, Items
  <1>2. \A k \in DOMAIN queue : queue[k] \in Items /\ queue[k].sleeps = 0
    BY <1>1 DEF IdleSleep, LoopIInv, FreshBeforeSleep
  <1>3. /\ DOMAIN queue' = DOMAIN queue
        /\ \A k \in DOMAIN queue : queue'[k] = [queue[k] EXCEPT !.sleeps = @ + 1]
    BY DEF IdleSleep
  <1>4. \A k \in DOMAIN queue : queue'[k] \in Items /\ queue'[k].sleeps = 1
    BY <1>2, <1>3 DEF Items
  <1>5. queue' \in Seq(Items) /\ Len(queue') = Len(queue)
    <2>1. DOMAIN queue = 1 .. Len(queue)
      BY <1>1
    <2>2. queue' = [k \in 1 .. Len(queue) |-> [queue[k] EXCEPT !.sleeps = @ + 1]]
      BY <2>1 DEF IdleSleep
    <2>3. queue' \in [1 .. Len(queue) -> Items]
      BY <1>4, <2>1, <2>2
    <2> QED
      BY <1>1, <2>3, FunctionIsSequence
  <1>6. \A k \in DOMAIN queue' : queue'[k].sleeps = 1
    BY <1>3, <1>4
  <1>7. UNCHANGED <<running, todo, pending, idle_flag, idle_missed>> /\ pc' = "wfi" /\ primask' = 1
    BY DEF IdleSleep
  <1> QED
    <2>1. TypeOK'
      BY <1>5, <1>7 DEF LoopIInv, TypeOK, Items
    <2>2. SleptOnOnce'
      BY <1>6 DEF SleptOnOnce
    <2>3. FreshBeforeSleep'
      BY <1>7 DEF FreshBeforeSleep
    <2> QED
      BY <2>1, <2>2, <2>3 DEF LoopIInv

LEMMA StepKeeps == ASSUME LoopIInv, [Next]_vars PROVE LoopIInv'
  <1>1. CASE IdleFlag \/ IdleWake \/ OtherWake
    BY <1>1 DEF IdleFlag, IdleWake, OtherWake, LoopIInv, TypeOK, SleptOnOnce, FreshBeforeSleep
  <1>2. ASSUME NEW s \in Sources, Arrive(s) PROVE LoopIInv'
    <2>1. CASE Handler(s) /\ UNCHANGED pending
      BY <2>1, HandlerKeeps DEF LoopIInv, TypeOK
    <2>2. CASE /\ pending' = pending \cup {s}
               /\ UNCHANGED <<mainVars, queue, primask, idle_flag, idle_missed>>
      BY <2>2 DEF mainVars, LoopIInv, TypeOK, SleptOnOnce, FreshBeforeSleep
    <2> QED
      BY <1>2, <2>1, <2>2 DEF Arrive
  <1>3. ASSUME NEW s \in Sources, TakePending(s) PROVE LoopIInv'
    BY <1>3, HandlerKeeps DEF TakePending, LoopIInv, TypeOK
  <1>4. CASE UNCHANGED vars
    BY <1>4 DEF vars, mainVars, LoopIInv, TypeOK, SleptOnOnce, FreshBeforeSleep
  <1> QED
    BY <1>1, <1>2, <1>3, <1>4, CheckKeeps, RunKeeps, SleepKeeps DEF Next, Main, systick_idle

THEOREM LoopInvariance == Spec => []LoopIInv
  <1>1. Init => LoopIInv
    BY BoundsAssumption DEF Init, LoopIInv, TypeOK, SleptOnOnce, FreshBeforeSleep
  <1> QED
    BY <1>1, StepKeeps, PTL DEF Spec

(* An interrupt between the last check of scheduler_loop and the WFI of    *)
(* systick_idle delays its event by one wake-up at most.                   *)
THEOREM NeverSleptOnTwice == Spec => []SleptOnOnce
  <1>1. LoopIInv => SleptOnOnce
    BY DEF LoopIInv
  <1> QED
    BY <1>1, LoopInvariance, PTL

(* The main loop with the handlers of keys.c, pads.c and led_toggle.c is   *)
(* the main loop: every step is one of EventLoop or leaves it alone.       *)
THEOREM RunsEventLoop == ControlsSpec => Spec
  <1>1. ControlsInit => Init
    BY DEF ControlsInit
  <1>2. [ControlsNext]_allVars => [Next]_vars
    <2> SUFFICES ASSUME [ControlsNext]_allVars PROVE [Next]_vars
      OBVIOUS
    <2>1. CASE CheckAndRun
      BY <2>1 DEF CheckAndRun, Next, Main
    <2>2. CASE Publish
      BY <2>2 DEF Publish, Next, Main
    <2>3. CASE OtherSteps
      BY <2>3 DEF OtherSteps, Next, Main
    <2>4. CASE Inputs
      BY <2>4 DEF Inputs
    <2>5. CASE \E c \in Keys \cup Pads, on \in BOOLEAN : shell_cmd_led_set(c, on)
      BY <2>5 DEF shell_cmd_led_set
    <2>6. CASE UNCHANGED allVars
      BY <2>6 DEF allVars
    <2> QED
      BY <2>1, <2>2, <2>3, <2>4, <2>5, <2>6 DEF ControlsNext
  <1> QED
    BY <1>1, <1>2, PTL DEF ControlsSpec, Spec

-----------------------------------------------------------------------------
(* Induction over numbers, by sets *)

LEMMA LeastNumber ==
    ASSUME NEW S \in SUBSET Nat, S # {}
    PROVE  \E n \in S : \A k \in S : n <= k
  <1> DEFINE R == {ss \in Nat \X Nat : ss[1] < ss[2]}
  <1>1. IsWellFoundedOn(R, Nat)
    BY NatLessThanWellFounded DEF OpToRel
  <1>2. PICK n \in S : \A k \in S : ~ (<<k, n>> \in R)
    <2> HIDE DEF R
    <2> QED
      BY <1>1, WFMin
  <1>3. ASSUME NEW k \in S, k < n PROVE FALSE
    <2>1. <<k, n>> \in R
      BY <1>3
    <2> QED
      BY <1>2, <2>1
  <1> QED
    BY <1>3

LEMMA Induction ==
    ASSUME NEW S, 0 \in S, \A n \in Nat : n \in S => n + 1 \in S
    PROVE  \A n \in Nat : n \in S
  <1> SUFFICES ASSUME NEW n \in Nat, n \notin S PROVE FALSE
    OBVIOUS
  <1>1. PICK m \in {k \in Nat : k \notin S} : \A k \in {j \in Nat : j \notin S} : m <= k
    BY LeastNumber
  <1>2. m # 0 /\ m - 1 \in Nat /\ m - 1 \in S
    BY <1>1
  <1> QED
    BY <1>1, <1>2

-----------------------------------------------------------------------------
(* What a check publishes *)

\* The recursive definition has a solution, and stands for it.
LEMMA PressesUptoUnfolds ==
    ASSUME NEW order, Len(order) \in Nat, NEW hits
    PROVE  LET sent == PressesUpto(order, hits)
           IN  sent = [n \in 0 .. Len(order) |->
                          IF n = 0 THEN << >>
                          ELSE IF order[n] \in hits THEN Append(sent[n - 1], PressEvent[order[n]])
                          ELSE sent[n - 1]]
  <1> DEFINE Body(f, n) == IF n = 0 THEN << >>
                           ELSE IF order[n] \in hits THEN Append(f[n - 1], PressEvent[order[n]])
                           ELSE f[n - 1]
             Solved == {n \in Nat : \E f : f = [i \in 0 .. n |-> Body(f, i)]}
  <1>1. 0 \in Solved
    <2> DEFINE f == [i \in 0 .. 0 |-> << >>]
    <2>1. f = [i \in 0 .. 0 |-> Body(f, i)]
      OBVIOUS
    <2> QED
      BY <2>1
  <1>2. ASSUME NEW n \in Nat, n \in Solved PROVE n + 1 \in Solved
    <2>1. PICK f : f = [i \in 0 .. n |-> Body(f, i)]
      BY <1>2
    <2> DEFINE g == [i \in 0 .. n + 1 |-> IF i <= n THEN f[i] ELSE Body(f, n + 1)]
    <2>2. ASSUME NEW i \in 0 .. n + 1 PROVE g[i] = Body(g, i)
      <3>1. i # 0 => i - 1 \in 0 .. n + 1 /\ i - 1 <= n /\ g[i - 1] = f[i - 1]
        OBVIOUS
      <3>2. Body(g, i) = Body(f, i)
        <4> HIDE DEF g
        <4> QED
          BY <3>1
      <3>3. i <= n => f[i] = Body(f, i)
        <4> HIDE DEF Body
        <4> QED
          BY <2>1
      <3>4. g[i] = Body(f, i)
        <4> HIDE DEF Body
        <4> QED
          BY <3>3
      <3> QED
        BY <3>2, <3>4
    <2>3. g = [i \in 0 .. n + 1 |-> Body(g, i)]
      <3> HIDE DEF Body
      <3> QED
        BY <2>2
    <2> QED
      <3> HIDE DEF g, Body
      <3> QED
        BY <2>3
  <1>3. Len(order) \in Solved
    <2> HIDE DEF Solved
    <2> QED
      BY <1>1, <1>2, Induction
  <1>4. PICK f : f = [i \in 0 .. Len(order) |-> Body(f, i)]
    BY <1>3
  <1> QED
    BY <1>4, Zenon DEF PressesUpto

-----------------------------------------------------------------------------
(* How often a sequence has one of a set *)

At(s, T) == {k \in DOMAIN s : s[k] \in T}

Times(s, T) == Cardinality(At(s, T))

LEMMA TimesType ==
    ASSUME NEW S, NEW s \in Seq(S), NEW T
    PROVE  IsFiniteSet(At(s, T)) /\ Times(s, T) \in Nat
  <1>1. Len(s) \in Nat /\ DOMAIN s = 1 .. Len(s)
    BY LenProperties
  <1>2. IsFiniteSet(1 .. Len(s))
    BY <1>1, FS_Interval
  <1>3. At(s, T) \in SUBSET (1 .. Len(s))
    BY <1>1 DEF At
  <1>4. IsFiniteSet(At(s, T))
    BY <1>2, <1>3, FS_Subset
  <1> QED
    BY <1>4, FS_CardinalityType DEF Times

LEMMA TimesEmpty == ASSUME NEW T PROVE Times(<< >>, T) = 0
  <1>1. At(<< >>, T) = {}
    BY DEF At
  <1> QED
    BY <1>1, FS_EmptySet DEF Times

LEMMA TimesAppend ==
    ASSUME NEW S, NEW s \in Seq(S), NEW x \in S, NEW T
    PROVE  Times(Append(s, x), T) = Times(s, T) + (IF x \in T THEN 1 ELSE 0)
  <1>1. Len(s) \in Nat /\ DOMAIN s = 1 .. Len(s)
    BY LenProperties
  <1>2. /\ DOMAIN Append(s, x) = 1 .. Len(s) + 1
        /\ \A k \in 1 .. Len(s) : Append(s, x)[k] = s[k]
        /\ Append(s, x)[Len(s) + 1] = x
    BY <1>1, AppendProperties
  <1>3. At(Append(s, x), T) = At(s, T) \cup (IF x \in T THEN {Len(s) + 1} ELSE {})
    BY <1>1, <1>2 DEF At
  <1>4. Len(s) + 1 \notin At(s, T)
    BY <1>1 DEF At
  <1>5. IsFiniteSet(At(s, T)) /\ Times(s, T) \in Nat
    BY TimesType
  <1>6. CASE x \in T
    <2>1. Cardinality(At(s, T) \cup {Len(s) + 1}) = Cardinality(At(s, T)) + 1
      BY <1>4, <1>5, FS_AddElement
    <2> QED
      BY <1>3, <1>6, <2>1 DEF Times
  <1>7. CASE x \notin T
    BY <1>3, <1>5, <1>7 DEF Times
  <1> QED
    BY <1>6, <1>7

LEMMA TimesTail ==
    ASSUME NEW S, NEW s \in Seq(S), s # << >>, NEW T
    PROVE  Times(s, T) = Times(Tail(s), T) + (IF Head(s) \in T THEN 1 ELSE 0)
  <1>1. /\ Len(s) \in Nat \ {0} /\ DOMAIN s = 1 .. Len(s) /\ Head(s) = s[1]
        /\ Tail(s) \in Seq(S) /\ DOMAIN Tail(s) = 1 .. Len(s) - 1
        /\ \A k \in 1 .. Len(s) - 1 : Tail(s)[k] = s[k + 1]
    BY HeadTailProperties, LenProperties, EmptySeq
  <1> DEFINE Behind == At(s, T) \ {1}
             Back == [k \in At(Tail(s), T) |-> k + 1]
  <1>2. IsFiniteSet(At(s, T)) /\ IsFiniteSet(At(Tail(s), T))
    BY <1>1, TimesType
  <1>3. Back \in Bijection(At(Tail(s), T), Behind)
    <2>1. Back \in [At(Tail(s), T) -> Behind]
      BY <1>1 DEF At
    <2>2. \A j, k \in At(Tail(s), T) : Back[j] = Back[k] => j = k
      BY <1>1 DEF At
    <2>3. ASSUME NEW k \in Behind PROVE \E j \in At(Tail(s), T) : Back[j] = k
      <3>1. k - 1 \in At(Tail(s), T)
        BY <1>1 DEF At
      <3> QED
        BY <1>1, <3>1 DEF At
    <2> HIDE DEF Back, Behind
    <2>4. IsInjective(Back)
      BY <2>1, <2>2 DEF IsInjective
    <2>5. \A k \in Behind : \E j \in At(Tail(s), T) : Back[j] = k
      BY <2>3
    <2> QED
      BY <2>1, <2>4, <2>5 DEF Bijection, Injection, Surjection
  <1>4. Cardinality(At(Tail(s), T)) = Cardinality(Behind)
    <2> HIDE DEF Back, Behind
    <2>1. ExistsBijection(At(Tail(s), T), Behind)
      BY <1>3 DEF ExistsBijection
    <2> QED
      BY <1>2, <2>1, FS_Bijection
  <1>5. CASE Head(s) \in T
    <2>1. 1 \in At(s, T)
      BY <1>1, <1>5 DEF At
    <2>2. Cardinality(Behind) = Cardinality(At(s, T)) - 1 /\ Cardinality(At(s, T)) \in Nat
      BY <1>2, <2>1, FS_RemoveElement, FS_CardinalityType
    <2> QED
      BY <1>4, <1>5, <2>2 DEF Times
  <1>6. CASE Head(s) \notin T
    <2>1. Behind = At(s, T) /\ Cardinality(At(s, T)) \in Nat
      BY <1>1, <1>2, <1>6, FS_CardinalityType DEF At
    <2> HIDE DEF Behind, Back
    <2> QED
      BY <1>4, <1>6, <2>1 DEF Times
  <1> QED
    BY <1>5, <1>6

-----------------------------------------------------------------------------
(* Each hit is published once *)

KeysAndPads == Keys \cup Pads

LEMMA OneEventEach == /\ PressEvent \in [KeysAndPads -> Events]
                      /\ \A c, d \in KeysAndPads : PressEvent[c] = PressEvent[d] => c = d
                      /\ \A c \in KeysAndPads : PressEvent[c] \in PressEvents
  BY ControlsAssumption, PressesAssumption DEF KeysAndPads, PressEvents

LEMMA PressesUptoOnce ==
    ASSUME NEW order \in Seq(KeysAndPads), NEW hits, NEW c \in KeysAndPads,
           \A j, k \in DOMAIN order : order[j] = order[k] => j = k
    PROVE  \A n \in 0 .. Len(order) :
               /\ PressesUpto(order, hits)[n] \in Seq(Events)
               /\ Times(PressesUpto(order, hits)[n], {PressEvent[c]})
                    = IF c \in hits /\ \E j \in 1 .. n : order[j] = c THEN 1 ELSE 0
  <1> DEFINE sent == PressesUpto(order, hits)
             Found(n) == c \in hits /\ \E j \in 1 .. n : order[j] = c
             Good(n) == sent[n] \in Seq(Events)
                        /\ Times(sent[n], {PressEvent[c]}) = IF Found(n) THEN 1 ELSE 0
             S == {n \in Nat : n <= Len(order) => Good(n)}
  <1>1. Len(order) \in Nat /\ DOMAIN order = 1 .. Len(order)
    BY LenProperties
  <1>2. /\ sent[0] = << >>
        /\ \A n \in 1 .. Len(order) :
              sent[n] = IF order[n] \in hits THEN Append(sent[n - 1], PressEvent[order[n]])
                        ELSE sent[n - 1]
    <2>1. sent = [n \in 0 .. Len(order) |->
                     IF n = 0 THEN << >>
                     ELSE IF order[n] \in hits THEN Append(sent[n - 1], PressEvent[order[n]])
                     ELSE sent[n - 1]]
      BY <1>1, PressesUptoUnfolds
    <2> HIDE DEF sent
    <2>2. \A n \in 0 .. Len(order) :
              sent[n] = IF n = 0 THEN << >>
                        ELSE IF order[n] \in hits THEN Append(sent[n - 1], PressEvent[order[n]])
                        ELSE sent[n - 1]
      BY <2>1, Zenon
    <2> QED
      BY <1>1, <2>2
  <1> HIDE DEF sent
  <1>3. 0 \in S
    <2>1. Good(0)
      BY <1>2, TimesEmpty
    <2> QED
      BY <2>1
  <1>4. ASSUME NEW n \in Nat, n \in S PROVE n + 1 \in S
    <2> SUFFICES ASSUME n + 1 <= Len(order) PROVE Good(n + 1)
      OBVIOUS
    <2>1. Good(n) /\ n + 1 \in 1 .. Len(order) /\ n + 1 - 1 = n
      BY <1>1, <1>4
    <2> DEFINE d == order[n + 1]
    <2>2. d \in KeysAndPads /\ PressEvent[d] \in Events /\ (PressEvent[d] = PressEvent[c] <=> d = c)
      BY <1>1, <2>1, OneEventEach, ElementOfSeq
    <2>3. Found(n + 1) <=> (Found(n) \/ (c \in hits /\ d = c))
      <3>1. 1 .. n + 1 = (1 .. n) \cup {n + 1}
        OBVIOUS
      <3> QED
        BY <3>1
    <2>4. d = c => ~Found(n)
      BY <1>1, <2>1
    <2>5. CASE d \in hits
      <3>1. sent[n + 1] = Append(sent[n], PressEvent[d])
        <4>1. \A k \in 1 .. Len(order) :
                  order[k] \in hits => sent[k] = Append(sent[k - 1], PressEvent[order[k]])
          BY <1>2, Zenon
        <4>2. PICK k \in 1 .. Len(order) : k = n + 1 /\ k - 1 = n
          BY <2>1
        <4>3. sent[k] = Append(sent[k - 1], PressEvent[order[k]])
          BY <2>5, <4>1, <4>2, Zenon
        <4> QED
          BY <4>2, <4>3
      <3>2. sent[n + 1] \in Seq(Events)
        BY <2>1, <2>2, <3>1, AppendProperties
      <3>3. Times(sent[n + 1], {PressEvent[c]})
              = Times(sent[n], {PressEvent[c]}) + (IF PressEvent[d] \in {PressEvent[c]} THEN 1 ELSE 0)
        BY <2>1, <2>2, <3>1, TimesAppend
      <3> HIDE DEF Found, d
      <3> QED
        BY <2>1, <2>2, <2>3, <2>4, <2>5, <3>2, <3>3
    <2>6. CASE d \notin hits
      <3>1. sent[n + 1] = sent[n]
        BY <1>2, <2>1, <2>6
      <3> HIDE DEF Found, d
      <3> QED
        BY <2>1, <2>3, <2>6, <3>1
    <2> QED
      BY <2>5, <2>6
  <1>5. \A n \in Nat : n \in S
    <2> HIDE DEF S
    <2> QED
      BY <1>3, <1>4, Induction
  <1>6. ASSUME NEW n \in 0 .. Len(order) PROVE Good(n)
    <2>1. n \in Nat /\ n <= Len(order)
      BY <1>1
    <2> QED
      BY <1>5, <2>1
  <1> QED
    BY <1>6 DEF sent

LEMMA PressesOnce ==
    ASSUME NEW order \in Seq(KeysAndPads), \A j, k \in DOMAIN order : order[j] = order[k] => j = k,
           NEW hits \in SUBSET {order[k] : k \in DOMAIN order}, NEW any \in Events \ PressEvents,
           NEW c \in KeysAndPads
    PROVE  /\ Presses(order, hits, any) \in Seq(Events)
           /\ Times(Presses(order, hits, any), {PressEvent[c]}) = IF c \in hits THEN 1 ELSE 0
  <1> DEFINE sent == PressesUpto(order, hits)[Len(order)]
  <1>1. Len(order) \in Nat /\ DOMAIN order = 1 .. Len(order)
    BY LenProperties
  <1>2. c \in hits => \E j \in 1 .. Len(order) : order[j] = c
    BY <1>1
  <1>3. sent \in Seq(Events) /\ Times(sent, {PressEvent[c]}) = IF c \in hits THEN 1 ELSE 0
    <2>1. Len(order) \in 0 .. Len(order)
      BY <1>1
    <2>2. /\ sent \in Seq(Events)
          /\ Times(sent, {PressEvent[c]})
               = IF c \in hits /\ \E j \in 1 .. Len(order) : order[j] = c THEN 1 ELSE 0
      BY <2>1, PressesUptoOnce
    <2> QED
      BY <1>2, <2>2
  <1>4. any \notin {PressEvent[c]}
    BY OneEventEach
  <1> HIDE DEF sent
  <1>5. CASE hits = {}
    BY <1>3, <1>5 DEF Presses, sent
  <1>6. CASE hits # {}
    <2>1. Presses(order, hits, any) = Append(sent, any)
      BY <1>6 DEF Presses, sent
    <2>2. Times(Append(sent, any), {PressEvent[c]}) = Times(sent, {PressEvent[c]}) + 0
      BY <1>3, <1>4, TimesAppend
    <2> QED
      BY <1>3, <2>1, <2>2, AppendProperties
  <1> QED
    BY <1>5, <1>6

-----------------------------------------------------------------------------
(* The LEDs follow the presses *)

ItemsOf(e) == {r \in Items : r.event = e}

Follows(c) == (c \in leds_state) = ((c \in odd) # (Waiting(c) % 2 = 1))

\* The memory of a scan is what the scan has found, and a control that has
\* not been released since its last press is found pressed.
Remembered ==
    /\ keys_state_memory = keys_state /\ pads_state_memory = pads_state
    /\ up = (Keys \ keys_state) \cup (Pads \ pads_state)

\* Only handlers have something to publish.
NothingToDo == pc # "run" => todo = << >>

ControlTypes ==
    /\ down \subseteq Keys /\ level \in [Pads -> Levels]
    /\ keys_state \subseteq Keys /\ pads_state \subseteq Pads
    /\ leds_state \subseteq KeysAndPads /\ odd \subseteq KeysAndPads

ControlsIInv ==
    ControlTypes /\ Remembered /\ NothingToDo /\ \A c \in KeysAndPads : Follows(c)

\* What waits, in the queue and with the handlers.
LEMMA WaitingIsTimes ==
    ASSUME TypeOK, NEW c
    PROVE  /\ Waiting(c) = Times(queue, ItemsOf(PressEvent[c])) + Times(todo, {PressEvent[c]})
           /\ Times(queue, ItemsOf(PressEvent[c])) \in Nat /\ Times(todo, {PressEvent[c]}) \in Nat
  <1>1. queue \in Seq(Items) /\ todo \in Seq(Events)
    BY DEF TypeOK, Items
  <1>2. \A k \in DOMAIN queue : queue[k] \in Items
    BY <1>1
  <1>3. At(queue, ItemsOf(PressEvent[c])) = {k \in DOMAIN queue : queue[k].event = PressEvent[c]}
    BY <1>2 DEF At, ItemsOf
  <1>4. At(todo, {PressEvent[c]}) = {k \in DOMAIN todo : todo[k] = PressEvent[c]}
    BY DEF At
  <1>5. Waiting(c) = Times(queue, ItemsOf(PressEvent[c])) + Times(todo, {PressEvent[c]})
    BY <1>3, <1>4 DEF Waiting, Times
  <1> QED
    BY <1>1, <1>5, TimesType

LEMMA WaitingIsTimesNext ==
    ASSUME TypeOK', NEW c
    PROVE  /\ Waiting(c)' = Times(queue', ItemsOf(PressEvent[c])) + Times(todo', {PressEvent[c]})
           /\ Times(queue', ItemsOf(PressEvent[c])) \in Nat /\ Times(todo', {PressEvent[c]}) \in Nat
  <1>1. queue' \in Seq(Items) /\ todo' \in Seq(Events)
    BY DEF TypeOK, Items
  <1>2. \A k \in DOMAIN queue' : queue'[k] \in Items
    BY <1>1
  <1>3. At(queue', ItemsOf(PressEvent[c])) = {k \in DOMAIN queue' : queue'[k].event = PressEvent[c]}
    BY <1>2 DEF At, ItemsOf
  <1>4. At(todo', {PressEvent[c]}) = {k \in DOMAIN todo' : todo'[k] = PressEvent[c]}
    BY DEF At
  <1>5. Waiting(c)' = Times(queue', ItemsOf(PressEvent[c])) + Times(todo', {PressEvent[c]})
    BY <1>3, <1>4 DEF Waiting, Times
  <1> QED
    BY <1>1, <1>5, TimesType

\* The parity of what waits changes with one press more or less.
LEMMA FollowsWhenRun ==
    ASSUME NEW c, Follows(c), Waiting(c)' \in Nat, Waiting(c) = Waiting(c)' + 1,
           c \in leds_state' <=> c \notin leds_state, c \in odd' <=> c \in odd
    PROVE  Follows(c)'
  <1>1. (Waiting(c) % 2 = 1) <=> ~(Waiting(c)' % 2 = 1)
    OBVIOUS
  <1> HIDE DEF Waiting
  <1> QED
    BY <1>1 DEF Follows

LEMMA FollowsWhenPressed ==
    ASSUME NEW c, Follows(c), Waiting(c) \in Nat, Waiting(c)' \in Nat,
           Waiting(c)' = Waiting(c) + 1 \/ Waiting(c) = Waiting(c)' + 1,
           c \in leds_state' <=> c \in leds_state, c \in odd' <=> c \notin odd
    PROVE  Follows(c)'
  <1>1. (Waiting(c) % 2 = 1) <=> ~(Waiting(c)' % 2 = 1)
    OBVIOUS
  <1> QED
    BY <1>1 DEF Follows

LEMMA FollowsOtherwise ==
    ASSUME NEW c, Follows(c), Waiting(c)' = Waiting(c),
           c \in leds_state' <=> c \in leds_state, c \in odd' <=> c \in odd
    PROVE  Follows(c)'
  BY DEF Follows

\* A publication counts unless it is refused.
LEMMA PublishTimes ==
    ASSUME TypeOK, NEW e \in Events, event_publish(e), NEW f
    PROVE  Times(queue', ItemsOf(f))
             = Times(queue, ItemsOf(f)) + (IF queue' # queue /\ e = f THEN 1 ELSE 0)
  <1>1. queue \in Seq(Items) /\ Len(queue) \in Nat
    BY DEF TypeOK, Items
  <1>2. Times(queue, ItemsOf(f)) \in Nat
    BY <1>1, TimesType
  <1>3. CASE queue' = queue
    BY <1>2, <1>3
  <1>4. CASE queue' # queue
    <2>1. queue' = Append(queue, [event |-> e, sleeps |-> 0])
      BY <1>4 DEF event_publish
    <2>2. /\ [event |-> e, sleeps |-> 0] \in Items
          /\ [event |-> e, sleeps |-> 0] \in ItemsOf(f) <=> e = f
      BY DEF Items, ItemsOf
    <2>3. Times(queue', ItemsOf(f)) = Times(queue, ItemsOf(f))
             + (IF [event |-> e, sleeps |-> 0] \in ItemsOf(f) THEN 1 ELSE 0)
      BY <1>1, <2>1, <2>2, TimesAppend
    <2> QED
      BY <1>4, <2>2, <2>3
  <1> QED
    BY <1>3, <1>4

\* Interrupts publish no press.
LEMMA HandlerFollows ==
    ASSUME TypeOK, TypeOK', NEW s \in Sources, Handler(s), UNCHANGED controlVars,
           NEW c \in KeysAndPads, Follows(c)
    PROVE  Follows(c)'
  <1>1. EventOf[s] \in Events /\ EventOf[s] # PressEvent[c]
    BY OneEventEach, PressesAssumption, SourcesAssumption
  <1>2. Times(queue', ItemsOf(PressEvent[c])) = Times(queue, ItemsOf(PressEvent[c])) + 0
    BY <1>1, PublishTimes DEF Handler
  <1>3. UNCHANGED <<todo, leds_state, odd>>
    BY DEF Handler, mainVars, controlVars
  <1>4. Waiting(c)' = Waiting(c)
    <2>1. /\ Waiting(c) = Times(queue, ItemsOf(PressEvent[c])) + Times(todo, {PressEvent[c]})
          /\ Times(queue, ItemsOf(PressEvent[c])) \in Nat
      BY WaitingIsTimes
    <2>2. Waiting(c)' = Times(queue', ItemsOf(PressEvent[c])) + Times(todo', {PressEvent[c]})
      BY WaitingIsTimesNext
    <2> QED
      BY <1>2, <1>3, <2>1, <2>2
  <1> QED
    BY <1>3, <1>4, FollowsOtherwise

\* The next event is taken, and its handlers have yet to publish.
LEMMA CheckTimes ==
    ASSUME TypeOK, TypeOK', Check, queue # << >>, NothingToDo, NEW c
    PROVE  /\ pc' = "run" /\ running' \in Events /\ todo' \in Publishes[running']
           /\ Waiting(c) \in Nat /\ Waiting(c)' \in Nat
           /\ Waiting(c)' = Waiting(c) - (IF running' = PressEvent[c] THEN 1 ELSE 0)
                                       + Times(todo', {PressEvent[c]})
  <1>1. /\ pc' = "run" /\ running' = Head(queue).event /\ queue' = Tail(queue)
        /\ todo' \in Publishes[running'] /\ todo = << >>
    BY DEF Check, NothingToDo
  <1>2. queue \in Seq(Items)
    BY DEF TypeOK, Items
  <1>3. Head(queue) \in Items
    BY <1>2
  <1>4. running' \in Events /\ (Head(queue) \in ItemsOf(PressEvent[c]) <=> running' = PressEvent[c])
    BY <1>1, <1>3 DEF Items, ItemsOf
  <1>5. Times(queue, ItemsOf(PressEvent[c])) = Times(queue', ItemsOf(PressEvent[c]))
            + (IF Head(queue) \in ItemsOf(PressEvent[c]) THEN 1 ELSE 0)
    BY <1>1, <1>2, TimesTail
  <1>6. Times(todo, {PressEvent[c]}) = 0
    BY <1>1, TimesEmpty
  <1> QED
    BY <1>1, <1>4, <1>5, <1>6, WaitingIsTimes, WaitingIsTimesNext

\* EVENT_CYCLIC_1: a key that is found pressed, and was not, has to be
\* published.
LEMMA KeysFollow ==
    ASSUME TypeOK, TypeOK', ControlsIInv, Check, queue # << >>, running' = Cyclic1, KeysTasks,
           odd' = Flip(odd, up \ up'), UNCHANGED inputVars
    PROVE  ControlsIInv'
  <1> DEFINE hits == down \ keys_state
  <1>1. /\ keys_state' = down /\ keys_state_memory' = down /\ up' = (up \ down) \cup (Keys \ down)
        /\ UNCHANGED <<pads_state, pads_state_memory, leds_state, down, level>>
    BY DEF KeysTasks, keys_check_task, Seen, ControlsIInv, Remembered, inputVars
  <1>0. PICK before \in {<< >>, <<VcomRx>>} : todo' = before \o Presses(KeyOrder, hits, KeyAny)
    BY DEF KeysTasks, keys_check_task, ControlsIInv, Remembered
  <1>2. down \subseteq Keys /\ keys_state \subseteq Keys /\ pads_state \subseteq Pads /\ Keys \cap Pads = {}
    BY ControlsAssumption DEF ControlsIInv, ControlTypes
  <1>3. up \ up' = hits /\ up' = (Keys \ keys_state') \cup (Pads \ pads_state')
    BY <1>1, <1>2 DEF ControlsIInv, Remembered
  <1>4. odd' \subseteq KeysAndPads /\ \A c : c \in odd' <=> ((c \in odd) <=> c \notin hits)
    BY <1>2, <1>3 DEF Flip, KeysAndPads, ControlsIInv, ControlTypes
  <1>5. pc' = "run"
    BY CheckTimes DEF ControlsIInv
  <1>6. ASSUME NEW c \in KeysAndPads PROVE Follows(c)'
    <2>1. /\ KeyOrder \in Seq(KeysAndPads) /\ hits \in SUBSET {KeyOrder[k] : k \in DOMAIN KeyOrder}
          /\ \A j, k \in DOMAIN KeyOrder : KeyOrder[j] = KeyOrder[k] => j = k
          /\ KeyAny \in Events \ PressEvents /\ Cyclic1 \notin PressEvents
          /\ VcomRx \in Events \ PressEvents
      BY <1>2, ControlsAssumption DEF KeysAndPads, Keys
    <2>2. Times(todo', {PressEvent[c]}) = IF c \in hits THEN 1 ELSE 0
      <3> DEFINE presses == Presses(KeyOrder, hits, KeyAny)
      <3> HIDE DEF hits
      <3>1. presses \in Seq(Events) /\ Times(presses, {PressEvent[c]}) = IF c \in hits THEN 1 ELSE 0
        BY <2>1, PressesOnce
      <3>2. todo' = before \o presses
        BY <1>0
      <3> HIDE DEF presses
      <3>3. CASE before = << >>
        BY <3>1, <3>2, <3>3
      <3>4. CASE before = <<VcomRx>>
        <4>1. /\ todo' \in Seq(Events) /\ todo' # << >>
              /\ Head(todo') = VcomRx /\ Tail(todo') = presses
          BY <2>1, <3>1, <3>2, <3>4
        <4>2. VcomRx \notin {PressEvent[c]}
          BY <2>1, OneEventEach
        <4>3. Times(todo', {PressEvent[c]}) = Times(presses, {PressEvent[c]}) + 0
          BY <4>1, <4>2, TimesTail
        <4> QED
          BY <3>1, <4>3
      <3> QED
        BY <1>0, <3>3, <3>4
    <2>3. running' # PressEvent[c]
      BY <2>1, OneEventEach
    <2>4. Waiting(c) \in Nat /\ Waiting(c)' \in Nat /\ Waiting(c)' = Waiting(c) + (IF c \in hits THEN 1 ELSE 0)
      BY <2>2, <2>3, CheckTimes DEF ControlsIInv
    <2>5. Follows(c)
      BY DEF ControlsIInv
    <2> HIDE DEF hits
    <2>6. CASE c \in hits
      BY <1>1, <1>4, <2>4, <2>5, <2>6, FollowsWhenPressed
    <2>7. CASE c \notin hits
      <3>1. Waiting(c)' = Waiting(c)
        BY <2>4, <2>7
      <3>2. (c \in odd' <=> c \in odd) /\ (c \in leds_state' <=> c \in leds_state)
        BY <1>1, <1>4, <2>7
      <3> QED
        BY <2>5, <3>1, <3>2, FollowsOtherwise
    <2> QED
      BY <2>6, <2>7
  <1> QED
    BY <1>1, <1>2, <1>3, <1>4, <1>5, <1>6 DEF ControlsIInv, ControlTypes, Remembered, NothingToDo

\* EVENT_CYCLIC_2: a pad between its levels keeps its state, and counts as
\* neither pressed nor released.
LEMMA PadsFollow ==
    ASSUME TypeOK, TypeOK', ControlsIInv, Check, queue # << >>, running' = Cyclic2, PadsTasks,
           odd' = Flip(odd, up \ up'), UNCHANGED inputVars
    PROVE  ControlsIInv'
  <1> DEFINE high == {p \in Pads : level[p] = "high"}
             low == {p \in Pads : level[p] = "low"}
             hits == high \ pads_state
  <1>1. /\ pads_state' = high \cup (pads_state \ low)
        /\ pads_state_memory' = pads_state' /\ up' = (up \ high) \cup low
        /\ todo' = Presses(PadOrder, pads_state' \ pads_state, PadAny)
        /\ UNCHANGED <<keys_state, keys_state_memory, leds_state, down, level>>
    <2>1. pads_state \subseteq Pads /\ \A p \in Pads : level[p] \in {"low", "between", "high"}
      BY DEF ControlsIInv, ControlTypes, Levels
    <2>2. pads_state' = {p \in Pads : level[p] = "high" \/ (level[p] = "between" /\ p \in pads_state)}
      BY DEF PadsTasks, pads_as_key_scan_task
    <2>3. pads_state' = high \cup (pads_state \ low)
      BY <2>1, <2>2
    <2> QED
      BY <2>3 DEF PadsTasks, pads_as_key_check_task, Seen, ControlsIInv, Remembered, inputVars
  <1>2. /\ high \subseteq Pads /\ low \subseteq Pads /\ high \cap low = {} /\ pads_state \subseteq Pads
        /\ keys_state \subseteq Keys /\ Keys \cap Pads = {}
    BY ControlsAssumption DEF ControlsIInv, ControlTypes
  <1>3. up = (Keys \ keys_state) \cup (Pads \ pads_state)
    BY DEF ControlsIInv, Remembered
  <1> HIDE DEF high, low
  <1>4. /\ pads_state' \ pads_state = hits /\ pads_state' \subseteq Pads
        /\ up \ up' = hits /\ up' = (Keys \ keys_state') \cup (Pads \ pads_state')
    BY <1>1, <1>2, <1>3
  <1>5. odd' \subseteq KeysAndPads /\ \A c : c \in odd' <=> ((c \in odd) <=> c \notin hits)
    BY <1>2, <1>4 DEF Flip, KeysAndPads, ControlsIInv, ControlTypes
  <1>6. pc' = "run"
    BY CheckTimes DEF ControlsIInv
  <1>7. ASSUME NEW c \in KeysAndPads PROVE Follows(c)'
    <2>1. /\ PadOrder \in Seq(KeysAndPads) /\ hits \in SUBSET {PadOrder[k] : k \in DOMAIN PadOrder}
          /\ \A j, k \in DOMAIN PadOrder : PadOrder[j] = PadOrder[k] => j = k
          /\ PadAny \in Events \ PressEvents /\ Cyclic2 \notin PressEvents
      BY <1>2, ControlsAssumption DEF KeysAndPads, Pads
    <2>2. Times(todo', {PressEvent[c]}) = IF c \in hits THEN 1 ELSE 0
      <3> HIDE DEF hits
      <3>1. todo' = Presses(PadOrder, hits, PadAny)
        BY <1>1, <1>4
      <3> QED
        BY <2>1, <3>1, PressesOnce
    <2>3. running' # PressEvent[c]
      BY <2>1, OneEventEach
    <2>4. Waiting(c) \in Nat /\ Waiting(c)' \in Nat /\ Waiting(c)' = Waiting(c) + (IF c \in hits THEN 1 ELSE 0)
      BY <2>2, <2>3, CheckTimes DEF ControlsIInv
    <2>5. Follows(c)
      BY DEF ControlsIInv
    <2> HIDE DEF hits
    <2>6. CASE c \in hits
      BY <1>1, <1>5, <2>4, <2>5, <2>6, FollowsWhenPressed
    <2>7. CASE c \notin hits
      <3>1. Waiting(c)' = Waiting(c)
        BY <2>4, <2>7
      <3>2. (c \in odd' <=> c \in odd) /\ (c \in leds_state' <=> c \in leds_state)
        BY <1>1, <1>5, <2>7
      <3> QED
        BY <2>5, <3>1, <3>2, FollowsOtherwise
    <2> QED
      BY <2>6, <2>7
  <1> QED
    BY <1>1, <1>2, <1>4, <1>5, <1>6, <1>7 DEF ControlsIInv, ControlTypes, Remembered, NothingToDo

\* Any other event: its press no longer waits and its LED is toggled.
LEMMA TogglesFollow ==
    ASSUME TypeOK, TypeOK', ControlsIInv, Check, running' \notin {Cyclic1, Cyclic2}, led_toggle(running'),
           odd' = odd, UNCHANGED inputVars
    PROVE  ControlsIInv'
  <1> DEFINE lit == {c \in DOMAIN PressEvent : PressEvent[c] = running'}
  <1>1. /\ leds_state' = Flip(leds_state, lit)
        /\ UNCHANGED <<keys_state, keys_state_memory, pads_state, pads_state_memory, up, down, level>>
    BY DEF led_toggle, scanVars, inputVars
  <1>2. lit = {c \in KeysAndPads : PressEvent[c] = running'}
    BY OneEventEach
  <1>3. /\ leds_state' \subseteq KeysAndPads
        /\ \A c \in KeysAndPads : c \in leds_state' <=> ((c \in leds_state) <=> running' # PressEvent[c])
    BY <1>1, <1>2 DEF Flip, ControlsIInv, ControlTypes
  <1> HIDE DEF lit
  <1>4. CASE queue = << >>
    <2>1. pc' = "idle" /\ running' = NoEvent /\ UNCHANGED <<queue, todo>> /\ pc = "check"
      BY <1>4 DEF Check
    <2>2. ASSUME NEW c \in KeysAndPads PROVE Follows(c)'
      <3>1. running' # PressEvent[c]
        BY <2>1, OneEventEach, ControlsAssumption
      <3>2. Waiting(c)' = Waiting(c)
        BY <2>1 DEF Waiting
      <3>3. (c \in leds_state' <=> c \in leds_state) /\ Follows(c)
        BY <1>3, <3>1 DEF ControlsIInv
      <3> QED
        BY <3>2, <3>3, FollowsOtherwise
    <2> QED
      BY <1>1, <1>3, <2>1, <2>2 DEF ControlsIInv, ControlTypes, Remembered, NothingToDo
  <1>5. CASE queue # << >>
    <2>1. ASSUME NEW c \in KeysAndPads PROVE Follows(c)'
      <3>1. /\ running' \in Events /\ todo' \in Publishes[running']
            /\ Waiting(c) \in Nat /\ Waiting(c)' \in Nat
            /\ Waiting(c)' = Waiting(c) - (IF running' = PressEvent[c] THEN 1 ELSE 0)
                                        + Times(todo', {PressEvent[c]})
        BY <1>5, CheckTimes DEF ControlsIInv
      <3>2. \A k \in DOMAIN todo' : todo'[k] # PressEvent[c]
        BY <3>1, OneEventEach, PressesAssumption
      <3>3. Times(todo', {PressEvent[c]}) = 0
        <4>1. At(todo', {PressEvent[c]}) = {}
          BY <3>2 DEF At
        <4> QED
          BY <4>1, FS_EmptySet DEF Times
      <3>4. Follows(c)
        BY DEF ControlsIInv
      <3>5. CASE running' = PressEvent[c]
        <4>1. Waiting(c) = Waiting(c)' + 1
          BY <3>1, <3>3, <3>5
        <4>2. c \in leds_state' <=> c \notin leds_state
          BY <1>3, <3>5
        <4> QED
          BY <3>1, <3>4, <4>1, <4>2, FollowsWhenRun
      <3>6. CASE running' # PressEvent[c]
        <4>1. Waiting(c)' = Waiting(c)
          BY <3>1, <3>3, <3>6
        <4>2. c \in leds_state' <=> c \in leds_state
          BY <1>3, <3>6
        <4> QED
          BY <3>4, <4>1, <4>2, FollowsOtherwise
      <3> QED
        BY <3>5, <3>6
    <2>2. pc' = "run"
      BY <1>5, CheckTimes DEF ControlsIInv
    <2> QED
      BY <1>1, <1>3, <2>1, <2>2 DEF ControlsIInv, ControlTypes, Remembered, NothingToDo
  <1> QED
    BY <1>4, <1>5

LEMMA CheckFollows ==
    ASSUME TypeOK, TypeOK', ControlsIInv, CheckAndRun
    PROVE  ControlsIInv'
  <1>1. Check /\ UNCHANGED inputVars
    BY DEF CheckAndRun
  <1>2. queue = << >> => running' \notin {Cyclic1, Cyclic2}
    BY <1>1, ControlsAssumption DEF Check
  <1>3. CASE running' = Cyclic1
    <2>1. KeysTasks /\ odd' = Flip(odd, up \ up')
      BY <1>3, ControlsAssumption DEF CheckAndRun
    <2> QED
      BY <1>1, <1>2, <1>3, <2>1, KeysFollow
  <1>4. CASE running' = Cyclic2
    <2>1. PadsTasks /\ odd' = Flip(odd, up \ up')
      BY <1>4, ControlsAssumption DEF CheckAndRun
    <2> QED
      BY <1>1, <1>2, <1>4, <2>1, PadsFollow
  <1>5. CASE running' \notin {Cyclic1, Cyclic2}
    <2>1. led_toggle(running') /\ odd' = odd
      BY <1>5 DEF CheckAndRun, Flip
    <2> QED
      BY <1>1, <1>5, <2>1, TogglesFollow
  <1> QED
    BY <1>3, <1>4, <1>5

\* A press goes from the handler to the queue, or is lost.
LEMMA PublishFollows ==
    ASSUME TypeOK, TypeOK', ControlsIInv, Publish
    PROVE  ControlsIInv'
  <1>1. /\ pc = "run" /\ pc' = "run" /\ todo # << >> /\ event_publish(Head(todo)) /\ todo' = Tail(todo)
        /\ UNCHANGED <<down, level, keys_state, keys_state_memory, pads_state, pads_state_memory, leds_state, up>>
    BY DEF Publish, RunPublish, inputVars, scanVars
  <1>2. todo \in Seq(Events)
    BY DEF TypeOK
  <1>3. Head(todo) \in Events
    BY <1>1, <1>2
  <1>4. /\ odd' \subseteq KeysAndPads
        /\ \A c \in KeysAndPads :
              c \in odd' <=> ((c \in odd) <=> ~(queue' = queue /\ PressEvent[c] = Head(todo)))
    <2>1. DOMAIN PressEvent = KeysAndPads /\ odd \subseteq KeysAndPads
      BY OneEventEach DEF ControlsIInv, ControlTypes
    <2> QED
      BY <2>1 DEF Publish, Flip
  <1>5. ASSUME NEW c \in KeysAndPads PROVE Follows(c)'
    <2>1. Times(todo, {PressEvent[c]}) = Times(todo', {PressEvent[c]})
              + (IF Head(todo) = PressEvent[c] THEN 1 ELSE 0)
      <3>1. Times(todo, {PressEvent[c]}) = Times(Tail(todo), {PressEvent[c]})
              + (IF Head(todo) \in {PressEvent[c]} THEN 1 ELSE 0)
        BY <1>1, <1>2, TimesTail
      <3> QED
        BY <1>1, <3>1
    <2>2. Times(queue', ItemsOf(PressEvent[c])) = Times(queue, ItemsOf(PressEvent[c]))
              + (IF queue' # queue /\ Head(todo) = PressEvent[c] THEN 1 ELSE 0)
      BY <1>1, <1>3, PublishTimes
    <2>3. /\ Waiting(c) = Times(queue, ItemsOf(PressEvent[c])) + Times(todo, {PressEvent[c]})
          /\ Times(queue, ItemsOf(PressEvent[c])) \in Nat /\ Times(todo, {PressEvent[c]}) \in Nat
      BY WaitingIsTimes
    <2>4. /\ Waiting(c)' = Times(queue', ItemsOf(PressEvent[c])) + Times(todo', {PressEvent[c]})
          /\ Times(queue', ItemsOf(PressEvent[c])) \in Nat /\ Times(todo', {PressEvent[c]}) \in Nat
      BY WaitingIsTimesNext
    <2>5. Follows(c)
      BY DEF ControlsIInv
    <2>6. CASE queue' = queue /\ Head(todo) = PressEvent[c]
      <3>1. Waiting(c) = Waiting(c)' + 1 /\ Waiting(c) \in Nat /\ Waiting(c)' \in Nat
        BY <2>1, <2>2, <2>3, <2>4, <2>6
      <3>2. (c \in odd' <=> c \notin odd) /\ (c \in leds_state' <=> c \in leds_state)
        BY <1>1, <1>4, <2>6
      <3> QED
        BY <2>5, <3>1, <3>2, FollowsWhenPressed
    <2>7. CASE ~(queue' = queue /\ Head(todo) = PressEvent[c])
      <3>1. Waiting(c)' = Waiting(c)
        BY <2>1, <2>2, <2>3, <2>4, <2>7
      <3>2. (c \in odd' <=> c \in odd) /\ (c \in leds_state' <=> c \in leds_state)
        BY <1>1, <1>4, <2>7
      <3> QED
        BY <2>5, <3>1, <3>2, FollowsOtherwise
    <2> QED
      BY <2>6, <2>7
  <1> QED
    BY <1>1, <1>4, <1>5 DEF ControlsIInv, ControlTypes, Remembered, NothingToDo

\* What leaves the controls and what waits of their presses alone.
LEMMA QuietFollows ==
    ASSUME ControlsIInv, \A c \in KeysAndPads : Waiting(c)' = Waiting(c), NothingToDo',
           UNCHANGED <<scanVars, leds_state, up, odd>>, ControlTypes'
    PROVE  ControlsIInv'
  <1>1. ASSUME NEW c \in KeysAndPads PROVE Follows(c)'
    BY FollowsOtherwise DEF ControlsIInv
  <1> QED
    BY <1>1 DEF ControlsIInv, Remembered, scanVars

\* A command that changes a LED counts as a press that has been run.
LEMMA CommandFollows ==
    ASSUME ControlsIInv, NEW d \in KeysAndPads, NEW on \in BOOLEAN, shell_cmd_led_set(d, on)
    PROVE  ControlsIInv'
  <1>1. /\ UNCHANGED <<pc, todo, queue, down, level, keys_state, keys_state_memory>>
        /\ UNCHANGED <<pads_state, pads_state_memory, up>>
    BY DEF shell_cmd_led_set, vars, mainVars, inputVars, scanVars
  <1>2. /\ leds_state \subseteq KeysAndPads /\ odd \subseteq KeysAndPads
        /\ leds_state' = IF on THEN leds_state \cup {d} ELSE leds_state \ {d}
        /\ odd' = Flip(odd, Flip(leds_state, leds_state'))
    BY DEF shell_cmd_led_set, leds_set, ControlsIInv, ControlTypes
  <1>3. leds_state' \subseteq KeysAndPads
    BY <1>2
  <1>4. odd' \subseteq KeysAndPads
    BY <1>2, <1>3 DEF Flip
  <1>5. ASSUME NEW c \in KeysAndPads PROVE Follows(c)'
    <2>1. Waiting(c)' = Waiting(c) /\ Follows(c)
      BY <1>1 DEF Waiting, ControlsIInv
    <2>2. (c \in odd' <=> c \in odd) <=> (c \in leds_state' <=> c \in leds_state)
      BY <1>2 DEF Flip
    <2> QED
      BY <2>1, <2>2 DEF Follows
  <1> QED
    BY <1>1, <1>3, <1>4, <1>5 DEF ControlsIInv, ControlTypes, Remembered, NothingToDo

LEMMA OtherStepsFollow ==
    ASSUME TypeOK, TypeOK', ControlsIInv, OtherSteps
    PROVE  ControlsIInv'
  <1>1. UNCHANGED <<scanVars, leds_state, up, odd>> /\ ControlTypes'
    BY DEF OtherSteps, controlVars, inputVars, scanVars, ControlsIInv, ControlTypes
  <1>2. CASE RunReturn \/ IdleFlag \/ IdleWake \/ OtherWake
    <2>1. UNCHANGED <<queue, todo>> /\ NothingToDo'
      BY <1>2 DEF RunReturn, IdleFlag, IdleWake, OtherWake, ControlsIInv, NothingToDo
    <2>2. \A c \in KeysAndPads : Waiting(c)' = Waiting(c)
      BY <2>1 DEF Waiting
    <2> QED
      BY <1>1, <2>1, <2>2, QuietFollows
  <1>3. CASE IdleSleep
    <2>1. UNCHANGED todo /\ NothingToDo'
      BY <1>3 DEF IdleSleep, ControlsIInv, NothingToDo
    <2>2. queue \in Seq(Items) /\ queue' = [k \in DOMAIN queue |-> [queue[k] EXCEPT !.sleeps = @ + 1]]
      BY <1>3 DEF IdleSleep, TypeOK, Items
    <2>3. DOMAIN queue' = DOMAIN queue /\ \A k \in DOMAIN queue : queue'[k].event = queue[k].event
      <3>1. \A k \in DOMAIN queue : queue[k] \in Items /\ queue'[k] = [queue[k] EXCEPT !.sleeps = @ + 1]
        BY <2>2
      <3> QED
        BY <2>2, <3>1 DEF Items
    <2>4. ASSUME NEW c PROVE Waiting(c)' = Waiting(c)
      <3>1. {k \in DOMAIN queue' : queue'[k].event = PressEvent[c]}
              = {k \in DOMAIN queue : queue[k].event = PressEvent[c]}
        BY <2>3
      <3> QED
        BY <2>1, <3>1 DEF Waiting
    <2> QED
      BY <1>1, <2>1, <2>4, QuietFollows
  <1>4. ASSUME NEW s \in Sources, Arrive(s) \/ TakePending(s) PROVE ControlsIInv'
    <2>1. CASE Handler(s)
      <3>1. UNCHANGED <<pc, todo, controlVars>>
        BY <2>1 DEF Handler, mainVars, OtherSteps
      <3>2. NothingToDo'
        BY <3>1 DEF ControlsIInv, NothingToDo
      <3>3. ASSUME NEW c \in KeysAndPads PROVE Follows(c)'
        BY <2>1, <3>1, HandlerFollows DEF ControlsIInv
      <3> QED
        BY <1>1, <3>2, <3>3 DEF ControlsIInv, Remembered, scanVars
    <2>2. CASE UNCHANGED <<mainVars, queue>>
      <3>1. NothingToDo' /\ UNCHANGED <<queue, todo>>
        BY <2>2 DEF mainVars, ControlsIInv, NothingToDo
      <3>2. \A c \in KeysAndPads : Waiting(c)' = Waiting(c)
        BY <3>1 DEF Waiting
      <3> QED
        BY <1>1, <3>1, <3>2, QuietFollows
    <2> QED
      BY <1>4, <2>1, <2>2 DEF Arrive, TakePending
  <1> QED
    BY <1>2, <1>3, <1>4 DEF OtherSteps, systick_idle

LEMMA InputsFollow ==
    ASSUME ControlsIInv, Inputs
    PROVE  ControlsIInv'
  <1>1. UNCHANGED <<pc, todo, queue>> /\ UNCHANGED <<scanVars, leds_state, up, odd>>
    BY DEF Inputs, vars, mainVars
  <1>2. down' \subseteq Keys /\ level' \in [Pads -> Levels]
    <2>1. ASSUME NEW k \in Keys, Touch(k) PROVE down' \subseteq Keys /\ level' \in [Pads -> Levels]
      BY <2>1 DEF Touch, Flip, ControlsIInv, ControlTypes
    <2>2. ASSUME NEW p \in Pads, Strike(p) PROVE down' \subseteq Keys /\ level' \in [Pads -> Levels]
      BY <2>2 DEF Strike, ControlsIInv, ControlTypes
    <2> QED
      BY <2>1, <2>2 DEF Inputs
  <1>3. ControlTypes' /\ NothingToDo'
    BY <1>1, <1>2 DEF ControlsIInv, ControlTypes, NothingToDo, scanVars
  <1>4. \A c \in KeysAndPads : Waiting(c)' = Waiting(c)
    BY <1>1 DEF Waiting
  <1> QED
    BY <1>1, <1>3, <1>4, QuietFollows

(* What the queue and the handlers hold of presses agrees with the LEDs,   *)
(* the memories of keys.c and pads.c with their scans.                     *)
THEOREM ControlsInvariance == ControlsSpec => [](TypeOK /\ ControlsIInv)
  <1>1. ControlsSpec => []TypeOK
    <2>1. LoopIInv => TypeOK
      BY DEF LoopIInv
    <2> QED
      BY <2>1, LoopInvariance, RunsEventLoop, PTL
  <1>2. ControlsInit => ControlsIInv
    <2> SUFFICES ASSUME ControlsInit PROVE ControlsIInv
      OBVIOUS
    <2>1. queue = << >> /\ todo = << >>
      BY DEF ControlsInit, Init
    <2>2. ASSUME NEW c \in KeysAndPads PROVE Follows(c)
      <3>1. /\ {k \in DOMAIN queue : queue[k].event = PressEvent[c]} = {}
            /\ {k \in DOMAIN todo : todo[k] = PressEvent[c]} = {}
        BY <2>1
      <3>2. Waiting(c) = 0
        BY <3>1, FS_EmptySet DEF Waiting
      <3> QED
        BY <3>2 DEF Follows, ControlsInit
    <2> QED
      BY <2>1, <2>2 DEF ControlsInit, ControlsIInv, ControlTypes, Remembered, NothingToDo, KeysAndPads, Levels
  <1>3. TypeOK /\ TypeOK' /\ ControlsIInv /\ [ControlsNext]_allVars => ControlsIInv'
    <2> SUFFICES ASSUME TypeOK, TypeOK', ControlsIInv, [ControlsNext]_allVars PROVE ControlsIInv'
      OBVIOUS
    <2>1. CASE UNCHANGED allVars
      <3>1. UNCHANGED <<pc, todo, queue, down, level, scanVars, leds_state, up, odd>>
        BY <2>1 DEF allVars, vars, mainVars, controlVars, inputVars
      <3>2. ControlTypes' /\ NothingToDo' /\ \A c \in KeysAndPads : Waiting(c)' = Waiting(c)
        BY <3>1 DEF ControlsIInv, ControlTypes, NothingToDo, scanVars, Waiting
      <3> QED
        BY <3>1, <3>2, QuietFollows
    <2> QED
      BY <2>1, CheckFollows, PublishFollows, CommandFollows, OtherStepsFollow, InputsFollow
         DEF ControlsNext, KeysAndPads
  <1> QED
    BY <1>1, <1>2, <1>3, PTL DEF ControlsSpec

(* The memories of the scans are of keys and pads, and the LEDs of both.   *)
THEOREM ControlsTypes == ControlsSpec => []ControlsTypeOK
  <1>1. TypeOK /\ ControlsIInv => ControlsTypeOK
    BY DEF ControlsIInv, ControlTypes, Remembered, ControlsTypeOK, KeysAndPads
  <1> QED
    BY <1>1, ControlsInvariance, PTL

(* keys_check_task, pads_as_key_check_task and led_toggle.c together: each *)
(* press toggles its LED once, or is refused by the full queue, whatever   *)
(* the shell has set it to, for every number of keys and pads, every size  *)
(* of the queue and every order of ticks, interrupts and inputs.           *)
THEOREM PressesToggle == ControlsSpec => []LedsFollowPresses
  <1>1. ControlsIInv => LedsFollowPresses
    BY DEF ControlsIInv, Follows, LedsFollowPresses, KeysAndPads
  <1> QED
    BY <1>1, ControlsInvariance, PTL
=============================================================================
