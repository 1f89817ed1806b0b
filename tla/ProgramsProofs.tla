--------------------------- MODULE ProgramsProofs ---------------------------
(***************************************************************************)
(* For every table of classes: no class is published twice within its      *)
(* period, and handling each tick before the next one keeps every class on *)
(* its schedule for ever.  For every period, phase and delay of the        *)
(* checks, and for whatever the scans find: the bootloader is started when *)
(* the keys have been held for HoldTime and at no other time; the light    *)
(* goes to and fro and takes no more than one step in each StepTime.  And  *)
(* running the programs is a way of running the cyclic tasks, whose        *)
(* theorems hold for them, too.  The queue never holds more than it has    *)
(* room for, and one event of SysTick for each tick that it did not refuse *)
(* and the handler has not seen (QueueIInv); that the handler's *)
(* loop publishes events of classes alone is proved by induction over its  *)
(* steps (PublishedClasses).  And no step of the light remains unseen,     *)
(* because the light's event stands in the queue behind the events that    *)
(* drive the rows (SeenIInv).                                              *)
(***************************************************************************)
EXTENDS Programs, SequenceTheorems, FunctionTheorems, FiniteSetTheorems,
        WellFoundedInduction, TLAPS

-----------------------------------------------------------------------------
(* Induction over numbers, by sets *)

LEMMA LeastNumber ==
    ASSUME NEW S \in SUBSET Nat, S # {}
    PROVE  \E n \in S : \A k \in S : n <= k
  <1> DEFINE R == {ss \in Nat \X Nat : ss[1] < ss[2]}
  <1>1. IsWellFoundedOn(R, Nat)
    BY NatLessThanWellFounded DEF OpToRel
  <1>2. PICK n \in S : \A k \in S : ~ (<<k, n>> \in R)
    <2> HIDE DEF R
    <2> QED
      BY <1>1, WFMin
  <1>3. ASSUME NEW k \in S, k < n PROVE FALSE
    <2>1. <<k, n>> \in R
      BY <1>3
    <2> QED
      BY <1>2, <2>1
  <1> QED
    BY <1>3

LEMMA Induction ==
    ASSUME NEW S, 0 \in S, \A n \in Nat : n \in S => n + 1 \in S
    PROVE  \A n \in Nat : n \in S
  <1> SUFFICES ASSUME NEW n \in Nat, n \notin S PROVE FALSE
    OBVIOUS
  <1>1. PICK m \in {k \in Nat : k \notin S} : \A k \in {j \in Nat : j \notin S} : m <= k
    BY LeastNumber
  <1>2. m # 0 /\ m - 1 \in Nat /\ m - 1 \in S
    BY <1>1
  <1> QED
    BY <1>1, <1>2

-----------------------------------------------------------------------------
(* How often a sequence has one of a set *)

At(s, T) == {k \in DOMAIN s : s[k] \in T}

Times(s, T) == Cardinality(At(s, T))

LEMMA TimesType ==
    ASSUME NEW S, NEW s \in Seq(S), NEW T
    PROVE  IsFiniteSet(At(s, T)) /\ Times(s, T) \in Nat
  <1>1. Len(s) \in Nat /\ DOMAIN s = 1 .. Len(s)
    BY LenProperties
  <1>2. IsFiniteSet(1 .. Len(s))
    BY <1>1, FS_Interval
  <1>3. At(s, T) \in SUBSET (1 .. Len(s))
    BY <1>1 DEF At
  <1>4. IsFiniteSet(At(s, T))
    BY <1>2, <1>3, FS_Subset
  <1> QED
    BY <1>4, FS_CardinalityType DEF Times

LEMMA TimesAtMost ==
    ASSUME NEW S, NEW s \in Seq(S), NEW T
    PROVE  Times(s, T) <= Len(s)
  <1>1. Len(s) \in Nat /\ DOMAIN s = 1 .. Len(s)
    BY LenProperties
  <1>2. IsFiniteSet(1 .. Len(s)) /\ Cardinality(1 .. Len(s)) = Len(s)
    BY <1>1, FS_Interval
  <1>3. At(s, T) \in SUBSET (1 .. Len(s))
    BY <1>1 DEF At
  <1> QED
    BY <1>2, <1>3, FS_Subset DEF Times

LEMMA TimesEmpty == ASSUME NEW T PROVE Times(<< >>, T) = 0
  <1>1. At(<< >>, T) = {}
    BY DEF At
  <1> QED
    BY <1>1, FS_EmptySet DEF Times

LEMMA TimesAppend ==
    ASSUME NEW S, NEW s \in Seq(S), NEW x \in S, NEW T
    PROVE  Times(Append(s, x), T) = Times(s, T) + (IF x \in T THEN 1 ELSE 0)
  <1>1. Len(s) \in Nat /\ DOMAIN s = 1 .. Len(s)
    BY LenProperties
  <1>2. /\ DOMAIN Append(s, x) = 1 .. Len(s) + 1
        /\ \A k \in 1 .. Len(s) : Append(s, x)[k] = s[k]
        /\ Append(s, x)[Len(s) + 1] = x
    BY <1>1, AppendProperties
  <1>3. At(Append(s, x), T) = At(s, T) \cup (IF x \in T THEN {Len(s) + 1} ELSE {})
    BY <1>1, <1>2 DEF At
  <1>4. Len(s) + 1 \notin At(s, T)
    BY <1>1 DEF At
  <1>5. IsFiniteSet(At(s, T)) /\ Times(s, T) \in Nat
    BY TimesType
  <1>6. CASE x \in T
    <2>1. Cardinality(At(s, T) \cup {Len(s) + 1}) = Cardinality(At(s, T)) + 1
      BY <1>4, <1>5, FS_AddElement
    <2> QED
      BY <1>3, <1>6, <2>1 DEF Times
  <1>7. CASE x \notin T
    BY <1>3, <1>5, <1>7 DEF Times
  <1> QED
    BY <1>6, <1>7

LEMMA TimesTail ==
    ASSUME NEW S, NEW s \in Seq(S), s # << >>, NEW T
    PROVE  Times(s, T) = Times(Tail(s), T) + (IF Head(s) \in T THEN 1 ELSE 0)
  <1>1. /\ Len(s) \in Nat \ {0} /\ DOMAIN s = 1 .. Len(s) /\ Head(s) = s[1]
        /\ Tail(s) \in Seq(S) /\ DOMAIN Tail(s) = 1 .. Len(s) - 1
        /\ \A k \in 1 .. Len(s) - 1 : Tail(s)[k] = s[k + 1]
    BY HeadTailProperties, LenProperties, EmptySeq
  <1> DEFINE Behind == At(s, T) \ {1}
             Back == [k \in At(Tail(s), T) |-> k + 1]
  <1>2. IsFiniteSet(At(s, T)) /\ IsFiniteSet(At(Tail(s), T))
    BY <1>1, TimesType
  <1>3. Back \in Bijection(At(Tail(s), T), Behind)
    <2>1. Back \in [At(Tail(s), T) -> Behind]
      BY <1>1 DEF At
    <2>2. \A j, k \in At(Tail(s), T) : Back[j] = Back[k] => j = k
      BY <1>1 DEF At
    <2>3. ASSUME NEW k \in Behind PROVE \E j \in At(Tail(s), T) : Back[j] = k
      <3>1. k - 1 \in At(Tail(s), T)
        BY <1>1 DEF At
      <3> QED
        BY <1>1, <3>1 DEF At
    <2> HIDE DEF Back, Behind
    <2>4. IsInjective(Back)
      BY <2>1, <2>2 DEF IsInjective
    <2>5. \A k \in Behind : \E j \in At(Tail(s), T) : Back[j] = k
      BY <2>3
    <2> QED
      BY <2>1, <2>4, <2>5 DEF Bijection, Injection, Surjection
  <1>4. Cardinality(At(Tail(s), T)) = Cardinality(Behind)
    <2> HIDE DEF Back, Behind
    <2>1. ExistsBijection(At(Tail(s), T), Behind)
      BY <1>3 DEF ExistsBijection
    <2> QED
      BY <1>2, <2>1, FS_Bijection
  <1>5. CASE Head(s) \in T
    <2>1. 1 \in At(s, T)
      BY <1>1, <1>5 DEF At
    <2>2. Cardinality(Behind) = Cardinality(At(s, T)) - 1 /\ Cardinality(At(s, T)) \in Nat
      BY <1>2, <2>1, FS_RemoveElement, FS_CardinalityType
    <2> QED
      BY <1>4, <1>5, <2>2 DEF Times
  <1>6. CASE Head(s) \notin T
    <2>1. Behind = At(s, T) /\ Cardinality(At(s, T)) \in Nat
      BY <1>1, <1>2, <1>6, FS_CardinalityType DEF At
    <2> HIDE DEF Behind, Back
    <2> QED
      BY <1>4, <1>6, <2>1 DEF Times
  <1> QED
    BY <1>5, <1>6

LEMMA TimesConcat ==
    ASSUME NEW S, NEW s \in Seq(S), NEW r \in Seq(S), NEW T
    PROVE  Times(s \o r, T) = Times(s, T) + Times(r, T)
  <1>1. /\ Len(s) \in Nat /\ DOMAIN s = 1 .. Len(s)
        /\ Len(r) \in Nat /\ DOMAIN r = 1 .. Len(r)
    BY LenProperties
  <1>2. /\ DOMAIN (s \o r) = 1 .. Len(s) + Len(r)
        /\ \A k \in 1 .. Len(s) : (s \o r)[k] = s[k]
        /\ \A k \in 1 .. Len(r) : (s \o r)[Len(s) + k] = r[k]
    BY <1>1, ConcatProperties
  <1> DEFINE Front == At(s, T)
             Back == At(s \o r, T) \ (1 .. Len(s))
             Moved == [k \in At(r, T) |-> Len(s) + k]
  <1>3. At(s \o r, T) = Front \cup Back /\ Front \cap Back = {}
    BY <1>1, <1>2 DEF At
  <1>4. Moved \in Bijection(At(r, T), Back)
    <2>1. Moved \in [At(r, T) -> Back]
      BY <1>1, <1>2 DEF At
    <2>2. \A j, k \in At(r, T) : Moved[j] = Moved[k] => j = k
      BY <1>1 DEF At
    <2>3. ASSUME NEW k \in Back PROVE \E j \in At(r, T) : Moved[j] = k
      <3>1. k - Len(s) \in 1 .. Len(r) /\ Len(s) + (k - Len(s)) = k
        BY <1>1, <1>2 DEF At
      <3>2. k - Len(s) \in At(r, T)
        BY <1>1, <1>2, <3>1 DEF At
      <3> QED
        BY <3>1, <3>2
    <2> HIDE DEF Moved, Back
    <2>4. IsInjective(Moved)
      BY <2>1, <2>2 DEF IsInjective
    <2> QED
      BY <2>1, <2>3, <2>4 DEF Bijection, Injection, Surjection
  <1>5. IsFiniteSet(Front) /\ IsFiniteSet(At(r, T)) /\ Times(s, T) \in Nat /\ Times(r, T) \in Nat
    BY TimesType
  <1> HIDE DEF Moved, Back, Front
  <1>6. IsFiniteSet(Back) /\ Cardinality(Back) = Times(r, T)
    BY <1>4, <1>5, FS_Bijection DEF ExistsBijection, Times
  <1>7. Cardinality(Front \cup Back) = Cardinality(Front) + Cardinality(Back) - 0
    BY <1>3, <1>5, <1>6, FS_Union, FS_EmptySet
  <1> QED
    BY <1>3, <1>5, <1>6, <1>7 DEF Times, Front

LEMMA TimesNone ==
    ASSUME NEW S, NEW s \in Seq(S), NEW T, S \cap T = {}
    PROVE  Times(s, T) = 0
  <1>1. DOMAIN s = 1 .. Len(s) /\ \A k \in 1 .. Len(s) : s[k] \in S
    BY LenProperties, ElementOfSeq
  <1>2. At(s, T) = {}
    BY <1>1 DEF At
  <1> QED
    BY <1>2, FS_EmptySet DEF Times

-----------------------------------------------------------------------------
(* Sequences put together: the provers reason about these three names more *)
(* easily than about what they stand for                                   *)

Cat(s, r) == s \o r
One(x) == <<x>>
Rest(s) == Tail(s)

LEMMA CatType == \A S : \A s, r \in Seq(S) : Cat(s, r) \in Seq(S)
  BY ConcatProperties DEF Cat

LEMMA CatCat == \A S : \A s, r, q \in Seq(S) : Cat(Cat(s, r), q) = Cat(s, Cat(r, q))
  BY ConcatAssociative DEF Cat

LEMMA OneType == \A S : \A x \in S : One(x) \in Seq(S)
  BY DEF One

LEMMA AppendOne == \A S : \A s \in Seq(S), x \in S : Append(s, x) = Cat(s, One(x))
  BY AppendIsConcat DEF Cat, One

LEMMA CatNone == \A S : \A s \in Seq(S) : Cat(<< >>, s) = s /\ Cat(s, << >>) = s
  BY ConcatEmptySeq DEF Cat

LEMMA CatTail ==
    ASSUME NEW S, NEW s \in Seq(S), NEW r \in Seq(S), s # << >>
    PROVE  Cat(s, r) # << >> /\ Head(Cat(s, r)) = Head(s) /\ Rest(Cat(s, r)) = Cat(Rest(s), r)
  <1> DEFINE c == s \o r
             t == Tail(s)
             u == Tail(c)
             v == t \o r
  <1>1. Len(s) \in Nat \ {0} /\ Len(r) \in Nat
    BY EmptySeq, LenProperties
  <1>2. c \in Seq(S) /\ Len(c) = Len(s) + Len(r)
        /\ \A k \in 1 .. Len(s) + Len(r) : c[k] = IF k <= Len(s) THEN s[k] ELSE r[k - Len(s)]
    BY ConcatProperties
  <1>3. t \in Seq(S) /\ Len(t) = Len(s) - 1 /\ \A k \in 1 .. Len(t) : t[k] = s[k + 1]
    BY HeadTailProperties
  <1> HIDE DEF c, t
  <1>4. c # << >>
    BY <1>1, <1>2
  <1>5. u \in Seq(S) /\ Len(u) = Len(c) - 1 /\ \A k \in 1 .. Len(u) : u[k] = c[k + 1]
    BY <1>2, <1>4, HeadTailProperties
  <1>6. v \in Seq(S) /\ Len(v) = Len(t) + Len(r)
        /\ \A k \in 1 .. Len(t) + Len(r) : v[k] = IF k <= Len(t) THEN t[k] ELSE r[k - Len(t)]
    BY <1>3, ConcatProperties
  <1> HIDE DEF u, v
  <1>7. Len(u) = Len(v)
    BY <1>1, <1>2, <1>3, <1>5, <1>6
  <1>8. ASSUME NEW k \in 1 .. Len(u) PROVE u[k] = v[k]
    <2>1. /\ k \in 1 .. Len(c) - 1 /\ k + 1 \in 1 .. Len(c) /\ k + 1 - Len(s) = k - (Len(s) - 1)
          /\ k + 1 <= Len(s) <=> k <= Len(s) - 1
      BY <1>1, <1>2, <1>5
    <2>2. u[k] = c[k + 1]
      BY <1>5
    <2>3. CASE k + 1 <= Len(s)
      <3>1. k \in 1 .. Len(t) /\ k \in 1 .. Len(t) + Len(r) /\ k + 1 \in 1 .. Len(s) + Len(r) /\ k <= Len(t)
        BY <1>1, <1>2, <1>3, <2>1, <2>3
      <3>2. c[k + 1] = s[k + 1]
        BY ONLY <1>2, <3>1, <2>3
      <3>3. v[k] = t[k] /\ t[k] = s[k + 1]
        BY ONLY <1>6, <1>3, <3>1
      <3> QED
        BY <2>2, <3>2, <3>3
    <2>4. CASE k + 1 > Len(s)
      <3>1. k \in 1 .. Len(t) + Len(r) /\ k + 1 \in 1 .. Len(s) + Len(r) /\ ~ (k <= Len(t)) /\ ~ (k + 1 <= Len(s))
            /\ k - Len(t) = k + 1 - Len(s)
        BY <1>1, <1>2, <1>3, <2>1, <2>4
      <3>2. c[k + 1] = r[k + 1 - Len(s)]
        BY ONLY <1>2, <3>1
      <3>3. v[k] = r[k + 1 - Len(s)]
        BY ONLY <1>6, <3>1
      <3> QED
        BY <2>2, <3>2, <3>3
    <2> QED
      BY <1>1, <2>1, <2>3, <2>4
  <1>9. u = v
    BY <1>5, <1>6, <1>7, <1>8, SeqEqual
  <1>10. Head(c) = c[1] /\ Head(s) = s[1] /\ c[1] = s[1]
    BY <1>1, <1>2, <1>4
  <1> QED
    BY <1>4, <1>9, <1>10 DEF c, u, v, t, Cat, Rest

LEMMA RestType == \A S : \A s \in Seq(S) : s # << >> => Rest(s) \in Seq(S) /\ Head(s) \in S
  BY HeadTailProperties DEF Rest

LEMMA TimesCat == \A S, T : \A s, r \in Seq(S) : Times(Cat(s, r), T) = Times(s, T) + Times(r, T)
  BY TimesConcat DEF Cat

LEMMA TimesOne == \A x, T : Times(One(x), T) = IF x \in T THEN 1 ELSE 0
  <1> SUFFICES ASSUME NEW x, NEW T PROVE Times(One(x), T) = IF x \in T THEN 1 ELSE 0
    OBVIOUS
  <1>1. One(x) = Append(<< >>, x)
    BY DEF One
  <1> DEFINE none == << >>
  <1>2. none \in Seq({x}) /\ Times(none, T) = 0
    BY TimesEmpty
  <1> HIDE DEF none
  <1>3. Times(Append(none, x), T) = Times(none, T) + (IF x \in T THEN 1 ELSE 0)
    BY <1>2, TimesAppend
  <1> QED
    BY <1>1, <1>2, <1>3 DEF none

LEMMA TimesRest == \A S, T : \A s \in Seq(S) :
        s # << >> => Times(s, T) = Times(Rest(s), T) + (IF Head(s) \in T THEN 1 ELSE 0)
  BY TimesTail DEF Rest

-----------------------------------------------------------------------------
(* The cyclic tasks *)

USE ClassesAssumption, TicksAssumption

(* What one run of the handler does to a class.                            *)
LEMMA RunOf ==
    ASSUME TypeOK, cyclic_tasks, NEW c \in Classes
    PROVE  /\ systick_ticks \in Nat /\ last[c] \in Int /\ Time[c] \in Nat \ {0}
           /\ \/ /\ systick_ticks - last[c] >= Time[c]
                 /\ last'[c] = 2 * systick_ticks - Time[c] - last[c]
                 /\ counter'[c] = counter[c] + 1
                 /\ fired'[c] = systick_ticks
              \/ /\ systick_ticks - last[c] < Time[c]
                 /\ last'[c] = last[c] /\ counter'[c] = counter[c] /\ fired'[c] = fired[c]
  <1>1. systick_ticks \in Nat /\ last[c] \in Int /\ Time[c] \in Nat \ {0}
    BY DEF TypeOK
  <1>2. CASE Due(c)
    <2>1. /\ last'[c] = Correction(c) /\ counter'[c] = counter[c] + 1
          /\ fired'[c] = systick_ticks
      BY <1>2 DEF cyclic_tasks, DueClasses
    <2> QED
      BY <1>1, <1>2, <2>1 DEF Due, delta, Correction
  <1>3. CASE ~Due(c)
    <2>1. last'[c] = last[c] /\ counter'[c] = counter[c] /\ fired'[c] = fired[c]
      BY <1>3 DEF cyclic_tasks, DueClasses
    <2> QED
      BY <1>1, <1>3, <2>1 DEF Due, delta
  <1> QED
    BY <1>2, <1>3

THEOREM Invariance == Spec => []IInv
  <1>1. Init => IInv
    <2> SUFFICES ASSUME Init PROVE IInv
      OBVIOUS
    <2>1. /\ last = [c \in Classes |-> 0 - Offset[c]] /\ fired = last
          /\ \A c \in Classes : 0 - Offset[c] \in Int
      BY DEF Init
    <2>2. last \in [Classes -> Int] /\ fired \in [Classes -> Int]
      BY <2>1
    <2>3. ASSUME NEW c \in Classes PROVE fired[c] <= last[c]
      <3>1. last[c] \in Int /\ fired[c] = last[c]
        BY <2>1, <2>2
      <3> QED
        BY ONLY <3>1
    <2> QED
      BY <2>2, <2>3 DEF Init, IInv, TypeOK
  <1>2. IInv /\ [Next]_vars => IInv'
    <2> SUFFICES ASSUME IInv, [Next]_vars PROVE IInv'
      OBVIOUS
    <2>1. CASE SysTick_Handler
      BY <2>1 DEF SysTick_Handler, Counted, IInv, TypeOK
    <2>2. CASE cyclic_tasks
      <3>1. systick_ticks' = systick_ticks /\ backlog' = backlog - 1 /\ backlog > 0 /\ late' = late
        BY <2>2 DEF cyclic_tasks
      <3>2. /\ last' \in [Classes -> Int] /\ counter' \in [Classes -> Nat]
            /\ fired' \in [Classes -> Int]
        BY <2>2 DEF cyclic_tasks, IInv, TypeOK, Correction, delta
      <3>3. TypeOK'
        BY <3>1, <3>2 DEF IInv, TypeOK
      <3>4. \A c \in Classes : fired'[c] <= last'[c]
        <4> TAKE c \in Classes
        <4>1. fired[c] \in Int /\ fired[c] <= last[c]
          BY DEF IInv, TypeOK
        <4> QED
          BY <2>2, <4>1, RunOf DEF IInv
      <3> QED
        BY <3>3, <3>4 DEF IInv
    <2>3. CASE UNCHANGED vars
      BY <2>3 DEF vars, IInv, TypeOK
    <2> QED
      BY <2>1, <2>2, <2>3 DEF Next
  <1> QED
    BY <1>1, <1>2, PTL DEF Spec

(* A class is published at most once per period, however late the runs.    *)
THEOREM NoClassEarly == Spec => NeverEarly
  <1>1. IInv /\ [Next]_vars =>
            [\A c \in Classes : counter'[c] # counter[c] => systick_ticks - fired[c] >= Time[c]]_vars
    <2> SUFFICES ASSUME IInv, [Next]_vars, NEW c \in Classes, counter'[c] # counter[c]
                 PROVE  systick_ticks - fired[c] >= Time[c]
      OBVIOUS
    <2>1. cyclic_tasks
      BY DEF Next, vars, SysTick_Handler, Counted
    <2>2. fired[c] \in Int /\ fired[c] <= last[c] /\ TypeOK
      BY DEF IInv, TypeOK
    <2> QED
      BY <2>1, <2>2, RunOf
  <1> QED
    BY <1>1, Invariance, PTL DEF Spec, NeverEarly

-----------------------------------------------------------------------------
(* Punctual runs *)

(* The tick the handler has seen last lies in the running period of every  *)
(* class, and that period began counter periods after the first.           *)
Phase ==
    late = 0 =>
        /\ backlog <= 1
        /\ \A c \in Classes :
              /\ last[c] <= systick_ticks - backlog
              /\ systick_ticks - backlog - last[c] < Time[c]
              /\ counter[c] * Time[c] = last[c] + Offset[c]

LEMMA OneMore == ASSUME NEW q \in Nat, NEW d \in Nat PROVE (q + 1) * d = q * d + d
OBVIOUS

LEMMA PhaseStep == ASSUME IInv, Phase, [Next]_vars PROVE Phase'
  <1>1. CASE SysTick_Handler
    <2> SUFFICES ASSUME late' = 0
                 PROVE  /\ backlog' <= 1
                        /\ \A c \in Classes :
                              /\ last'[c] <= systick_ticks' - backlog'
                              /\ systick_ticks' - backlog' - last'[c] < Time[c]
                              /\ counter'[c] * Time[c] = last'[c] + Offset[c]
      BY DEF Phase
    <2>1. /\ late = 0 /\ backlog = 0 /\ backlog' = 1 /\ systick_ticks' = systick_ticks + 1
          /\ last' = last /\ counter' = counter /\ systick_ticks \in Nat
      BY <1>1 DEF SysTick_Handler, Counted, IInv, TypeOK
    <2>2. systick_ticks' - backlog' = systick_ticks - backlog
      BY ONLY <2>1
    <2> QED
      BY ONLY <2>1, <2>2, Phase DEF Phase
  <1>2. CASE cyclic_tasks
    <2>0. late' = late /\ systick_ticks' = systick_ticks
      BY <1>2 DEF cyclic_tasks
    <2> SUFFICES ASSUME late = 0
                 PROVE  /\ backlog' <= 1
                        /\ \A c \in Classes :
                              /\ last'[c] <= systick_ticks - backlog'
                              /\ systick_ticks - backlog' - last'[c] < Time[c]
                              /\ counter'[c] * Time[c] = last'[c] + Offset[c]
      BY <2>0 DEF Phase
    <2>a. backlog = 1 /\ backlog' = 0
      <3>1. backlog > 0 /\ backlog' = backlog - 1 /\ backlog \in Nat
        BY <1>2 DEF cyclic_tasks, IInv, TypeOK
      <3> QED
        BY ONLY <3>1, Phase, late = 0 DEF Phase
    <2> SUFFICES ASSUME NEW c \in Classes
                 PROVE  /\ last'[c] <= systick_ticks - backlog'
                        /\ systick_ticks - backlog' - last'[c] < Time[c]
                        /\ counter'[c] * Time[c] = last'[c] + Offset[c]
      BY <2>a
    <2>1. /\ backlog = 1 /\ backlog' = 0 /\ counter[c] \in Nat /\ Offset[c] \in Nat
          /\ last[c] <= systick_ticks - 1 /\ systick_ticks - 1 - last[c] < Time[c]
          /\ counter[c] * Time[c] = last[c] + Offset[c]
      <3>1. counter[c] \in Nat /\ Offset[c] \in Nat
        BY DEF IInv, TypeOK
      <3> QED
        BY ONLY <2>a, <3>1, Phase, late = 0, c \in Classes DEF Phase
    <2>2. /\ systick_ticks \in Nat /\ last[c] \in Int /\ Time[c] \in Nat \ {0}
          /\ \/ /\ systick_ticks - last[c] >= Time[c]
                /\ last'[c] = 2 * systick_ticks - Time[c] - last[c]
                /\ counter'[c] = counter[c] + 1
             \/ /\ systick_ticks - last[c] < Time[c]
                /\ last'[c] = last[c] /\ counter'[c] = counter[c]
      BY <1>2, RunOf DEF IInv
    <2>3. CASE systick_ticks - last[c] < Time[c]
      BY ONLY <2>1, <2>2, <2>3
    <2>4. CASE systick_ticks - last[c] >= Time[c]
      <3>1. systick_ticks - last[c] = Time[c] /\ last'[c] = last[c] + Time[c]
        BY ONLY <2>1, <2>2, <2>4
      <3>2. (counter[c] + 1) * Time[c] = counter[c] * Time[c] + Time[c]
        BY ONLY <2>1, <2>2, OneMore
      <3>3. counter'[c] * Time[c] = last'[c] + Offset[c]
        <4>1. counter'[c] = counter[c] + 1
          BY ONLY <2>1, <2>2, <2>4
        <4> QED
          BY ONLY <2>1, <2>2, <3>1, <3>2, <4>1
      <3> QED
        BY ONLY <2>1, <2>2, <3>1, <3>3
    <2> QED
      BY ONLY <2>2, <2>3, <2>4
  <1>3. CASE UNCHANGED vars
    BY <1>3 DEF vars, Phase
  <1> QED
    BY <1>1, <1>2, <1>3 DEF Next

(* The quotient of a division is the multiple that fits.                   *)
LEMMA Quotient ==
    ASSUME NEW n \in Nat, NEW d \in Nat \ {0}, NEW q \in Nat, q * d <= n, n - q * d < d
    PROVE  q = n \div d
OBVIOUS

(* Ticks that are handled one by one keep every class on its schedule.     *)
THEOREM Punctual == Spec => []OnSchedule
  <1>1. Init => Phase
    BY DEF Init, Phase
  <1>2. IInv /\ Phase => OnSchedule
    <2> SUFFICES ASSUME IInv, Phase, late = 0, backlog = 0, NEW c \in Classes
                 PROVE  counter[c] = (systick_ticks + Offset[c]) \div Time[c]
      BY DEF OnSchedule
    <2>1. /\ last[c] <= systick_ticks /\ systick_ticks - last[c] < Time[c]
          /\ counter[c] * Time[c] = last[c] + Offset[c]
      BY DEF Phase, IInv, TypeOK
    <2>2. /\ last[c] \in Int /\ systick_ticks + Offset[c] \in Nat /\ systick_ticks \in Nat
          /\ Time[c] \in Nat \ {0} /\ counter[c] \in Nat /\ Offset[c] \in Nat
      BY DEF IInv, TypeOK
    <2>3. /\ counter[c] * Time[c] <= systick_ticks + Offset[c]
          /\ (systick_ticks + Offset[c]) - counter[c] * Time[c] < Time[c]
      BY ONLY <2>1, <2>2
    <2> QED
      BY ONLY <2>2, <2>3, Quotient
  <1> QED
    BY <1>1, <1>2, PhaseStep, Invariance, PTL DEF Spec

-----------------------------------------------------------------------------
(* The keys that start the bootloader *)

USE ProgramsAssumption

\* The accumulator is the time between the two checks that matter.
BootIInv ==
    /\ systick_ticks \in Nat /\ broken \in Nat /\ checked \in Nat
    /\ broken <= checked /\ checked <= systick_ticks
    /\ booted \in BOOLEAN
    /\ boot_accumulator \in [previous : Nat, accumulator : Nat]
    /\ ~booted => /\ boot_accumulator.previous = checked
                  /\ boot_accumulator.accumulator = checked - broken
                  /\ checked - broken < HoldTime
    /\ booted => checked - broken >= HoldTime

(* A check keeps the accumulator in step with the time since the keys were *)
(* last found not held, whichever of the two it finds.                     *)
LEMMA CheckKeeps ==
    ASSUME BootIInv, ~booted, bootloader_check_task, systick_ticks' = systick_ticks
    PROVE  BootIInv'
  <1>1. /\ systick_ticks \in Nat /\ broken \in Nat /\ checked \in Nat
        /\ broken <= checked /\ checked <= systick_ticks
        /\ boot_accumulator.accumulator \in Nat /\ boot_accumulator.previous = checked
        /\ boot_accumulator.accumulator = checked - broken
    BY DEF BootIInv
  <1>2. /\ Accumulated(boot_accumulator) = systick_ticks - broken
        /\ Accumulated(boot_accumulator) \in Nat
    BY <1>1 DEF Accumulated
  <1>3. checked' = systick_ticks
    BY DEF bootloader_check_task
  <1>4. CASE Held
    <2>1. /\ booted' = Elapsed(boot_accumulator, HoldTime)
          /\ boot_accumulator' = ttime_elapsed(boot_accumulator, HoldTime)
          /\ broken' = broken
      BY <1>4 DEF bootloader_check_task
    <2>2. /\ booted' \in BOOLEAN
          /\ booted' => systick_ticks - broken >= HoldTime
          /\ ~booted' => systick_ticks - broken < HoldTime
      <3>1. HoldTime \in Int
        OBVIOUS
      <3>2. CASE Elapsed(boot_accumulator, HoldTime)
        <4>1. systick_ticks - broken >= HoldTime
          BY <1>2, <3>2 DEF Elapsed
        <4>2. booted' = TRUE
          BY <2>1, <3>2 DEF Elapsed
        <4> QED
          BY <4>1, <4>2
      <3>3. CASE ~Elapsed(boot_accumulator, HoldTime)
        <4>1. systick_ticks - broken < HoldTime
          BY <1>1, <1>2, <3>1, <3>3 DEF Elapsed
        <4>2. Elapsed(boot_accumulator, HoldTime) \in BOOLEAN
          BY <1>2, <3>1 DEF Elapsed
        <4>3. booted' = FALSE
          BY <2>1, <3>3, <4>2
        <4> QED
          BY <4>1, <4>3
      <3> QED
        BY <3>2, <3>3
    <2>3. boot_accumulator' \in [previous : Nat, accumulator : Nat]
      <3>1. Accumulated(boot_accumulator) % HoldTime \in Nat
        BY <1>2
      <3> QED
        BY <1>1, <1>2, <2>1, <3>1 DEF ttime_elapsed
    <2>4. ASSUME ~booted'
          PROVE  /\ boot_accumulator'.previous = systick_ticks
                 /\ boot_accumulator'.accumulator = systick_ticks - broken
      <3>1. ~Elapsed(boot_accumulator, HoldTime)
        BY <2>1, <2>4
      <3> QED
        BY <1>2, <2>1, <3>1 DEF ttime_elapsed
    <2> QED
      BY <1>1, <1>3, <2>1, <2>2, <2>3, <2>4 DEF BootIInv
  <1>5. CASE ~Held
    <2>1. /\ booted' = booted /\ broken' = systick_ticks
          /\ boot_accumulator' = [previous |-> systick_ticks, accumulator |-> 0]
      BY <1>5 DEF bootloader_check_task, ttime_reset
    <2> QED
      BY <1>1, <1>3, <2>1 DEF BootIInv
  <1> QED
    BY <1>4, <1>5

THEOREM BootInvariance == ProgramsSpec => []BootIInv
  <1>1. ProgramsInit => BootIInv
    <2> SUFFICES ASSUME ProgramsInit PROVE BootIInv
      OBVIOUS
    <2>1. systick_ticks = 0 /\ broken = 0 /\ checked = 0 /\ booted = FALSE
      BY DEF ProgramsInit, Init
    <2>2. boot_accumulator = [previous |-> 0, accumulator |-> 0]
      BY DEF ProgramsInit, accumulator0
    <2>3. booted \in BOOLEAN /\ ~booted
      BY <2>1
    <2>4. checked - broken = 0 /\ 0 < HoldTime
      BY <2>1
    <2>5. boot_accumulator \in [previous : Nat, accumulator : Nat]
      BY <2>2
    <2>6. boot_accumulator.previous = checked /\ boot_accumulator.accumulator = checked - broken
      BY <2>1, <2>2, <2>4
    <2>7. systick_ticks \in Nat /\ broken \in Nat /\ checked \in Nat
          /\ broken <= checked /\ checked <= systick_ticks
      BY <2>1
    <2>8. checked - broken < HoldTime
      BY <2>4
    <2> QED
      BY <2>3, <2>5, <2>6, <2>7, <2>8 DEF BootIInv
  <1>2. BootIInv /\ [ProgramsNext]_allVars => BootIInv'
    <2> SUFFICES ASSUME BootIInv, [ProgramsNext]_allVars PROVE BootIInv'
      OBVIOUS
    <2>1. CASE ~booted /\ Tick
      BY <2>1 DEF Tick, Counted, programVars, bootVars, BootIInv
    <2>2. CASE RunSystick
      BY <2>2 DEF RunSystick, cyclic_tasks, programVars, bootVars, BootIInv
    <2>3. ASSUME ~booted, NEW c \in {0} \cup Classes, RunClass(c) PROVE BootIInv'
      <3>1. systick_ticks' = systick_ticks
        BY <2>3 DEF RunClass, vars
      <3>2. CASE bootloader_check_task
        BY <2>3, <3>1, <3>2, CheckKeeps
      <3>3. CASE UNCHANGED bootVars
        BY <3>1, <3>3 DEF bootVars, BootIInv
      <3> QED
        BY <2>3, <3>2, <3>3 DEF RunClass, Cyclic1, knightrider_task, programVars
    <2>4. CASE UNCHANGED allVars
      BY <2>4 DEF allVars, vars, programVars, bootVars, BootIInv
    <2> QED
      BY <2>1, <2>2, <2>3, <2>4 DEF ProgramsNext
  <1> QED
    BY <1>1, <1>2, PTL DEF ProgramsSpec

(* bootloader_check_task starts the bootloader at the first check that     *)
(* finds the keys held for HoldTime, and never before.                     *)
THEOREM BootOnHold == ProgramsSpec => []BootsWhenHeld
  <1>1. BootIInv => BootsWhenHeld
    <2> SUFFICES ASSUME BootIInv PROVE BootsWhenHeld
      OBVIOUS
    <2>1. checked - broken \in Int /\ HoldTime \in Int /\ booted \in BOOLEAN
      BY DEF BootIInv
    <2>2. CASE booted
      BY <2>1, <2>2 DEF BootIInv, BootsWhenHeld
    <2>3. CASE ~booted
      <3>1. ~(checked - broken >= HoldTime)
        BY <2>1, <2>3 DEF BootIInv
      <3> QED
        BY <2>1, <2>3, <3>1 DEF BootsWhenHeld
    <2> QED
      BY <2>2, <2>3
  <1> QED
    BY <1>1, BootInvariance, PTL

(* The programs leave the cyclic tasks what they are: every step is one of *)
(* CyclicTasks or leaves its variables alone.                              *)
THEOREM RunsCyclicTasks == ProgramsSpec => Spec
  <1>1. ProgramsInit => Init
    BY DEF ProgramsInit
  <1>2. [ProgramsNext]_allVars => [Next]_vars
    <2> SUFFICES ASSUME [ProgramsNext]_allVars PROVE [Next]_vars
      OBVIOUS
    <2>1. CASE Tick
      BY <2>1 DEF Tick, SysTick_Handler, Next
    <2>2. CASE RunSystick
      BY <2>2 DEF RunSystick, Next
    <2>3. ASSUME NEW c \in {0} \cup Classes, RunClass(c) PROVE UNCHANGED vars
      BY <2>3 DEF RunClass
    <2>4. CASE UNCHANGED allVars
      BY <2>4 DEF allVars
    <2> QED
      BY <2>1, <2>2, <2>3, <2>4 DEF ProgramsNext
  <1> QED
    BY <1>1, <1>2, PTL DEF ProgramsSpec, Spec

-----------------------------------------------------------------------------
(* The light *)

\* Where the light is and where it goes next; before its first step, nowhere.
Walks ==
    \/ bank_leds = {} /\ count = 0
    \/ /\ count \in 0 .. 3 /\ direction \in {-1, 1}
       /\ count - direction \in 0 .. 3
       /\ bank_leds = {count - direction}

\* Every step has been paid for with StepTime of the ticks up to the last
\* call of ttime_elapsed, and what is left is in the accumulator.
Paid ==
    /\ systick_ticks \in Nat /\ steps \in Nat
    /\ knight_accumulator \in [previous : Nat, accumulator : Nat]
    /\ knight_accumulator.previous <= systick_ticks
    /\ steps * StepTime + knight_accumulator.accumulator <= knight_accumulator.previous

LightIInv == Walks /\ Paid

LEMMA Remainder ==
    ASSUME NEW n \in Nat, NEW d \in Nat \ {0}, n >= d
    PROVE  n % d \in Nat /\ n % d <= n - d
  OBVIOUS

LEMMA StepWalks ==
    ASSUME Walks, Step
    PROVE  /\ Walks'
           /\ \A i \in bank_leds, j \in bank_leds' : j - i \in {-1, 1}
  <1>1. count \in 0 .. 3
    BY DEF Walks
  <1>2. /\ bank_leds' = {count} /\ direction' = Turn(count) /\ count' = count + Turn(count)
    BY <1>1 DEF Step
  <1>3. Turn(count) \in {-1, 1} /\ count + Turn(count) \in 0 .. 3
    BY <1>1 DEF Turn, Walks
  <1>4. count' - direction' = count
    BY <1>1, <1>2, <1>3
  <1>5. Walks'
    BY <1>1, <1>2, <1>3, <1>4 DEF Walks
  <1>6. ASSUME NEW i \in bank_leds, NEW j \in bank_leds' PROVE j - i \in {-1, 1}
    BY <1>1, <1>2, <1>6 DEF Walks
  <1> QED
    BY <1>5, <1>6

LEMMA KnightPays ==
    ASSUME Paid, knightrider_task, systick_ticks' = systick_ticks
    PROVE  Paid'
  <1> DEFINE n == Accumulated(knight_accumulator)
  <1>1. /\ systick_ticks \in Nat /\ steps \in Nat /\ StepTime \in Nat \ {0}
        /\ knight_accumulator.previous \in Nat /\ knight_accumulator.accumulator \in Nat
        /\ steps * StepTime \in Nat
    BY DEF Paid
  <1>2. n \in Nat /\ steps * StepTime + n <= systick_ticks
    BY <1>1 DEF Paid, Accumulated
  <1>3. CASE Elapsed(knight_accumulator, StepTime)
    <2>1. steps' = steps + 1
      BY <1>3 DEF knightrider_task, Step
    <2>2. knight_accumulator' = [previous |-> systick_ticks, accumulator |-> n % StepTime]
      BY <1>3 DEF knightrider_task, ttime_elapsed
    <2>3. n % StepTime \in Nat /\ n % StepTime <= n - StepTime
      BY <1>1, <1>2, <1>3, Remainder DEF Elapsed
    <2>4. (steps + 1) * StepTime = steps * StepTime + StepTime
      BY <1>1
    <2> QED
      BY <1>1, <1>2, <2>1, <2>2, <2>3, <2>4 DEF Paid
  <1>4. CASE ~Elapsed(knight_accumulator, StepTime)
    <2>1. steps' = steps
      BY <1>4 DEF knightrider_task
    <2>2. knight_accumulator' = [previous |-> systick_ticks, accumulator |-> n]
      BY <1>4 DEF knightrider_task, ttime_elapsed
    <2> QED
      BY <1>1, <1>2, <2>1, <2>2 DEF Paid
  <1> QED
    BY <1>3, <1>4

\* Only knightrider_task moves the light, and only by a step.
LEMMA LightSteps ==
    ASSUME [ProgramsNext]_allVars
    PROVE  \/ UNCHANGED knightVars /\ systick_ticks' \in {systick_ticks, systick_ticks + 1}
           \/ knightrider_task /\ systick_ticks' = systick_ticks
  <1>1. CASE Tick
    BY <1>1 DEF Tick, Counted, programVars
  <1>2. CASE RunSystick
    BY <1>2 DEF RunSystick, cyclic_tasks, programVars
  <1>3. ASSUME NEW c \in {0} \cup Classes, RunClass(c)
        PROVE  /\ systick_ticks' = systick_ticks
               /\ UNCHANGED knightVars \/ knightrider_task
    BY <1>3 DEF RunClass, Cyclic1, bootloader_check_task, programVars, vars
  <1>4. CASE UNCHANGED allVars
    BY <1>4 DEF allVars, vars, programVars
  <1> QED
    BY <1>1, <1>2, <1>3, <1>4 DEF ProgramsNext

LEMMA LightKeeps == ASSUME LightIInv, [ProgramsNext]_allVars PROVE LightIInv'
  <1>1. CASE UNCHANGED knightVars /\ systick_ticks' \in {systick_ticks, systick_ticks + 1}
    BY <1>1 DEF knightVars, LightIInv, Walks, Paid
  <1>2. CASE knightrider_task /\ systick_ticks' = systick_ticks
    <2>1. Paid'
      BY <1>2, KnightPays DEF LightIInv
    <2>2. Walks'
      BY <1>2, StepWalks DEF LightIInv, knightrider_task, Walks
    <2> QED
      BY <2>1, <2>2 DEF LightIInv
  <1> QED
    BY <1>1, <1>2, LightSteps

LEMMA LightInvariance == ProgramsSpec => []LightIInv
  <1>1. ProgramsInit => LightIInv
    BY DEF ProgramsInit, Init, accumulator0, LightIInv, Walks, Paid
  <1> QED
    BY <1>1, LightKeeps, PTL DEF ProgramsSpec

(* knightrider_task takes no more than one step in each StepTime of ticks, *)
(* however late it is called, for every StepTime.                          *)
THEOREM LightInTime == ProgramsSpec => []LightPace
  <1>1. LightIInv => LightPace
    <2> SUFFICES ASSUME LightIInv PROVE LightPace
      OBVIOUS
    <2>1. steps * StepTime \in Nat
      BY DEF LightIInv, Paid
    <2> QED
      BY <2>1 DEF LightIInv, Paid, LightPace
  <1> QED
    BY <1>1, LightInvariance, PTL

(* The light of knightrider_task only goes from an LED to one beside it.   *)
THEOREM LightToAndFro == ProgramsSpec => LightMoves
  <1>1. LightIInv /\ [ProgramsNext]_allVars =>
            [\A i \in bank_leds, j \in bank_leds' :
                bank_leds' # bank_leds => j - i \in {-1, 1}]_allVars
    <2> SUFFICES ASSUME LightIInv, [ProgramsNext]_allVars, bank_leds' # bank_leds
                 PROVE  \A i \in bank_leds, j \in bank_leds' : j - i \in {-1, 1}
      OBVIOUS
    <2>1. Step
      BY LightSteps DEF knightVars, knightrider_task
    <2> QED
      BY <2>1, StepWalks DEF LightIInv
  <1> QED
    BY <1>1, LightInvariance, PTL DEF ProgramsSpec, LightMoves

-----------------------------------------------------------------------------
(* The queue and the display *)

QueueEvents == {SYSTICK, 0} \cup Classes

\* The recursive definition has a solution, and stands for it.
LEMMA PublishedUptoUnfolds ==
    ASSUME NEW due
    PROVE  LET sent == PublishedUpto(due)
           IN  sent = [n \in 0 .. Len(ClassOrder) |->
                          IF n = 0 THEN <<0>>
                          ELSE IF ClassOrder[n] \in due THEN Append(sent[n - 1], ClassOrder[n])
                          ELSE sent[n - 1]]
  <1> DEFINE Body(f, n) == IF n = 0 THEN <<0>>
                           ELSE IF ClassOrder[n] \in due THEN Append(f[n - 1], ClassOrder[n])
                           ELSE f[n - 1]
             Solved == {n \in Nat : \E f : f = [i \in 0 .. n |-> Body(f, i)]}
  <1>0. Len(ClassOrder) \in Nat
    BY OrderAssumption, LenProperties
  <1>1. 0 \in Solved
    <2> DEFINE f == [i \in 0 .. 0 |-> <<0>>]
    <2>1. f = [i \in 0 .. 0 |-> Body(f, i)]
      OBVIOUS
    <2> QED
      BY <2>1
  <1>2. ASSUME NEW n \in Nat, n \in Solved PROVE n + 1 \in Solved
    <2>1. PICK f : f = [i \in 0 .. n |-> Body(f, i)]
      BY <1>2
    <2> DEFINE g == [i \in 0 .. n + 1 |-> IF i <= n THEN f[i] ELSE Body(f, n + 1)]
    <2>2. ASSUME NEW i \in 0 .. n + 1 PROVE g[i] = Body(g, i)
      <3>1. i # 0 => i - 1 \in 0 .. n + 1 /\ i - 1 <= n /\ g[i - 1] = f[i - 1]
        OBVIOUS
      <3>2. Body(g, i) = Body(f, i)
        <4> HIDE DEF g
        <4> QED
          BY <3>1
      <3>3. i <= n => f[i] = Body(f, i)
        <4> HIDE DEF Body
        <4>1. ASSUME i <= n PROVE i \in 0 .. n
          BY <4>1
        <4> QED
          BY <2>1, <4>1, Zenon
      <3>4. g[i] = Body(f, i)
        <4> HIDE DEF Body
        <4> QED
          BY <3>3
      <3> QED
        BY <3>2, <3>4
    <2>3. g = [i \in 0 .. n + 1 |-> Body(g, i)]
      <3> HIDE DEF Body
      <3> QED
        BY <2>2
    <2> QED
      <3> HIDE DEF g, Body
      <3> QED
        BY <2>3
  <1>3. Len(ClassOrder) \in Solved
    <2> HIDE DEF Solved
    <2> QED
      BY <1>0, <1>1, <1>2, Induction
  <1>4. PICK f : f = [i \in 0 .. Len(ClassOrder) |-> Body(f, i)]
    BY <1>3
  <1> QED
    BY <1>4, Zenon DEF PublishedUpto

\* The handler of EVENT_SYSTICK publishes events of classes and no other.
LEMMA PublishedClasses ==
    ASSUME NEW due
    PROVE  PublishedUpto(due)[Len(ClassOrder)] \in Seq({0} \cup Classes)
  <1> DEFINE sent == PublishedUpto(due)
             S == {n \in Nat : n <= Len(ClassOrder) => sent[n] \in Seq({0} \cup Classes)}
  <1>1. /\ Len(ClassOrder) \in Nat
        /\ \A n \in 1 .. Len(ClassOrder) : ClassOrder[n] \in {0} \cup Classes
    BY OrderAssumption, LenProperties, ElementOfSeq
  <1>2. \A n \in 0 .. Len(ClassOrder) :
            sent[n] = IF n = 0 THEN <<0>>
                      ELSE IF ClassOrder[n] \in due THEN Append(sent[n - 1], ClassOrder[n])
                      ELSE sent[n - 1]
    <2>1. sent = [n \in 0 .. Len(ClassOrder) |->
                     IF n = 0 THEN <<0>>
                     ELSE IF ClassOrder[n] \in due THEN Append(sent[n - 1], ClassOrder[n])
                     ELSE sent[n - 1]]
      BY PublishedUptoUnfolds
    <2> HIDE DEF sent
    <2> QED
      BY <2>1
  <1> HIDE DEF sent
  <1>3. 0 \in S
    <2>1. sent[0] = <<0>> /\ 0 \in {0} \cup Classes
      BY <1>1, <1>2
    <2>2. sent[0] \in Seq({0} \cup Classes)
      BY <2>1
    <2> QED
      BY <2>2
  <1>4. ASSUME NEW n \in Nat, n \in S PROVE n + 1 \in S
    <2> SUFFICES ASSUME n + 1 <= Len(ClassOrder) PROVE sent[n + 1] \in Seq({0} \cup Classes)
      OBVIOUS
    <2>1. sent[n] \in Seq({0} \cup Classes) /\ ClassOrder[n + 1] \in {0} \cup Classes
      BY <1>1, <1>4
    <2>2. sent[n + 1] = IF ClassOrder[n + 1] \in due THEN Append(sent[n], ClassOrder[n + 1])
                        ELSE sent[n]
      BY <1>1, <1>2
    <2>3. Append(sent[n], ClassOrder[n + 1]) \in Seq({0} \cup Classes)
      BY <2>1, AppendProperties
    <2> QED
      BY <2>1, <2>2, <2>3
  <1>5. Len(ClassOrder) \in S
    <2> HIDE DEF S
    <2> QED
      BY <1>1, <1>3, <1>4, Induction
  <1> QED
    BY <1>1, <1>5 DEF sent

\* The queue holds as many events of SysTick as wait for their handler.
QueueIInv ==
    /\ backlog \in Nat
    /\ queue \in Seq(QueueEvents)
    /\ Times(queue, {SYSTICK}) = backlog
    /\ Len(queue) <= QueueSize
    /\ event_queue_full \in {0, 1}

\* leds_task drives rows there are, and LEDs that are on.
DisplayIInv ==
    /\ keys_state \in Scans \cup {{}}
    /\ direction \in {-1, 0, 1}
    /\ row \in 0 .. Rows /\ shown \subseteq bank_leds

LEMMA QueueTick == ASSUME QueueIInv, Tick PROVE QueueIInv'
  <1>1. CASE Len(queue) >= QueueSize
    <2>1. backlog' = backlog + 0 /\ queue' = queue /\ event_queue_full' = 1
      BY <1>1, LenProperties DEF Tick, Counted, QueueIInv
    <2>2. backlog' = backlog
      BY <2>1 DEF QueueIInv
    <2> QED
      BY <2>1, <2>2 DEF QueueIInv, Times, At
  <1>2. CASE Len(queue) < QueueSize
    <2>1. /\ queue' = Append(queue, SYSTICK) /\ backlog' = backlog + 1
          /\ event_queue_full' = event_queue_full
      BY <1>2, LenProperties DEF Tick, Counted, QueueIInv
    <2>2. SYSTICK \in QueueEvents /\ queue \in Seq(QueueEvents)
      BY DEF QueueIInv, QueueEvents
    <2>3. queue' \in Seq(QueueEvents) /\ Len(queue') <= QueueSize
      BY <1>2, <2>1, <2>2, AppendProperties, LenProperties
    <2>4. Times(queue', {SYSTICK}) = Times(queue, {SYSTICK}) + 1
      BY <2>1, <2>2, TimesAppend
    <2> QED
      BY <2>1, <2>3, <2>4 DEF QueueIInv
  <1> QED
    BY <1>1, <1>2, LenProperties DEF QueueIInv

\* The queue takes what it has room for, and all of it if it refuses nothing.
LEMMA RoomFor ==
    ASSUME QueueIInv, queue # << >>, RunSystick
    PROVE  /\ event_queue_full' \in {0, 1}
           /\ \E kept \in Seq({0} \cup Classes) :
                 /\ queue' = Tail(queue) \o kept
                 /\ Len(queue') <= QueueSize
                 /\ event_queue_full' = 0 =>
                        event_queue_full = 0 /\ kept = PublishedUpto(DueClasses)[Len(ClassOrder)]
  <1> DEFINE sent == PublishedUpto(DueClasses)[Len(ClassOrder)]
             rest == Tail(queue)
             room == QueueSize - Len(rest)
  <1>1. /\ rest \in Seq(QueueEvents) /\ Len(rest) \in Nat /\ Len(rest) = Len(queue) - 1
        /\ Len(queue) \in Nat /\ Len(queue) <= QueueSize /\ event_queue_full \in {0, 1}
    BY HeadTailProperties, LenProperties DEF QueueIInv
  <1>2. sent \in Seq({0} \cup Classes) /\ sent \in Seq(QueueEvents) /\ Len(sent) \in Nat
    <2>1. sent \in Seq({0} \cup Classes)
      BY PublishedClasses
    <2> HIDE DEF sent
    <2> QED
      BY <2>1, SeqMonotonic, LenProperties DEF QueueEvents
  <1>3. IF Len(sent) <= room
        THEN queue' = rest \o sent /\ event_queue_full' = event_queue_full
        ELSE queue' = rest \o SubSeq(sent, 1, room) /\ event_queue_full' = 1
    BY DEF RunSystick
  <1> HIDE DEF sent, rest
  <1>4. /\ event_queue_full' \in {0, 1}
        /\ \E kept \in Seq({0} \cup Classes) :
              /\ queue' = rest \o kept
              /\ Len(queue') <= QueueSize
              /\ event_queue_full' = 0 => event_queue_full = 0 /\ kept = sent
    <2>1. CASE Len(sent) <= room
      <3>1. sent \in Seq(QueueEvents) /\ rest \in Seq(QueueEvents)
        BY <1>1, <1>2
      <3>2. Len(rest \o sent) = Len(rest) + Len(sent)
        BY <3>1, ConcatProperties
      <3>3. queue' = rest \o sent /\ event_queue_full' = event_queue_full
        BY <1>3, <2>1
      <3>4. Len(queue') <= QueueSize
        BY <1>1, <1>2, <2>1, <3>2, <3>3
      <3> QED
        BY <1>1, <1>2, <3>3, <3>4
    <2>2. CASE ~ (Len(sent) <= room)
      <3> DEFINE kept == SubSeq(sent, 1, room)
      <3>1. \A k \in 1 .. room : sent[k] \in {0} \cup Classes
        BY <1>1, <1>2, <2>2, ElementOfSeq
      <3>2. kept \in Seq({0} \cup Classes) /\ Len(kept) = room
        BY <1>1, <2>2, <3>1, SubSeqProperties
      <3>3. queue' = rest \o kept /\ event_queue_full' = 1
        BY <1>3, <2>2
      <3> HIDE DEF kept
      <3>4. kept \in Seq(QueueEvents)
        BY <3>2, SeqMonotonic DEF QueueEvents
      <3>5. Len(rest \o kept) = Len(rest) + Len(kept)
        BY <1>1, <3>4, ConcatProperties
      <3>6. Len(queue') <= QueueSize
        BY <1>1, <3>2, <3>3, <3>5
      <3>7. event_queue_full' \in {0, 1} /\ event_queue_full' # 0
        BY <3>3
      <3> QED
        BY <3>2, <3>3, <3>6, <3>7, Zenon
    <2> QED
      BY <2>1, <2>2
  <1> QED
    BY <1>4, Zenon DEF sent, rest

LEMMA QueueSystick == ASSUME QueueIInv, queue # << >>, RunSystick PROVE QueueIInv'
  <1>1. /\ queue \in Seq(QueueEvents) /\ Head(queue) = SYSTICK /\ backlog' = backlog - 1
        /\ backlog > 0 /\ backlog \in Nat /\ Times(queue, {SYSTICK}) = backlog
    BY DEF QueueIInv, RunSystick, cyclic_tasks
  <1>2. PICK kept \in Seq({0} \cup Classes) :
           queue' = Tail(queue) \o kept /\ Len(queue') <= QueueSize /\ event_queue_full' \in {0, 1}
    BY RoomFor
  <1>3. kept \in Seq(QueueEvents) /\ Times(kept, {SYSTICK}) = 0
    <2>1. kept \in Seq(QueueEvents)
      BY <1>2, SeqMonotonic DEF QueueEvents
    <2>2. ({0} \cup Classes) \cap {SYSTICK} = {}
      BY OrderAssumption
    <2> QED
      BY <1>2, <2>1, <2>2, TimesNone
  <1>4. Tail(queue) \in Seq(QueueEvents)
    BY <1>1, HeadTailProperties
  <1>5. Times(queue, {SYSTICK}) = Times(Tail(queue), {SYSTICK}) + 1
    BY <1>1, TimesTail
  <1>6. Times(Tail(queue), {SYSTICK}) \in Nat
    BY <1>4, TimesType
  <1>7. Times(queue', {SYSTICK}) = Times(Tail(queue), {SYSTICK})
    <2> DEFINE rest == Tail(queue)
    <2>1. rest \in Seq(QueueEvents)
      BY <1>4
    <2> HIDE DEF rest
    <2>2. Times(rest \o kept, {SYSTICK}) = Times(rest, {SYSTICK}) + Times(kept, {SYSTICK})
      BY <1>3, <2>1, TimesConcat
    <2> QED
      BY <1>2, <1>3, <1>6, <2>2 DEF rest
  <1>8. queue' \in Seq(QueueEvents)
    BY <1>2, <1>3, <1>4, ConcatProperties
  <1> QED
    BY <1>1, <1>2, <1>5, <1>6, <1>7, <1>8 DEF QueueIInv

LEMMA QueueClass ==
    ASSUME QueueIInv, queue # << >>, NEW c \in {0} \cup Classes, RunClass(c)
    PROVE  QueueIInv'
  <1>1. /\ queue \in Seq(QueueEvents) /\ Head(queue) = c /\ queue' = Tail(queue)
        /\ backlog' = backlog /\ event_queue_full' = event_queue_full
    BY DEF QueueIInv, RunClass, vars
  <1>2. c \notin {SYSTICK}
    BY OrderAssumption
  <1>3. Tail(queue) \in Seq(QueueEvents) /\ Len(Tail(queue)) = Len(queue) - 1 /\ Len(queue) \in Nat
    BY <1>1, HeadTailProperties, LenProperties
  <1>4. Times(Tail(queue), {SYSTICK}) \in Nat
    BY <1>3, TimesType
  <1>5. Times(queue, {SYSTICK}) = Times(Tail(queue), {SYSTICK})
    BY <1>1, <1>2, <1>4, TimesTail
  <1> QED
    BY <1>1, <1>3, <1>5 DEF QueueIInv

\* The light is on an LED when it has been shown: a step clears what was.
LEMMA DisplayKeeps == ASSUME DisplayIInv, LightIInv, [ProgramsNext]_allVars PROVE DisplayIInv'
  <1>1. CASE Tick
    BY <1>1 DEF Tick, programVars, displayVars, knightVars, DisplayIInv
  <1>2. CASE RunSystick
    BY <1>2 DEF RunSystick, programVars, displayVars, knightVars, DisplayIInv
  <1>3. ASSUME NEW c \in {0} \cup Classes, RunClass(c) PROVE DisplayIInv'
    <2>1. CASE Cyclic1
      <3>1. keys_state' \in Scans /\ direction' = direction /\ bank_leds' = bank_leds
        BY <2>1 DEF Cyclic1, keys_scan_task, knightVars
      <3>2. row' \in 0 .. Rows /\ shown' \subseteq bank_leds
        BY <2>1 DEF Cyclic1, leds_task, DisplayIInv
      <3> QED
        BY <3>1, <3>2 DEF DisplayIInv
    <2>2. CASE bootloader_check_task
      BY <2>2 DEF bootloader_check_task, displayVars, knightVars, DisplayIInv
    <2>3. CASE knightrider_task
      <3>1. keys_state' = keys_state /\ row' = row
        BY <2>3 DEF knightrider_task
      <3>2. CASE Step
        <4>1. direction' \in {-1, 0, 1}
          BY <3>2, StepWalks DEF LightIInv, Walks, Step
        <4> QED
          BY <3>1, <3>2, <4>1 DEF Step, DisplayIInv
      <3>3. CASE UNCHANGED <<count, direction, bank_leds, steps, shown>>
        BY <3>1, <3>3 DEF DisplayIInv
      <3> QED
        BY <2>3, <3>2, <3>3 DEF knightrider_task
    <2>4. CASE UNCHANGED programVars
      BY <2>4 DEF programVars, displayVars, knightVars, DisplayIInv
    <2> QED
      BY <1>3, <2>1, <2>2, <2>3, <2>4 DEF RunClass
  <1>4. CASE UNCHANGED allVars
    BY <1>4 DEF allVars, programVars, displayVars, knightVars, DisplayIInv
  <1> QED
    BY <1>1, <1>2, <1>3, <1>4 DEF ProgramsNext

LEMMA QueueInvariance == ProgramsSpec => [](QueueIInv /\ DisplayIInv)
  <1>1. ProgramsInit => QueueIInv /\ DisplayIInv
    <2> SUFFICES ASSUME ProgramsInit PROVE QueueIInv /\ DisplayIInv
      OBVIOUS
    <2>1. queue = << >> /\ backlog = 0 /\ Times(<< >>, {SYSTICK}) = 0
      BY TimesEmpty DEF ProgramsInit, Init
    <2>2. << >> \in Seq(QueueEvents) /\ Len(<< >>) = 0 /\ event_queue_full = 0
      BY DEF ProgramsInit
    <2> QED
      BY <2>1, <2>2 DEF ProgramsInit, QueueIInv, DisplayIInv
  <1>2. QueueIInv /\ DisplayIInv /\ LightIInv /\ [ProgramsNext]_allVars
            => (QueueIInv /\ DisplayIInv)'
    <2> SUFFICES ASSUME QueueIInv, DisplayIInv, LightIInv, [ProgramsNext]_allVars
                 PROVE  QueueIInv' /\ DisplayIInv'
      OBVIOUS
    <2>1. CASE UNCHANGED allVars
      BY <2>1, DisplayKeeps DEF allVars, vars, QueueIInv, Times, At
    <2>2. CASE ProgramsNext
      BY <2>2, DisplayKeeps, QueueTick, QueueSystick, QueueClass DEF ProgramsNext
    <2> QED
      BY <2>1, <2>2
  <1> QED
    BY <1>1, <1>2, LightInvariance, PTL DEF ProgramsSpec

(* One event of SysTick is queued for each tick that the handler has not   *)
(* seen, and the light and the display stay within their LEDs and rows.    *)
THEOREM ProgramsTypes == ProgramsSpec => []ProgramsTypeOK
  <1>1. IInv /\ BootIInv /\ LightIInv /\ QueueIInv /\ DisplayIInv => ProgramsTypeOK
    <2> SUFFICES ASSUME IInv, BootIInv, LightIInv, QueueIInv, DisplayIInv PROVE ProgramsTypeOK
      OBVIOUS
    <2>1. {k \in DOMAIN queue : queue[k] = SYSTICK} = At(queue, {SYSTICK})
      BY DEF At
    <2>2. Cardinality({k \in DOMAIN queue : queue[k] = SYSTICK}) = backlog
      BY <2>1 DEF QueueIInv, Times
    <2>3. /\ queue \in Seq({SYSTICK, 0} \cup Classes) /\ Len(queue) <= QueueSize
          /\ event_queue_full \in {0, 1}
      BY DEF QueueIInv, QueueEvents
    <2>4. count \in 0 .. 3 /\ bank_leds \subseteq 0 .. 3
      BY DEF LightIInv, Walks
    <2>5. /\ TypeOK /\ keys_state \in Scans \cup {{}}
          /\ boot_accumulator \in [previous : Nat, accumulator : Nat]
          /\ knight_accumulator \in [previous : Nat, accumulator : Nat]
          /\ booted \in BOOLEAN /\ direction \in {-1, 0, 1}
          /\ row \in 0 .. Rows /\ shown \subseteq bank_leds
          /\ broken \in Nat /\ checked \in Nat /\ steps \in Nat
      BY DEF IInv, BootIInv, LightIInv, Paid, DisplayIInv
    <2> QED
      BY <2>2, <2>3, <2>4, <2>5 DEF ProgramsTypeOK
  <1> QED
    BY <1>1, Invariance, RunsCyclicTasks, BootInvariance, LightInvariance, QueueInvariance, PTL

-----------------------------------------------------------------------------
(* Every step of the light is seen *)

Others == QueueEvents \ {KnightClass}

\* How many rows have been driven since row r was, r included.
Age(r) == IF r < row THEN row - r ELSE row + Rows - r

\* The last n rows that were driven have shown the light.
Driven(n) == \A led \in bank_leds : Age(RowOf[led]) <= n => led \in shown

\* When the events before have been handled, m rows will have been driven.
Awaits(before, m) ==
    bank_leds # {} => \E n \in Nat : Driven(n) /\ n + Times(before, {0}) >= m

\* The event of the light, with what is before and what is after it.
Around(before, after) == Cat(Cat(before, One(KnightClass)), after)

\* The event of the light, which is at most once in the queue, comes behind
\* those that drive all rows; when it is not in the queue, each tick that has
\* been handled since it was published has driven a row or will.  This is so
\* while the queue has refused nothing.
Seen ==
    \E before \in Seq(Others) :
        \/ queue = before /\ Awaits(before, systick_ticks - backlog - fired[KnightClass])
        \/ /\ \E after \in Seq(Others) : queue = Around(before, after)
           /\ Times(before, {SYSTICK}) <= fired[KnightClass] - (systick_ticks - backlog)
           /\ Awaits(before, Rows)

SeenIInv == event_queue_full = 0 => Seen

LEMMA OthersType == /\ Others \subseteq QueueEvents
                    /\ 0 \in Others /\ SYSTICK \in Others /\ 0 # SYSTICK
                    /\ KnightClass \in QueueEvents /\ KnightClass \notin {0, SYSTICK}
                    /\ \A c \in Classes : c # KnightClass => c \in Others
  BY OrderAssumption DEF Others, QueueEvents

LEMMA AroundProperties ==
    ASSUME NEW S, KnightClass \in S, NEW b \in Seq(S), NEW a \in Seq(S), NEW r \in Seq(S)
    PROVE  /\ Around(b, a) \in Seq(S)
           /\ Cat(Around(b, a), r) = Around(b, Cat(a, r))
           /\ Cat(r, Around(b, a)) = Around(Cat(r, b), a)
  <1>1. One(KnightClass) \in Seq(S)
    BY OneType
  <1>2. Around(b, a) \in Seq(S)
    BY <1>1, CatType DEF Around
  <1>3. Cat(Around(b, a), r) = Around(b, Cat(a, r))
    BY <1>1, CatCat, CatType DEF Around
  <1>4. Cat(r, Around(b, a)) = Around(Cat(r, b), a)
    BY <1>1, CatCat, CatType DEF Around
  <1> QED
    BY <1>2, <1>3, <1>4

LEMMA AroundRest ==
    ASSUME NEW S, KnightClass \in S, NEW b \in Seq(S), NEW a \in Seq(S)
    PROVE  /\ Around(b, a) # << >>
           /\ b = << >> => Head(Around(b, a)) = KnightClass /\ Rest(Around(b, a)) = a
           /\ b # << >> => /\ Head(Around(b, a)) = Head(b)
                           /\ Rest(Around(b, a)) = Around(Rest(b), a)
  <1>1. /\ One(KnightClass) \in Seq(S) /\ One(KnightClass) # << >>
        /\ Head(One(KnightClass)) = KnightClass /\ Rest(One(KnightClass)) = << >>
    BY DEF One, Rest
  <1>2. CASE b = << >>
    <2>1. Around(b, a) = Cat(One(KnightClass), a)
      BY <1>1, <1>2, CatNone DEF Around
    <2>2. /\ Cat(One(KnightClass), a) # << >> /\ Head(Cat(One(KnightClass), a)) = KnightClass
          /\ Rest(Cat(One(KnightClass), a)) = Cat(<< >>, a)
      BY <1>1, CatTail
    <2> QED
      BY <1>2, <2>1, <2>2, CatNone
  <1>3. CASE b # << >>
    <2>1. Cat(One(KnightClass), a) \in Seq(S)
      BY <1>1, CatType
    <2>2. Around(b, a) = Cat(b, Cat(One(KnightClass), a))
      BY <1>1, CatCat DEF Around
    <2>3. /\ Around(b, a) # << >> /\ Head(Around(b, a)) = Head(b)
          /\ Rest(Around(b, a)) = Cat(Rest(b), Cat(One(KnightClass), a))
      BY <1>3, <2>1, <2>2, CatTail
    <2>4. Rest(b) \in Seq(S)
      BY <1>3, RestType
    <2>5. Cat(Rest(b), Cat(One(KnightClass), a)) = Around(Rest(b), a)
      BY <1>1, <2>4, CatCat DEF Around
    <2> QED
      BY <1>3, <2>3, <2>5
  <1> QED
    BY <1>2, <1>3

LEMMA AroundOthers ==
    ASSUME NEW b \in Seq(Others), NEW a \in Seq(Others), NEW r \in Seq(Others)
    PROVE  /\ Cat(Around(b, a), r) = Around(b, Cat(a, r)) /\ Cat(a, r) \in Seq(Others)
           /\ Cat(r, Around(b, a)) = Around(Cat(r, b), a) /\ Cat(r, b) \in Seq(Others)
           /\ Around(b, a) # << >>
           /\ b = << >> => Head(Around(b, a)) = KnightClass /\ Rest(Around(b, a)) = a
           /\ b # << >> => /\ Head(Around(b, a)) = Head(b) /\ Head(b) \in Others
                           /\ Rest(Around(b, a)) = Around(Rest(b), a)
                           /\ Rest(b) \in Seq(Others)
  <1>1. /\ KnightClass \in QueueEvents
        /\ b \in Seq(QueueEvents) /\ a \in Seq(QueueEvents) /\ r \in Seq(QueueEvents)
    BY OthersType, SeqMonotonic
  <1>2. Cat(Around(b, a), r) = Around(b, Cat(a, r)) /\ Cat(r, Around(b, a)) = Around(Cat(r, b), a)
    BY <1>1, AroundProperties
  <1>3. Cat(a, r) \in Seq(Others) /\ Cat(r, b) \in Seq(Others)
    BY CatType
  <1>4. b # << >> => Head(b) \in Others /\ Rest(b) \in Seq(Others)
    BY RestType
  <1>5. /\ Around(b, a) # << >>
        /\ b = << >> => Head(Around(b, a)) = KnightClass /\ Rest(Around(b, a)) = a
        /\ b # << >> => /\ Head(Around(b, a)) = Head(b)
                        /\ Rest(Around(b, a)) = Around(Rest(b), a)
    BY <1>1, AroundRest
  <1> QED
    BY <1>2, <1>3, <1>4, <1>5

\* The class of the light is published once if it is due, behind class 0.
LEMMA PublishedShape ==
    ASSUME NEW due
    PROVE  LET sent == PublishedUpto(due)[Len(ClassOrder)] IN
           \/ KnightClass \notin due /\ sent \in Seq(Others) /\ Times(sent, {0}) >= 1
           \/ /\ KnightClass \in due
              /\ \E b, a \in Seq(Others) : /\ sent = Around(b, a)
                                           /\ Times(b, {0}) >= 1 /\ Times(b, {SYSTICK}) = 0
  <1> DEFINE sent == PublishedUpto(due)
             Plain == ({0} \cup Classes) \ {KnightClass}
             Without(n) ==
                 /\ KnightClass \in due => \A k \in 1 .. n : ClassOrder[k] # KnightClass
                 /\ sent[n] \in Seq(Plain) /\ Times(sent[n], {0}) >= 1
             With(n) ==
                 /\ KnightClass \in due
                 /\ \E k \in 1 .. n : ClassOrder[k] = KnightClass
                 /\ \E b, a \in Seq(Plain) : /\ sent[n] = Around(b, a)
                                             /\ Times(b, {0}) >= 1
             Shaped(n) == n <= Len(ClassOrder) => Without(n) \/ With(n)
             S == {n \in Nat : Shaped(n)}
  <1>1. /\ Len(ClassOrder) \in Nat
        /\ \A n \in 1 .. Len(ClassOrder) : ClassOrder[n] \in Classes
        /\ DOMAIN ClassOrder = 1 .. Len(ClassOrder)
    BY OrderAssumption, LenProperties, ElementOfSeq
  <1>2. \A n \in 0 .. Len(ClassOrder) :
            sent[n] = IF n = 0 THEN <<0>>
                      ELSE IF ClassOrder[n] \in due THEN Append(sent[n - 1], ClassOrder[n])
                      ELSE sent[n - 1]
    <2>1. sent = [n \in 0 .. Len(ClassOrder) |->
                     IF n = 0 THEN <<0>>
                     ELSE IF ClassOrder[n] \in due THEN Append(sent[n - 1], ClassOrder[n])
                     ELSE sent[n - 1]]
      BY PublishedUptoUnfolds
    <2> HIDE DEF sent
    <2> QED
      BY <2>1
  <1> HIDE DEF sent
  <1>3. Without(0)
    <2>1. sent[0] = <<0>> /\ 0 \in Plain
      BY <1>1, <1>2, OthersType
    <2>2. sent[0] = Append(<< >>, 0) /\ << >> \in Seq(Plain)
      BY <2>1
    <2>3. sent[0] \in Seq(Plain)
      BY <2>1
    <2>4. Times(sent[0], {0}) = 1
      <3> DEFINE none == << >>
      <3>1. none \in Seq(Plain)
        BY <2>2
      <3>2. Times(none, {0}) = 0
        BY TimesEmpty
      <3> HIDE DEF none
      <3>3. Times(Append(none, 0), {0}) = Times(none, {0}) + (IF 0 \in {0} THEN 1 ELSE 0)
        BY <2>1, <3>1, TimesAppend
      <3>4. Times(Append(none, 0), {0}) = 1
        BY <3>2, <3>3
      <3> QED
        BY <2>2, <3>4 DEF none
    <2> QED
      BY <2>3, <2>4
  <1>4. ASSUME NEW n \in Nat, Shaped(n), n + 1 <= Len(ClassOrder)
        PROVE  Without(n + 1) \/ With(n + 1)
    <2> DEFINE c == ClassOrder[n + 1]
    <2>1. /\ c \in Classes
          /\ sent[n + 1] = IF c \in due THEN Append(sent[n], c) ELSE sent[n]
      BY <1>1, <1>2, <1>4
    <2>0. Without(n) \/ With(n)
      <3> HIDE DEF Without, With
      <3> QED
        BY <1>1, <1>4
    <2>2. \A k \in 1 .. n + 1 : k \in 1 .. n \/ k = n + 1
      OBVIOUS
    <2>3. \A k \in 1 .. n : k \in 1 .. n + 1 /\ ClassOrder[k] # c
      <3> SUFFICES ASSUME NEW k \in 1 .. n PROVE k \in 1 .. n + 1 /\ ClassOrder[k] # c
        OBVIOUS
      <3>1. k \in DOMAIN ClassOrder /\ n + 1 \in DOMAIN ClassOrder /\ k # n + 1
        BY <1>1, <1>4
      <3> QED
        BY <3>1, OrderAssumption
    <2> HIDE DEF c
    <2>4. CASE c \notin due
      <3>1. sent[n + 1] = sent[n]
        BY <2>1, <2>4
      <3>2. CASE Without(n)
        BY <2>2, <2>4, <3>1, <3>2 DEF c
      <3>3. CASE With(n)
        BY <2>3, <3>1, <3>3
      <3> QED
        BY <2>0, <3>2, <3>3
    <2>5. CASE c \in due /\ c # KnightClass
      <3>1. sent[n + 1] = Append(sent[n], c) /\ c \in Plain
        BY <2>1, <2>5
      <3>2. CASE Without(n)
        <4>1. sent[n + 1] \in Seq(Plain)
          BY <3>1, <3>2, AppendProperties
        <4>2. Times(sent[n], {0}) \in Nat
          BY <3>2, TimesType
        <4>3. Times(sent[n + 1], {0}) >= 1
          <5> DEFINE s == sent[n]
                     zero == {0}
          <5>1. s \in Seq(Plain) /\ c \in Plain /\ Times(s, zero) \in Nat /\ Times(s, zero) >= 1
            BY <3>1, <3>2, <4>2
          <5>2. sent[n + 1] = Append(s, c)
            BY <3>1
          <5> HIDE DEF s, zero, Plain
          <5>3. Times(Append(s, c), zero) = Times(s, zero) + (IF c \in zero THEN 1 ELSE 0)
            BY <5>1, TimesAppend
          <5>4. Times(Append(s, c), zero) >= 1
            BY <5>1, <5>3
          <5> QED
            BY <5>2, <5>4 DEF zero
        <4> QED
          BY <2>2, <2>5, <3>2, <4>1, <4>3 DEF c
      <3>3. CASE With(n)
        <4>1. PICK b, a \in Seq(Plain) : /\ sent[n] = Around(b, a)
                                         /\ Times(b, {0}) >= 1
          BY <3>3
        <4>2. Cat(a, One(c)) \in Seq(Plain)
          BY <3>1, CatType, OneType
        <4>3. sent[n + 1] = Around(b, Cat(a, One(c)))
          <5> DEFINE All == {0} \cup Classes
                     s == sent[n]
          <5>1. b \in Seq(All) /\ a \in Seq(All) /\ c \in All /\ KnightClass \in All
            BY <2>1, SeqMonotonic
          <5> HIDE DEF All
          <5>2. s = Around(b, a) /\ s \in Seq(All) /\ sent[n + 1] = Append(s, c)
            BY <3>1, <4>1, <5>1, AroundProperties
          <5> HIDE DEF s
          <5>3. Append(s, c) = Cat(s, One(c)) /\ One(c) \in Seq(All)
            BY <5>1, <5>2, AppendOne, OneType
          <5> QED
            BY <5>1, <5>2, <5>3, AroundProperties
        <4>4. \E k \in 1 .. n + 1 : ClassOrder[k] = KnightClass
          BY <2>3, <3>3
        <4> QED
          BY <3>3, <4>1, <4>2, <4>3, <4>4
      <3> QED
        BY <2>0, <3>2, <3>3
    <2>6. CASE c \in due /\ c = KnightClass
      <3>1. Without(n) /\ sent[n + 1] = Append(sent[n], KnightClass)
        BY <2>0, <2>1, <2>3, <2>6
      <3>2. << >> \in Seq(Plain) /\ sent[n + 1] = Around(sent[n], << >>)
        <4> DEFINE All == {0} \cup Classes
                   s == sent[n]
        <4>1. s \in Seq(All) /\ KnightClass \in All /\ sent[n + 1] = Append(s, KnightClass)
          BY <3>1, SeqMonotonic
        <4> HIDE DEF All, s
        <4>2. Append(s, KnightClass) = Cat(s, One(KnightClass)) /\ One(KnightClass) \in Seq(All)
          BY <4>1, AppendOne, OneType
        <4>3. Around(s, << >>) = Cat(s, One(KnightClass))
          BY <4>1, <4>2, CatType, CatNone DEF Around
        <4> QED
          BY <4>1, <4>2, <4>3 DEF s
      <3>3. n + 1 \in 1 .. n + 1 /\ ClassOrder[n + 1] = KnightClass
        BY <2>6 DEF c
      <3> QED
        BY <2>6, <3>1, <3>2, <3>3
    <2> QED
      BY <2>4, <2>5, <2>6
  <1>5. Len(ClassOrder) \in S
    <2> HIDE DEF Without, With
    <2>1. 0 \in S
      BY <1>3
    <2>2. ASSUME NEW n \in Nat, n \in S PROVE n + 1 \in S
      BY <1>4, <2>2
    <2> HIDE DEF S
    <2> QED
      BY <1>1, <2>1, <2>2, Induction
  <1>6. Plain \subseteq Others /\ Plain \cap {SYSTICK} = {}
    BY OthersType, OrderAssumption
  <1>7. CASE Without(Len(ClassOrder))
    <2>1. KnightClass \notin due
      BY <1>1, <1>7, OrderAssumption
    <2>2. sent[Len(ClassOrder)] \in Seq(Others)
      BY <1>6, <1>7, SeqMonotonic
    <2> QED
      BY <1>7, <2>1, <2>2 DEF sent
  <1>8. CASE With(Len(ClassOrder))
    <2>1. PICK b, a \in Seq(Plain) : /\ sent[Len(ClassOrder)] = Around(b, a)
                                     /\ Times(b, {0}) >= 1
      BY <1>8
    <2>2. b \in Seq(Others) /\ a \in Seq(Others) /\ Times(b, {SYSTICK}) = 0
      BY <1>6, SeqMonotonic, TimesNone
    <2> QED
      BY <1>8, <2>1, <2>2 DEF sent
  <1>9. Without(Len(ClassOrder)) \/ With(Len(ClassOrder))
    <2> HIDE DEF Without, With
    <2> QED
      BY <1>1, <1>5
  <1> QED
    <2> HIDE DEF Without, With
    <2> QED
      BY <1>7, <1>8, <1>9

LEMMA AgeType == DisplayIInv => \A r \in 0 .. Rows - 1 : Age(r) \in 1 .. Rows
  BY DEF DisplayIInv, Age

LEMMA LedRows == LightIInv => \A led \in bank_leds : RowOf[led] \in 0 .. Rows - 1
  BY DEF LightIInv, Walks

\* leds_task drives the row that has waited longest.
LEMMA DrivenMore ==
    ASSUME DisplayIInv, LightIInv, leds_task, bank_leds' = bank_leds, NEW n \in Nat, Driven(n)
    PROVE  Driven(n + 1)'
  <1> DEFINE now == IF row < Rows THEN row ELSE 0
  <1>1. /\ row' = now + 1 /\ row \in 0 .. Rows
        /\ shown' = shown \cup {led \in bank_leds : RowOf[led] = now}
    BY DEF leds_task, DisplayIInv
  <1> SUFFICES ASSUME NEW led \in bank_leds, Age(RowOf[led])' <= n + 1 PROVE led \in shown'
    BY DEF Driven
  <1>2. RowOf[led] \in 0 .. Rows - 1
    BY LedRows
  <1>3. CASE RowOf[led] = now
    BY <1>1, <1>3
  <1>4. CASE RowOf[led] # now
    <2>1. Age(RowOf[led])' = Age(RowOf[led]) + 1
      BY <1>1, <1>2, <1>4 DEF Age
    <2>2. Age(RowOf[led]) <= n
      BY <1>2, <2>1, AgeType
    <2> QED
      BY <1>1, <2>2 DEF Driven
  <1> QED
    BY <1>3, <1>4

LEMMA DrivenAll ==
    ASSUME DisplayIInv, LightIInv, NEW n \in Nat, Driven(n), n >= Rows
    PROVE  bank_leds \subseteq shown
  <1> SUFFICES ASSUME NEW led \in bank_leds PROVE led \in shown
    OBVIOUS
  <1>1. Age(RowOf[led]) \in 1 .. Rows
    BY AgeType, LedRows
  <1>2. Age(RowOf[led]) <= n
    BY <1>1
  <1> QED
    BY <1>2 DEF Driven

LEMMA DrivenNone == DisplayIInv /\ LightIInv => Driven(0)
  <1> SUFFICES ASSUME DisplayIInv, LightIInv, NEW led \in bank_leds PROVE ~ (Age(RowOf[led]) <= 0)
    BY DEF Driven
  <1>1. Age(RowOf[led]) \in 1 .. Rows
    BY AgeType, LedRows
  <1> QED
    BY <1>1

\* What the queue and the display know, and what the steps keep.
ProgramsIInv == IInv /\ QueueIInv /\ DisplayIInv /\ LightIInv

LEMMA SeenTick == ASSUME ProgramsIInv, Seen, Tick, event_queue_full' = 0 PROVE Seen'
  <1>1. /\ systick_ticks' - backlog' = systick_ticks - backlog
        /\ fired' = fired /\ queue' = Append(queue, SYSTICK)
        /\ UNCHANGED <<bank_leds, shown, row>>
    BY DEF Tick, Counted, programVars, knightVars, displayVars, ProgramsIInv, IInv, TypeOK
  <1> DEFINE tick == One(SYSTICK)
  <1>2. tick \in Seq(Others) /\ Times(tick, {0}) = 0 /\ queue' = Cat(queue, tick)
    <2>1. queue \in Seq(QueueEvents)
      BY DEF ProgramsIInv, QueueIInv
    <2>2. queue' = Cat(queue, tick)
      BY <1>1, <2>1, OthersType, AppendOne
    <2> QED
      BY <2>2, OthersType, OneType, TimesOne
  <1> HIDE DEF tick
  <1>3. PICK before \in Seq(Others) :
           \/ queue = before /\ Awaits(before, systick_ticks - backlog - fired[KnightClass])
           \/ /\ \E after \in Seq(Others) : queue = Around(before, after)
              /\ Times(before, {SYSTICK}) <= fired[KnightClass] - (systick_ticks - backlog)
              /\ Awaits(before, Rows)
    BY DEF Seen
  <1>4. Times(before, {0}) \in Nat /\ Times(Cat(before, tick), {0}) = Times(before, {0})
    BY <1>2, TimesType, TimesCat
  <1>5. \A m : /\ Awaits(before, m) => Awaits(before, m)'
               /\ Awaits(before, m) => Awaits(Cat(before, tick), m)'
    BY <1>1, <1>4 DEF Awaits, Driven, Age
  <1>6. CASE queue = before /\ Awaits(before, systick_ticks - backlog - fired[KnightClass])
    <2>1. Cat(before, tick) \in Seq(Others) /\ queue' = Cat(before, tick)
      BY <1>2, <1>6, CatType
    <2> QED
      BY <1>1, <1>5, <1>6, <2>1 DEF Seen
  <1>7. ASSUME NEW after \in Seq(Others), queue = Around(before, after),
               Times(before, {SYSTICK}) <= fired[KnightClass] - (systick_ticks - backlog),
               Awaits(before, Rows)
        PROVE  Seen'
    <2>1. queue' = Around(before, Cat(after, tick)) /\ Cat(after, tick) \in Seq(Others)
      BY <1>2, <1>7, AroundOthers
    <2> QED
      BY <1>1, <1>5, <1>7, <2>1 DEF Seen
  <1> QED
    BY <1>3, <1>6, <1>7

LEMMA LightTimes ==
    ASSUME ProgramsIInv
    PROVE  /\ systick_ticks \in Int /\ fired[KnightClass] \in Int
           /\ backlog \in Int /\ 0 <= backlog /\ backlog <= QueueSize /\ QueueSize \in Int
           /\ Rows \in Int /\ Time[KnightClass] \in Int
           /\ Rows + QueueSize <= Time[KnightClass] + 1
           /\ last[KnightClass] \in Int /\ fired[KnightClass] <= last[KnightClass]
           /\ Times(queue, {SYSTICK}) = backlog
  <1>1. KnightClass \in Classes
    OBVIOUS
  <1>2. /\ systick_ticks \in Nat /\ backlog \in Nat
        /\ last \in [Classes -> Int] /\ fired \in [Classes -> Int]
    BY DEF ProgramsIInv, IInv, TypeOK
  <1>3. fired[KnightClass] <= last[KnightClass]
    BY <1>1 DEF ProgramsIInv, IInv
  <1>4. Times(queue, {SYSTICK}) = backlog
    BY DEF ProgramsIInv, QueueIInv
  <1>5. backlog <= QueueSize
    <2>1. queue \in Seq(QueueEvents) /\ Len(queue) <= QueueSize /\ Len(queue) \in Nat
      BY LenProperties DEF ProgramsIInv, QueueIInv
    <2>2. Times(queue, {SYSTICK}) \in Nat /\ Times(queue, {SYSTICK}) <= Len(queue)
      BY <2>1, TimesAtMost, TimesType
    <2> QED
      BY <1>4, <2>1, <2>2
  <1> QED
    BY <1>1, <1>2, <1>3, <1>4, <1>5, DisplayAssumption

\* What a run of the handler does for the light, if h of the f ticks before
\* its last event have been handled.
LEMMA LightPublished ==
    ASSUME ProgramsIInv, cyclic_tasks, NEW h \in Int, NEW f \in Int,
           h = systick_ticks - backlog, f = fired[KnightClass]
    PROVE  /\ (systick_ticks - backlog)' = h + 1
           /\ \/ /\ KnightClass \in DueClasses /\ h - f >= Rows - 1
                 /\ fired'[KnightClass] - (h + 1) = backlog - 1
              \/ /\ KnightClass \notin DueClasses /\ fired'[KnightClass] = f
                 /\ (systick_ticks - backlog - fired[KnightClass])' = h - f + 1
  <1>1. /\ systick_ticks \in Int /\ backlog \in Int /\ backlog <= QueueSize /\ QueueSize \in Int
        /\ Rows \in Int /\ Time[KnightClass] \in Int /\ Rows + QueueSize <= Time[KnightClass] + 1
        /\ last[KnightClass] \in Int /\ f <= last[KnightClass]
    BY LightTimes
  <1>2. systick_ticks' = systick_ticks /\ backlog' = backlog - 1
    BY DEF cyclic_tasks
  <1>3. KnightClass \in DueClasses <=> Due(KnightClass)
    BY DEF DueClasses
  <1>4. fired'[KnightClass] = IF Due(KnightClass) THEN systick_ticks ELSE f
    BY DEF cyclic_tasks, DueClasses
  <1>5. CASE Due(KnightClass)
    <2>1. systick_ticks - last[KnightClass] >= Time[KnightClass]
      BY <1>5 DEF Due, delta
    <2>2. KnightClass \in DueClasses /\ fired'[KnightClass] = systick_ticks
      BY <1>3, <1>4, <1>5
    <2> QED
      BY <1>1, <1>2, <2>1, <2>2
  <1>6. CASE ~Due(KnightClass)
    <2>1. KnightClass \notin DueClasses /\ fired'[KnightClass] = f
      BY <1>3, <1>4, <1>6
    <2> QED
      BY <1>1, <1>2, <2>1
  <1> QED
    BY <1>5, <1>6

\* The handler of a tick: the event of the light is published no sooner than
\* the one before it has been handled.
LEMMA SeenSystick ==
    ASSUME ProgramsIInv, Seen, queue # << >>, RunSystick, event_queue_full' = 0
    PROVE  Seen'
  <1> DEFINE sent == PublishedUpto(DueClasses)[Len(ClassOrder)]
             h == systick_ticks - backlog
             f == fired[KnightClass]
  <1>1. /\ Head(queue) = SYSTICK /\ queue' = Cat(Rest(queue), sent)
        /\ UNCHANGED <<bank_leds, shown, row>>
    <2>1. queue' = Tail(queue) \o sent
      BY RoomFor DEF ProgramsIInv
    <2> QED
      BY <2>1 DEF RunSystick, Cat, Rest, programVars, knightVars, displayVars
  <1>2. h \in Int /\ f \in Int /\ backlog \in Int /\ Rows \in Int /\ Times(queue, {SYSTICK}) = backlog
    BY LightTimes
  <1>3. /\ (systick_ticks - backlog)' = h + 1
        /\ \/ /\ KnightClass \in DueClasses /\ h - f >= Rows - 1
              /\ fired'[KnightClass] - (h + 1) = backlog - 1
           \/ /\ KnightClass \notin DueClasses /\ fired'[KnightClass] = f
              /\ (systick_ticks - backlog - fired[KnightClass])' = h - f + 1
    <2>1. cyclic_tasks
      BY DEF RunSystick
    <2>2. h = systick_ticks - backlog /\ f = fired[KnightClass]
      OBVIOUS
    <2> HIDE DEF h, f, sent
    <2> QED
      BY <1>2, <2>1, <2>2, LightPublished
  <1>4. \/ /\ KnightClass \notin DueClasses
           /\ sent \in Seq(Others) /\ Times(sent, {0}) >= 1
        \/ /\ KnightClass \in DueClasses
           /\ \E b, a \in Seq(Others) : /\ sent = Around(b, a)
                                        /\ Times(b, {0}) >= 1 /\ Times(b, {SYSTICK}) = 0
    BY PublishedShape
  <1>5. PICK before \in Seq(Others) :
           \/ queue = before /\ Awaits(before, h - f)
           \/ /\ \E after \in Seq(Others) : queue = Around(before, after)
              /\ Times(before, {SYSTICK}) <= f - h
              /\ Awaits(before, Rows)
    BY DEF Seen
  <1>6. \A b \in Seq(Others) :
           /\ (queue' = b /\ Awaits(b, systick_ticks - backlog - fired[KnightClass])' => Seen')
           /\ \A a \in Seq(Others) :
                 /\ queue' = Around(b, a) /\ Awaits(b, Rows)'
                 /\ Times(b, {SYSTICK}) <= fired'[KnightClass] - (systick_ticks - backlog)'
                 => Seen'
    BY DEF Seen
  <1> DEFINE rest == Rest(before)
  <1>7. ASSUME before # << >>, Head(before) = SYSTICK
        PROVE  /\ rest \in Seq(Others) /\ Times(rest, {0}) \in Nat /\ Times(rest, {SYSTICK}) \in Nat
               /\ Times(before, {0}) = Times(rest, {0})
               /\ Times(before, {SYSTICK}) = Times(rest, {SYSTICK}) + 1
    <2>1. rest \in Seq(Others)
      BY <1>7, RestType
    <2>2. /\ Times(before, {0}) = Times(rest, {0}) + (IF SYSTICK \in {0} THEN 1 ELSE 0)
          /\ Times(before, {SYSTICK}) = Times(rest, {SYSTICK}) + (IF SYSTICK \in {SYSTICK} THEN 1 ELSE 0)
      BY <1>7, TimesRest
    <2>3. Times(rest, {0}) \in Nat /\ Times(rest, {SYSTICK}) \in Nat
      BY <2>1, TimesType
    <2> QED
      BY <2>1, <2>2, <2>3, OthersType
  <1> HIDE DEF h, f, sent
  <1>8. CASE queue = before /\ Awaits(before, h - f)
    <2>1. before # << >> /\ Head(before) = SYSTICK /\ queue' = Cat(rest, sent)
      BY <1>1, <1>8
    <2>2. /\ rest \in Seq(Others) /\ Times(rest, {0}) \in Nat
          /\ Times(before, {0}) = Times(rest, {0})
          /\ Times(rest, {SYSTICK}) = backlog - 1
      <3>1. Times(before, {SYSTICK}) = backlog
        BY <1>2, <1>8
      <3>2. /\ rest \in Seq(Others) /\ Times(rest, {0}) \in Nat /\ Times(rest, {SYSTICK}) \in Nat
            /\ Times(before, {0}) = Times(rest, {0})
            /\ Times(before, {SYSTICK}) = Times(rest, {SYSTICK}) + 1
        BY <1>7, <2>1
      <3> HIDE DEF rest
      <3> QED
        BY ONLY <1>2, <3>1, <3>2
    <2> HIDE DEF rest
    <2>3. bank_leds # {} => \E n \in Nat : Driven(n) /\ n + Times(rest, {0}) >= h - f
      BY <1>8, <2>2 DEF Awaits
    <2>4. CASE KnightClass \notin DueClasses
      <3>1. sent \in Seq(Others) /\ Times(sent, {0}) >= 1 /\ Times(sent, {0}) \in Nat
        BY <1>4, <2>4, TimesType
      <3>2. PICK more \in Seq(Others) :
               more = Cat(rest, sent) /\ Times(more, {0}) = Times(rest, {0}) + Times(sent, {0})
        BY <2>2, <3>1, CatType, TimesCat
      <3>3. queue' = more /\ (systick_ticks - backlog - fired[KnightClass])' = h - f + 1
        BY <1>3, <2>1, <2>4, <3>2
      <3>4. ASSUME NEW n \in Nat, n + Times(rest, {0}) >= h - f
            PROVE  n + Times(more, {0}) >= h - f + 1
        BY ONLY <1>2, <2>2, <3>1, <3>2, <3>4
      <3>5. bank_leds # {} => \E n \in Nat : Driven(n) /\ n + Times(more, {0}) >= h - f + 1
        BY <2>3, <3>4
      <3>6. Awaits(more, systick_ticks - backlog - fired[KnightClass])'
        BY <3>3, <3>5, <1>1 DEF Awaits, Driven, Age
      <3> QED
        BY <1>6, <3>2, <3>3, <3>6
    <2>5. CASE KnightClass \in DueClasses
      <3>1. PICK b, a \in Seq(Others) : /\ sent = Around(b, a)
                                        /\ Times(b, {0}) >= 1 /\ Times(b, {SYSTICK}) = 0
        BY <1>4, <2>5
      <3> DEFINE front == Cat(rest, b)
      <3>2. front \in Seq(Others) /\ queue' = Around(front, a)
        BY <2>1, <2>2, <3>1, AroundOthers
      <3>3. /\ Times(front, {0}) = Times(rest, {0}) + Times(b, {0})
            /\ Times(front, {SYSTICK}) = Times(rest, {SYSTICK}) + Times(b, {SYSTICK})
            /\ Times(b, {0}) \in Nat
        BY <2>2, TimesCat, TimesType
      <3> HIDE DEF front
      <3>4. Times(front, {SYSTICK}) <= fired'[KnightClass] - (systick_ticks - backlog)'
        <4>1. fired'[KnightClass] - (systick_ticks - backlog)' = backlog - 1
          BY <1>3, <2>5
        <4>2. Times(front, {SYSTICK}) = backlog - 1
          BY ONLY <1>2, <2>2, <3>1, <3>3
        <4> QED
          BY ONLY <1>2, <4>1, <4>2
      <3>5. ASSUME NEW n \in Nat, n + Times(rest, {0}) >= h - f
            PROVE  n + Times(front, {0}) >= Rows
        <4>1. h - f >= Rows - 1
          BY <1>3, <2>5
        <4> QED
          BY ONLY <1>2, <2>2, <3>1, <3>3, <3>5, <4>1
      <3>6. Awaits(front, Rows)'
        <4>1. bank_leds # {} => \E n \in Nat : Driven(n) /\ n + Times(front, {0}) >= Rows
          BY <2>3, <3>5
        <4> QED
          BY <4>1, <1>1 DEF Awaits, Driven, Age
      <3> QED
        BY <1>6, <3>2, <3>4, <3>6
    <2> QED
      BY <2>4, <2>5
  <1>9. ASSUME NEW after \in Seq(Others), queue = Around(before, after),
                Times(before, {SYSTICK}) <= f - h, Awaits(before, Rows)
         PROVE  Seen'
    <2>1. /\ before # << >> /\ Head(before) = SYSTICK
          /\ queue' = Cat(Around(rest, after), sent)
      <3>1. Head(queue) = SYSTICK /\ SYSTICK # KnightClass
        BY <1>1, OrderAssumption
      <3>2. before = << >> => Head(queue) = KnightClass
        BY <1>9, AroundOthers
      <3>3. before # << >> => Head(queue) = Head(before) /\ Rest(queue) = Around(rest, after)
        BY <1>9, AroundOthers
      <3> QED
        BY <1>1, <3>1, <3>2, <3>3
    <2>2. /\ rest \in Seq(Others) /\ Times(rest, {0}) \in Nat /\ Times(rest, {SYSTICK}) \in Nat
          /\ Times(before, {0}) = Times(rest, {0})
          /\ Times(before, {SYSTICK}) = Times(rest, {SYSTICK}) + 1
      BY <1>7, <2>1
    <2> HIDE DEF rest
    <2>3. ~ (h - f >= Rows - 1)
      <3>1. Times(before, {SYSTICK}) <= f - h
        BY <1>9
      <3>2. Rows >= 1
        BY ProgramsAssumption
      <3> QED
        BY ONLY <1>2, <2>2, <3>1, <3>2
    <2>4. /\ KnightClass \notin DueClasses /\ fired'[KnightClass] = f
          /\ (systick_ticks - backlog)' = h + 1
      BY <1>3, <2>3
    <2>5. sent \in Seq(Others)
      BY <1>4, <2>4
    <2>6. queue' = Around(rest, Cat(after, sent)) /\ Cat(after, sent) \in Seq(Others)
      BY <2>1, <2>2, <2>5, AroundOthers
    <2>7. Times(rest, {SYSTICK}) <= fired'[KnightClass] - (systick_ticks - backlog)'
      <3>1. Times(before, {SYSTICK}) <= f - h
        BY <1>9
      <3> QED
        BY ONLY <1>2, <2>2, <2>4, <3>1
    <2>8. Awaits(rest, Rows)'
      BY <1>1, <1>9, <2>2 DEF Awaits, Driven, Age
    <2> QED
      BY <1>6, <2>2, <2>6, <2>7, <2>8
  <1> QED
    BY <1>5, <1>8, <1>9

\* What an event's handlers do to the rows that were driven.
LEMMA ClassDrives ==
    ASSUME ProgramsIInv, NEW c \in {0} \cup Classes, c # KnightClass, RunClass(c), NEW n \in Nat, Driven(n)
    PROVE  bank_leds' = bank_leds /\ IF c = 0 THEN Driven(n + 1)' ELSE Driven(n)'
  <1>1. CASE c = 0
    <2>1. leds_task /\ bank_leds' = bank_leds
      BY <1>1 DEF RunClass, Cyclic1, knightVars
    <2> QED
      BY <1>1, <2>1, DrivenMore DEF ProgramsIInv
  <1>2. CASE c # 0
    <2>1. UNCHANGED <<bank_leds, shown, row>>
      BY <1>2 DEF RunClass, bootloader_check_task, programVars, knightVars, displayVars
    <2> QED
      BY <1>2, <2>1 DEF Driven, Age
  <1> QED
    BY <1>1, <1>2

LEMMA ClassAwaits ==
    ASSUME ProgramsIInv, NEW c \in {0} \cup Classes, c # KnightClass, RunClass(c),
           NEW s \in Seq(Others), s # << >>, Head(s) = c, NEW m \in Int, Awaits(s, m)
    PROVE  /\ Rest(s) \in Seq(Others) /\ Times(Rest(s), {SYSTICK}) = Times(s, {SYSTICK})
           /\ bank_leds' # {} => \E n \in Nat : Driven(n)' /\ n + Times(Rest(s), {0}) >= m
  <1>1. Rest(s) \in Seq(Others) /\ Times(Rest(s), {0}) \in Nat /\ Times(Rest(s), {SYSTICK}) \in Nat
    BY RestType, TimesType
  <1>2. /\ Times(s, {0}) = Times(Rest(s), {0}) + (IF c \in {0} THEN 1 ELSE 0)
        /\ Times(s, {SYSTICK}) = Times(Rest(s), {SYSTICK}) + (IF c \in {SYSTICK} THEN 1 ELSE 0)
    BY TimesRest
  <1>3. c # SYSTICK
    BY OrderAssumption
  <1>4. ASSUME bank_leds' # {} PROVE \E n \in Nat : Driven(n)' /\ n + Times(Rest(s), {0}) >= m
    <2>1. bank_leds' = bank_leds
      BY ClassDrives, DrivenNone DEF ProgramsIInv
    <2>2. PICK n \in Nat : Driven(n) /\ n + Times(s, {0}) >= m
      BY <1>4, <2>1 DEF Awaits
    <2>3. IF c = 0 THEN Driven(n + 1)' ELSE Driven(n)'
      BY <2>2, ClassDrives
    <2>4. CASE c = 0
      BY <1>1, <1>2, <2>2, <2>3, <2>4
    <2>5. CASE c # 0
      BY <1>1, <1>2, <2>2, <2>3, <2>5
    <2> QED
      BY <2>4, <2>5
  <1> QED
    BY <1>1, <1>2, <1>3, <1>4

LEMMA SeenClass ==
    ASSUME ProgramsIInv, ProgramsIInv', Seen, queue # << >>, NEW c \in {0} \cup Classes, RunClass(c)
    PROVE  Seen'
  <1> DEFINE handled == systick_ticks - backlog
             f == fired[KnightClass]
  <1>1. /\ Head(queue) = c /\ queue' = Rest(queue)
        /\ systick_ticks' = systick_ticks /\ backlog' = backlog /\ fired' = fired
    BY DEF RunClass, Rest, vars
  <1>2. handled \in Int /\ f \in Int /\ Rows \in Int
    BY LightTimes
  <1>3. PICK before \in Seq(Others) :
           \/ queue = before /\ Awaits(before, handled - f)
           \/ /\ \E after \in Seq(Others) : queue = Around(before, after)
              /\ Times(before, {SYSTICK}) <= f - handled
              /\ Awaits(before, Rows)
    BY DEF Seen
  <1> DEFINE rest == Rest(before)
  <1>4. CASE queue = before /\ Awaits(before, handled - f)
    <2>1. before # << >> /\ Head(before) = c /\ queue' = rest /\ c # KnightClass
      <3>1. Head(before) \in Others
        BY <1>4, RestType
      <3> QED
        BY <1>1, <1>4, <3>1 DEF Others
    <2>2. /\ rest \in Seq(Others)
          /\ bank_leds' # {} => \E n \in Nat : Driven(n)' /\ n + Times(rest, {0}) >= handled - f
      BY <1>2, <1>4, <2>1, ClassAwaits
    <2> HIDE DEF rest
    <2> QED
      BY <1>1, <2>1, <2>2 DEF Seen, Awaits
  <1>5. ASSUME NEW after \in Seq(Others), queue = Around(before, after),
               Times(before, {SYSTICK}) <= f - handled, Awaits(before, Rows)
        PROVE  Seen'
    <2>1. CASE before = << >>
      <3>1. queue' = after
        BY <1>1, <1>5, <2>1, AroundOthers
      <3>2. handled - f <= 0
        BY <1>2, <1>5, <2>1, TimesEmpty
      <3>3. Driven(0)' /\ Times(after, {0}) \in Nat
        <4>1. (DisplayIInv /\ LightIInv => Driven(0))'
          BY DrivenNone, PTL
        <4> QED
          BY <4>1, TimesType DEF ProgramsIInv
      <3>4. Awaits(after, systick_ticks - backlog - fired[KnightClass])'
        BY <1>1, <1>2, <3>2, <3>3 DEF Awaits
      <3> QED
        BY <3>1, <3>4 DEF Seen
    <2>2. CASE before # << >>
      <3>1. /\ Head(before) = c /\ queue' = Around(rest, after) /\ c # KnightClass
        <4>1. Head(before) \in Others /\ Head(before) = c /\ queue' = Around(rest, after)
          BY <1>1, <1>5, <2>2, AroundOthers
        <4> QED
          BY <4>1 DEF Others
      <3>2. /\ rest \in Seq(Others) /\ Times(rest, {SYSTICK}) = Times(before, {SYSTICK})
            /\ bank_leds' # {} => \E n \in Nat : Driven(n)' /\ n + Times(rest, {0}) >= Rows
        BY <1>2, <1>5, <2>2, <3>1, ClassAwaits
      <3> HIDE DEF rest
      <3> QED
        BY <1>1, <1>5, <3>1, <3>2 DEF Seen, Awaits
    <2> QED
      BY <2>1, <2>2
  <1> QED
    BY <1>3, <1>4, <1>5

LEMMA SeenKeeps ==
    ASSUME ProgramsIInv, ProgramsIInv', SeenIInv, [ProgramsNext]_allVars
    PROVE  SeenIInv'
  <1> SUFFICES ASSUME event_queue_full' = 0 PROVE Seen'
    BY DEF SeenIInv
  <1>1. CASE UNCHANGED allVars
    <2>1. Seen
      BY <1>1 DEF allVars, SeenIInv
    <2> QED
      BY <1>1, <2>1 DEF allVars, vars, programVars, knightVars, displayVars, Seen, Awaits, Driven, Age
  <1>2. CASE Tick
    <2>1. Seen
      BY <1>2 DEF Tick, SeenIInv
    <2> QED
      BY <1>2, <2>1, SeenTick
  <1>3. CASE queue # << >> /\ RunSystick
    <2>1. Seen
      BY <1>3, RoomFor DEF ProgramsIInv, SeenIInv
    <2> QED
      BY <1>3, <2>1, SeenSystick
  <1>4. ASSUME queue # << >>, NEW c \in {0} \cup Classes, RunClass(c) PROVE Seen'
    <2>1. Seen
      BY <1>4 DEF RunClass, SeenIInv
    <2> QED
      BY <1>4, <2>1, SeenClass
  <1> QED
    BY <1>1, <1>2, <1>3, <1>4 DEF ProgramsNext

THEOREM ProgramsInvariance == ProgramsSpec => [](ProgramsIInv /\ SeenIInv)
  <1>1. ProgramsSpec => []ProgramsIInv
    BY Invariance, RunsCyclicTasks, LightInvariance, QueueInvariance, PTL DEF ProgramsIInv
  <1>2. ProgramsInit => SeenIInv
    <2> SUFFICES ASSUME ProgramsInit PROVE SeenIInv
      OBVIOUS
    <2>1. queue = << >> /\ << >> \in Seq(Others) /\ bank_leds = {}
      BY DEF ProgramsInit
    <2> QED
      BY <2>1 DEF SeenIInv, Seen, Awaits
  <1> QED
    BY <1>1, <1>2, SeenKeeps, PTL DEF ProgramsSpec

(* While the queue refuses nothing, no step of the light passes before     *)
(* leds_task has driven the row of its LED, for every period of the light, *)
(* number of rows and size of the queue that leave a row's run for each    *)
(* row between two events of the light, however late the handlers run.     *)
THEOREM EveryStepSeen == ProgramsSpec => StepsAreSeen
  <1>1. ProgramsIInv /\ SeenIInv /\ [ProgramsNext]_allVars
            => [steps' # steps /\ event_queue_full = 0 => bank_leds \subseteq shown]_allVars
    <2> SUFFICES ASSUME ProgramsIInv, SeenIInv, [ProgramsNext]_allVars,
                        steps' # steps, event_queue_full = 0
                 PROVE  bank_leds \subseteq shown
      OBVIOUS
    <2>1. queue # << >> /\ Head(queue) = KnightClass
      BY DEF ProgramsNext, Tick, RunSystick, RunClass, Cyclic1, bootloader_check_task,
             allVars, programVars, knightVars
    <2>2. PICK before \in Seq(Others) :
             \/ queue = before
             \/ /\ \E after \in Seq(Others) : queue = Around(before, after)
                /\ Awaits(before, Rows)
      BY DEF SeenIInv, Seen
    <2>3. queue # before
      <3>1. before # << >> => Head(before) \in Others
        BY RestType
      <3> QED
        BY <2>1, <3>1 DEF Others
    <2>4. before = << >> /\ Awaits(before, Rows)
      <3>1. PICK after \in Seq(Others) : queue = Around(before, after)
        BY <2>2, <2>3
      <3>2. before # << >> => Head(queue) \in Others
        BY <3>1, AroundOthers
      <3> QED
        BY <2>1, <2>2, <2>3, <3>2 DEF Others
    <2>5. CASE bank_leds = {}
      BY <2>5
    <2>6. CASE bank_leds # {}
      <3>1. PICK n \in Nat : Driven(n) /\ n + Times(before, {0}) >= Rows
        BY <2>4, <2>6 DEF Awaits
      <3>2. n >= Rows
        BY <2>4, <3>1, TimesEmpty
      <3> QED
        BY <3>1, <3>2, DrivenAll DEF ProgramsIInv
    <2> QED
      BY <2>5, <2>6
  <1> QED
    BY <1>1, ProgramsInvariance, PTL DEF ProgramsSpec, StepsAreSeen
=============================================================================
