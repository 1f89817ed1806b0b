-------------------------- MODULE EventTableProofs --------------------------
(***************************************************************************)
(* For every number of events and handlers and every size of the array,    *)
(* the intervals of the handler table never overlap and the table          *)
(* implements one independent list of handlers per event.                  *)
(***************************************************************************)
EXTENDS EventTable, TLAPS

USE HandlersSizeAssumption, HandlersAssumption, NoEventAssumption

-----------------------------------------------------------------------------
(* The inductive invariant *)

LEMMA InitIInv == TableInit => TableIInv
BY DEF TableInit, TableIInv, TableTypeOK, Separate, RunKnows, Used, Slots

(* Where the handlers of each event are once event_subscribe has run: the  *)
(* interval of e has grown by h and every other one holds what it held.    *)
Subscribed(e, h) ==
    /\ len' = [len EXCEPT ![e] = @ + 1]
    /\ index_free' = index_free + 1
    /\ event_handlers' \in [Slots -> Handlers \cup {NullHandler}]
    /\ index' \in [Events -> 0 .. HandlersSize]
    /\ event_handlers'[index'[e] + len[e]] = h
    /\ \A f \in Events : \A k \in 0 .. len[f] - 1 :
          event_handlers'[index'[f] + k] = event_handlers[index[f] + k]
    /\ \A f \in Events \ {e} : ~Used(f) => index'[f] = 0

LEMMA SubscribeMoves ==
    ASSUME TableIInv, NEW e \in Events, NEW h \in Handlers, event_subscribe(e, h)
    PROVE  /\ Subscribed(e, h)
           /\ Separate'
           /\ \A k \in 0 .. index_free : event_handlers'[k] \in Handlers
  <1> USE DEF TableIInv, TableTypeOK, Separate, Used, IndexEnd, Slots
  <1>0. /\ len' = [len EXCEPT ![e] = @ + 1]
        /\ index_free' = index_free + 1 /\ index_free < HandlersSize
    BY DEF event_subscribe
  <1>1. CASE SubscribeFirst(e, h)
    <2>1. /\ len[e] = 0
          /\ event_handlers' = [event_handlers EXCEPT ![index_free] = h]
          /\ index' = [index EXCEPT ![e] = index_free]
      BY <1>1 DEF SubscribeFirst
    <2>2. Separate'
      BY <1>0, <2>1
    <2>3. \A f \in Events : \A k \in 0 .. len[f] - 1 :
              event_handlers'[index'[f] + k] = event_handlers[index[f] + k]
      <3> SUFFICES ASSUME NEW f \in Events, NEW k \in 0 .. len[f] - 1
                   PROVE  event_handlers'[index'[f] + k] = event_handlers[index[f] + k]
        OBVIOUS
      <3>1. f # e /\ index'[f] = index[f] /\ index[f] + k < index_free
        BY <2>1
      <3> QED
        BY <2>1, <3>1
    <2>4. \A k \in 0 .. index_free : event_handlers'[k] \in Handlers
      BY <1>0, <2>1
    <2> QED
      BY <1>0, <2>1, <2>2, <2>3, <2>4 DEF Subscribed
  <1>2. CASE SubscribeMore(e, h)
    <2> DEFINE end == index[e] + len[e]
    <2>1. /\ len[e] # 0 /\ end \in 1 .. index_free /\ index_free \in Slots
          /\ index[e] < end
          /\ \A k \in Slots : event_handlers'[k] =
                IF k = end THEN h
                ELSE IF end < k /\ k <= index_free THEN event_handlers[k - 1]
                ELSE event_handlers[k]
          /\ \A f \in Events : index'[f] = IF index[f] > index[e] THEN index[f] + 1 ELSE index[f]
          /\ DOMAIN event_handlers' = Slots
      BY <1>0, <1>2 DEF SubscribeMore, InsertAt, ShiftBehind
    <2>2. event_handlers' \in [Slots -> Handlers \cup {NullHandler}]
      BY <1>0, <1>2 DEF SubscribeMore, InsertAt
    <2>3. index' \in [Events -> 0 .. HandlersSize]
      <3>1. \A f \in Events : index[f] > index[e] => Used(f) /\ index[f] < index_free
        OBVIOUS
      <3> QED
        BY <1>0, <1>2, <3>1 DEF SubscribeMore, ShiftBehind
    <2>T. /\ len \in [Events -> Nat] /\ index \in [Events -> Nat] /\ index_free \in Nat
          /\ index[e] \in Nat /\ len[e] \in Nat
          /\ \A f \in Events : len[f] > 0 =>
                /\ index[f] + len[f] <= index_free
                /\ \A g \in Events \ {f} : len[g] > 0 =>
                      index[f] + len[f] <= index[g] \/ index[g] + len[g] <= index[f]
      OBVIOUS
    <2> HIDE DEF TableIInv, TableTypeOK, Separate
    <2>4. ASSUME NEW f \in Events \ {e}, len[f] > 0
          PROVE  \/ index[f] >= index[e] + len[e] /\ index'[f] = index[f] + 1
                 \/ index[f] + len[f] <= index[e] /\ index'[f] = index[f]
      <3>1. index[f] \in Nat /\ len[f] \in Nat
        BY <2>T
      <3>2. index[f] >= index[e] + len[e] \/ index[f] + len[f] <= index[e]
        BY ONLY <2>T, <2>1, <2>4, <3>1
      <3>3. index'[f] = IF index[f] > index[e] THEN index[f] + 1 ELSE index[f]
        BY <2>1
      <3> QED
        BY ONLY <2>T, <2>1, <2>4, <3>1, <3>2, <3>3
    <2>5. Separate'
      <3>1. /\ index'[e] = index[e] /\ len'[e] = len[e] + 1
            /\ \A f \in Events \ {e} : len'[f] = len[f]
        BY ONLY <1>0, <2>1, <2>T
      <3>2. ASSUME NEW f \in Events \ {e}, len[f] > 0
            PROVE  /\ index'[f] + len'[f] <= index_free + 1
                   /\ index'[f] >= index[e] + len[e] + 1 \/ index'[f] + len'[f] <= index[e]
        <4>1. /\ index[f] \in Nat /\ len[f] \in Nat /\ index[f] + len[f] <= index_free
              /\ len'[f] = len[f]
          BY <2>T, <3>1, <3>2
        <4> QED
          BY ONLY <2>4, <2>T, <3>2, <4>1
      <3>3. ASSUME NEW f \in Events \ {e}, NEW g \in Events \ {e}, f # g, len[f] > 0, len[g] > 0
            PROVE  index'[f] + len'[f] <= index'[g] \/ index'[g] + len'[g] <= index'[f]
        <4>1. /\ index[f] \in Nat /\ len[f] \in Nat /\ len'[f] = len[f]
              /\ index[g] \in Nat /\ len[g] \in Nat /\ len'[g] = len[g]
              /\ index[f] + len[f] <= index[g] \/ index[g] + len[g] <= index[f]
          BY <2>T, <3>1, <3>3
        <4>2. /\ index'[f] = IF index[f] > index[e] THEN index[f] + 1 ELSE index[f]
              /\ index'[g] = IF index[g] > index[e] THEN index[g] + 1 ELSE index[g]
          BY <2>1
        <4> QED
          BY ONLY <2>T, <3>3, <4>1, <4>2
      <3>4. index'[e] + len'[e] <= index_free + 1
        BY ONLY <2>1, <2>T, <3>1
      <3> QED
        BY ONLY <1>0, <2>T, <3>1, <3>2, <3>3, <3>4 DEF Separate, Used, IndexEnd
    <2>6. ASSUME NEW f \in Events, NEW k \in 0 .. len[f] - 1
          PROVE  event_handlers'[index'[f] + k] = event_handlers[index[f] + k]
      <3>1. /\ index[f] \in Nat /\ len[f] \in Nat /\ len[f] > 0
            /\ index[f] + k <= index_free - 1 /\ index[f] + k \in Slots
        BY <2>T, <2>1
      <3>2. CASE f = e
        <4>1. index'[f] + k \in Slots /\ index'[f] + k < end /\ index'[f] = index[f]
          BY <2>1, <2>T, <3>1, <3>2
        <4> QED
          BY <2>1, <4>1
      <3>3. CASE f # e /\ index[f] >= end /\ index'[f] = index[f] + 1
        <4>1. /\ index'[f] + k \in Slots /\ end < index'[f] + k /\ index'[f] + k <= index_free
              /\ (index'[f] + k) - 1 = index[f] + k
          BY <2>1, <2>T, <3>1, <3>3
        <4> QED
          BY <2>1, <4>1
      <3>4. CASE f # e /\ index[f] + len[f] <= index[e] /\ index'[f] = index[f]
        <4>1. index'[f] + k \in Slots /\ index'[f] + k < end
          BY <2>1, <2>T, <3>1, <3>4
        <4> QED
          BY <2>1, <3>4, <4>1
      <3> QED
        BY <2>4, <3>1, <3>2, <3>3, <3>4
    <2>7. \A k \in 0 .. index_free : event_handlers'[k] \in Handlers
      BY <2>1 DEF TableIInv
    <2>8. event_handlers'[index'[e] + len[e]] = h
      BY <2>1, <2>T
    <2>9. \A f \in Events \ {e} : ~Used(f) => index'[f] = 0
      BY <2>1, <2>T DEF TableIInv
    <2> QED
      BY ONLY <1>0, <2>2, <2>3, <2>5, <2>6, <2>7, <2>8, <2>9 DEF Subscribed
  <1> QED
    BY <1>1, <1>2 DEF event_subscribe

LEMMA SubscribePreserves ==
    ASSUME TableIInv, NEW e \in Events, NEW h \in Handlers, event_subscribe(e, h) PROVE TableIInv'
  <1>0. /\ Subscribed(e, h) /\ Separate' /\ UNCHANGED <<running, i, calls>>
        /\ index_free < HandlersSize
        /\ \A k \in 0 .. index_free : event_handlers'[k] \in Handlers
    BY SubscribeMoves DEF event_subscribe
  <1>1. len' \in [Events -> 0 .. HandlersSize] /\ \A f \in Events : len'[f] >= len[f]
    <2>1. len[e] < HandlersSize
      <3>1. /\ len[e] \in Nat /\ index[e] \in Nat /\ index_free \in Nat
            /\ index_free < HandlersSize
        BY <1>0 DEF TableIInv, TableTypeOK
      <3>2. len[e] > 0 => index[e] + len[e] <= index_free
        BY DEF TableIInv, Separate, Used, IndexEnd
      <3> QED
        BY ONLY <3>1, <3>2, HandlersSizeAssumption
    <2> QED
      BY <1>0, <2>1 DEF TableIInv, TableTypeOK, Subscribed
  <1>2. TableTypeOK'
    BY <1>0, <1>1 DEF TableIInv, TableTypeOK, Subscribed
  <1>3. RunKnows'
    <2> SUFFICES ASSUME running # NoEvent
                 PROVE  /\ i = Len(calls) /\ i <= len'[running]
                        /\ \A k \in 1 .. i : calls[k] = event_handlers'[index'[running] + k - 1]
      BY <1>0 DEF RunKnows
    <2>1. running \in Events /\ i = Len(calls) /\ i <= len[running] /\ i \in Nat
      BY DEF TableIInv, TableTypeOK, RunKnows
    <2>2. ASSUME NEW k \in 1 .. i PROVE calls[k] = event_handlers'[index'[running] + k - 1]
      <3>1. k - 1 \in 0 .. len[running] - 1
        BY <2>1 DEF TableIInv, TableTypeOK
      <3>2. event_handlers'[index'[running] + (k - 1)] = event_handlers[index[running] + (k - 1)]
        BY <1>0, <2>1, <3>1 DEF Subscribed
      <3>3. /\ index'[running] + (k - 1) = index'[running] + k - 1
            /\ index[running] + (k - 1) = index[running] + k - 1
        BY <1>2, <2>1 DEF TableIInv, TableTypeOK
      <3> QED
        BY <2>1, <3>2, <3>3 DEF TableIInv, RunKnows
    <2> QED
      BY <1>1, <2>1, <2>2 DEF TableIInv, TableTypeOK
  <1>4. (\A k \in 0 .. index_free - 1 : event_handlers[k] \in Handlers)'
    BY <1>0 DEF Subscribed, TableIInv, TableTypeOK
  <1>5. (\A f \in Events : ~Used(f) => index[f] = 0)'
    BY <1>0 DEF Subscribed, TableIInv, TableTypeOK, Used
  <1> QED
    BY <1>0, <1>2, <1>3, <1>4, <1>5 DEF TableIInv

LEMMA RunPreserves == ASSUME TableIInv, scheduler_run_event PROVE TableIInv'
  <1> USE DEF tableVars
  <1>0. /\ UNCHANGED tableVars
        /\ TableTypeOK /\ Separate /\ RunKnows
        /\ (\A k \in 0 .. index_free - 1 : event_handlers[k] \in Handlers)'
        /\ (\A e \in Events : ~Used(e) => index[e] = 0)'
        /\ Separate'
    BY DEF TableIInv, scheduler_run_event, RunEvent, CallHandler, ReturnCount, Separate, Used, IndexEnd
  <1>1. CASE \E e \in Events : RunEvent(e)
    BY <1>0, <1>1 DEF TableIInv, RunEvent, TableTypeOK, RunKnows
  <1>2. CASE CallHandler
    <2>1. /\ running \in Events /\ i < len[running] /\ i = Len(calls) /\ running' = running
          /\ calls' = Append(calls, event_handlers[index[running] + i]) /\ i' = i + 1
      BY <1>0, <1>2 DEF CallHandler, TableTypeOK, RunKnows
    <2>2. event_handlers[index[running] + i] \in Handlers
      BY <1>0, <2>1 DEF TableIInv, TableTypeOK, Separate, Used, IndexEnd
    <2>3. TableTypeOK'
      BY <1>0, <2>1, <2>2 DEF TableTypeOK
    <2>4. RunKnows'
      <3>1. \A k \in 1 .. i : calls'[k] = event_handlers[index[running] + k - 1]
        BY <1>0, <2>1, <2>2 DEF TableTypeOK, RunKnows
      <3>2. calls'[i + 1] = event_handlers[index[running] + (i + 1) - 1]
        BY <1>0, <2>1, <2>2 DEF TableTypeOK
      <3> QED
        BY <1>0, <2>1, <2>2, <3>1, <3>2 DEF TableTypeOK, RunKnows
    <2> QED
      BY <1>0, <2>3, <2>4 DEF TableIInv
  <1>3. CASE ReturnCount
    BY <1>0, <1>3 DEF TableIInv, ReturnCount, TableTypeOK, RunKnows
  <1> QED
    BY <1>1, <1>2, <1>3 DEF scheduler_run_event

THEOREM Invariance == TableSpec => []TableIInv
  <1>1. TableIInv /\ [TableNext]_handlerVars => TableIInv'
    <2> SUFFICES ASSUME TableIInv, [TableNext]_handlerVars PROVE TableIInv'
      OBVIOUS
    <2>1. CASE \E e \in Events, h \in Handlers : event_subscribe(e, h)
      BY <2>1, SubscribePreserves
    <2>2. CASE scheduler_run_event
      BY <2>2, RunPreserves
    <2>3. CASE UNCHANGED handlerVars
      BY <2>3 DEF handlerVars, tableVars, TableIInv, TableTypeOK, Separate, Used, IndexEnd, RunKnows
    <2> QED
      BY <2>1, <2>2, <2>3 DEF TableNext
  <1> QED
    BY InitIInv, <1>1, PTL DEF TableSpec

(* No two events share a place of the handler array.                       *)
THEOREM NeverOverlap == TableSpec => []Separate
BY Invariance, PTL DEF TableIInv

-----------------------------------------------------------------------------
(* Implementing Subscriptions *)

LEMMA AppendedHandler ==
    ASSUME NEW S, NEW s \in Seq(S), NEW h \in S, NEW t \in Seq(S), Len(t) = Len(s) + 1,
           \A k \in 1 .. Len(s) : t[k] = s[k], t[Len(s) + 1] = h
    PROVE  t = Append(s, h)
OBVIOUS

LEMMA SameHandlers ==
    ASSUME NEW S, NEW s \in Seq(S), NEW t \in Seq(S), Len(s) = Len(t),
           \A k \in 1 .. Len(s) : s[k] = t[k]
    PROVE  s = t
OBVIOUS

ListShape ==
    \A e \in Events :
        /\ HandlersOf(e) \in Seq(Handlers)
        /\ Len(HandlersOf(e)) = len[e]
        /\ len[e] \in Nat /\ index[e] \in Nat
        /\ \A k \in 1 .. len[e] : HandlersOf(e)[k] = event_handlers[index[e] + k - 1]

LEMMA ListTyped == TableIInv => ListShape
  <1> SUFFICES ASSUME TableIInv, NEW e \in Events
               PROVE  /\ HandlersOf(e) \in Seq(Handlers)
                      /\ Len(HandlersOf(e)) = len[e]
                      /\ len[e] \in Nat /\ index[e] \in Nat
                      /\ \A k \in 1 .. len[e] : HandlersOf(e)[k] = event_handlers[index[e] + k - 1]
    BY DEF ListShape
  <1>1. len[e] \in Nat /\ index[e] \in Nat
    BY DEF TableIInv, TableTypeOK
  <1>2. \A k \in 1 .. len[e] : event_handlers[index[e] + k - 1] \in Handlers
    BY DEF TableIInv, TableTypeOK, Separate, Used, IndexEnd
  <1> QED
    BY <1>1, <1>2 DEF HandlersOf

LEMMA SubscribeRefines ==
    ASSUME TableIInv, TableIInv', NEW e \in Events, NEW h \in Handlers, event_subscribe(e, h)
    PROVE  Table!Subscribe(e, h)
  <1>1. ListShape /\ ListShape'
    BY ListTyped, PTL
  <1>2. Subscribed(e, h) /\ index_free < HandlersSize /\ UNCHANGED <<running, i, calls>>
    BY SubscribeMoves DEF event_subscribe
  <1>3. ASSUME NEW f \in Events, f # e PROVE HandlersOf(f)' = HandlersOf(f)
    <2>1. len'[f] = len[f]
      BY <1>2, <1>3 DEF Subscribed, TableIInv, TableTypeOK
    <2>2. ASSUME NEW k \in 1 .. len[f] PROVE HandlersOf(f)'[k] = HandlersOf(f)[k]
      <3>0. len[f] \in Nat /\ k - 1 \in 0 .. len[f] - 1 /\ k \in 1 .. len'[f]
        BY <1>1, <2>1 DEF ListShape
      <3>1. event_handlers'[index'[f] + (k - 1)] = event_handlers[index[f] + (k - 1)]
        BY ONLY <1>2, <3>0 DEF Subscribed
      <3>2. HandlersOf(f)'[k] = event_handlers'[index'[f] + k - 1]
        BY ONLY <1>1, <3>0 DEF ListShape
      <3>3. HandlersOf(f)[k] = event_handlers[index[f] + k - 1]
        BY <1>1 DEF ListShape
      <3>4. index'[f] + (k - 1) = index'[f] + k - 1 /\ index[f] + (k - 1) = index[f] + k - 1
        BY <1>1 DEF ListShape
      <3> QED
        BY ONLY <3>1, <3>2, <3>3, <3>4
    <2> QED
      BY <1>1, <2>1, <2>2, SameHandlers DEF ListShape
  <1>4. HandlersOf(e)' = Append(HandlersOf(e), h)
    <2>1. len'[e] = len[e] + 1
      BY <1>2 DEF Subscribed, TableIInv, TableTypeOK
    <2>2. ASSUME NEW k \in 1 .. len[e] PROVE HandlersOf(e)'[k] = HandlersOf(e)[k]
      <3>0. len[e] \in Nat /\ k - 1 \in 0 .. len[e] - 1 /\ k \in 1 .. len'[e]
        BY <1>1, <2>1 DEF ListShape
      <3>1. event_handlers'[index'[e] + (k - 1)] = event_handlers[index[e] + (k - 1)]
        BY ONLY <1>2, <3>0 DEF Subscribed
      <3>2. HandlersOf(e)'[k] = event_handlers'[index'[e] + k - 1]
        BY ONLY <1>1, <3>0 DEF ListShape
      <3>3. HandlersOf(e)[k] = event_handlers[index[e] + k - 1]
        BY <1>1 DEF ListShape
      <3>4. index'[e] + (k - 1) = index'[e] + k - 1 /\ index[e] + (k - 1) = index[e] + k - 1
        BY <1>1 DEF ListShape
      <3> QED
        BY ONLY <3>1, <3>2, <3>3, <3>4
    <2>3. HandlersOf(e)'[len[e] + 1] = h
      <3>1. HandlersOf(e)'[len[e] + 1] = event_handlers'[index'[e] + (len[e] + 1) - 1]
        BY <1>1, <2>1 DEF ListShape
      <3>2. index'[e] + (len[e] + 1) - 1 = index'[e] + len[e]
        BY <1>1 DEF ListShape
      <3> QED
        BY <1>2, <3>1, <3>2 DEF Subscribed
    <2> QED
      BY <1>1, <2>1, <2>2, <2>3, AppendedHandler DEF ListShape
  <1>5. [f \in Events |-> HandlersOf(f)]' = [[f \in Events |-> HandlersOf(f)] EXCEPT ![e] = Append(@, h)]
    BY <1>3, <1>4
  <1>6. scheduler_space > 0 /\ scheduler_space' = scheduler_space - 1
    BY <1>2 DEF scheduler_space, Subscribed, TableIInv, TableTypeOK
  <1> QED
    BY <1>2, <1>5, <1>6 DEF Table!Subscribe

LEMMA RunRefines ==
    ASSUME TableIInv, scheduler_run_event
    PROVE  (\E e \in Events : Table!Run(e)) \/ Table!Call \/ Table!Return
  <1>1. ListShape
    BY ListTyped
  <1>2. /\ [f \in Events |-> HandlersOf(f)]' = [f \in Events |-> HandlersOf(f)]
        /\ scheduler_space' = scheduler_space
    BY DEF scheduler_run_event, RunEvent, CallHandler, ReturnCount, tableVars,
           HandlersOf, scheduler_space
  <1>3. CASE \E e \in Events : RunEvent(e)
    BY <1>2, <1>3 DEF RunEvent, Table!Run
  <1>4. CASE CallHandler
    <2>1. /\ running \in Events /\ running # NoEvent /\ i < len[running] /\ i = Len(calls)
          /\ i \in Nat
          /\ calls' = Append(calls, event_handlers[index[running] + i]) /\ running' = running
      BY <1>4 DEF CallHandler, TableIInv, TableTypeOK, RunKnows
    <2>2. HandlersOf(running)[i + 1] = event_handlers[index[running] + i]
      <3>1. HandlersOf(running)[i + 1] = event_handlers[index[running] + (i + 1) - 1]
        BY <1>1, <2>1 DEF ListShape
      <3>2. index[running] + (i + 1) - 1 = index[running] + i
        BY <1>1, <2>1 DEF ListShape
      <3> QED
        BY ONLY <3>1, <3>2
    <2> QED
      BY <1>1, <1>2, <2>1, <2>2 DEF ListShape, Table!Call
  <1>5. CASE ReturnCount
    <2>1. /\ running \in Events /\ running # NoEvent /\ i >= len[running] /\ i = Len(calls)
          /\ i <= len[running] /\ i \in Nat /\ calls \in Seq(Handlers)
          /\ \A k \in 1 .. i : calls[k] = event_handlers[index[running] + k - 1]
          /\ calls' = calls /\ running' = NoEvent
      BY <1>5 DEF ReturnCount, TableIInv, TableTypeOK, RunKnows
    <2>2. Len(calls) = len[running]
      BY <1>1, <2>1 DEF ListShape
    <2>3. calls = HandlersOf(running)
      BY <1>1, <2>1, <2>2, SameHandlers DEF ListShape
    <2> QED
      BY <1>2, <2>1, <2>3 DEF Table!Return
  <1> QED
    BY <1>3, <1>4, <1>5 DEF scheduler_run_event

(* The shared array implements one list of handlers per event.             *)
THEOREM Refinement == TableSpec => SubscriptionsSpec
  <1>1. TableInit => Table!Init
    BY DEF TableInit, Table!Init, HandlersOf, scheduler_space
  <1>2. TableIInv /\ TableIInv' /\ [TableNext]_handlerVars => [Table!Next]_(Table!vars)
    <2> SUFFICES ASSUME TableIInv, TableIInv', [TableNext]_handlerVars PROVE [Table!Next]_(Table!vars)
      OBVIOUS
    <2>1. CASE \E e \in Events, h \in Handlers : event_subscribe(e, h)
      BY <2>1, SubscribeRefines DEF Table!Next
    <2>2. CASE scheduler_run_event
      BY <2>2, RunRefines DEF Table!Next
    <2>3. CASE UNCHANGED handlerVars
      BY <2>3 DEF handlerVars, tableVars, Table!vars, HandlersOf, scheduler_space
    <2> QED
      BY <2>1, <2>2, <2>3 DEF TableNext
  <1> QED
    BY <1>1, <1>2, Invariance, PTL DEF TableSpec, SubscriptionsSpec, Table!Spec
=============================================================================
