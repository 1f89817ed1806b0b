----------------------------- MODULE EventTable -----------------------------
(***************************************************************************)
(* The handler table of scheduler.c.  The handlers of all events share one *)
(* array; event_index gives each event the interval that holds its own.    *)
(* event_subscribe() makes room in the middle of the array with memmove()  *)
(* and renumbers the intervals behind, and scheduler_run_event() reads the *)
(* interval again before each call.  All modules subscribe before the loop *)
(* starts; the model leaves event_subscribe() callable at any time, as its *)
(* volatile members do, and so covers every order of the calls.            *)
(*                                                                         *)
(* The names begin with Table where EventQueue, the other half of          *)
(* scheduler.c, has the same.                                              *)
(***************************************************************************)
EXTENDS SchedulerEvents, Integers, Sequences

CONSTANTS
    Handlers,       \* event_handler_t
    NullHandler,    \* what the zeroed array holds
    HandlersSize    \* EVENT_HANDLERS_SZ

ASSUME HandlersSizeAssumption == HandlersSize \in Nat
ASSUME HandlersAssumption == NullHandler \notin Handlers

VARIABLES
    event_handlers,     \* [0 .. HandlersSize - 1 -> handler]
    index, len,         \* event_index[e].index and event_index[e].len
    index_free,
    running,            \* argument of scheduler_run_event
    i,                  \* local of scheduler_run_event
    calls               \* history: handlers called by scheduler_run_event

tableVars == <<event_handlers, index, len, index_free>>
handlerVars == <<tableVars, running, i, calls>>

Slots == 0 .. HandlersSize - 1

TableInit ==
    /\ event_handlers = [k \in Slots |-> NullHandler]
    /\ index = [e \in Events |-> 0]
    /\ len = [e \in Events |-> 0]
    /\ index_free = 0
    /\ running = NoEvent
    /\ i = 0
    /\ calls = << >>

-----------------------------------------------------------------------------
(* event_subscribe *)

IndexEnd(e) == index[e] + len[e]

\* memmove of everything behind `at` by one place, and h at `at`.
InsertAt(at, h) ==
    [k \in Slots |->
        IF k = at THEN h
        ELSE IF at < k /\ k <= index_free THEN event_handlers[k - 1]
        ELSE event_handlers[k]]

\* Mutant: the intervals behind are not renumbered.
ShiftNone(e) == index

\* Mutant: the renumbering also takes the interval that grows.
ShiftOwn(e) ==
    [f \in Events |-> IF index[f] >= index[e] THEN index[f] + 1 ELSE index[f]]

ShiftBehind(e) ==
    [f \in Events |-> IF index[f] > index[e] THEN index[f] + 1 ELSE index[f]]

\* The first handler of an event goes to the end of the array.
SubscribeFirst(e, h) ==
    /\ len[e] = 0
    /\ event_handlers' = [event_handlers EXCEPT ![index_free] = h]
    /\ index' = [index EXCEPT ![e] = index_free]

SubscribeMore(e, h) ==
    /\ len[e] # 0
    /\ event_handlers' = InsertAt(IndexEnd(e), h)
    /\ index' = ShiftBehind(e)

\* With no room event_subscribe returns -1 and changes nothing.
event_subscribe(e, h) ==
    /\ index_free < HandlersSize
    /\ SubscribeFirst(e, h) \/ SubscribeMore(e, h)
    /\ len' = [len EXCEPT ![e] = @ + 1]
    /\ index_free' = index_free + 1
    /\ UNCHANGED <<running, i, calls>>

scheduler_space == HandlersSize - index_free

-----------------------------------------------------------------------------
(* scheduler_run_event *)

RunEvent(e) ==
    /\ running = NoEvent
    /\ running' = e
    /\ i' = 0
    /\ calls' = << >>
    /\ UNCHANGED tableVars

\* Mutant: the bound of the loop is off by one.
CallTooMany ==
    /\ running # NoEvent
    /\ i <= len[running]
    /\ i < index_free
    /\ calls' = Append(calls, event_handlers[index[running] + i])
    /\ i' = i + 1
    /\ UNCHANGED <<tableVars, running>>

\* entry->len and entry->index are volatile: each turn of the loop reads them
\* again.
CallHandler ==
    /\ running # NoEvent
    /\ i < len[running]
    /\ calls' = Append(calls, event_handlers[index[running] + i])
    /\ i' = i + 1
    /\ UNCHANGED <<tableVars, running>>

ReturnCount ==
    /\ running # NoEvent
    /\ i >= len[running]
    /\ running' = NoEvent
    /\ UNCHANGED <<tableVars, i, calls>>

scheduler_run_event == (\E e \in Events : RunEvent(e)) \/ CallHandler \/ ReturnCount

-----------------------------------------------------------------------------

TableNext ==
    \/ \E e \in Events, h \in Handlers : event_subscribe(e, h)
    \/ scheduler_run_event

TableSpec == TableInit /\ [][TableNext]_handlerVars

-----------------------------------------------------------------------------
(* Properties *)

\* The handlers subscribed for e, as the table holds them.
HandlersOf(e) == [k \in 1 .. len[e] |-> event_handlers[index[e] + k - 1]]

Table == INSTANCE Subscriptions WITH
             handlersOf <- [e \in Events |-> HandlersOf(e)],
             space <- scheduler_space

(* The variables have their types (scheduler.c:21-42).                     *)
TableTypeOK ==
    /\ event_handlers \in [Slots -> Handlers \cup {NullHandler}]
    /\ index \in [Events -> 0 .. HandlersSize]
    /\ len \in [Events -> 0 .. HandlersSize]
    /\ index_free \in 0 .. HandlersSize
    /\ running \in Events \cup {NoEvent}
    /\ i \in Nat
    /\ calls \in Seq(Handlers)

Used(e) == len[e] > 0

(* The intervals of the events that have handlers lie within the used part *)
(* of the array and never overlap, so that no subscription can overwrite   *)
(* or borrow the handler of another event.                                 *)
Separate ==
    \A e \in Events : Used(e) =>
        /\ IndexEnd(e) <= index_free
        /\ \A f \in Events \ {e} : Used(f) => IndexEnd(e) <= index[f] \/ IndexEnd(f) <= index[e]

(* Subscribing appends to the list of one event and leaves the lists of    *)
(* all others as they are, in whatever order the modules subscribe, and    *)
(* running an event calls its list in order.                               *)
SubscriptionsSpec == Table!Spec

-----------------------------------------------------------------------------
(* The inductive invariant *)

\* What scheduler_run_event knows of the table.
RunKnows ==
    running # NoEvent =>
        /\ i = Len(calls)
        /\ i <= len[running]
        /\ \A k \in 1 .. i : calls[k] = event_handlers[index[running] + k - 1]

(* No hole in the used part: every interval holds handlers only, and the   *)
(* handlers called so far are a prefix of the list.                        *)
TableIInv ==
    /\ TableTypeOK
    /\ Separate
    /\ \A k \in 0 .. index_free - 1 : event_handlers[k] \in Handlers
    /\ \A e \in Events : ~Used(e) => index[e] = 0
    /\ RunKnows
=============================================================================
