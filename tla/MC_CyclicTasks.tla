--------------------------- MODULE MC_CyclicTasks ---------------------------
(* Three classes, two of them with programs, their periods and offsets in   *)
(* proportions of the table in cyclic_tasks.c: handled in time, no two      *)
(* classes fall on one tick.  The queue has room for two events, so that    *)
(* late runs, and ticks nobody handles, find it full.  A scan of the keys   *)
(* finds none or the combination.  Two rows of LEDs, which with the two     *)
(* events of a full queue is the most that DisplayAssumption allows.        *)
EXTENDS Programs

MCClasses == 1 .. 3
MCOrder == <<1, 2, 3>>
MCTime == <<3, 3, 6>>
MCOffset == <<2, 1, 0>>
MCRowOf == [led \in 0 .. 3 |-> IF led = 3 THEN 0 ELSE 1]
MCCombination == {"left", "right"}
MCScans == {{}, MCCombination}
=============================================================================
