----------------------------- MODULE MC_Controls -----------------------------
(* One key and one pad, the tick and the USB interrupt, commands to the     *)
(* shell, and a queue of three events that overflows.                       *)
EXTENDS Controls

CONSTANTS SYSTICK, CYCLIC_1, CYCLIC_2, USB, VCOM_RX, KEY_PLAY, PAD_1, KEY_ANY, PAD_ANY, PLAY, PAD

MCEvents == {SYSTICK, CYCLIC_1, CYCLIC_2, USB, VCOM_RX, KEY_PLAY, PAD_1, KEY_ANY, PAD_ANY}
MCSources == {"systick", "usb"}
MCEventOf == [systick |-> SYSTICK, usb |-> USB]
MCKeyOrder == <<PLAY>>
MCPadOrder == <<PAD>>
MCPressEvent == [c \in {PLAY, PAD} |-> IF c = PLAY THEN KEY_PLAY ELSE PAD_1]

\* cyclic_tasks publishes the first class on every tick, and VCOM_Task what it
\* has received.
MCPublishes ==
    [e \in MCEvents |->
        CASE e = SYSTICK -> {<<CYCLIC_1>>, <<CYCLIC_1, CYCLIC_2>>}
          [] e = CYCLIC_1 -> {rx \o Presses(KeyOrder, hits, KeyAny) :
                                 rx \in {<< >>, <<VCOM_RX>>}, hits \in SUBSET Keys}
          [] e = CYCLIC_2 -> {Presses(PadOrder, hits, PadAny) : hits \in SUBSET Pads}
          [] OTHER -> {<< >>}]
=============================================================================
