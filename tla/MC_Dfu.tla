------------------------------- MODULE MC_Dfu -------------------------------
(* A flash of a block and a half, whose size the bootloader takes for two   *)
(* blocks, and images of one short block, of a full and a short one, and of *)
(* one page more than there is.  Two requests of the status instead of five *)
(* leave a state: one that counts only, and one that acts.                  *)
EXTENDS Dfu
=============================================================================
