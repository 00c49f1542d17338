----------------------------- MODULE MCSharedPin -----------------------------
(***************************************************************************)
(* Two sources, the ON key and a timer that ticks for ever; the guest may  *)
(* turn the ON key's interrupt on and off, and the link's receive and      *)
(* transmit interrupts in every combination.                               *)
(***************************************************************************)
EXTENDS SharedPin

CONSTANTS on, timer, none

MCSources == {on, timer}
MCMainMasks == {{timer}, {on, timer}}
MCLinkMasks == SUBSET {"rx", "tx", "disabled"}
MCBytes == {0}
==============================================================================
