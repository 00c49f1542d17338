--------------------------- MODULE MCMemoryMapping ---------------------------
(***************************************************************************)
(* All six calculators. The bytes hold the map modes, the last pages of    *)
(* each memory and the first one beyond it, odd and even, in RAM and Flash *)
(* (bit 6 selects RAM on the TI-83+, bit 7 elsewhere).                     *)
(***************************************************************************)
EXTENDS MemoryMapping

MCData == {0, 1, 2, 3, 7, 8, 31, 32, 63, 64, 66, 67, 95, 127, 128, 130, 131, 136, 255}
==============================================================================
