----------------------------- MODULE MCFlashChip -----------------------------
(***************************************************************************)
(* A 512 KiB chip: the two command addresses in the first sector, and the  *)
(* two cells on either side of the boundary of the 8 KiB sectors at the    *)
(* top. The bytes are the five that occur in commands; as data they can    *)
(* be programmed over one another.                                         *)
(***************************************************************************)
EXTENDS FlashChip

MCCells == {1365, 2730, 499711, 499712}
MCBytes == {x10, x55, x80, xA0, xAA}
==============================================================================
