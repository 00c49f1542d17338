------------------------------ MODULE FlashChip ------------------------------
(***************************************************************************)
(* The Flash chip as libz80e/src/ti/memory.c emulates it: the writes since *)
(* the last reset are kept and matched against a table of patterns, and a  *)
(* pattern that is complete runs its handler.                              *)
(*                                                                         *)
(* A cell is an address in the chip: the page the bank maps, times 16 KiB, *)
(* plus the offset. A page is a multiple of 4096, so the low 12 bits that  *)
(* the patterns test are the cell's own. A byte is the set of its one      *)
(* bits; the stores to RAM of ti_write_byte are left out.                  *)
(***************************************************************************)
EXTENDS Integers, Sequences

CONSTANTS FlashPages,   \* settings.flash_pages
          Cells,        \* the addresses the guest uses
          Bytes         \* what it writes

Ones == 0..7
x10 == {4}
x55 == {0, 2, 4, 6}
x80 == {7}
xA0 == {5, 7}
xAA == {1, 3, 5, 7}

ASSUME PagesAssumption == FlashPages \in {32, 64, 128, 256}
ASSUME CellsAssumption == Cells \subseteq 0 .. FlashPages * 16384 - 1
ASSUME BytesAssumption == Bytes \subseteq SUBSET Ones

VARIABLES flash,            \* the array
          flash_unlocked,
          flash_writes,     \* flash_writes[0 .. flash_write_index - 1]
          last              \* history: the guest's last access to the chip

vars == <<flash, flash_unlocked, flash_writes, last>>

(* ti_mmu_init *)
Init ==
  /\ flash = [c \in Cells |-> Ones]
  /\ flash_unlocked = FALSE
  /\ flash_writes = <<>>
  /\ last = "none"

-----------------------------------------------------------------------------
(* The handlers *)

chip_reset == flash_writes' = <<>>

(* Programming can only clear bits. *)
chip_write(c, v) == flash' = [flash EXCEPT ![c] = @ \cap v]

(* 64 KiB, but the topmost 64 KiB are 32 + 8 + 8 + 16. *)
SectorLength(c) ==
  IF (c \div 65536) + 1 # FlashPages \div 4 THEN 65536
  ELSE IF (c \div 8192) % 8 \in 0..3 THEN 32768
  ELSE IF (c \div 8192) % 8 \in 4..5 THEN 8192
  ELSE 16384

Sector(c) == LET base == c - (c % SectorLength(c)) IN base .. base + SectorLength(c) - 1

chip_erase_sector(c) == flash' = [d \in Cells |-> IF d \in Sector(c) THEN Ones ELSE flash[d]]

chip_erase == flash' = [d \in Cells |-> Ones]

-----------------------------------------------------------------------------
(* The pattern table: <<low 12 bits, value>>, or Any where both masks are 0. *)

Any     == <<-1, {}>>
Unlock1 == <<2730, xAA>>
Unlock2 == <<1365, x55>>

WritePattern  == <<Unlock1, Unlock2, <<2730, xA0>>, Any>>
SectorPattern == <<Unlock1, Unlock2, <<2730, x80>>, Unlock1, Unlock2, Any>>
ChipPattern   == <<Unlock1, Unlock2, <<2730, x80>>, Unlock1, Unlock2, <<2730, x10>>>>
patterns == {WritePattern, SectorPattern, ChipPattern}

Fits(w, entry) == entry \in {w, Any}

Matches(writes, pattern, n) == \A i \in 1..n : Fits(writes[i], pattern[i])

Complete(writes, pattern) ==
  Len(writes) >= Len(pattern) /\ Matches(writes, pattern, Len(pattern))

Partial(writes, pattern) ==
  Len(writes) < Len(pattern) /\ Matches(writes, pattern, Len(writes))

(* The table is searched in its order and the first complete pattern wins. *)
RunHandler(writes, c, v) ==
  IF Complete(writes, WritePattern) THEN chip_write(c, v)
  ELSE IF Complete(writes, SectorPattern) THEN chip_erase_sector(c)
  ELSE IF Complete(writes, ChipPattern) THEN chip_erase
  ELSE UNCHANGED flash

AnyComplete(writes) == \E pattern \in patterns : Complete(writes, pattern)
AnyPartial(writes)  == \E pattern \in patterns : Partial(writes, pattern)

-----------------------------------------------------------------------------

\* Mutant of ti_read_byte: a read leaves the recorded writes alone.
ReadKeepsWrites ==
  /\ last' = "read"
  /\ UNCHANGED <<flash, flash_unlocked, flash_writes>>

(* Reading from Flash, an opcode fetch included, abandons a command. *)
ti_read_byte ==
  /\ chip_reset
  /\ last' = "read"
  /\ UNCHANGED <<flash, flash_unlocked>>

\* Mutant of ti_write_byte: the record is kept after a handler has run.
KeepRecord(c, v) ==
  /\ flash_unlocked
  /\ LET writes == Append(flash_writes, <<c % 4096, v>>) IN
     /\ RunHandler(writes, c, v)
     /\ flash_writes' = IF AnyComplete(writes) \/ AnyPartial(writes) THEN writes ELSE <<>>
  /\ last' = "write"
  /\ UNCHANGED flash_unlocked

(* A write to a Flash bank. *)
ti_write_byte(c, v) ==
  /\ flash_unlocked
  /\ LET writes == Append(flash_writes, <<c % 4096, v>>) IN
     /\ RunHandler(writes, c, v)
     /\ IF ~AnyComplete(writes) /\ AnyPartial(writes)
        THEN flash_writes' = writes
        ELSE chip_reset
  /\ last' = "write"
  /\ UNCHANGED flash_unlocked

(* While the chip is locked the write is dropped; the record stays as it is. *)
WriteLocked ==
  /\ ~flash_unlocked
  /\ last' = "write"
  /\ UNCHANGED <<flash, flash_unlocked, flash_writes>>

(* OUT (14h) *)
write_control_port(data) ==
  /\ flash_unlocked' = data
  /\ UNCHANGED <<flash, flash_writes, last>>

(* The debugger and the loaders store directly. *)
mmu_force_write(c, v) ==
  /\ flash' = [flash EXCEPT ![c] = v]
  /\ UNCHANGED <<flash_unlocked, flash_writes, last>>

Next ==
  \/ ti_read_byte
  \/ WriteLocked
  \/ \E c \in Cells, v \in Bytes : ti_write_byte(c, v) \/ mmu_force_write(c, v)
  \/ \E data \in BOOLEAN : write_control_port(data)

Spec == Init /\ [][Next]_vars

-----------------------------------------------------------------------------
(* Properties *)

TypeOK ==
  /\ flash \in [Cells -> SUBSET Ones]
  /\ flash_unlocked \in BOOLEAN
  /\ last \in {"none", "read", "write"}
  /\ flash_writes \in Seq((0..4095) \X SUBSET Ones)

(* flash_writes[] has room for six: between two bus cycles what is recorded  *)
(* is a proper beginning of a command, five writes at most.                  *)
RecordInv ==
  /\ Len(flash_writes) <= 5
  /\ flash_writes = <<>> \/ AnyPartial(flash_writes)

(* Where the sectors begin. *)
TopStart == (FlashPages \div 4 - 1) * 65536
SectorStarts ==
  {65536 * n : n \in 0 .. FlashPages \div 4}
    \cup {TopStart + 32768, TopStart + 40960, TopStart + 49152}

(* Recording writes and matching them against the table is the command       *)
(* automaton of a NOR Flash part, for every sequence of reads, writes, locks *)
(* and unlocks; and its masks and shifts erase exactly one sector.           *)
Cycle(writes) ==
  CASE Len(writes) = 0 -> "idle"
    [] Len(writes) = 1 -> "unlock1"
    [] Len(writes) = 2 -> "unlock2"
    [] Len(writes) = 3 -> IF writes[3] = <<2730, xA0>> THEN "program" ELSE "erase"
    [] Len(writes) = 4 -> "erase1"
    [] OTHER -> "erase2"

Commands == INSTANCE FlashCommands WITH
  array <- flash,
  unlocked <- flash_unlocked,
  cycle <- Cycle(flash_writes),
  Starts <- SectorStarts

ImplementsCommands == Commands!Spec

(* The third pattern of the table erases the whole chip.                     *)
ChipEraseErases ==
  [][\A c \in Cells, v \in Bytes :
       ti_write_byte(c, v) /\ Complete(Append(flash_writes, <<c % 4096, v>>), ChipPattern)
         => flash' = [d \in Cells |-> Ones]]_vars
==============================================================================
