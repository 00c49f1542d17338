---------------------------- MODULE FlashCommands ----------------------------
(***************************************************************************)
(* What a guest may rely on when it talks to the Flash chip: the command   *)
(* automaton of a NOR Flash part. Every command opens with two unlock      *)
(* cycles; a program command clears bits of one byte, an erase command     *)
(* sets one sector to ones; a read, or a write that fits no command,       *)
(* abandons the command. While the chip is locked nothing moves.           *)
(*                                                                         *)
(* A byte is the set of its one bits. A sector is what lies between two    *)
(* neighbouring members of Starts.                                         *)
(***************************************************************************)
EXTENDS Integers

CONSTANTS Cells,    \* the addresses the guest uses
          Bytes,    \* what it writes
          Starts    \* where the sectors begin

VARIABLES array, unlocked, cycle,
          last     \* the last access of the guest to the chip

vars == <<array, unlocked, cycle, last>>

Ones == 0..7
Byte == SUBSET Ones
x10 == {4}
x55 == {0, 2, 4, 6}
x80 == {7}
xA0 == {5, 7}
xAA == {1, 3, 5, 7}

Cycles == {"idle", "unlock1", "unlock2", "program", "erase", "erase1", "erase2"}

Low(c) == c % 4096
At(c, v, low, value) == Low(c) = low /\ v = value

SameSector(c, d) == \A s \in Starts : s <= c <=> s <= d

Init ==
  /\ array = [c \in Cells |-> Ones]
  /\ unlocked = FALSE
  /\ cycle = "idle"
  /\ last = "none"

Read ==
  /\ cycle' = "idle" /\ last' = "read"
  /\ UNCHANGED <<array, unlocked>>

Program(c, v) ==
  /\ cycle = "program"
  /\ array' = [array EXCEPT ![c] = @ \cap v]
  /\ cycle' = "idle"

EraseSector(c) ==
  /\ cycle = "erase2"
  /\ array' = [d \in Cells |-> IF SameSector(c, d) THEN Ones ELSE array[d]]
  /\ cycle' = "idle"

(* The cycle a command write leads to. *)
Step(c, v) ==
  CASE cycle = "idle"    /\ At(c, v, 2730, xAA) -> "unlock1"
    [] cycle = "unlock1" /\ At(c, v, 1365, x55) -> "unlock2"
    [] cycle = "unlock2" /\ At(c, v, 2730, xA0) -> "program"
    [] cycle = "unlock2" /\ At(c, v, 2730, x80) -> "erase"
    [] cycle = "erase"   /\ At(c, v, 2730, xAA) -> "erase1"
    [] cycle = "erase1"  /\ At(c, v, 1365, x55) -> "erase2"
    [] OTHER -> "idle"

Command(c, v) ==
  /\ cycle \notin {"program", "erase2"}
  /\ cycle' = Step(c, v)
  /\ UNCHANGED array

Write(c, v) ==
  /\ unlocked
  /\ Program(c, v) \/ EraseSector(c) \/ Command(c, v)
  /\ last' = "write"
  /\ UNCHANGED unlocked

WriteLocked ==
  /\ ~unlocked
  /\ last' = "write"
  /\ UNCHANGED <<array, unlocked, cycle>>

Lock == unlocked' \in BOOLEAN /\ UNCHANGED <<array, cycle, last>>

(* The debugger stores past the chip's logic. *)
Poke(c, v) == array' = [array EXCEPT ![c] = v] /\ UNCHANGED <<unlocked, cycle, last>>

Next ==
  \/ Read
  \/ WriteLocked
  \/ Lock
  \/ \E c \in Cells, v \in Bytes : Write(c, v) \/ Poke(c, v)

Spec == Init /\ [][Next]_vars
==============================================================================
