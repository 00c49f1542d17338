------------------------------- MODULE Keyboard -------------------------------
(***************************************************************************)
(* The keyboard, libz80e/src/ti/hardware/keyboard.c: a matrix of groups    *)
(* and bits in which a depressed key is a zero. `groups' is the set of the *)
(* zeros, as pairs of group and bit; a byte is the set of its zero bits.   *)
(***************************************************************************)
EXTENDS Naturals

CONSTANT Codes             \* the key codes in use: pairs of a group and a bit

ASSUME CodesAssumption == Codes \subseteq (0..7) \X (0..7)

VARIABLES group_mask, groups

keyboardVars == <<group_mask, groups>>

InitKeyboard == group_mask = {} /\ groups = {}

depress_key(code) == groups' = groups \cup {code} /\ UNCHANGED group_mask
release_key(code) == groups' = groups \ {code} /\ UNCHANGED group_mask

\* Mutant of write_keyboard: a new selection replaces the one before.
Replaces(zeros) == group_mask' = zeros /\ UNCHANGED groups

(* FF clears the selection; any other byte adds to it. *)
write_keyboard(zeros) ==
  /\ group_mask' = IF zeros = {} THEN {} ELSE group_mask \cup zeros
  /\ UNCHANGED groups

read_keyboard == {code[2] : code \in {c \in groups : c[1] \in group_mask}}
==============================================================================
