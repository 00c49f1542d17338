--------------------------------- MODULE Lcd ---------------------------------
(***************************************************************************)
(* The LCD controller, libz80e/src/ti/hardware/t6a04.c: a cursor over a    *)
(* bit matrix, words of two lengths, and a register that delays reads by   *)
(* one access. `ram' is the set of lit bits; a word is the set of its one  *)
(* bits, and so is read_reg. X is vertical, as in the source.              *)
(*                                                                         *)
(* Left out: contrast, the op-amps, test mode and the status port's value. *)
(***************************************************************************)
EXTENDS Integers

CONSTANTS Rows, RowBits,   \* 64 and 120
          Long, Short,     \* 8 and 6, the two word lengths
          YLimit           \* 32, what the Y register can hold

ASSUME MatrixAssumption ==
  /\ Rows \in Nat \ {0} /\ RowBits \in Nat \ {0}
  /\ Long \in 1..RowBits /\ Short \in 1..RowBits
  /\ YLimit \in Nat
  /\ RowBits \div Long \in 1..YLimit /\ RowBits \div Short \in 1..YLimit

VARIABLES ram, X, Y, Z,
          up, counter,     \* counter set: Y moves; unset: X moves
          word_length,     \* set: Long
          display_on, read_reg,
          lcd_changed      \* set by the frontend's hook, cleared when it redraws

cursorVars == <<X, Y, up, counter, word_length>>
screenVars == <<ram, Z, display_on, lcd_changed>>
lcdVars == <<cursorVars, screenVars, read_reg>>

Bits == IF word_length THEN Long ELSE Short

(* maxX: 15 or 20, the words that fit in a row *)
Columns == IF word_length THEN RowBits \div Long ELSE RowBits \div Short

(* What a word's bit i, counted from the least significant one, shows as. A Y  *)
(* beyond the row's last word runs on into the next rows.                     *)
Location(i) == X * RowBits + Y * Bits + (Bits - 1 - i)

(* bw_lcd_reset, and the matrix cleared bit by bit; memory behind it is not,  *)
(* and nothing sets the register.                                            *)
InitLcd(garbage, leftover) ==
  /\ ram \in garbage
  /\ X = 0 /\ Y = 0 /\ Z = 0
  /\ up = TRUE /\ counter = FALSE /\ word_length = TRUE
  /\ display_on = FALSE
  /\ read_reg \in leftover
  /\ lcd_changed = FALSE

\* Mutant of NextY: the wrap-around is one column late.
WrapsLate(y) == IF y + 1 = Columns + 1 THEN 0 ELSE (y + 1) % YLimit

(* Upwards Y wraps at the end of the row, unless it is already behind it. *)
NextY(y) == IF y + 1 = Columns THEN 0 ELSE (y + 1) % YLimit

PreviousY(y) == IF y - 1 < 0 THEN Columns - 1 ELSE y - 1
NextX(x) == (x + 1) % Rows
PreviousX(x) == IF x - 1 < 0 THEN Rows - 1 ELSE x - 1

advance_pointer ==
  /\ Y' = IF ~counter THEN Y ELSE IF up THEN NextY(Y) ELSE PreviousY(Y)
  /\ X' = IF counter THEN X ELSE IF up THEN NextX(X) ELSE PreviousX(X)

-----------------------------------------------------------------------------
(* bw_lcd_status_write, by command *)

set_x(value) == X' = value /\ UNCHANGED <<Y, up, counter, word_length, screenVars, read_reg>>
set_y(value) == Y' = value /\ UNCHANGED <<X, up, counter, word_length, screenVars, read_reg>>

(* Scrolling does not call the hook. *)
set_z(value) ==
  /\ Z' = value
  /\ UNCHANGED <<cursorVars, ram, display_on, lcd_changed, read_reg>>

set_direction(by_y, upwards) ==
  /\ counter' = by_y
  /\ up' = upwards
  /\ UNCHANGED <<X, Y, word_length, screenVars, read_reg>>

set_display(on) ==
  /\ display_on' = on
  /\ lcd_changed' = TRUE
  /\ UNCHANGED <<cursorVars, ram, Z, read_reg>>

set_word_length(long) ==
  /\ word_length' = long
  /\ UNCHANGED <<X, Y, up, counter, screenVars, read_reg>>

-----------------------------------------------------------------------------
(* The word under the cursor goes to the register, what was there before is   *)
(* returned.                                                                 *)
data_read ==
  /\ read_reg' = {i \in 0..(Bits - 1) : Location(i) \in ram}
  /\ advance_pointer
  /\ UNCHANGED <<up, counter, word_length, screenVars>>

\* Mutant of Dirty: only the last bit written counts.
DirtyLast(value) == (Bits - 1 \in value) # (Location(Bits - 1) \in ram)

Dirty(value) == \E i \in 0..(Bits - 1) : (i \in value) # (Location(i) \in ram)

data_write(value) ==
  /\ ram' = (ram \ {Location(i) : i \in 0..(Bits - 1)})
              \cup {Location(i) : i \in {j \in 0..(Bits - 1) : j \in value}}
  /\ lcd_changed' = (lcd_changed \/ Dirty(value))
  /\ advance_pointer
  /\ UNCHANGED <<Z, up, counter, word_length, display_on, read_reg>>

-----------------------------------------------------------------------------
(* print_lcd: what the frontend shows in a window of the given width; a dot is *)
(* a row and a column.                                                       *)
Drawn(width) ==
  {dot \in (0..(Rows - 1)) \X (0..(width - 1)) :
     display_on /\ ((dot[1] + Z) % Rows) * RowBits + dot[2] \in ram}

(* lcd_timer_tick: 60 times a second *)
lcd_timer_tick ==
  /\ lcd_changed' = FALSE
  /\ UNCHANGED <<cursorVars, ram, Z, display_on, read_reg>>
==============================================================================
