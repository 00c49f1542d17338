------------------------- MODULE InterruptDiscipline -------------------------
(***************************************************************************)
(* What the emulated processor promises the program it runs, one whole     *)
(* instruction at a time and without cycle budgets or prefix bytes:        *)
(*   - a raised pin is served before the next instruction begins, unless   *)
(*     interrupts are off or the previous instruction shields the next;    *)
(*   - it is never served inside an instruction;                           *)
(*   - serving it turns interrupts off;                                    *)
(*   - a sleeping processor (HALT) wakes for the pin and for nothing else. *)
(* Interrupt mode 0 is not served at all: the pin only ends a HALT.        *)
(***************************************************************************)
EXTENDS Naturals

VARIABLES iff,      \* 1 when maskable interrupts are on
          shield,   \* 1 when the next instruction may not be interrupted
          asleep,   \* 1 after HALT
          inside,   \* TRUE between the first and the last byte of an opcode
          mode,     \* interrupt mode 0, 1 or 2
          pin       \* the interrupt line

vars == <<iff, shield, asleep, inside, mode, pin>>

Bit == {0, 1}

TypeOK ==
  /\ iff \in Bit /\ shield \in Bit /\ asleep \in Bit /\ pin \in Bit
  /\ inside \in BOOLEAN
  /\ mode \in 0..2

Init ==
  /\ iff = 0 /\ shield = 0 /\ asleep = 0 /\ pin = 0
  /\ inside = FALSE
  /\ mode = 0

Due == pin = 1 /\ iff = 1 /\ shield = 0 /\ ~inside

Serve ==
  /\ Due /\ mode # 0
  /\ iff' = 0
  /\ asleep' = 0
  /\ UNCHANGED <<shield, inside, mode, pin>>

WakeUnserved ==
  /\ Due /\ mode = 0
  /\ asleep' = 0
  /\ UNCHANGED <<iff, shield, inside, mode, pin>>

(* The first byte of a longer opcode. *)
Begin ==
  /\ ~Due /\ asleep = 0
  /\ inside' = TRUE
  /\ shield' = 0
  /\ UNCHANGED <<iff, asleep, mode, pin>>

(* The rest of the instruction, or all of a short one. *)
Finish ==
  /\ ~Due /\ asleep = 0
  /\ inside' = FALSE
  /\ \/ iff' = 1 /\ shield' = 1 /\ UNCHANGED <<asleep, mode, pin>>           \* EI
     \/ iff' = 0 /\ shield' = 0 /\ UNCHANGED <<asleep, mode, pin>>           \* DI
     \/ asleep' = 1 /\ shield' = 0 /\ UNCHANGED <<iff, mode, pin>>           \* HALT
     \/ mode' \in 0..2 /\ shield' = 0 /\ UNCHANGED <<iff, asleep, pin>>      \* IM
     \/ pin' \in Bit /\ shield' = 0 /\ UNCHANGED <<iff, asleep, mode>>       \* IN, OUT
     \/ shield' = iff /\ UNCHANGED <<iff, asleep, mode, pin>>                \* an invalid ED opcode

Sleep ==
  /\ ~Due /\ asleep = 1
  /\ shield' = 0
  /\ UNCHANGED <<iff, asleep, inside, mode, pin>>

Outside ==
  /\ ~inside
  /\ pin' = 1 - pin
  /\ UNCHANGED <<iff, shield, asleep, inside, mode>>

Next == Serve \/ WakeUnserved \/ Begin \/ Finish \/ Sleep \/ Outside

Spec == Init /\ [][Next]_vars
==============================================================================
