------------------------------ MODULE Interrupts ------------------------------
(***************************************************************************)
(* The interrupt controller, libz80e/src/ti/hardware/interrupts.c: which   *)
(* sources the guest has enabled (port 3), which have fired and are not    *)
(* acknowledged (ports 2 and 4), and the pin of the CPU they drive.        *)
(*                                                                         *)
(* The bit fields of ti_interrupts_t are sets of sources. The two halves   *)
(* of a value written to a port that name no source are left out.          *)
(***************************************************************************)
EXTENDS Naturals

CONSTANTS Sources,        \* on key, two timers, link, three crystals
          OnKey,          \* the source the ON key fires
          AckPort         \* FALSE on the TI-73 and TI-83+, where port 2 ignores writes

ASSUME OnKeyAssumption == OnKey \in Sources
ASSUME AckPortAssumption == AckPort \in BOOLEAN

VARIABLES enabled, interrupted,
          on_key_pressed,   \* 0 while the key is held: the line is active low
          interrupt         \* cpu->interrupt

vars == <<enabled, interrupted, on_key_pressed, interrupt>>

TypeOK ==
  /\ enabled \subseteq Sources
  /\ interrupted \subseteq Sources
  /\ on_key_pressed \in {0, 1}
  /\ interrupt \in {0, 1}

(* init_interrupts: calloc, then release_on_key *)
Init ==
  /\ enabled = {}
  /\ interrupted = {}
  /\ on_key_pressed = 1
  /\ interrupt = 0

\* Mutants of check_state: the pin is left alone; the pin is lowered whatever is left.
KeepPin(left) == UNCHANGED interrupt
DropPin(left) == interrupt' = 0

(* ti_interrupts_check_state, given the sources that are left *)
check_state(left) == interrupt' = IF left = {} THEN 0 ELSE interrupt

\* Mutant of ti_interrupts_interrupt: a source that is already latched no longer raises the pin.
RaiseOnce(flags) ==
  LET hit == (flags \cap enabled) \ interrupted IN
  /\ interrupted' = interrupted \cup hit
  /\ interrupt' = IF hit = {} THEN interrupt ELSE 1

(* A source fires: only enabled ones are latched and raise the pin. *)
ti_interrupts_interrupt(flags) ==
  LET hit == flags \cap enabled IN
  /\ interrupted' = interrupted \cup hit
  /\ interrupt' = IF hit = {} THEN interrupt ELSE 1

Fire(s) ==
  /\ ti_interrupts_interrupt({s})
  /\ UNCHANGED <<enabled, on_key_pressed>>

depress_on_key ==
  /\ on_key_pressed' = 0
  /\ ti_interrupts_interrupt({OnKey})
  /\ UNCHANGED enabled

release_on_key ==
  /\ on_key_pressed' = 1
  /\ UNCHANGED <<enabled, interrupted, interrupt>>

(* OUT (3): the new mask also drops what had fired and is now disabled. *)
write_interrupt_mask(value) ==
  /\ enabled' = value
  /\ interrupted' = interrupted \cap value
  /\ check_state(interrupted')
  /\ UNCHANGED on_key_pressed

\* Mutant of write_acknowledged_interrupts: everything is acknowledged.
AcknowledgeAll(value) ==
  /\ AckPort
  /\ interrupted' = {}
  /\ check_state(interrupted')
  /\ UNCHANGED <<enabled, on_key_pressed>>

(* OUT (2), by way of write_status: a zero bit acknowledges. *)
write_acknowledged_interrupts(value) ==
  /\ AckPort
  /\ interrupted' = interrupted \cap value
  /\ check_state(interrupted')
  /\ UNCHANGED <<enabled, on_key_pressed>>

(* The two calls of the library's interface that no device makes. *)
ti_interrupts_set_interrupt_enabled(flags, set_to) ==
  /\ enabled' = IF set_to THEN enabled \cup flags ELSE enabled \ flags
  /\ UNCHANGED <<interrupted, on_key_pressed, interrupt>>

ti_interrupts_acknowledge_interrupt(flags) ==
  /\ interrupted' = interrupted \ flags
  /\ check_state(interrupted')
  /\ UNCHANGED <<enabled, on_key_pressed>>

Next ==
  \/ \E s \in Sources : Fire(s)
  \/ depress_on_key
  \/ release_on_key
  \/ \E value \in SUBSET Sources : write_interrupt_mask(value)
  \/ \E value \in SUBSET Sources : write_acknowledged_interrupts(value)
  \/ \E flags \in SUBSET Sources, set_to \in BOOLEAN :
        ti_interrupts_set_interrupt_enabled(flags, set_to)
  \/ \E flags \in SUBSET Sources : ti_interrupts_acknowledge_interrupt(flags)

Spec == Init /\ [][Next]_vars

-----------------------------------------------------------------------------
(* As long as the controller is the only device that touches it, the stored  *)
(* pin is exactly "something has fired and is not acknowledged": nothing     *)
(* pending is hidden from the CPU and the CPU is never interrupted for       *)
(* nothing. SharedPin shows what is left of this next to the link assist.    *)
PinTracksPending == (interrupt = 1) <=> (interrupted # {})
==============================================================================
