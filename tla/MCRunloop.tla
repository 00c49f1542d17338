------------------------------ MODULE MCRunloop ------------------------------
(***************************************************************************)
(* Two host timers, as in the SDL frontend, and the two of port 4. Periods *)
(* are longer than an instruction, as on the calculator, and shorter than  *)
(* the longest slice, so that a slice plans several ticks of one timer and *)
(* the array grows.                                                        *)
(***************************************************************************)
EXTENDS Runloop

MCHostTimers == <<10, 20>>
MCFirstTable == [v \in 0..0 |-> 15]
MCSecondTable == [v \in 0..0 |-> 12]
==============================================================================
