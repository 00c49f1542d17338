------------------------------ MODULE MCFrontend ------------------------------
(***************************************************************************)
(* Three of the seven interrupt sources. Two keys of the host for one code,*)
(* a key in the same group and one with the same bit in another group. An  *)
(* LCD of two rows of six bits: two words of three or three of two, and    *)
(* values of Y behind both; the window hides the last column.              *)
(***************************************************************************)
EXTENDS Frontend

CONSTANTS on, timer1, link, rshift, backspace, enter, escape

MCSources == {on, timer1, link}
MCHostKeys == {rshift, backspace, enter, escape}
MCKeyCode ==
  [key \in MCHostKeys |-> IF key = enter THEN <<1, 0>>
                          ELSE IF key = escape THEN <<6, 6>> ELSE <<1, 6>>]
MCCodes == {MCKeyCode[key] : key \in MCHostKeys}

MCGarbage == {{}, {13, 16}}
MCWords == {{}, {0}, {0, 1, 2}}
==============================================================================
