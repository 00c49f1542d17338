------------------------------ MODULE MCDebugger ------------------------------
(***************************************************************************)
(* Two breakpoints, or one and a step over, in three addresses. What can be*)
(* stepped over: every opcode of every table with and without prefixes,    *)
(* the special cases of step_over, and what KnightOS extends, also in front*)
(* of one another; or, in six addresses, nothing but a system call.        *)
(***************************************************************************)
EXTENDS Debugger

MCAddresses == 0..2
MCSixAddresses == 0..5
MCBreakAddresses == {1}
MCCounts == {-1, 0, 1}
MCInstructions == {2}
MCChunks == {1, 2}
MCSmallChunks == {1}

Behind == {<<5, 0, 67, 0, 0>>, <<6, 134, 0, 0, 0>>, <<PCall, 1, 2, 0, 0>>}
MCCodes ==
  { <<op>> \o rest : op \in Byte, rest \in Behind } \cup
  { <<pfx, op>> \o rest : pfx \in {CB, DD, ED, FD, KPrefix}, op \in Byte, rest \in Behind } \cup
  { <<DD, KPrefix, op>> \o rest : op \in {33, CB, DD, ED, PCall, KPrefix}, rest \in Behind } \cup
  { <<24, 254, 0, 0, 0, 0>>, <<48, 254, 0, 0, 0, 0>> }

MCSystemCalls == { <<PCall, 1, 2, 0, 0, 0>> }

CONSTANTS before, memory_read
MCKinds == {before, memory_read}
==============================================================================
