-------------------------------- MODULE MCCpu --------------------------------
(***************************************************************************)
(* A guest whose memory holds bytes of every class the loop tells apart.   *)
(***************************************************************************)
EXTENDS Cpu

\* All of rows 0 and 6 of the three tables, and the bytes of the other rows that
\* the loop treats in a way of their own.
MCOpcodes ==
  { b \in Byte : y(b) \in {0, 6} } \cup
  { 0,                \* NOP; an invalid opcode after ED; RLC B after CB
    16,               \* DJNZ
    70, 86, 94,       \* IM 0, IM 1, IM 2 after ED; loads and bit tests elsewhere
    118,              \* HALT
    179,              \* OTIR after ED
    211,              \* OUT (n), A
    CB, DD, ED,
    243, 251 }        \* DI, EI

MCBudgets == {-3, 0, 1, 9, 30}
MCFloor == 23
==============================================================================
