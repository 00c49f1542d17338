------------------------------- MODULE Operands -------------------------------
(***************************************************************************)
(* How far cpu_execute() (libz80e/src/core/cpu.c) moves PC over one        *)
(* instruction that does not jump: the prefixes, the opcode and the        *)
(* operands it fetches. `code' holds the bytes from PC on.                 *)
(***************************************************************************)
EXTENDS Z80Decode

(* read_r and write_r fetch the displacement of (IX+d) and (IY+d); whoever    *)
(* calls both puts PC back in between, so it is fetched once.                *)
Fetched(pfx, r) == IF r = 6 /\ Indexed(pfx) THEN 1 ELSE 0

FetchedQuadrantZero(pfx, op) ==
  CASE z(op) = 0 -> IF y(op) >= 2 THEN 1 ELSE 0           \* DJNZ, JR
    [] z(op) = 1 -> IF q(op) = 0 THEN 2 ELSE 0            \* LD rp, nn
    [] z(op) = 2 -> IF p(op) >= 2 THEN 2 ELSE 0           \* LD (nn)
    [] z(op) \in {4, 5} -> Fetched(pfx, y(op))            \* INC, DEC
    [] z(op) = 6 -> 1 + Fetched(pfx, y(op))               \* LD r, n
    [] OTHER -> 0

(* Only one of the two operands of LD r, r' is fetched with the prefix. *)
FetchedLoad(pfx, op) ==
  IF IsHalt(pfx, op) THEN 0
  ELSE IF y(op) = 6 THEN Fetched(pfx, y(op)) ELSE Fetched(pfx, z(op))

FetchedQuadrantThree(op) ==
  CASE z(op) \in {2, 4} -> 2                              \* JP cc, CALL cc
    [] z(op) = 3 -> <<2, 0, 1, 1, 0, 0, 0, 0>>[y(op) + 1] \* JP, OUT (n), IN (n)
    [] z(op) = 5 -> IF op = 205 THEN 2 ELSE 0             \* CALL
    [] z(op) = 6 -> 1                                     \* alu n
    [] OTHER -> 0

FetchedMain(pfx, op) ==
  CASE x(op) = 0 -> FetchedQuadrantZero(pfx, op)
    [] x(op) = 1 -> FetchedLoad(pfx, op)
    [] x(op) = 2 -> Fetched(pfx, z(op))
    [] x(op) = 3 -> FetchedQuadrantThree(op)

FetchedED(op) == IF x(op) = 1 /\ z(op) = 3 THEN 2 ELSE 0  \* LD (nn), rp; LD rp, (nn)

(* After DD CB and FD CB the byte fetched is the displacement. The opcode     *)
(* behind it is looked at with PC put back, and PC moves over the            *)
(* displacement only if the operand is (IX+d); one more step at the end.     *)
FetchedIndexedBit(pfx, op) == Fetched(pfx, z(op)) + 1

(* Where the turn of the loop that begins at byte i under a prefix ends, with  *)
(* the turns after it if that byte is a prefix; `end' knows where those end.   *)
EndFrom(code, end, i, pfx) ==
  LET byte == ByteAt(code, i) IN
  CASE i >= Len(code) -> i
    [] InBitTable(pfx) /\ Indexed(pfx) -> i + FetchedIndexedBit(pfx, ByteAt(code, i + 1))
    [] InBitTable(pfx) /\ ~Indexed(pfx) -> i + 1
    [] InEDTable(pfx) -> i + 1 + FetchedED(byte)
    [] IsPrefixByte(pfx, byte) -> end[<<i + 1, NextPrefix(pfx, byte)>>]
    [] OTHER -> i + 1 + FetchedMain(pfx, byte)

Turns(code) == (0..Len(code)) \X Prefixes

(* A chain of prefixes that goes on beyond the bytes looked at ends with them. *)
Ends(code) == LET end[turn \in Turns(code)] == EndFrom(code, end, turn[1], turn[2]) IN end

InstructionLength(code) == Ends(code)[<<0, NoPrefix>>]
==============================================================================
