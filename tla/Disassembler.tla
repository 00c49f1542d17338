----------------------------- MODULE Disassembler -----------------------------
(***************************************************************************)
(* parse_instruction() (libz80e/src/disassembler/disassemble.c) as far as  *)
(* the length it returns: step_over and the prompt go by it. What it       *)
(* prints is left out, and so are the object files that may name the       *)
(* source line instead. `code' holds the bytes from the current one on.    *)
(***************************************************************************)
EXTENDS Z80Decode

(* context.prefix: DD or FD in the high byte, CB or ED in the low one. *)
High(byte) == IF byte \in {DD, FD} THEN byte ELSE 0
Low(byte)  == IF byte \in {CB, ED} THEN byte ELSE 0

\* Mutant of parse_r: every register operand is taken for one without a displacement.
NoDisplacement(high, r) == 0

parse_r(high, r) == IF r = 6 /\ high # 0 THEN 1 ELSE 0

(* parse_rw_r: an operand (IX+d) takes the prefix from the other one. *)
parse_rw_r(high, write, read) == IF 6 \in {write, read} THEN parse_r(high, 6) ELSE 0

ParsedQuadrantZero(high, op) ==
  CASE z(op) = 0 /\ y(op) >= 2 -> 1                       \* parse_d_relative
    [] z(op) = 1 /\ q(op) = 0 -> 2                        \* parse_nn
    [] z(op) = 2 /\ p(op) >= 2 -> 2                       \* parse_nn
    [] z(op) \in {4, 5} -> parse_r(high, y(op))
    [] z(op) = 6 -> parse_r(high, y(op)) + 1              \* parse_n
    [] OTHER -> 0

ParsedQuadrantThree(op) ==
  CASE z(op) \in {2, 4} -> 2
    [] z(op) = 3 /\ y(op) = 0 -> 2
    [] z(op) = 3 /\ y(op) \in {2, 3} -> 1
    [] z(op) = 5 /\ q(op) = 1 /\ p(op) = 0 -> 2
    [] z(op) = 6 -> 1
    [] OTHER -> 0

ParsedMain(high, op) ==
  CASE x(op) = 0 -> ParsedQuadrantZero(high, op)
    [] x(op) = 1 /\ op # 118 -> parse_rw_r(high, y(op), z(op))
    [] x(op) = 1 /\ op = 118 -> 0                         \* HALT
    [] x(op) = 2 -> parse_r(high, z(op))
    [] x(op) = 3 -> ParsedQuadrantThree(op)

ParsedBit(high, op) == parse_r(high, z(op))
ParsedED(op) == IF x(op) = 1 /\ z(op) = 3 THEN 2 ELSE 0

\* RST 8 and RST 20h: KnightOS puts an instruction, or a word, behind them.
PCall == 231
KPrefix == 207

(* Where the instruction at byte i ends, with the one it extends if KnightOS  *)
(* has it do so; `end' knows where that one ends. With both prefix bytes set   *)
(* the opcode is read one byte further on, behind a displacement, and is      *)
(* counted at the end.                                                       *)
ParsedFrom(code, knightos, end, i) ==
  LET high == High(ByteAt(code, i))
      low_at == IF high # 0 THEN i + 1 ELSE i
      low == Low(ByteAt(code, low_at))
      op_at == IF low # 0 THEN low_at + 1 ELSE low_at
      op == ByteAt(code, op_at)
      behind == ByteAt(code, op_at + 1)
  IN
  CASE i >= Len(code) -> i
    [] low # 0 /\ high # 0 ->
         op_at + 1 + (IF low = CB THEN ParsedBit(high, behind) ELSE ParsedED(behind))
    [] low = CB /\ high = 0 -> op_at + 1 + ParsedBit(0, op)
    [] low = ED /\ high = 0 -> op_at + 1 + ParsedED(op)
    [] low = 0 /\ knightos /\ op = KPrefix -> end[op_at + 1]
    [] low = 0 /\ knightos /\ op = PCall -> op_at + 3
    [] OTHER -> op_at + 1 + ParsedMain(high, op)

ParsedEnds(code, knightos) ==
  LET end[i \in 0..Len(code)] == ParsedFrom(code, knightos, end, i) IN end

parse_instruction(code, knightos) == ParsedEnds(code, knightos)[0]
==============================================================================
