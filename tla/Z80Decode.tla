------------------------------ MODULE Z80Decode ------------------------------
(***************************************************************************)
(* How cpu_execute() (libz80e/src/core/cpu.c) reads an opcode byte: the    *)
(* bit fields x, y, z, p, q of struct ExecutionContext, the prefix state   *)
(* left behind by a byte, the class of the instruction as far as the       *)
(* interrupt logic can tell instructions apart, and its cost in cycles.    *)
(* Registers, flags and memory are abstracted away; `taken' stands for the *)
(* one thing about them that the cost depends on (condition true, or a     *)
(* counter that has not run out).                                          *)
(***************************************************************************)
EXTENDS Naturals, Sequences

Byte == 0..255

(* cpu_read_byte as long as there are bytes to look at. *)
ByteAt(code, i) == IF i < Len(code) THEN code[i + 1] ELSE 0

CB == 203
DD == 221
ED == 237
FD == 253

(* cpu->prefix, a 16-bit word of two half-words: <<prefix >> 8, prefix & 0xFF>> *)
NoPrefix == <<0, 0>>
Prefixes == {<<0, 0>>, <<0, CB>>, <<DD, 0>>, <<ED, 0>>, <<FD, 0>>,
             <<DD, CB>>, <<FD, CB>>}

x(op) == op \div 64
y(op) == (op \div 8) % 8
z(op) == op % 8
p(op) == y(op) \div 2
q(op) == y(op) % 2

(* The three opcode tables, in the order the code tests for them. *)
InBitTable(pfx) == pfx[2] = CB
InEDTable(pfx)  == pfx[1] = ED /\ ~InBitTable(pfx)
InMainTable(pfx) == ~InBitTable(pfx) /\ ~InEDTable(pfx)
Indexed(pfx)    == pfx[1] \in {DD, FD}

IsPrefixByte(pfx, op) == InMainTable(pfx) /\ op \in {CB, DD, ED, FD}

(* CB keeps the high byte (DD CB), the others keep the low one. *)
NextPrefix(pfx, op) ==
  IF ~IsPrefixByte(pfx, op) THEN NoPrefix
  ELSE IF op = CB THEN <<pfx[1], CB>>
  ELSE <<op, pfx[2]>>

(* Instruction classes that touch the interrupt state or the I/O bus. *)
IsBlock(op) == y(op) >= 4 /\ z(op) < 4
IsDI(pfx, op)   == InMainTable(pfx) /\ op = 243
IsEI(pfx, op)   == InMainTable(pfx) /\ op = 251
IsHalt(pfx, op) == InMainTable(pfx) /\ op = 118
IsIM(pfx, op)   == InEDTable(pfx) /\ x(op) = 1 /\ z(op) = 6
IsNONI(pfx, op) == /\ InEDTable(pfx)
                   /\ x(op) \in {0, 3} \/ (x(op) = 2 /\ ~IsBlock(op))
IsPortAccess(pfx, op) ==
  \/ InMainTable(pfx) /\ op \in {211, 219}                  \* OUT (n),A  IN A,(n)
  \/ InEDTable(pfx) /\ x(op) = 1 /\ z(op) \in {0, 1}        \* IN r,(C)  OUT (C),r
  \/ InEDTable(pfx) /\ x(op) = 2 /\ y(op) >= 4 /\ z(op) \in {2, 3}  \* INI, OUTI, ...

(* execute_im: the eight encodings of IM name three modes. *)
ModeOfIM(op) == <<0, 0, 1, 2, 0, 0, 1, 2>>[y(op) + 1]

(* read_r and write_r: operand 6 is (HL), or (IX+d), (IY+d) under a prefix. *)
ReadCost(pfx, r)  == IF r # 6 THEN 0 ELSE IF Indexed(pfx) THEN 11 ELSE 3
WriteCost(pfx, r) == IF r # 6 THEN 0 ELSE IF Indexed(pfx) THEN 7 ELSE 3

BitCost(pfx, op) ==
  4 + ReadCost(pfx, z(op)) + (IF x(op) = 1 THEN 0 ELSE WriteCost(pfx, z(op)))

BlockCost(op, taken) == IF y(op) >= 6 /\ taken THEN 17 ELSE 12

EDCost(op, taken) ==
  IF x(op) = 2 /\ IsBlock(op) THEN BlockCost(op, taken)
  ELSE IF x(op) # 1 THEN 4
  ELSE CASE z(op) \in {0, 1} -> 8
         [] z(op) = 2 -> 11
         [] z(op) = 3 -> 16
         [] z(op) = 5 -> 14
         [] z(op) = 7 /\ y(op) < 4 -> 5
         [] z(op) = 7 /\ y(op) \in {4, 5} -> 14
         [] OTHER -> 4

QuadrantZeroCost(pfx, op, taken) ==
  CASE z(op) = 0 -> <<4, 4, 8, 12, 7, 7, 7, 7>>[y(op) + 1]
                    + (IF y(op) \notin {0, 1, 3} /\ taken THEN 5 ELSE 0)
    [] z(op) = 1 -> IF q(op) = 0 THEN 10 ELSE 11
    [] z(op) = 2 -> <<7, 7, 16, 13>>[p(op) + 1]
    [] z(op) = 3 -> 6
    [] z(op) \in {4, 5} -> 4 + ReadCost(pfx, y(op)) + WriteCost(pfx, y(op))
    [] z(op) = 6 -> 7 + WriteCost(pfx, y(op))
    [] z(op) = 7 -> 4

QuadrantThreeCost(op, taken) ==
  CASE z(op) = 0 -> IF taken THEN 11 ELSE 5
    [] z(op) = 1 -> IF q(op) = 0 THEN 10 ELSE <<10, 4, 4, 6>>[p(op) + 1]
    [] z(op) = 2 -> 10
    [] z(op) = 3 -> <<10, 4, 11, 11, 19, 4, 4, 4>>[y(op) + 1]
    [] z(op) = 4 -> IF taken THEN 17 ELSE 10
    [] z(op) = 5 -> IF q(op) = 0 THEN 11 ELSE <<17, 4, 4, 4>>[p(op) + 1]
    [] z(op) = 6 -> 4
    [] z(op) = 7 -> 11

MainCost(pfx, op, taken) ==
  CASE x(op) = 0 -> QuadrantZeroCost(pfx, op, taken)
    [] x(op) = 1 -> IF IsHalt(pfx, op) THEN 4     \* else LD r[y], r[z]
                    ELSE 4 + ReadCost(pfx, z(op)) + WriteCost(pfx, y(op))
    [] x(op) = 2 -> 4 + ReadCost(pfx, z(op))
    [] x(op) = 3 -> QuadrantThreeCost(op, taken)

Cost(pfx, op, taken) ==
  IF InBitTable(pfx) THEN BitCost(pfx, op)
  ELSE IF InEDTable(pfx) THEN EDCost(op, taken)
  ELSE MainCost(pfx, op, taken)
==============================================================================
