------------------------------ MODULE CpuProofs ------------------------------
(***************************************************************************)
(* Theorems about the execution loop, for every set of opcodes, every set  *)
(* of budgets and every Floor: its types, its control invariant, and that  *)
(* it implements the instruction-level interrupt discipline.               *)
(***************************************************************************)
EXTENDS Cpu, TLAPS

(* The fields that cpu_execute switches on are three bits wide, two for p. *)
LEMMA FieldTypes ==
  ASSUME NEW op \in Byte
  PROVE  /\ x(op) \in 0..3 /\ y(op) \in 0..7 /\ z(op) \in 0..7
         /\ p(op) \in 0..3 /\ q(op) \in 0..1
<1>1. op \in Nat /\ op <= 255
  BY DEF Byte
<1>2. x(op) \in 0..3
  BY <1>1 DEF x
<1>3. z(op) \in 0..7
  BY <1>1 DEF z
<1>4. y(op) \in 0..7
  BY <1>1 DEF y
<1>5. p(op) \in 0..3 /\ q(op) \in 0..1
  BY <1>4 DEF p, q
<1> QED
  BY <1>2, <1>3, <1>4, <1>5

(* A byte costs at least four cycles and at most twenty-two, a prefix byte   *)
(* included: no entry of the three tables is free.                           *)
LEMMA CostBounds ==
  ASSUME NEW pfx \in Prefixes, NEW op \in Byte, NEW taken \in BOOLEAN
  PROVE  Cost(pfx, op, taken) \in 4..22
<1>1. /\ x(op) \in 0..3 /\ y(op) \in 0..7 /\ z(op) \in 0..7
      /\ p(op) \in 0..3 /\ q(op) \in 0..1
  BY FieldTypes
<1>2. \A r \in 0..7 : ReadCost(pfx, r) \in 0..11 /\ WriteCost(pfx, r) \in 0..7
  BY DEF ReadCost, WriteCost
<1>3. BitCost(pfx, op) \in 4..22
  BY <1>1, <1>2 DEF BitCost
<1>4. EDCost(op, taken) \in 4..22
  BY <1>1 DEF EDCost, BlockCost
<1>5. QuadrantZeroCost(pfx, op, taken) \in 4..22
  <2>1. <<4, 4, 8, 12, 7, 7, 7, 7>>[y(op) + 1] \in 4..12
    BY <1>1
  <2>2. <<7, 7, 16, 13>>[p(op) + 1] \in 7..16
    BY <1>1
  <2> QED
    BY <1>1, <1>2, <2>1, <2>2 DEF QuadrantZeroCost
<1>6. QuadrantThreeCost(op, taken) \in 4..22
  <2>1. /\ <<10, 4, 4, 6>>[p(op) + 1] \in 4..10
        /\ <<17, 4, 4, 4>>[p(op) + 1] \in 4..17
    BY <1>1
  <2>2. <<10, 4, 11, 11, 19, 4, 4, 4>>[y(op) + 1] \in 4..19
    BY <1>1
  <2> QED
    BY <1>1, <2>1, <2>2 DEF QuadrantThreeCost
<1>7. MainCost(pfx, op, taken) \in 4..22
  BY <1>1, <1>2, <1>5, <1>6 DEF MainCost
<1> QED
  BY <1>3, <1>4, <1>7 DEF Cost

(* The prefix state stays among the seven that the code can tell apart. *)
LEMMA NextPrefixType ==
  ASSUME NEW pfx \in Prefixes, NEW op \in Byte
  PROVE  NextPrefix(pfx, op) \in Prefixes
  BY DEF NextPrefix, IsPrefixByte, InMainTable, InEDTable, InBitTable,
         Prefixes, NoPrefix, CB, DD, ED, FD

LEMMA ModeType ==
  ASSUME NEW op \in Byte
  PROVE  ModeOfIM(op) \in 0..2
<1>1. y(op) \in 0..7
  BY FieldTypes
<1> QED
  BY <1>1 DEF ModeOfIM

-----------------------------------------------------------------------------
(* Every variable keeps its type: the flip-flops stay bits, the mode stays   *)
(* one of the three that handle_interrupt switches on, the prefix stays one  *)
(* of the seven combinations of DD, ED, FD and CB.                           *)
THEOREM TypeCorrect == Spec => []TypeOK
<1>1. Init => TypeOK
  BY FloorAssumption DEF Init, TypeOK, Bit, NoPrefix, Prefixes
<1>2. TypeOK /\ [Next]_vars => TypeOK'
  <2> SUFFICES ASSUME TypeOK, [Next]_vars
               PROVE  TypeOK'
    OBVIOUS
  <2> USE FloorAssumption
  <2>1. CASE AcceptInterrupt
    BY <2>1 DEF AcceptInterrupt, TypeOK, Bit, Spend
  <2>2. CASE AcceptUnsupported
    BY <2>2 DEF AcceptUnsupported, TypeOK, Bit, Spend
  <2>3. CASE HaltIdle
    BY <2>3 DEF HaltIdle, TypeOK, Bit, Spend, WaitAfterPoll
  <2>4. ASSUME NEW op \in Opcodes, NEW taken \in BOOLEAN,
               ExecutePlain(op, taken) \/ ExecutePort(op, taken)
        PROVE  TypeOK'
    <3>1. op \in Byte
      BY OpcodesAssumption
    <3>2. Cost(prefix, op, taken) \in Nat
      BY <3>1, CostBounds DEF TypeOK
    <3>3. NextPrefix(prefix, op) \in Prefixes
      BY <3>1, NextPrefixType DEF TypeOK
    <3>4. ModeOfIM(op) \in 0..2
      BY <3>1, ModeType
    <3>5. cycles' \in Int /\ cycles' >= -Floor
      BY <2>4, <3>2 DEF ExecutePlain, ExecutePort, Execute, Spend, TypeOK
    <3>6. prefix' \in Prefixes /\ int_mode' \in 0..2
      BY <2>4, <3>3, <3>4 DEF ExecutePlain, ExecutePort, Execute, TypeOK
    <3>7. /\ IFF1' \in Bit /\ IFF2' \in Bit /\ IFF_wait' \in Bit
          /\ halted' \in Bit /\ interrupt' \in Bit /\ at' \in {"caller", "loop"}
      BY <2>4 DEF ExecutePlain, ExecutePort, Execute, WaitAfterPoll, TypeOK, Bit
    <3> QED
      BY <3>5, <3>6, <3>7 DEF TypeOK
  <2>5. ASSUME NEW b \in Budgets, Call(b)
        PROVE  TypeOK'
    BY <2>5, BudgetsAssumption DEF Call, cpuVars, TypeOK
  <2>6. CASE Return
    BY <2>6 DEF Return, cpuVars, TypeOK
  <2>7. CASE DeviceMovesPin
    BY <2>7 DEF DeviceMovesPin, cpuVars, TypeOK, Bit
  <2>8. CASE UNCHANGED vars
    BY <2>8 DEF vars, cpuVars, TypeOK
  <2> QED
    BY <2>1, <2>2, <2>3, <2>4, <2>5, <2>6, <2>7, <2>8 DEF Next, LoopTurn
<1> QED
  BY <1>1, <1>2, PTL DEF Spec

-----------------------------------------------------------------------------
(* What every turn that executes a byte does to the control state, with the  *)
(* two port and non-port cases folded together.                              *)
LEMMA ExecuteFacts ==
  ASSUME NEW op \in Opcodes, NEW taken \in BOOLEAN, TypeOK, ControlInv,
         ExecutePlain(op, taken) \/ ExecutePort(op, taken)
  PROVE  /\ Turn /\ ~Accepts /\ halted = 0
         /\ Execute(op, taken)
         /\ interrupt' \in Bit
         /\ ~IsPortAccess(prefix, op) => UNCHANGED interrupt
  BY DEF ExecutePlain, ExecutePort, Execute, TypeOK, Bit

(* The control invariant is inductive given the types: both flip-flops are   *)
(* always written together (EI, DI, handle_interrupt), HALT is not a prefix, *)
(* the loop leaves only with the prefix cleared, and the first byte of a     *)
(* longer opcode polls and so consumes the delay.                            *)
THEOREM ControlCorrect == Spec => []ControlInv
<1>1. Init => ControlInv
  BY DEF Init, ControlInv
<1>2. TypeOK /\ ControlInv /\ [Next]_vars => ControlInv'
  <2> SUFFICES ASSUME TypeOK, ControlInv, [Next]_vars
               PROVE  ControlInv'
    OBVIOUS
  <2>1. CASE AcceptInterrupt
    BY <2>1 DEF AcceptInterrupt, Turn, ControlInv
  <2>2. CASE AcceptUnsupported
    BY <2>2 DEF AcceptUnsupported, Turn, ControlInv
  <2>3. CASE HaltIdle
    BY <2>3 DEF HaltIdle, Turn, WaitAfterPoll, ControlInv, TypeOK, Bit
  <2>4. ASSUME NEW op \in Opcodes, NEW taken \in BOOLEAN,
               ExecutePlain(op, taken) \/ ExecutePort(op, taken)
        PROVE  ControlInv'
    <3>1. Execute(op, taken) /\ Turn /\ halted = 0
      BY <2>4, ExecuteFacts
    <3>2. IFF1' = IFF2'
      BY <3>1 DEF Execute, ControlInv
    <3>3. halted' = 1 => prefix' = NoPrefix
      BY <3>1 DEF Execute, IsHalt, NextPrefix, IsPrefixByte, CB, DD, ED, FD
    <3>4. at' = "caller" => prefix' = NoPrefix
      BY <3>1 DEF Execute, Turn
    <3>5. IFF2' = 1 /\ prefix' # NoPrefix => IFF_wait' = 0
      <4> SUFFICES ASSUME IFF2' = 1, prefix' # NoPrefix
                   PROVE  IFF_wait' = 0
        OBVIOUS
      <4>1. IsPrefixByte(prefix, op)
        BY <3>1 DEF Execute, NextPrefix
      <4>2. ~IsEI(prefix, op) /\ ~IsDI(prefix, op) /\ ~IsNONI(prefix, op)
        BY <4>1 DEF IsPrefixByte, IsEI, IsDI, IsNONI, InMainTable, CB, DD, ED, FD
      <4>3. IFF2 = 1 /\ IFF_wait' = WaitAfterPoll
        BY <3>1, <4>2 DEF Execute
      <4> QED
        BY <4>3 DEF WaitAfterPoll, Polls, ControlInv, TypeOK, Bit
    <3> QED
      BY <3>2, <3>3, <3>4, <3>5 DEF ControlInv
  <2>5. ASSUME NEW b \in Budgets, Call(b)
        PROVE  ControlInv'
    BY <2>5 DEF Call, cpuVars, ControlInv
  <2>6. CASE Return
    BY <2>6 DEF Return, More, cpuVars, ControlInv
  <2>7. CASE DeviceMovesPin
    BY <2>7 DEF DeviceMovesPin, cpuVars, ControlInv
  <2>8. CASE UNCHANGED vars
    BY <2>8 DEF vars, cpuVars, ControlInv
  <2> QED
    BY <2>1, <2>2, <2>3, <2>4, <2>5, <2>6, <2>7, <2>8 DEF Next, LoopTurn
<1> QED
  BY <1>1, <1>2, TypeCorrect, PTL DEF Spec

-----------------------------------------------------------------------------
(* The loop looks at the pin exactly when the discipline says service is due. *)
LEMMA AcceptsIffDue ==
  ASSUME TypeOK
  PROVE  Accepts <=> Discipline!Due
  BY DEF Accepts, Polls, Discipline!Due, TypeOK, Bit

(* Executing a prefix byte begins an instruction. *)
LEMMA PrefixBegins ==
  ASSUME NEW op \in Opcodes, NEW taken \in BOOLEAN, TypeOK, ControlInv,
         ExecutePlain(op, taken) \/ ExecutePort(op, taken),
         IsPrefixByte(prefix, op)
  PROVE  Discipline!Begin
<1>1. ~Accepts /\ halted = 0 /\ Execute(op, taken)
  BY ExecuteFacts
<1>2. ~Discipline!Due
  BY <1>1, AcceptsIffDue
<1>3. /\ ~IsEI(prefix, op) /\ ~IsDI(prefix, op) /\ ~IsNONI(prefix, op)
      /\ ~IsIM(prefix, op) /\ ~IsHalt(prefix, op) /\ ~IsPortAccess(prefix, op)
  BY DEF IsPrefixByte, IsEI, IsDI, IsNONI, IsIM, IsHalt, IsPortAccess,
         InMainTable, CB, DD, ED, FD
<1>4. prefix' # NoPrefix
  BY <1>1 DEF Execute, NextPrefix, IsPrefixByte, NoPrefix, CB, DD, ED, FD
<1>5. UNCHANGED <<IFF2, halted, int_mode, interrupt>>
  BY <1>1, <1>3, ExecuteFacts DEF Execute
<1>6. IFF_wait' = WaitAfterPoll
  BY <1>1, <1>3 DEF Execute
<1>7. (IF IFF2' = 1 THEN IFF_wait' ELSE 0) = 0
  BY <1>5, <1>6 DEF WaitAfterPoll, Polls, ControlInv, TypeOK, Bit
<1> QED
  BY <1>1, <1>2, <1>4, <1>5, <1>7 DEF Discipline!Begin

(* Executing any other byte finishes one, in the way its class says. *)
LEMMA OtherByteFinishes ==
  ASSUME NEW op \in Opcodes, NEW taken \in BOOLEAN, TypeOK, ControlInv,
         ExecutePlain(op, taken) \/ ExecutePort(op, taken),
         ~IsPrefixByte(prefix, op)
  PROVE  Discipline!Finish
<1> DEFINE shieldNext == IF IFF2' = 1 THEN IFF_wait' ELSE 0
<1>1. ~Accepts /\ halted = 0 /\ Execute(op, taken) /\ interrupt' \in Bit
  BY ExecuteFacts
<1>2. ~Discipline!Due
  BY <1>1, AcceptsIffDue
<1>3. prefix' = NoPrefix
  BY <1>1 DEF Execute, NextPrefix
<1>4. IFF2 \in Bit /\ IFF_wait \in Bit /\ int_mode \in 0..2
  BY DEF TypeOK
<1>5. IFF2 = 1 => WaitAfterPoll = 0
  BY DEF WaitAfterPoll, Polls, ControlInv, TypeOK, Bit
<1>6. CASE IsEI(prefix, op)
  <2>1. /\ ~IsHalt(prefix, op) /\ ~IsIM(prefix, op) /\ ~IsPortAccess(prefix, op)
    BY <1>6 DEF IsEI, IsHalt, IsIM, IsPortAccess, InMainTable
  <2>2. UNCHANGED <<halted, int_mode, interrupt>> /\ IFF2' = 1 /\ IFF_wait' = 1
    BY <1>1, <1>6, <2>1, ExecuteFacts DEF Execute
  <2> QED
    BY <1>1, <1>2, <1>3, <2>2 DEF Discipline!Finish
<1>7. CASE IsDI(prefix, op)
  <2>1. /\ ~IsEI(prefix, op) /\ ~IsHalt(prefix, op) /\ ~IsIM(prefix, op)
        /\ ~IsPortAccess(prefix, op)
    BY <1>7 DEF IsDI, IsEI, IsHalt, IsIM, IsPortAccess, InMainTable
  <2>2. UNCHANGED <<halted, int_mode, interrupt>> /\ IFF2' = 0
    BY <1>1, <1>7, <2>1, ExecuteFacts DEF Execute
  <2> QED
    BY <1>1, <1>2, <1>3, <2>2 DEF Discipline!Finish
<1>8. CASE IsHalt(prefix, op)
  <2>1. /\ ~IsEI(prefix, op) /\ ~IsDI(prefix, op) /\ ~IsIM(prefix, op)
        /\ ~IsNONI(prefix, op) /\ ~IsPortAccess(prefix, op)
    BY <1>8 DEF IsHalt, IsEI, IsDI, IsIM, IsNONI, IsPortAccess, InMainTable
  <2>2. UNCHANGED <<IFF2, int_mode, interrupt>> /\ halted' = 1
    BY <1>1, <1>8, <2>1, ExecuteFacts DEF Execute
  <2>3. IFF_wait' = WaitAfterPoll
    BY <1>1, <2>1 DEF Execute
  <2>4. shieldNext = 0
    BY <1>5, <2>2, <2>3
  <2> QED
    BY <1>1, <1>2, <1>3, <2>2, <2>4 DEF Discipline!Finish
<1>9. CASE IsNONI(prefix, op)
  <2>1. /\ ~IsEI(prefix, op) /\ ~IsDI(prefix, op) /\ ~IsIM(prefix, op)
        /\ ~IsHalt(prefix, op) /\ ~IsPortAccess(prefix, op)
    <3>1. InEDTable(prefix) /\ ~InMainTable(prefix)
      BY <1>9 DEF IsNONI, InMainTable
    <3>2. x(op) # 1 /\ (x(op) = 2 => ~IsBlock(op))
      BY <1>9 DEF IsNONI
    <3> QED
      BY <3>1, <3>2 DEF IsEI, IsDI, IsIM, IsHalt, IsPortAccess, IsBlock
  <2>2. UNCHANGED <<IFF2, halted, int_mode, interrupt>> /\ IFF_wait' = 1
    BY <1>1, <1>9, <2>1, ExecuteFacts DEF Execute
  <2>3. shieldNext = IFF2
    BY <1>4, <2>2 DEF Bit
  <2> QED
    BY <1>1, <1>2, <1>3, <2>2, <2>3 DEF Discipline!Finish
<1>10. CASE IsIM(prefix, op)
  <2>1. /\ ~IsEI(prefix, op) /\ ~IsDI(prefix, op) /\ ~IsHalt(prefix, op)
        /\ ~IsNONI(prefix, op) /\ ~IsPortAccess(prefix, op)
    BY <1>10 DEF IsIM, IsEI, IsDI, IsHalt, IsNONI, IsPortAccess, InMainTable
  <2>2. /\ UNCHANGED <<IFF2, halted, interrupt>> /\ int_mode' = ModeOfIM(op)
        /\ IFF_wait' = WaitAfterPoll
    BY <1>1, <1>10, <2>1, ExecuteFacts DEF Execute
  <2>3. int_mode' \in 0..2
    BY <2>2, ModeType, OpcodesAssumption
  <2>4. shieldNext = 0
    BY <1>5, <2>2
  <2> QED
    BY <1>1, <1>2, <1>3, <2>2, <2>3, <2>4 DEF Discipline!Finish
<1>11. CASE /\ ~IsEI(prefix, op) /\ ~IsDI(prefix, op) /\ ~IsHalt(prefix, op)
            /\ ~IsNONI(prefix, op) /\ ~IsIM(prefix, op)
  <2>1. /\ UNCHANGED <<IFF2, halted, int_mode>> /\ IFF_wait' = WaitAfterPoll
    BY <1>1, <1>11 DEF Execute
  <2>2. shieldNext = 0
    BY <1>5, <2>1
  <2>3. interrupt' \in Discipline!Bit
    BY <1>1 DEF Bit, Discipline!Bit
  <2> QED
    BY <1>1, <1>2, <1>3, <2>1, <2>2, <2>3 DEF Discipline!Finish
<1> QED
  BY <1>6, <1>7, <1>8, <1>9, <1>10, <1>11

(* cpu_execute keeps the interrupt discipline of InterruptDiscipline, for    *)
(* every guest program and every sequence of budgets: prefix bytes, the      *)
(* delayed enable and returning to the caller are invisible at that level.   *)
THEOREM DisciplineImplemented == Spec => ImplementsDiscipline
<1>1. Init => Discipline!Init
  BY DEF Init, Discipline!Init
<1>2. TypeOK /\ ControlInv /\ [Next]_vars => [Discipline!Next]_(Discipline!vars)
  <2> SUFFICES ASSUME TypeOK, ControlInv, [Next]_vars
               PROVE  [Discipline!Next]_(Discipline!vars)
    OBVIOUS
  <2>1. CASE AcceptInterrupt
    <3>1. Discipline!Due /\ int_mode # 0
      BY <2>1, AcceptsIffDue DEF AcceptInterrupt
    <3>2. /\ IFF2' = 0 /\ halted' = 0 /\ UNCHANGED <<IFF_wait, int_mode, prefix, interrupt>>
      BY <2>1 DEF AcceptInterrupt
    <3>3. Discipline!Serve
      BY <3>1, <3>2 DEF Discipline!Serve, Discipline!Due
    <3> QED
      BY <3>3 DEF Discipline!Next
  <2>2. CASE AcceptUnsupported
    <3>1. Discipline!Due /\ int_mode = 0
      BY <2>2, AcceptsIffDue DEF AcceptUnsupported
    <3>2. Discipline!WakeUnserved
      BY <2>2, <3>1 DEF AcceptUnsupported, Discipline!WakeUnserved
    <3> QED
      BY <3>2 DEF Discipline!Next
  <2>3. CASE HaltIdle
    <3>1. ~Discipline!Due /\ halted = 1
      BY <2>3, AcceptsIffDue DEF HaltIdle
    <3>2. IFF2' = IFF2 /\ (IF IFF2' = 1 THEN IFF_wait' ELSE 0) = 0
      BY <2>3, <3>1 DEF HaltIdle, WaitAfterPoll, Polls, ControlInv
    <3>3. Discipline!Sleep
      BY <2>3, <3>1, <3>2 DEF HaltIdle, Discipline!Sleep
    <3> QED
      BY <3>3 DEF Discipline!Next
  <2>4. ASSUME NEW op \in Opcodes, NEW taken \in BOOLEAN,
               ExecutePlain(op, taken) \/ ExecutePort(op, taken)
        PROVE  Discipline!Next
    <3>1. CASE IsPrefixByte(prefix, op)
      BY <2>4, <3>1, PrefixBegins DEF Discipline!Next
    <3>2. CASE ~IsPrefixByte(prefix, op)
      BY <2>4, <3>2, OtherByteFinishes DEF Discipline!Next
    <3> QED
      BY <3>1, <3>2
  <2>5. ASSUME NEW b \in Budgets, Call(b)
        PROVE  UNCHANGED Discipline!vars
    BY <2>5 DEF Call, cpuVars, Discipline!vars
  <2>6. CASE Return
    BY <2>6 DEF Return, cpuVars, Discipline!vars
  <2>7. CASE DeviceMovesPin
    <3>1. Discipline!Outside
      BY <2>7 DEF DeviceMovesPin, cpuVars, ControlInv, Discipline!Outside
    <3> QED
      BY <3>1 DEF Discipline!Next
  <2>8. CASE UNCHANGED vars
    BY <2>8 DEF vars, cpuVars, Discipline!vars
  <2> QED
    BY <2>1, <2>2, <2>3, <2>4, <2>5, <2>6, <2>7, <2>8 DEF Next, LoopTurn
<1> QED
  BY <1>1, <1>2, TypeCorrect, ControlCorrect, PTL
     DEF Spec, ImplementsDiscipline, Discipline!Spec

-----------------------------------------------------------------------------
(* The steps under the liveness properties                                   *)

(* Every turn of the loop uses up cycles: none is free, not a sleeping one,  *)
(* not a prefix byte and not the interrupt that mode 0 does not serve. The   *)
(* last disjunct is Floor, below which the model does not count. With fair   *)
(* turns the loop therefore ends unless a prefix is always pending.          *)
TurnsSpend == [][LoopTurn => cycles' < cycles \/ cycles' = -Floor]_vars

THEOREM TurnsSpendCorrect == Spec => TurnsSpend
<1>1. TypeOK /\ [Next]_vars => (LoopTurn => cycles' < cycles \/ cycles' = -Floor)
  <2> SUFFICES ASSUME TypeOK, LoopTurn
               PROVE  cycles' < cycles \/ cycles' = -Floor
    OBVIOUS
  <2>1. ASSUME NEW n \in Nat, n > 0, Spend(n)
        PROVE  cycles' < cycles \/ cycles' = -Floor
    BY <2>1 DEF Spend, TypeOK
  <2>2. CASE AcceptInterrupt
    BY <2>1, <2>2 DEF AcceptInterrupt
  <2>3. CASE AcceptUnsupported
    BY <2>1, <2>3 DEF AcceptUnsupported
  <2>4. CASE HaltIdle
    BY <2>1, <2>4 DEF HaltIdle
  <2>5. ASSUME NEW op \in Opcodes, NEW taken \in BOOLEAN,
               ExecutePlain(op, taken) \/ ExecutePort(op, taken)
        PROVE  cycles' < cycles \/ cycles' = -Floor
    <3>1. Cost(prefix, op, taken) \in 4..22
      BY CostBounds, OpcodesAssumption DEF TypeOK
    <3>2. Spend(Cost(prefix, op, taken))
      BY <2>5 DEF ExecutePlain, ExecutePort, Execute
    <3> QED
      BY <2>1, <3>1, <3>2
  <2> QED
    BY <2>2, <2>3, <2>4, <2>5 DEF LoopTurn
<1> QED
  BY <1>1, TypeCorrect, PTL DEF Spec, TurnsSpend

(* An instruction that has retired leaves the processor ready to look at a   *)
(* waiting pin, and then it stays ready until the interrupt is taken or the  *)
(* device takes the request back: nothing else is executed in between. So a  *)
(* single turn that is not an EI, a prefix or an invalid ED opcode is all    *)
(* that a waiting pin is ever kept from service by.                          *)
Ready == Waiting /\ prefix = NoPrefix /\ IFF_wait = 0
ServiceSteps ==
  /\ [][Waiting /\ UnshieldedTurn => Ready' \/ ~Waiting']_vars
  /\ [][Ready => Ready' \/ AcceptInterrupt \/ DeviceMovesPin]_vars
  /\ [][Ready /\ LoopTurn => AcceptInterrupt]_vars

THEOREM ServiceStepsCorrect == Spec => ServiceSteps
<1>1. TypeOK /\ ControlInv => (Waiting /\ UnshieldedTurn => Ready' \/ ~Waiting')
  <2> SUFFICES ASSUME TypeOK, ControlInv, Waiting, UnshieldedTurn, Waiting'
               PROVE  prefix' = NoPrefix /\ IFF_wait' = 0
    BY DEF Ready
  <2>1. CASE AcceptInterrupt
    BY <2>1 DEF AcceptInterrupt, Waiting
  <2>2. CASE AcceptUnsupported
    BY <2>2 DEF AcceptUnsupported, Waiting
  <2>3. CASE HaltIdle
    BY <2>3 DEF HaltIdle, WaitAfterPoll, Polls, ControlInv, Waiting
  <2>4. ASSUME NEW op \in Opcodes, NEW taken \in BOOLEAN, ~Shields(op),
               ExecutePlain(op, taken) \/ ExecutePort(op, taken)
        PROVE  prefix' = NoPrefix /\ IFF_wait' = 0
    <3>1. Execute(op, taken)
      BY <2>4 DEF ExecutePlain, ExecutePort
    <3>2. prefix' = NoPrefix
      BY <2>4, <3>1 DEF Execute, Shields, NextPrefix
    <3>3. IFF_wait' = WaitAfterPoll
      BY <2>4, <3>1 DEF Execute, Shields
    <3> QED
      BY <3>2, <3>3 DEF WaitAfterPoll, Polls, ControlInv, Waiting, TypeOK, Bit
  <2> QED
    BY <2>1, <2>2, <2>3, <2>4 DEF UnshieldedTurn
<1>2. Ready /\ LoopTurn => AcceptInterrupt
  <2> SUFFICES ASSUME Ready, LoopTurn
               PROVE  AcceptInterrupt
    OBVIOUS
  <2>1. Accepts /\ int_mode # 0
    BY DEF Ready, Waiting, Accepts, Polls
  <2>2. /\ ~AcceptUnsupported /\ ~HaltIdle
        /\ \A op \in Opcodes, taken \in BOOLEAN :
              ~ExecutePlain(op, taken) /\ ~ExecutePort(op, taken)
    BY <2>1 DEF AcceptUnsupported, HaltIdle, ExecutePlain, ExecutePort, Execute
  <2> QED
    BY <2>2 DEF LoopTurn
<1>3. [Next]_vars => (Ready => Ready' \/ AcceptInterrupt \/ DeviceMovesPin)
  <2> SUFFICES ASSUME [Next]_vars, Ready, ~AcceptInterrupt, ~DeviceMovesPin
               PROVE  Ready'
    OBVIOUS
  <2>1. ~LoopTurn
    BY <1>2
  <2>2. UNCHANGED <<cpuVars, interrupt>>
    BY <2>1 DEF Next, Call, Return, vars
  <2> QED
    BY <2>2 DEF cpuVars, Ready, Waiting
<1> QED
  BY <1>1, <1>2, <1>3, TypeCorrect, ControlCorrect, PTL DEF Spec, ServiceSteps

(* ModeZeroStarves for every guest and every budget: while the interrupt is  *)
(* due, AcceptUnsupported is the only turn there is, and it changes nothing  *)
(* that would make the next poll find something else.                        *)
THEOREM ModeZeroStarvesCorrect == Spec => ModeZeroStarves
<1>1. [Next]_vars => (Starved => NothingFetched)
  <2> SUFFICES ASSUME [Next]_vars, Starved
               PROVE  /\ UNCHANGED <<IFF1, IFF2, IFF_wait, int_mode, prefix>>
                      /\ interrupt' = interrupt \/ DeviceMovesPin
    BY DEF NothingFetched, Starved, Due
  <2>1. CASE LoopTurn
    <3>1. /\ ~AcceptInterrupt /\ ~HaltIdle
          /\ \A op \in Opcodes, taken \in BOOLEAN :
                ~ExecutePlain(op, taken) /\ ~ExecutePort(op, taken)
      BY DEF Starved, Due, Accepts, Polls,
             AcceptInterrupt, HaltIdle, ExecutePlain, ExecutePort, Execute
    <3>2. AcceptUnsupported
      BY <2>1, <3>1 DEF LoopTurn
    <3> QED
      BY <3>2 DEF AcceptUnsupported
  <2>2. ASSUME NEW b \in Budgets, Call(b)
        PROVE  UNCHANGED <<cpuVars, interrupt>>
    BY <2>2 DEF Call
  <2>3. CASE Return
    BY <2>3 DEF Return, cpuVars
  <2>4. CASE DeviceMovesPin
    BY <2>4 DEF DeviceMovesPin, cpuVars
  <2>5. CASE UNCHANGED vars
    BY <2>5 DEF vars, cpuVars
  <2> QED
    BY <2>1, <2>2, <2>3, <2>4, <2>5 DEF Next, cpuVars
<1> QED
  BY <1>1, PTL DEF Spec, ModeZeroStarves
==============================================================================
