--------------------------------- MODULE Cpu ---------------------------------
(***************************************************************************)
(* The execution loop of the emulated Z80, cpu_execute() in                *)
(* libz80e/src/core/cpu.c: polling the interrupt pin, HALT, prefix bytes,  *)
(* the EI delay and the cycle budget its caller hands in. One action is    *)
(* one turn of the loop. What a turn fetches is any byte of Opcodes, so    *)
(* the properties hold of every guest program over those bytes.            *)
(*                                                                         *)
(* The pin (cpu->interrupt) belongs to the devices: it moves when the      *)
(* guest executes a port instruction, and between two calls.               *)
(***************************************************************************)
EXTENDS Z80Decode, Integers

CONSTANTS Opcodes,   \* the bytes the guest's memory holds
          Budgets,   \* what a caller passes as `cycles'
          Floor      \* cycles is not counted below -Floor: the loop only tests its sign

ASSUME OpcodesAssumption == Opcodes \subseteq Byte
ASSUME BudgetsAssumption == Budgets \subseteq Int
ASSUME FloorAssumption == Floor \in Nat /\ \A b \in Budgets : -Floor <= b

VARIABLES IFF1, IFF2, IFF_wait, int_mode, halted, prefix,
          interrupt,  \* the pin
          cycles,     \* the budget left in this call; the value last returned
          at          \* "caller", or "loop" while cpu_execute runs

cpuVars == <<IFF1, IFF2, IFF_wait, int_mode, halted, prefix>>
vars == <<cpuVars, interrupt, cycles, at>>

Bit == {0, 1}

TypeOK ==
  /\ IFF1 \in Bit /\ IFF2 \in Bit /\ IFF_wait \in Bit
  /\ int_mode \in 0..2
  /\ halted \in Bit
  /\ prefix \in Prefixes
  /\ interrupt \in Bit
  /\ cycles \in Int /\ cycles >= -Floor
  /\ at \in {"caller", "loop"}

(* cpu_init: calloc *)
Init ==
  /\ IFF1 = 0 /\ IFF2 = 0 /\ IFF_wait = 0
  /\ int_mode = 0
  /\ halted = 0
  /\ prefix = NoPrefix
  /\ interrupt = 0
  /\ cycles = 0
  /\ at = "caller"

Spend(n) == cycles' = IF cycles - n < -Floor THEN -Floor ELSE cycles - n

-----------------------------------------------------------------------------
(* The loop *)

\* Mutant of More.
MoreUntilExact == cycles # 0 \/ prefix # NoPrefix

More == cycles > 0 \/ prefix # NoPrefix

\* Mutant of Polls: the pin is looked at after a prefix byte too.
PollsInsideInstruction == IFF2 = 1

Polls == IFF2 = 1 /\ prefix = NoPrefix
Accepts == Polls /\ IFF_wait = 0 /\ interrupt = 1
Turn == at = "loop" /\ More

(* A poll that finds IFF_wait set clears it instead of looking at the pin. *)
\* Mutant of WaitAfterPoll: the delay is never taken back.
WaitForEver == IFF_wait

WaitAfterPoll == IF Polls THEN 0 ELSE IFF_wait

\* Mutant of AcceptInterrupt: only IFF2 is cleared.
AcceptKeepsIFF1 ==
  /\ Turn /\ Accepts
  /\ int_mode \in {1, 2}
  /\ halted' = 0 /\ IFF2' = 0
  /\ Spend(IF int_mode = 1 THEN 13 ELSE 19)
  /\ UNCHANGED <<IFF1, IFF_wait, int_mode, prefix, interrupt, at>>

(* handle_interrupt in modes 1 and 2 *)
AcceptInterrupt ==
  /\ Turn /\ Accepts
  /\ int_mode \in {1, 2}
  /\ halted' = 0
  /\ IFF1' = 0 /\ IFF2' = 0
  /\ Spend(IF int_mode = 1 THEN 13 ELSE 19)
  /\ UNCHANGED <<IFF_wait, int_mode, prefix, interrupt, at>>

\* Mutant of AcceptUnsupported: the flip-flops are cleared before the mode is looked at.
AcceptAnyMode ==
  /\ Turn /\ Accepts
  /\ int_mode = 0
  /\ halted' = 0
  /\ IFF1' = 0 /\ IFF2' = 0
  /\ Spend(1)
  /\ UNCHANGED <<IFF_wait, int_mode, prefix, interrupt, at>>

(* Mode 0 is unsupported: nothing is fetched, and a turn without cycles costs 1. *)
AcceptUnsupported ==
  /\ Turn /\ Accepts
  /\ int_mode = 0
  /\ halted' = 0
  /\ Spend(1)
  /\ UNCHANGED <<IFF1, IFF2, IFF_wait, int_mode, prefix, interrupt, at>>

HaltIdle ==
  /\ Turn /\ ~Accepts /\ halted = 1
  /\ IFF_wait' = WaitAfterPoll
  /\ Spend(4)
  /\ UNCHANGED <<IFF1, IFF2, int_mode, halted, prefix, interrupt, at>>

(* Fetch one byte and execute it; the caller of this operator says what the  *)
(* device behind a port does to the pin.                                     *)
Execute(op, taken) ==
  /\ Turn /\ ~Accepts /\ halted = 0
  /\ prefix' = NextPrefix(prefix, op)
  /\ IFF1' = IF IsEI(prefix, op) THEN 1 ELSE IF IsDI(prefix, op) THEN 0 ELSE IFF1
  /\ IFF2' = IF IsEI(prefix, op) THEN 1 ELSE IF IsDI(prefix, op) THEN 0 ELSE IFF2
  /\ IFF_wait' = IF IsEI(prefix, op) \/ IsNONI(prefix, op) THEN 1 ELSE WaitAfterPoll
  /\ int_mode' = IF IsIM(prefix, op) THEN ModeOfIM(op) ELSE int_mode
  /\ halted' = IF IsHalt(prefix, op) THEN 1 ELSE halted
  /\ Spend(Cost(prefix, op, taken))
  /\ UNCHANGED at

(* Reading or writing a port may raise or lower the pin, nothing else may. *)
ExecutePlain(op, taken) ==
  ~IsPortAccess(prefix, op) /\ Execute(op, taken) /\ UNCHANGED interrupt
ExecutePort(op, taken) ==
  IsPortAccess(prefix, op) /\ Execute(op, taken) /\ interrupt' \in Bit

-----------------------------------------------------------------------------
(* The caller *)

Call(b) ==
  /\ at = "caller"
  /\ at' = "loop"
  /\ cycles' = b
  /\ UNCHANGED <<cpuVars, interrupt>>

Return ==
  /\ at = "loop" /\ ~More
  /\ at' = "caller"
  /\ UNCHANGED <<cpuVars, interrupt, cycles>>

(* Timers, keys and the link act on the pin between two calls. *)
DeviceMovesPin ==
  /\ at = "caller"
  /\ interrupt' = 1 - interrupt
  /\ UNCHANGED <<cpuVars, cycles, at>>

LoopTurn ==
  \/ AcceptInterrupt
  \/ AcceptUnsupported
  \/ HaltIdle
  \/ \E op \in Opcodes, taken \in BOOLEAN : ExecutePlain(op, taken) \/ ExecutePort(op, taken)

Next ==
  \/ LoopTurn
  \/ \E b \in Budgets : Call(b)
  \/ Return
  \/ DeviceMovesPin

Spec == Init /\ [][Next]_vars

(* The loop does not block and the frontends' main loops call it for ever *)
(* (runloop_tick in tui/main.c and sdl/main.c).                           *)
FairSpec == Spec /\ WF_vars(LoopTurn \/ Return) /\ WF_vars(\E b \in Budgets : Call(b))

-----------------------------------------------------------------------------
(* Properties *)

(* The two enable flip-flops agree, a processor that sleeps or has returned  *)
(* to its caller is between two instructions, and the delay that EI leaves   *)
(* is never pending inside a longer instruction while interrupts are on.     *)
ControlInv ==
  /\ IFF1 = IFF2
  /\ halted = 1 => prefix = NoPrefix
  /\ at = "caller" => prefix = NoPrefix
  /\ IFF2 = 1 /\ prefix # NoPrefix => IFF_wait = 0

(* cpu_execute, with its prefix states, its delayed enable and its budget,   *)
(* behaves as the instruction-level discipline of InterruptDiscipline.       *)
Discipline == INSTANCE InterruptDiscipline WITH
  iff <- IFF2,
  shield <- IF IFF2 = 1 THEN IFF_wait ELSE 0,
  asleep <- halted,
  inside <- prefix # NoPrefix,
  mode <- int_mode,
  pin <- interrupt

ImplementsDiscipline == Discipline!Spec

(* In mode 0, the mode after reset, an interrupt that is due stops the guest  *)
(* dead: neither the turns nor the returns and new calls of the caller, with  *)
(* whatever budget, let it fetch a byte or change a flip-flop, so it can      *)
(* neither acknowledge the cause nor leave the mode. Only a device that       *)
(* lowers the pin by itself, between two calls, sets it going again; a guest  *)
(* that slept in HALT then goes on without having been interrupted.           *)
Due == interrupt = 1 /\ IFF2 = 1 /\ IFF_wait = 0 /\ prefix = NoPrefix
Starved == Due /\ int_mode = 0
NothingFetched ==
  /\ UNCHANGED <<IFF1, IFF2, IFF_wait, int_mode, prefix>>
  /\ Starved' \/ DeviceMovesPin
ModeZeroStarves == [][Starved => NothingFetched]_vars

(* A turn that retires something: not a prefix byte, not EI, not an invalid ED opcode. *)
Shields(op) == IsPrefixByte(prefix, op) \/ IsEI(prefix, op) \/ IsNONI(prefix, op)
UnshieldedTurn ==
  \/ AcceptInterrupt \/ AcceptUnsupported \/ HaltIdle
  \/ \E op \in Opcodes, taken \in BOOLEAN :
        ~Shields(op) /\ (ExecutePlain(op, taken) \/ ExecutePort(op, taken))

(* A raised pin is not starved: if the guest is not made of EI, prefix and   *)
(* invalid ED bytes alone from some point on, then with interrupts on in a   *)
(* supported mode the pin is eventually served, or the guest or the device   *)
(* takes the request back.                                                   *)
Waiting == interrupt = 1 /\ IFF2 = 1 /\ int_mode # 0
PinServed == []<><<UnshieldedTurn>>_vars => (Waiting ~> ~Waiting)

(* cpu_execute hands control back, unless the guest's memory holds nothing   *)
(* but prefix bytes from some point on.                                      *)
RetiringTurn ==
  \/ AcceptInterrupt \/ AcceptUnsupported \/ HaltIdle
  \/ \E op \in Opcodes, taken \in BOOLEAN :
        ~IsPrefixByte(prefix, op) /\ (ExecutePlain(op, taken) \/ ExecutePort(op, taken))
ReturnsToCaller == []<><<RetiringTurn>>_vars => (at = "loop" ~> at = "caller")
==============================================================================
