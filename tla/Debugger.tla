------------------------------- MODULE Debugger -------------------------------
(***************************************************************************)
(* The debugger at work (libz80e/src/debugger/commands/run.c and on.c):    *)
(* breakpoints, run, step and step over, `on ... stop', and SIGINT, which  *)
(* the frontend's handler turns into a stop between any two steps.         *)
(*                                                                         *)
(* The guest is arbitrary: a slice may leave PC anywhere and the interrupt *)
(* flip-flops either way. A slice asked to run one cycle runs one          *)
(* instruction, or more (Runloop.OverrunIsStale); both are some move of PC.*)
(***************************************************************************)
EXTENDS Hooks, FiniteSets, Operands, Disassembler

CONSTANTS Addresses,       \* 0 .. the size of the address space less one
          BreakAddresses,  \* where the user sets breakpoints
          Counts,          \* and how often they are to stop; -1 is for ever
          Codes,           \* what can be found at PC, as bytes
          Instructions,    \* arguments of run
          Chunks,          \* sizes of the hook arrays to try
          Before, On,      \* arrays: execution hooks, and one that `on' adds to
          MaxBreaks, MaxOn \* bounds on break and step over, and on `on'

ASSUME AddressesAssumption ==
  /\ IsFiniteSet(Addresses) /\ Addresses # {}
  /\ Addresses = 0..(Cardinality(Addresses) - 1)
  /\ BreakAddresses \subseteq Addresses
ASSUME CountsAssumption == Counts \subseteq Int /\ Instructions \subseteq Nat
ASSUME ArraysAssumption ==
  /\ Before \in ExecutionKinds
  /\ On \in Kinds \ ExecutionKinds
ASSUME ChunksAssumption == Chunks \subseteq Nat \ {0}
\* The bytes from PC on: all those of an instruction, which are four at the most,
\* and of an RST 8 in front of it, which are two with a prefix.
ASSUME CodesAssumption == Codes \subseteq Seq(Byte) /\ \A code \in Codes : Len(code) >= 6
ASSUME SlotsAssumption == Free \notin Nat /\ Wild \notin Nat

VARIABLES
  breaks,    \* the break_data that command_break and step_over allocate
  ons,       \* how many on_state_t command_on has allocated
  PC, iff,   \* of the guest; iff stands for IFF1 and IFF2
  stopped,   \* asic->stopped
  at,        \* where command_run is; at the prompt debugger->state is ENABLED
  left,      \* instructions to go, or Endless
  first,     \* isFirstInstruction
  hiding,    \* nointonstep, as of this command
  saved,     \* iff1, iff2 of the loop
  ran,       \* history: the last run command executed something
  since,     \* history: slices begun since ^C or `stop' came in, -1 if none did
  guest_iff, \* history: the flip-flops as the guest made them, hidden or not
  undone     \* history: it last touched them in a slice with interrupts hidden

guestVars == <<PC, iff, guest_iff, undone>>
runVars   == <<at, left, first, hiding, saved>>
history   == <<ran, since>>
vars == <<hookVars, breaks, ons, guestVars, stopped, runVars, history>>

Endless == -1

Wrap(address) == address % Cardinality(Addresses)

-----------------------------------------------------------------------------
(* Breakpoints. *)

(* command_break and step_over. `after' and `misjudged' are history fields:   *)
(* the address right behind the instruction stepped over, or the one asked   *)
(* for, and whether the instruction is one whose end step_over gets wrong.    *)
SetBreak(address, count, after, misjudged) ==
  /\ Len(breaks) < MaxBreaks
  /\ \E i \in 1..(Len(callbacks[Before]) + chunk) :
       /\ hook_add(Before, Len(breaks) + 1, i)
       /\ breaks' = Append(breaks, [address |-> address, count |-> count,
                                    hook_id |-> i, after |-> after,
                                    misjudged |-> misjudged])

Hits(i, address) == i \in DOMAIN breaks /\ breaks[i].address = address

(* break_callback: --count, unless the breakpoint is there for ever *)
CountedDown(i) == IF breaks[i].count = -1 THEN -1 ELSE breaks[i].count - 1

UsedUp(i) == breaks[i].count # -1 /\ CountedDown(i) = 0

\* Mutant of FlagAfter: the callback stores whether the address is its own.
FlagIsHit(hit) == IF Called(Before) = {} THEN stopped ELSE IF hit = {} THEN 0 ELSE 1

FlagAfter(hit) == IF hit = {} THEN stopped ELSE 1

CallsWild == \E s \in Called(Before) : callbacks[Before][s] = Wild

(* hook_on_before_execution: every hook in use is called with PC. A call      *)
(* through uninitialised memory is taken for the end of the program.          *)
Fire(address) ==
  LET slots == callbacks[Before]
      hit == {s \in Called(Before) : Hits(slots[s], address)}
      ids == {slots[s] : s \in hit}
      gone == {breaks[i].hook_id : i \in {j \in ids : UsedUp(j)}}
  IN
  /\ stopped' = FlagAfter(hit)
  /\ breaks' = [i \in DOMAIN breaks |->
                  IF i \in ids THEN [breaks[i] EXCEPT !.count = CountedDown(i)] ELSE breaks[i]]
  /\ callbacks' = [callbacks EXCEPT ![Before] = Removed(slots, gone)]
  /\ UNCHANGED chunk

command_break ==
  /\ at = "prompt"
  /\ \E address \in BreakAddresses, count \in Counts : SetBreak(address, count, address, FALSE)
  /\ UNCHANGED <<ons, guestVars, stopped, runVars, history>>

(* command_on: here the command that the hook runs is `stop' *)
command_on ==
  /\ at = "prompt"
  /\ ons < MaxOn
  /\ \E i \in 1..(Len(callbacks[On]) + chunk) : hook_add(On, ons + 1, i)
  /\ ons' = ons + 1
  /\ UNCHANGED <<breaks, guestVars, stopped, runVars, history>>

-----------------------------------------------------------------------------
(* command_run, from its first line to its loop *)
StartRun(instructions) ==
  /\ stopped' = 0
  /\ left' = instructions
  /\ first' = TRUE
  /\ hiding' \in IF instructions = Endless THEN {FALSE} ELSE BOOLEAN
  /\ at' = IF instructions = 0 THEN "prompt" ELSE "before"
  /\ ran' = FALSE
  /\ since' = -1
  /\ UNCHANGED saved

command_run ==
  /\ at = "prompt"
  /\ \E instructions \in Instructions \cup {Endless} : StartRun(instructions)
  /\ UNCHANGED <<hookVars, breaks, ons, guestVars>>

command_stop ==
  /\ at = "prompt"
  /\ stopped' = 1
  /\ UNCHANGED <<hookVars, breaks, ons, guestVars, runVars, history>>

JumpToSelf(code) == code[1] \in {24, 40, 56, 48, 32} /\ code[2] = 254

SelfJumps == {code \in Codes : JumpToSelf(code)}

(* The size step_over goes by: parse_instruction's, and two more for KnightOS's *)
(* system call, RST 20h, whose word parse_instruction has counted already.    *)
SizeOver(code, knightos) ==
  parse_instruction(code, knightos) + (IF knightos /\ code[1] = PCall THEN 2 ELSE 0)

(* Where the instruction at byte i does end: where the processor's does; but   *)
(* KnightOS's RST 20h, with or without a prefix, takes the word behind it,    *)
(* and its RST 8 the instruction behind it.                                  *)
OpcodeAt(code, i) == IF ByteAt(code, i) \in {DD, FD} THEN i + 1 ELSE i
Opcode(code, i) == ByteAt(code, OpcodeAt(code, i))

CallEnd(code, knightos, i) ==
  IF knightos /\ Opcode(code, i) = PCall THEN OpcodeAt(code, i) + 3
  ELSE Ends(code)[<<i, NoPrefix>>]

IsExtended(code, knightos) == knightos /\ Opcode(code, 0) = KPrefix

EndOver(code, knightos) ==
  CallEnd(code, knightos, IF IsExtended(code, knightos) THEN OpcodeAt(code, 0) + 1 ELSE 0)

(* The instructions whose end step_over gets wrong: DD or FD in front of       *)
(* another prefix than CB, KnightOS's system call, and its RST 8 in front of  *)
(* the former or of another RST 8.                                           *)
Chained(code, i) == ByteAt(code, i) \in {DD, FD} /\ ByteAt(code, i + 1) \in {DD, ED, FD}

Misjudged(code, knightos) ==
  LET behind == OpcodeAt(code, 0) + 1 IN
  \/ Chained(code, 0)
  \/ knightos /\ code[1] = PCall
  \/ IsExtended(code, knightos) /\ (Chained(code, behind) \/ Opcode(code, behind) = KPrefix)

(* For each thing that can be stepped over: where the temporary breakpoint    *)
(* goes, and where the instruction ends, both counted from PC.               *)
Steps ==
  { [size |-> SizeOver(code, knightos), length |-> EndOver(code, knightos),
     misjudged |-> Misjudged(code, knightos)] :
      code \in Codes \ SelfJumps, knightos \in BOOLEAN }

StepOverJump ==
  /\ SelfJumps # {}
  /\ PC' = Wrap(PC + 2)
  /\ left' = 0
  /\ UNCHANGED <<hookVars, breaks, ons, iff, guest_iff, undone, stopped, at, first, hiding, saved,
                 history>>

step_over ==
  /\ at = "prompt"
  /\ \/ StepOverJump
     \/ /\ \E step \in Steps, address \in Addresses, end \in Addresses :
             /\ address = Wrap(PC + step.size)
             /\ end = Wrap(PC + step.length)
             /\ SetBreak(address, 1, end, step.misjudged)
        /\ StartRun(Endless)
        /\ UNCHANGED <<ons, guestVars>>

-----------------------------------------------------------------------------
(* The two loops of command_run. *)

(* The loop's locals are given up. *)
Finish == at' = "prompt" /\ hiding' = FALSE

RunHooks ==
  /\ at = "before"
  /\ Fire(PC)
  /\ at' = IF CallsWild THEN "crashed" ELSE "check"
  /\ UNCHANGED <<ons, guestVars, left, first, hiding, saved, ran, since>>

\* Mutant of LeavesAtCheck: the first instruction is no exception.
LeavesAtOnce == stopped = 1

LeavesAtCheck == ~first /\ stopped = 1

\* Mutant of FlagAfterCheck: what was raised before the first instruction stays up.
FlagKept == IF LeavesAtCheck THEN 0 ELSE stopped

(* A stop that came in before the first instruction is forgotten. *)
FlagAfterCheck == IF LeavesAtCheck \/ first THEN 0 ELSE stopped

Check ==
  /\ at = "check"
  /\ stopped' = FlagAfterCheck
  /\ \/ /\ LeavesAtCheck
        /\ Finish
        /\ UNCHANGED <<iff, first, saved, since>>
     \/ /\ ~LeavesAtCheck
        /\ first' = FALSE
        /\ since' = IF first THEN -1 ELSE since
        /\ saved' = IF hiding THEN iff ELSE saved
        /\ iff' = IF hiding THEN FALSE ELSE iff
        /\ at' = "tick"
        /\ UNCHANGED hiding
  /\ UNCHANGED <<hookVars, breaks, ons, PC, guest_iff, undone, left, ran>>

\* Mutant of Restored: the saved flip-flops are forgotten.
RestoredNot(guest) == guest

Restored(guest) == IF hiding THEN saved ELSE guest

(* What the guest does to its flip-flops in a slice, as far as the last       *)
(* instruction to do anything counts: nothing; EI; DI or being interrupted.   *)
Effects == {"none", "on", "off"}
Made(effect, flip) == IF effect = "none" THEN flip ELSE effect = "on"

(* runloop_tick_cycles(1), during which an `on' hook may run `stop'. What a    *)
(* hidden EI or DI made of the flip-flops does not last: they are put back.    *)
Tick ==
  /\ at = "tick"
  /\ \E address \in Addresses, effect \in Effects, access \in BOOLEAN :
       LET stop == access /\ Called(On) # {} IN
       /\ PC' = address
       /\ iff' = Restored(Made(effect, iff))
       /\ guest_iff' = Made(effect, guest_iff)
       /\ undone' = IF effect = "none" THEN undone ELSE hiding
       /\ stopped' = IF stop THEN 1 ELSE stopped
       /\ since' = IF since >= 0 THEN since + 1 ELSE IF stop THEN 0 ELSE -1
  /\ ran' = TRUE
  /\ saved' = FALSE
  /\ at' = "after"
  /\ UNCHANGED <<hookVars, breaks, ons, left, first, hiding>>

(* The counted loop calls the hooks of the other array, where nobody is; the  *)
(* endless one calls the same hooks again, for the next instruction.         *)
RunHooksAgain ==
  /\ at = "after"
  /\ IF left = Endless
       THEN Fire(PC)
       ELSE UNCHANGED <<stopped, breaks, hookVars>>
  /\ at' = IF left = Endless /\ CallsWild THEN "crashed" ELSE "test"
  /\ UNCHANGED <<ons, guestVars, left, first, hiding, saved, ran, since>>

(* The endless loop leaves the flag as it is, the counted one clears it. *)
Test ==
  /\ at = "test"
  /\ \/ /\ stopped = 1
        /\ stopped' = IF left = Endless THEN 1 ELSE 0
        /\ Finish
        /\ UNCHANGED left
     \/ /\ stopped = 0 /\ left = 1
        /\ left' = 0
        /\ Finish
        /\ UNCHANGED stopped
     \/ /\ stopped = 0 /\ left # 1
        /\ left' = IF left = Endless THEN Endless ELSE left - 1
        /\ at' = "before"
        /\ UNCHANGED <<stopped, hiding>>
  /\ UNCHANGED <<hookVars, breaks, ons, guestVars, first, saved, history>>

(* sigint_handler: at the prompt it ends the program. *)
SIGINT ==
  /\ at \notin {"exited", "crashed"}
  /\ stopped' = 1
  /\ at' = IF at = "prompt" THEN "exited" ELSE at
  /\ since' = IF at = "prompt" \/ since >= 0 THEN since ELSE 0
  /\ UNCHANGED <<hookVars, breaks, ons, guestVars, left, first, hiding, saved, ran>>

-----------------------------------------------------------------------------
Init ==
  /\ InitHooks(Chunks)
  /\ breaks = <<>> /\ ons = 0
  /\ PC = 0 /\ iff = FALSE /\ guest_iff = FALSE /\ undone = FALSE
  /\ stopped = 0
  /\ at = "prompt" /\ left = 0 /\ first = FALSE /\ hiding = FALSE /\ saved = FALSE
  /\ ran = FALSE /\ since = -1

Next ==
  \/ command_break \/ command_on \/ command_run \/ command_stop \/ step_over
  \/ RunHooks \/ Check \/ Tick \/ RunHooksAgain \/ Test
  \/ SIGINT

Spec == Init /\ [][Next]_vars

-----------------------------------------------------------------------------
Grew == Len(callbacks[Before]) > chunk

BreakData == [address: Addresses, count: Int, hook_id: Nat \ {0}, after: Addresses,
              misjudged: BOOLEAN]

TypeOK ==
  /\ chunk \in Chunks
  /\ callbacks \in [Kinds -> Seq(Nat \cup {Free, Wild})]
  /\ breaks \in Seq(BreakData)
  /\ ons \in Nat
  /\ PC \in Addresses /\ iff \in BOOLEAN /\ guest_iff \in BOOLEAN /\ undone \in BOOLEAN
  /\ stopped \in {0, 1}
  /\ at \in {"prompt", "before", "check", "tick", "after", "test", "exited", "crashed"}
  /\ left \in Nat \cup {Endless}
  /\ first \in BOOLEAN /\ hiding \in BOOLEAN /\ saved \in BOOLEAN
  /\ ran \in BOOLEAN /\ since \in Int

(* A breakpoint that has been used up removes the slot it remembers: the slot *)
(* must still be its own. And nobody who is registered is lost, except among  *)
(* the execution hooks once their array has grown.                           *)
HooksInv ==
  /\ \A s \in Called(Before) :
       callbacks[Before][s] = Wild \/ breaks[callbacks[Before][s]].hook_id = s
  /\ ~Grew => \A i \in DOMAIN breaks :
                breaks[i].count = 0 \/ callbacks[Before][breaks[i].hook_id] = i
  /\ \A k \in 1..ons : \E s \in DOMAIN callbacks[On] : callbacks[On][s] = k

(* No slice but the first of a command begins at an address with a breakpoint *)
(* that is there for ever, whatever other breakpoints came and went and       *)
(* wherever SIGINT fell; as long as the array of hooks has not grown.         *)
Unlimited == {breaks[i].address : i \in {j \in DOMAIN breaks : breaks[j].count = -1}}

BreakpointsHold == at = "tick" /\ ran /\ ~Grew => PC \notin Unlimited

(* The same without the exception: what `break' promises. Not so: see hooks.c:378. *)
EveryBreakpointHolds == at = "tick" /\ ran => PC \notin Unlimited

(* The handler says it stops the emulation. Once the first instruction of a   *)
(* command is on its way, no more than the slice under way or about to begin  *)
(* runs after it; before that a stop is forgotten.                           *)
InterruptHeeded == since <= 1

(* An endless run that nobody asked to stop ends only where a breakpoint, or  *)
(* the one step_over left, is. A flag that is left over from the command      *)
(* before does not end it.                                                   *)
StopsWhereAsked ==
  at = "prompt" /\ left = Endless /\ since = -1
    => \E i \in DOMAIN breaks : breaks[i].address = PC

(* A run that begins on a breakpoint gets off it: no command that has        *)
(* something to run returns before it has run something.                     *)
RunMakesProgress == [][at # "prompt" /\ at' = "prompt" => ran]_vars

(* A step over stops where it says: while its breakpoint is still to be hit,  *)
(* the guest does not run on from the address right behind the instruction   *)
(* stepped over. That address is what the processor's code and the extensions *)
(* of KnightOS say, the breakpoint's what the disassembler says; they agree   *)
(* for every instruction, with and without `knightos', but those of Misjudged. *)
RunsOnFrom(i) == at = "tick" /\ ran /\ ~Grew /\ breaks[i].count = 1 /\ PC = breaks[i].after

StepOverStops == \A i \in DOMAIN breaks : RunsOnFrom(i) => breaks[i].misjudged

(* The same without the exception, which is what step_over promises: "set a    *)
(* breakpoint for the instruction after the current one" (on.c:221). Not so   *)
(* for a system call of KnightOS: see on.c:244-247.                          *)
EveryStepOverStops == \A i \in DOMAIN breaks : ~RunsOnFrom(i)

(* Outside of a slice the flip-flops are as the guest's last EI, DI or         *)
(* interrupt made them, through any number of slices and commands with and    *)
(* without `nointonstep', also when a breakpoint, a `stop' or ^C ends them;    *)
(* unless the last one was in a slice with interrupts hidden. What such a     *)
(* slice does to them is undone: a step with `nointonstep' over EI or DI does  *)
(* not execute it.                                                           *)
HidingKeepsTheRest == at # "tick" /\ ~undone => iff = guest_iff
==============================================================================
