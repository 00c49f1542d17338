# A verification model of z80e

z80e emulates the Z80-based Texas Instruments calculators (TI-73 to TI-84+ CSE).
These modules model its library, `libz80e/`, and the parts of the frontends that
act on it: the processor's execution loop and the interrupt controller, link
assist, Flash chip, memory mapping, LCD and keyboard around it; the run loop with
its hardware timers and sockets; the debugger with its hooks, breakpoints and
stepping. TLC checks each on a small instance; TLAPS proves the main safety
properties and the refinements for every value of the constants.

Everything of the emulator runs in one thread. What makes the code hard is not
preemption but the order of calls: the guest program is arbitrary, the devices act
on the processor between any two instructions or in the middle of a port access,
callbacks add and remove callbacks, a signal handler sets a flag anywhere, clients
at the other end of a socket come and go, and several components keep redundant
state (flags, latches, a recorded command, a bank table, a drawn screen) that
different functions update.

## 1. Inventory

| Component | Source (`libz80e/src/…`) | State | Operations | Interacts with | Hard behaviour, and what makes it correct |
|---|---|---|---|---|---|
| Processor | `core/cpu.c` | registers, `IFF1/2`, `IFF_wait`, `int_mode`, `halted`, `prefix`, `interrupt` | `cpu_execute`, one turn per opcode byte | devices through port callbacks; memory through `read_byte`/`write_byte`; called by the run loop | delayed enable, prefixes, budget boundary; an interrupt is taken between two instructions and only when enabled, and a call returns |
| Interrupt controller | `ti/hardware/interrupts.c`, `status.c` | `enabled`, `interrupted`, `on_key_pressed` | ports 2, 3, 4, ticks, ON key | stores `cpu->interrupt` | the pin follows what is latched; no source is acknowledged unseen |
| Link assist, and the host behind it | `ti/hardware/link.c`, `runloop/runloop.c` (`link_socket_update`), `debugger/commands/link.c` | interrupt mask, status bits, two one-byte buffers; client slots, accept counter, open file | ports 0, 8, 9, A, D; host's receive and collect; accept, read, write, close; a hook that feeds a file | stores `cpu->interrupt` too; called after every slice and by the guest's reads | no byte lost, repeated or overwritten, with several senders for one buffer and clients that hang up; flags agree |
| Flash chip | `ti/memory.c`, `ti/hardware/flash.c` | array, lock, recorded writes | read, write, port 14h, debugger store | read by every opcode fetch | the record stays in its buffer; command automaton; sector boundaries |
| Memory mapping | `ti/hardware/memorymapping.c` | paging registers, bank table | ports 4 to 7 | bank table is read by `memory.c`; port 4 also sets the timers' speed | the table is a cache of the registers; every bank maps a page that exists |
| Run loop, hardware timers | `runloop/runloop.c`, `ti/asic.c`, `speed.c` | timer slots, planned ticks, clock rate | one slice of cycles; add, remove, set rate | calls processor, ticks, link, sockets | ticks in order, on time, lost only with the slice's last instruction; timers never fast; slots reused while a tick is planned |
| LCD | `ti/hardware/t6a04.c` | cursor, mode bits, read register, RAM | ports 10h, 11h | LCD hook, which tells the window to redraw | the cursor is bounded by a width that the word length changes; the hook is called only for writes that change something |
| Keyboard | `ti/hardware/keyboard.c` | group mask, matrix | port 1; press, release | the window's key events | groups accumulate; several host keys stand for one key |
| Crystal timers | `ti/hardware/timers.c` | nine registers | ports 30h to 38h | none: nothing counts them down | – |
| Hooks | `debugger/hooks.c` | slot arrays that grow | add, remove, run | processor, memory, LCD | a hook stays registered until removed, in the slot its owner remembers, also while hooks run and arrays grow |
| Debugger | `debugger/debugger.c`, `debugger/commands/*` | command list, stop flag, flags, breakpoints | run, step, step over, break, `on … stop`, link, expressions, … | run loop, hooks, signal handler | the stop flag has three writers (^C, breakpoints, `stop`) and is reset in a loop; flip-flops around a step |
| Disassembler | `disassembler/disassemble.c` | none | one instruction to text and length | step over, the prompt | its length of an instruction is the processor's |
| Frontends | `frontends/*` | window, terminal, signals | main loops, events | run loop, keys, LCD hook, ^C | what the window shows is what the LCD holds |

`PROJECT.json` lists the hazards found while reading, each at its line.

## 2. Modules

```
 Z80Decode ─┬─ Cpu ──────── implements ──> InterruptDiscipline
            │                                      ^
            ├─ Operands ─────┐                     │ implements
            ├─ Disassembler ─┼─ Debugger           │
            │  Hooks ────────┘                     │
                                                   │
 Interrupts ─┬──────────────┬─ SharedPin ──────────┘
 LinkAssist ─┼──────────────┘
     │       │   └─ implements ──> LinkChannel
     │       │
     │       └─┬─ Frontend
     │    Lcd ─┤
     │ Keyboard┘
     │
     └─ LinkSockets

 FlashChip ── implements ──> FlashCommands        MemoryMapping        Runloop
```

`MC*` modules give values to constants and nothing else; `*Proofs` hold theorems.

**Z80Decode** (pure operators): how an opcode byte is read in a prefix state:
the bit fields of `struct ExecutionContext`, the three opcode tables, the next
prefix, the classes the interrupt logic can tell apart (EI, DI, HALT, IM, invalid
ED opcodes, port accesses) and the cycle cost of each opcode. Registers, flags
and memory are abstracted; `taken` is what the cost depends on of them (a
condition holds, a repeat counter has not run out).

**Cpu**: `cpu_execute`. `AcceptInterrupt` / `AcceptUnsupported` / `HaltIdle` /
`ExecutePlain` / `ExecutePort` are the ways one turn of the `while` can go;
`Call` and `Return` are the caller's. A turn fetches any byte of `Opcodes`, so
the guest's program is arbitrary. The pin belongs to the devices: it moves in a
port access and between two calls (`DeviceMovesPin`). `cycles` is counted down
to `-Floor` and no further: the loop tests only its sign.

**InterruptDiscipline** (abstract): the promise to the guest, a whole
instruction at a time: a due interrupt is served before the next instruction
begins, never inside one, serving turns interrupts off, EI shields the next
instruction. Mode 0 is unsupported by the code and only ends a HALT.
Refinement: `iff <- IFF2`, `inside <- prefix # NoPrefix`, `shield <- IFF_wait`
while interrupts are on (a wait left over with interrupts off has no effect).

**Interrupts**: `interrupts.c`, one action per function that changes state.
Bit fields are sets of sources. The two functions no device calls
(`ti_interrupts_set_interrupt_enabled`, `ti_interrupts_acknowledge_interrupt`)
are part of the library's interface and are modelled as well.

**LinkAssist**: the operations of ports 8, A, D that change something (a read of
port 9 does not) and the host's `link_recv_byte`, `link_read_tx_buffer`; **LinkChannel** (abstract): one byte in transit each way.
Refinement: a buffer counts as full while `rx_ready`, respectively `tx_active`,
is set.

**LinkSockets** adds what is at the other end: `link_socket_update`, run after every
slice with the byte that `Collect` has taken from the link assist, and `link send`
of a file, whose hook feeds the next byte whenever the guest has read port A.
`phase` says where the one thread is; the clients are processes of their own that
connect, send and hang up at any time. One update is one action: it polls every
slot with one state of the world, accepts when the counter comes round, drops who
has hung up, reads one byte if the link is ready and writes the guest's byte to
everyone. The history variables record per origin what was sent, read and lost,
and which origin the byte in the buffer came from.

**SharedPin** composes the two devices (by `INSTANCE`, sharing `interrupt`) with
a processor that steps through whole instructions and a guest: start-up, a main
program that halts and uses the ports in any order, and a handler that reads port
4, acknowledges on port 2 what it read, executes EI and returns. Ticks, the ON
key and the host act between instructions. `depth` counts the return addresses on
the guest's stack. The guest is one for calculators with the acknowledge port
(`AckPort`); on the TI-73 and TI-83+ it would stop at its `OUT (2)`, and what is said
of its steps holds up to there. The module implements InterruptDiscipline, as `Cpu` does: that
is what joins the two.

**Lcd**: a bit matrix `ram` with a cursor over it, in words of two lengths; a word
and a register are sets of bit numbers. `advance_pointer` keeps the code's order
of comparison and wrap-around, including a Y outside the row. The read register is
not initialised, so any word may be in it at the start. Contrast, op-amps and the
status byte are left out. **Keyboard**: the matrix as the set of its zeros.

**Frontend** composes `Interrupts`, `Lcd` and `Keyboard` with the SDL window: its
key events (several host keys for one code), the ON key, the 60 Hz redraw under
`lcd_changed`, window events, and a guest that uses all the ports. The devices
share no state but `cpu->interrupt`, so `focus`, which never changes, lets each
behaviour exercise one part: the sum of their state spaces instead of the product.

**Operands** and **Disassembler** (pure operators): how far `cpu_execute` moves PC
over an instruction that does not jump, and how long `parse_instruction` says it
is, both as recursive functions over the bytes at PC.

**Hooks**: an array per kind of hook; a slot holds its owner, `Free`, or `Wild`
(the uninitialised rest of an array that grew from the wrong end, `hooks.c:378`).
The kinds share their code but for that growth. **Debugger** uses the execution
hooks: `command_break`, `step_over`, `command_on` with `stop`, `command_run` with its
two loops split where a signal or a callback can come between (`at`), and `SIGINT`,
enabled everywhere. A slice moves PC anywhere and leaves the flip-flops alone, sets
or resets them (`Effects`). `since` counts the slices begun since a stop came in,
`guest_iff` is what the guest made of its flip-flops whether or not that was undone,
and `undone` whether the last such slice had its interrupts hidden. A breakpoint
remembers the address that was meant (`after`) beside the one that was set; for a
step over it is the end of the instruction by `EndOver`: the processor's, with the
word behind KnightOS's RST 20h and the instruction behind its RST 8. Calling a
`Wild` slot ends the model (`crashed`).

**FlashChip**: a cell is a chip address; `flash_writes` is the recorded part of
the C array; the handlers, the masks and shifts of the sector arithmetic and the
search order of the table are the code's. A byte is the set of its one bits, so
that `&=` is intersection. **FlashCommands** (abstract): the command automaton of
a NOR Flash part, with the sector boundaries as a set of addresses.
Refinement: the automaton's state is a function of the record (`Cycle`).
`last` is a history variable (the last access was a read or a write).

**MemoryMapping**: the writes to ports 4 to 7, each with the `reload_mapping` that
ends it. `Mapping` is that function without its log messages: `Selected` the two
map modes, `Existing` the check of the page numbers. The calculator is a variable
that no step changes, so one run covers all six. Port 4 also selects the speed of
the two hardware timers; the model keeps which one (`timer_speed`).
The table is a cache, so the specification of it is the invariant `BanksCurrent`.

**Runloop**: `runloop_tick_cycles` and the timers of `asic.c`. `Plan` is the
function up to its loop: every timer plans its ticks of the slice (`PlannedTimes`,
the closed form of the `retry` loop), the array grows (`Capacity`), the ticks are
sorted (`Orders`; `qsort` may leave ticks of one cycle in either order) and the
timers are counted down. `Round` is one turn of the loop: the processor runs what
it is given and at most one instruction more (`Runs`), the tick that is due is
fired and the next budget is read from the array, whatever is there: what earlier
slices left, or zeros, or what `realloc` happens to return (`Garbage`). An entry
beyond the array is compared with any result. `GuestWrites` are ports 4 and 20h,
written inside `cpu_execute`. The history variables are `slices`, the `owner` of a
planned tick and a timer's `earned`, what the program has asked for since the timer
was set less a period for each planned tick. `asic_set_clock_rate` divides by the
cycles left; when they are zero the infinite quotient is stored in an `int`, which
is undefined: the flag `undefined` is set and nothing is described after it.
What a tick does (latch a source, refresh a screen) is in `Interrupts` and
`Frontend`, and what becomes of the byte the loop collects is in `LinkSockets`.

## 3. Runs

| Run | Instance | Shows |
|---|---|---|
| `Cpu` | 73 bytes of every class, budgets −3, 0, 1, 9, 30 | `ControlInv`, `ImplementsDiscipline`, `PinServed`, `ModeZeroStarves`, `ReturnsToCaller` |
| `Frontend` | 3 of 7 sources; 4 host keys for 3 codes; an LCD of 2 × 6 bits | `PinTracksPending`, `KeysSeen`, `ScreenCurrent`, `CursorWalks` |
| `SharedPin` | ON key and one timer, every link mask, one byte value | `HandlersDoNotNest`, `SeenBeforeGone`, `OnlyTheOtherDeviceHides`, `EventuallySeen`, `ImplementsDiscipline` |
| `LinkSockets` | 3 clients, 2 slots, a file, 2 byte values | `HandshakeInv`, `BytesArrive`, `ClientsHear`, `ImplementsChannel`, `TransmitterRecovers` |
| `FlashChip` | 32 pages, 4 cells, 5 bytes | `RecordInv`, `ImplementsCommands` |
| `MemoryMapping` | all six calculators, 19 bytes | `BanksCurrent`, `RestoringRestores`, `WindowsInv`, `PortsKeepToTheirBanks` |
| `Runloop` | 2 host timers and the 2 of port 4, slices of 1, 3 and 6 cycles, 2 slices | `TypeOK`, `PendingReachTheirTimer`, `OnlyOvershootDelays`, `OverrunIsStale`, `TimersNeverFast`, `TickWithinPeriod`, `TicksOnTime`, `SliceEnds` |
| `Debugger` | 3 addresses, 2 breakpoints, hook arrays of 1 and 2; every opcode to step over | `HooksInv`, `BreakpointsHold`, `InterruptHeeded`, `StopsWhereAsked`, `StepOverStops`, `HidingKeepsTheRest`, `RunMakesProgress` |
| `ChipErase` | as `FlashChip` | violation, see below |
| `MissingPages` | as `MemoryMapping` | violation, see below |
| `HookGrowth` | as `Debugger`, hook arrays of 1 | violation, see below |
| `SystemCalls` | as `Debugger`, 6 addresses, a system call of KnightOS at PC | violation, see below |

Type invariants are theorems, or parts of the inductive invariants (section 4); only
Runloop's is also a run's, since its mutant is about the array of ticks that grows.

Bounds. `Floor` is 23, the largest cost of an opcode: nothing below is told apart
by the loop. The budgets contain a negative one and zero (the run loop passes
both), one that every instruction overshoots, and one that holds several
instructions. The bytes are all of rows 0 and 6 of the three opcode tables, which
hold the costs and operand forms, and from the other rows every byte the loop
treats in its own way. The controller treats its sources alike, so three stand for
seven. Frontend's keys are two host keys of one code, a neighbour in the same group
and the same bit of another group; its LCD has two words of three bits or three of
two in a row, values of Y behind both, and a window narrower than the matrix, as on
the calculator. `MaxWrites` and `MaxMoves` end a behaviour: two writes suffice for a
change and its repetition, five moves for a walk through all values of Y and back.
In LinkSockets two slots for three clients let a connection find every slot taken
and a slot be taken again; the accept counter (`AcceptPeriod`, 4096 in the code) is 0
because it only delays, and clients connect when they like; the backlog is 1.
In Debugger `MaxBreaks` and `MaxOn` bound what is set; arrays of one and two hooks grow
with and without room to spare. Addresses are counted modulo 3, so `StepOverStops`
would miss an end that is three bytes off; `LengthsAgree` (section 4) compares the
two lengths as numbers. `SystemCalls` needs more addresses than the five bytes step
over goes by. When the debugger has reached
its bounds at a prompt, or called a wild hook, the run stops (`CHECK_DEADLOCK FALSE`).
Two sources are enough for SharedPin: one that ticks for ever and one that fires
in the window between the read and the acknowledge. `MaxDepth = 2` lets handlers
nest once if the code allowed it; the invariant says `depth` never exceeds 1, so
the bound is never what stops them. The four cells of FlashChip are the
two command addresses and the cells on both sides of the boundary between the two
8 KiB sectors; the five bytes are all that occur in commands. The bytes of
MemoryMapping hold both map modes, the last pages of each memory and the first
ones beyond it, even and odd, with and without the bit that selects RAM (bit 6 on
the TI-83+, bit 7 elsewhere). Runloop's periods at the slow rate are 6, 3, 4 and 5
cycles and an instruction overshoots by one; the array starts with 4 entries and
grows by 2, so that the longest slice makes it grow. Two slices are
enough for entries of a longer slice to be read in a shorter one, and for a timer
to be set again under a second slice. The bound on slices (`MaxSlices`) is where
the run stops, hence `CHECK_DEADLOCK FALSE`; the loop itself has none.

Fairness. `cpu_execute` does not block and the frontends call the run loop for
ever (`tui/main.c:294-300`), so turns of the loop, returns and calls are weakly
fair. `PinServed` and `ReturnsToCaller` have premises, because a guest can defeat
both: memory of EI bytes (or invalid ED opcodes) shields every instruction, and memory of prefix
bytes never leaves the loop. The host collects after every slice (`runloop.c:199`),
whatever the guest does in it: `SF(Collect)` in LinkSockets, strong because the
guest's reads leave the phase for the hook again and again, and justified by Cpu's
`ReturnsToCaller`; the hook and the update are calls that return, hence weakly fair.
It is not assumed that a client sends or that the guest reads. In SharedPin the
processor, one timer and the host's collection are weakly fair, as the run loop alternates between them; the ON
key and the sender are not. In Runloop only `Round` is fair, because
`cpu_execute` returns; it is not assumed that the guest writes a port or that the
frontend asks for another slice.

What SharedPin shows. Both devices store to the pin without looking at each
other. A write to port 8, or a read of port A, can lower it over a source the
controller has latched, and a write to port 3 or an acknowledge on port 2 over a
byte the link has announced; `OnlyTheOtherDeviceHides` says these and no other
steps do. `EventuallySeen` says it does no lasting harm as long as a timer keeps
ticking: the next tick raises the pin again and the handler sees what the controller has
latched. That is all it is about: whether the guest comes to read the link's byte
is up to a guest that asks the link. It depends on `ti_interrupts_interrupt` raising the pin even for a source that is
already latched.

What Frontend shows. The window shows the LCD unless a change is announced, with
one exception that `ScreenCurrent` names: setting Z (scrolling) calls no hook, so it
is drawn with the next change of a bit or the next window event. `KeysSeen` holds
for the keys that are down except for a code that two host keys have held at once
(right shift and backspace, for one): releasing either releases the key. A Y set
beyond the row is brought back by moving, after as many moves as there are such
values, in both word lengths and directions.

What LinkSockets shows. The bytes of all senders reach the guest, each sender's in
order and once, because every sender asks the link first and keeps what it refuses.
Bytes are lost in one way, as `BytesArrive` says: a client that closes is dropped
before it is read from (`runloop.c:135`). A connection that is accepted while every
slot is taken is forgotten without being closed; it neither sends nor hears.

What Debugger shows. Breakpoints remove themselves by slot number while the hooks
run; `HooksInv` says that the slot is still theirs. A `^C` before a command's first
instruction is forgotten, since that instruction clears the flag so that a run can
leave a breakpoint (`RunMakesProgress`); after it, at most one slice more runs
(`InterruptHeeded`). `StepOverStops` compares two accounts of every instruction:
the breakpoint is where the disassembler says the instruction ends, and the guest
may not run on from where it does end while that breakpoint is to be hit. The
exceptions are listed in `Misjudged`: DD or FD in front of DD, ED or FD, which
processor and disassembler read differently; KnightOS's system call (see
below); and KnightOS's RST 8 in front of either of the former or of another RST 8.
Every other instruction KnightOS extends is included, behind prefixes too.
`HidingKeepsTheRest` says what `nointonstep` costs: the flip-flops come back as they
were before the slice (`run.c:87-90`), so that an EI, DI or RETN that is itself
stepped over is undone, and nothing that was done before it is, however the command
ends. (A hidden `LD A, I` also reads the hidden flip-flop; registers are not modelled.)

What Cpu shows of mode 0. The code declares it unsupported; `ModeZeroStarves` says
what that comes to: once the pin has been looked at, nothing is fetched and no
flip-flop changes until a device lowers it. `PinServed` excepts that mode.

What Runloop shows. The guest may set the timers again under a planned slice,
which names them by slot. `PendingReachTheirTimer` holds because a timer that is
removed and added again finds the slot it has just left: all the others are in
use. The slice is not as long as it was asked to be: after the last planned tick
the next budget comes from the entry behind it, and when an earlier slice left a
later cycle there the slice runs on to it (`OverrunIsStale` says how far). Timers
lose the cycles between their last tick in a slice and its end, so they run slow,
but never fast (`TimersNeverFast`), and a change of the clock rate, which divides
instead of scaling, leaves the next tick no more than a period away
(`TickWithinPeriod`).

Disagreements between code and its own documentation, each a run that TLC
refutes:

* `ChipEraseErases`: the chip-erase pattern of `memory.c:141-152` is never found,
  because the sector-erase pattern before it has the same length and ends in an
  entry that matches every write; the sequence erases one sector.
* `MappedPagesExist`: `reload_mapping` reports a page that does not exist
  (`memorymapping.c:48, 51`) but compares with `>`: page number *count* is mapped
  without a word, and `&= count` does not bring a larger number into range. RAM
  page 3 of a TI-73, which has three, is the shortest example.
* `EveryBreakpointHolds`: `break` promises to "break at address"
  (`commands/on.c:178`). When the array of execution hooks is full and grows, the
  code clears its first ten entries instead of the ten new ones (`hooks.c:378`; the
  other kinds clear the new ones): the breakpoints in them no longer stop the guest.

* `EveryStepOverStops`: step over promises to "set a breakpoint for the instruction
  after the current one" (`commands/on.c:221`). With `knightos`, the word behind RST
  20h is part of the instruction, and `parse_instruction` counts it
  (`disassemble.c:884-885`); `on.c:244-247` adds its two bytes again. The breakpoint
  is at PC + 5, and the guest, back at PC + 3, runs on.

Seen while reading, and not a run: port 9 shows the interrupt conditions through the
mask (`link.c:104`), while two tests (`frontends/test/tests/devices.c:191, 223`)
compare it with the unmasked `assist.status`. They differ from the initial state on.

## 4. Proofs

| Module | Theorems | Argument |
|---|---|---|
| `CpuProofs` | `TypeCorrect`, `ControlCorrect`, `DisciplineImplemented`, `TurnsSpendCorrect`, `ServiceStepsCorrect`, `ModeZeroStarvesCorrect` | `TypeOK` is inductive given the types of the decode operators (`FieldTypes`, `CostBounds`, `NextPrefixType`, `ModeType`). `ControlInv` is inductive with it. The refinement goes turn by turn: a turn accepts exactly when the discipline's interrupt is due (`AcceptsIffDue`), a prefix byte is `Begin` (`PrefixBegins`), any other byte is one alternative of `Finish` (`OtherByteFinishes`). The last three are step facts: every turn costs cycles; a retired instruction leaves a waiting pin `Ready`, which only a service or the device ends; in mode 0 a pin that is looked at stops the guest. The first two say why `ReturnsToCaller` and `PinServed` hold up to the fairness of the turns |
| `FrontendProofs` | `PinCorrect`, `KeysCorrect`, `ScreenCorrect`, `CursorCorrect`, `WritesKeepOthersCorrect` | four inductive invariants that do not disturb each other (`FaceInv`). `PinInv`: one lemma for operations that add sources, one for those that remove. `KeysInv` ties the matrix to the held keys code by code, except for codes that clashed. `ScreenInv` needs that a write reported clean changes nothing (`CleanWriteChangesNothing`). `CursorInv` measures how far the position is, modulo the register, from where the walk began (`StepsApproach`, `WalkGoesOn`, `WalkEnds`). `WritesKeepOthersCorrect`: a word lies within its row (`WithinRow`) and quotient and remainder are unique (`Unique`), so that two words share no bit (`CellsApart`); it needs Y within the row, and the code lets the guest set one that is not |
| `LinkAssistProofs` | `TypeCorrect`, `HandshakeCorrect`, `ChannelImplemented`, `ArriveCorrect`, `HearCorrect`, `HostUsesAssist` | the channel's steps need `HandshakeInv`: a send is accepted only when `tx_ready`, the abstract outbox is empty only when not `tx_active`. For the sockets, `ArriveInv` adds to `BytesArrive` that nothing is left unread behind what was lost, and each kind of step moves one byte from one place to the next (`FlowSend`, `FlowReceive`, `FlowRead`, `FlowDrop`); `HearInv` adds that a byte is in hand only between collecting and serving, and that the buffer is free when the guest may write. `HostUsesAssist`: every step of the host is a step of `LinkAssist` or leaves it alone, so what was proved of the assist holds with sockets and file in place |
| `SharedPinProofs` | `NoNesting`, `NothingAcknowledgedUnseen`, `OnlyTheOtherHides`, `DisciplineKept`, `TypeCorrect`, `HiddenComesOutCorrect` | `NestInv` strengthens `HandlersDoNotNest` with the values of `iff`, `shield` and `asleep` at each place of the handler: in `ret` interrupts are on but shielded. The action properties follow from which actions touch `interrupted` (`StepsOfTheController`) and the pin (`WhoMovesThePin`). `DisciplineKept` maps each of the guest's instructions to a kind of instruction of the discipline (`PlainFinishes`, `EnableFinishes`), and every device step to a move of the pin. `HiddenComesOutCorrect` is the argument for `EventuallySeen` up to fairness, in five step facts; `WakeInv` says that after start-up interrupts are on outside the handler and the timer stays enabled |
| `FlashChipProofs` | `RecordFits`, `CommandsImplemented`, `TypeCorrect`, `ChipEraseShadowed`, `OnlyCommandsChangeCorrect` | between two bus cycles the record has one of six shapes (`PartialIsShape`), all shorter than six; an append either completes a pattern, grows to the next shape or resets (`Completion`, `Growth`), which is the automaton's step (`StepOfAppend`). `SectorIsBetweenStarts`: masking the address with the length of its sector gives the cells between two neighbouring sector starts, for each chip size the code knows. `ChipEraseShadowed` needs no invariant: a record that completes the chip pattern completes the sector pattern, which is looked at first, whatever the record holds. `OnlyCommandsChangeCorrect` follows an array cell that changes back to the command that was complete |
| `DebuggerProofs` | `TypeCorrect`, `HooksCorrect`, `BreakpointsCorrect`, `InterruptCorrect`, `StopsCorrect`, `HidingCorrect`, `ProgressCorrect`, `StepOverCorrect`, `StepEndsCorrect`, `LengthsAgree`, `SystemCallOvershoots` | the inductive invariant has three parts: `DataInv` (who is registered in which slot, until the array grows), `ControlInv` (where `command_run` is, what its locals and the count of slices since a stop can be there), and `MeetInv`, where the two meet: the flag is up at the check if a breakpoint that is not used up (`Active`) is at PC, and if it is up without a `^C` a breakpoint is. `GrownIs` and `Adding` say what `hook_add` does to an array, `FiringKeeps` what a round of callbacks does. `LengthsAgree`: the two lengths are recursive functions of the bytes, so that they exist is shown first (by induction over the sets of positions, from the last byte back), and then they are compared (`PartAgrees`, for the instruction at PC or the one an RST 8 extends) prefix by prefix and, for an opcode, field by field: each of the disassembler's table entries against the bytes the processor's handler fetches. `StepOverCorrect` joins that (`Lands`: the breakpoint is where the instruction ends) with `MeetInv` (the guest does not pass an active breakpoint); `StepEndsCorrect` joins it with `StopsWhereAsked`. The exceptions of `LengthsAgree` are those of `Misjudged` and no others, and for the system call `SystemCallOvershoots` gives both numbers |
| `MemoryMappingProofs` | `TypeCorrect`, `TableCurrent`, `RestoringCorrect`, `WindowsCorrect`, `PortsIndependent`, `PagesNearlyExistCorrect` | every write ends in `reload_mapping`, so `BanksCurrent` is inductive by itself; `Registers` (pages fit the mask of their calculator) is inductive too, and the other properties follow from the two through `FourBanks`, which gives the table bank by bank. `PagesNearlyExistCorrect` bounds the flaw of section 3: by `ExistingNearlyExists` the comparison with `>` and the `&=` leave a page at most one beyond the last, and no flash page on the calculators whose port cannot select a page numbered like the count (`FullFlash`: TI-83+, 83+ SE, 84+ SE, 84+ CSE). On the TI-73 (32 pages) and the TI-84+ (64) it can, and the page is mapped. `PortsIndependent`: each port moves what it owns in its mode (`Owned`) and no other bank |
| `RunloopProofs` | `TypeCorrect`, `PendingCorrect`, `FiredOnTime`, `DelaysCorrect`, `OverrunCorrect`, `NeverFast`, `WithinPeriod`, `RoundsAreBounded`, `SlowBounded`, `PlannedAsRetried`, `PlansAreComplete` | the inductive invariant says that every slot ever used is in use and its timer good (`TimersInv`), that the planned ticks are sorted and within the slice (`SliceInv`), that the budget ends exactly at the next entry, or with the slice once the array has no say (`BudgetInv`), and that pending ticks name slots of their owners (`PendingInv`). `SetTimer`: removing and adding a timer keeps its slot. `CountOfTimes`: the number of planned ticks, from which `CountedIsGood` follows. `TickFires`: the tick the budget led to is due, on time. `SlowBounded` has an invariant of its own (`SlowInv`): what planning leaves over is less than a period for each slice, and neither a tick, a change of rate nor a timer set again adds to it. `PlannedAsRetried` is about the translation: the model gives a timer's planned ticks in closed form, and these are what the passes of the `retry` loop (`Retries`) record, for every number of passes. `PlansAreComplete` rests on `SortingSorts`: the recursion in `Arrangements` has a solution (`TakenExists`, by induction over the sizes of subsets), and every arrangement has each tick once and in order (`TakenArranged`) |

Assumptions are those of the modules' `ASSUME`s: opcodes are bytes, budgets are
integers no smaller than `-Floor`; the ON key is one of the sources; 0 is a byte
of the link and `Nothing` is not; the file is not a client, texts are sequences of
bytes; addresses are an initial segment of the naturals and the two hook arrays
are different ones; Y's register holds no fewer values than a row has words, and
the window is no wider than the matrix; the masks the guest writes contain the
timer, and those for the link are sets of its mask bits;
the chip has 32, 64, 128 or 256 pages (`ti_mmu_init`) and cells lie in it; the
calculators are the six of `ti_mmu_init` and port data are bytes; the codes of the
debugged program are sequences of at least six bytes; frequencies are
positive whole numbers no larger than the clock rates, slices are positive.

Only model-checked: everything under fairness (`PinServed`, `ReturnsToCaller`,
`TransmitterRecovers`, `EventuallySeen`, `SliceEnds`), which is beyond the prover.
The facts about single steps that they rest on are proved: `ServiceStepsCorrect`,
`TurnsSpendCorrect`, `HiddenComesOutCorrect`, `RoundsAreBounded`, and for
`TransmitterRecovers` the handshake (`HandshakeCorrect`: a transmitter that is not
ready holds a byte to collect). What is left to TLC is that fair steps are
eventually taken.

## 5. Not modelled

* The data path: register contents, flags, arithmetic. The models need of an
  instruction its class, cost and operands.
* The two wires of link port 0, which only store bits.
* Of the sockets: the command that opens the listening one (it listens from the
  start), errors of `read` and `write`, a `write` that blocks, and a second
  `link send` while a file is being fed. The loop over the slots runs to 20 where
  the array has 10 entries (`runloop.c:120`); the model keeps to the array.
* RAM accesses of `memory.c`, which have no state beyond the byte itself.
* Crystal timers: registers nothing counts down.
* `runloop_tick`'s conversion of elapsed time to cycles, in `float`; a slice of any
  positive length stands for it. Fractional timer frequencies.
* LCD contrast, op-amps and status byte. Every calculator gets this LCD
  (`asic.c:50`), also the one with a colour screen.
* Text output: the disassembler's, logging, debugger printing; command lookup, a
  prefix match over a list sorted once; the expression evaluator.
* Hooks on registers, memory and ports as the debugger's `on` sets them up, beyond
  that they can run `stop`.
* The zex frontend, which writes the bank table directly (`zex.c:69-77`) and has
  no paging ports.

## 6. What could follow

1. `Alu`: addition, DAA and the block instructions against reference definitions.
2. A composition of Runloop and Cpu, with the discipline in place of `Runs`.
3. SharedPin with a guest that is driven by received bytes.
4. Proofs about the host's side: that a byte a client has sent is read or lost
   after a bounded number of updates.
