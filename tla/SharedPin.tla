------------------------------ MODULE SharedPin ------------------------------
(***************************************************************************)
(* One interrupt pin, three parties: the interrupt controller              *)
(* (interrupts.c), the link assist (link.c) and the processor that polls   *)
(* it. The two devices know nothing of each other and both store to        *)
(* cpu->interrupt. The guest is a small operating system: its main program *)
(* sleeps and uses the ports in any order; its handler reads the cause     *)
(* (port 4), acknowledges exactly what it read (port 2), enables           *)
(* interrupts again and returns.                                           *)
(*                                                                         *)
(* A processor step is a whole instruction: Cpu implements                 *)
(* InterruptDiscipline, and so does this module.                           *)
(***************************************************************************)
EXTENDS Naturals

CONSTANTS Sources, OnKey, AckPort, Bytes, Nothing, Assisted,
          Timer,       \* the source that ticks for ever
          MainMasks,   \* what the main program writes to port 3
          LinkMasks,   \* what it writes to port 8
          MaxDepth     \* handlers that may be stacked before the model stops interrupting

ASSUME TimerAssumption == Timer \in Sources /\ \A m \in MainMasks : Timer \in m
ASSUME GuestAssumption == MainMasks \subseteq SUBSET Sources /\ MaxDepth \in Nat

VARIABLES enabled, interrupted, on_key_pressed,   \* interrupts.c
          mask, status, rx_buffer, tx_buffer,     \* link.c
          iff, shield, asleep, mode,              \* the processor
          interrupt,                              \* the pin
          pc, cause, depth                        \* the guest

controller == <<enabled, interrupted, on_key_pressed>>
linkAssist == <<mask, status, rx_buffer, tx_buffer>>
processor  == <<iff, shield, asleep, mode>>
guest      == <<pc, cause, depth>>
vars == <<controller, linkAssist, processor, interrupt, guest>>

IC   == INSTANCE Interrupts
Link == INSTANCE LinkAssist
CPU  == INSTANCE InterruptDiscipline WITH pin <- interrupt, inside <- FALSE

ASSUME LinkAssumption == LinkMasks \subseteq SUBSET Link!MaskBits /\ 0 \in Bytes

Places == {"im", "mask", "enable", "main", "read", "ack", "ei", "ret"}

TypeOK ==
  /\ IC!TypeOK
  /\ Link!TypeOK
  /\ CPU!TypeOK
  /\ pc \in Places /\ cause \subseteq Sources /\ depth \in 0..MaxDepth

Init ==
  /\ IC!Init
  /\ Link!Init
  /\ CPU!Init
  /\ pc = "im" /\ cause = {} /\ depth = 0

-----------------------------------------------------------------------------
(* The processor. An instruction starts when no interrupt is due. *)

Instruction(from, to) ==
  /\ ~CPU!Due /\ asleep = 0
  /\ pc = from /\ pc' = to
  /\ UNCHANGED mode

Plain == shield' = 0 /\ UNCHANGED <<iff, asleep>>

\* Mutant of EnableInterrupts: the next instruction is not shielded.
EnableAtOnce == iff' = 1 /\ shield' = 0 /\ UNCHANGED asleep

EnableInterrupts == iff' = 1 /\ shield' = 1 /\ UNCHANGED asleep

\* Mutant of Accept: a processor that sleeps goes on sleeping in the handler.
AcceptAsleep ==
  /\ CPU!Due /\ mode # 0 /\ depth < MaxDepth
  /\ iff' = 0
  /\ pc' = "read" /\ depth' = depth + 1
  /\ UNCHANGED <<controller, linkAssist, asleep, shield, mode, interrupt, cause>>

(* Push the program counter and jump to the handler. *)
Accept ==
  /\ CPU!Due /\ mode # 0 /\ depth < MaxDepth
  /\ iff' = 0 /\ asleep' = 0
  /\ pc' = "read" /\ depth' = depth + 1
  /\ UNCHANGED <<controller, linkAssist, shield, mode, interrupt, cause>>

(* A turn of the loop that finds the processor asleep and nothing due. *)
Sleep ==
  /\ ~CPU!Due /\ asleep = 1
  /\ shield' = 0
  /\ UNCHANGED <<controller, linkAssist, iff, asleep, mode, interrupt, guest>>

-----------------------------------------------------------------------------
(* The guest: start-up *)

BootMode ==    \* IM 1
  /\ ~CPU!Due /\ asleep = 0 /\ pc = "im" /\ pc' = "mask"
  /\ mode' = 1
  /\ Plain
  /\ UNCHANGED <<controller, linkAssist, interrupt, cause, depth>>

BootMask ==    \* OUT (3), A
  /\ Instruction("mask", "enable") /\ Plain
  /\ \E m \in MainMasks : IC!write_interrupt_mask(m)
  /\ UNCHANGED <<linkAssist, cause, depth>>

BootEnable ==  \* EI
  /\ Instruction("enable", "main") /\ EnableInterrupts
  /\ UNCHANGED <<controller, linkAssist, interrupt, cause, depth>>

(* The main program *)

MainHalt ==
  /\ Instruction("main", "main")
  /\ asleep' = 1 /\ shield' = 0
  /\ UNCHANGED <<controller, linkAssist, iff, interrupt, cause, depth>>

MainMask ==
  /\ Instruction("main", "main") /\ Plain
  /\ \E m \in MainMasks : IC!write_interrupt_mask(m)
  /\ UNCHANGED <<linkAssist, cause, depth>>

MainLinkMask ==
  /\ Instruction("main", "main") /\ Plain
  /\ \E m \in LinkMasks : Link!write_link_assist_enable_port(m)
  /\ UNCHANGED <<controller, cause, depth>>

MainReceive ==
  /\ Instruction("main", "main") /\ Plain
  /\ Link!read_link_assist_rx_port
  /\ UNCHANGED <<controller, cause, depth>>

MainSend ==
  /\ Instruction("main", "main") /\ Plain
  /\ \E b \in Bytes : Link!write_link_assist_tx_port(b)
  /\ UNCHANGED <<controller, cause, depth>>

(* The interrupt handler *)

HandlerRead ==    \* IN A, (4): the cause
  /\ Instruction("read", "ack") /\ Plain
  /\ cause' = interrupted
  /\ UNCHANGED <<controller, linkAssist, interrupt, depth>>

HandlerAck ==     \* OUT (2), A: a zero bit for every source that was read
  /\ Instruction("ack", "ei") /\ Plain
  /\ IC!write_acknowledged_interrupts(Sources \ cause)
  /\ UNCHANGED <<linkAssist, cause, depth>>

HandlerEnable ==  \* EI
  /\ Instruction("ei", "ret") /\ EnableInterrupts
  /\ UNCHANGED <<controller, linkAssist, interrupt, cause, depth>>

HandlerReturn ==  \* RET
  /\ ~CPU!Due /\ asleep = 0 /\ pc = "ret"
  /\ pc' = IF depth = 1 THEN "main" ELSE "ret"
  /\ depth' = depth - 1 /\ cause' = {}
  /\ Plain
  /\ UNCHANGED <<controller, linkAssist, mode, interrupt>>

-----------------------------------------------------------------------------
(* Between two instructions: the timers, the ON key, the other end of the link *)

TimerTick ==
  /\ IC!Fire(Timer)
  /\ UNCHANGED <<linkAssist, processor, guest>>

OnKeyMoves ==
  /\ IC!depress_on_key \/ IC!release_on_key
  /\ UNCHANGED <<linkAssist, processor, guest>>

HostSends ==
  /\ \E b \in Bytes : Link!link_recv_byte(b)
  /\ UNCHANGED <<controller, processor, guest>>

HostCollects ==
  /\ Link!link_read_tx_buffer
  /\ UNCHANGED <<controller, processor, guest>>

Main == MainHalt \/ MainMask \/ MainLinkMask \/ MainReceive \/ MainSend
Boot == BootMode \/ BootMask \/ BootEnable
Handler == HandlerRead \/ HandlerAck \/ HandlerEnable \/ HandlerReturn
Processor == Accept \/ Sleep \/ Boot \/ Main \/ Handler
Environment == TimerTick \/ OnKeyMoves \/ HostSends \/ HostCollects

Next == Processor \/ Environment

Spec == Init /\ [][Next]_vars

(* The run loop alternates for ever between the processor, the timers' ticks *)
(* and the link (runloop_tick_cycles).                                       *)
FairSpec == Spec /\ WF_vars(Processor) /\ WF_vars(TimerTick) /\ WF_vars(HostCollects)

-----------------------------------------------------------------------------
(* Properties *)

(* Handlers never nest: the instruction after EI is shielded, so the return  *)
(* leaves the stack before the pin, still raised or raised again, is looked  *)
(* at; and a handler runs to its EI undisturbed.                             *)
HandlersDoNotNest ==
  /\ depth <= 1
  /\ depth = 1 <=> pc \in {"read", "ack", "ei", "ret"}
  /\ depth = 1 => asleep = 0

(* What the controller has latched stays latched until the handler has read  *)
(* it or the guest has disabled it: a source that fires between the read of  *)
(* port 4 and the write to port 2 is not lost with the ones acknowledged.    *)
SeenBeforeGone ==
  [][\A s \in interrupted \ interrupted' : s \in cause \/ s \notin enabled']_vars

(* Each device is hidden behind a low pin only by the guest's use of the      *)
(* other one: a source the controller has latched by a write to the link      *)
(* assist's mask or by taking a byte from it; the byte the link assist has    *)
(* announced by a new mask of the controller or by an acknowledge.            *)
Hidden == interrupted # {} /\ interrupt = 0
ByteHidden == "int_rx_ready" \in status /\ Link!RaisesFor("rx") /\ interrupt = 0

OnlyTheOtherDeviceHides ==
  [][/\ Hidden' => Hidden \/ MainLinkMask \/ MainReceive
     /\ ByteHidden' => ByteHidden \/ BootMask \/ MainMask \/ HandlerAck]_vars

(* Even so nothing stays hidden: while one timer keeps ticking, every latched *)
(* source is read by the handler, unless the guest disables it.               *)
EventuallySeen ==
  \A s \in Sources : s \in interrupted ~> (s \in cause \/ s \notin enabled)

(* With the devices and the guest in place the processor's steps are the     *)
(* instruction-level discipline.                                             *)
ImplementsDiscipline == CPU!Spec
==============================================================================
