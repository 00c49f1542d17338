--------------------------- MODULE SharedPinProofs ---------------------------
(***************************************************************************)
(* Two devices, a processor and a guest on one pin, for every set of       *)
(* sources, masks and bytes: handlers do not nest, nothing is acknowledged *)
(* unseen, each device hides only what the other one has pending, and the  *)
(* processor keeps to its discipline among them.                           *)
(***************************************************************************)
EXTENDS SharedPin, TLAPS

InHandler == pc \in {"read", "ack", "ei", "ret"}

(* Why handlers do not nest. Interrupts are on in two places only: in the    *)
(* main program, and between the handler's EI and its RET, where the shield  *)
(* is up. Nothing sleeps outside the main program, so nothing there lowers   *)
(* the shield. HandlersDoNotNest alone is not inductive: a handler with      *)
(* interrupts on could be interrupted.                                       *)
NestInv ==
  /\ depth \in {0, 1}
  /\ depth = 1 <=> InHandler
  /\ asleep \in {0, 1} /\ (asleep = 1 => pc = "main")
  /\ iff = 1 => \/ pc = "main"
                \/ pc = "ret" /\ shield = 1

(* The processor's part of the state is left alone by the devices. *)
LEMMA DevicesKeepTheGuest ==
  ASSUME Environment
  PROVE  UNCHANGED <<processor, guest>>
BY DEF Environment, TimerTick, OnKeyMoves, HostSends, HostCollects

LEMMA NestInvHolds == Spec => []NestInv
<1>1. Init => NestInv
  BY DEF Init, CPU!Init, NestInv, InHandler
<1>2. NestInv /\ [Next]_vars => NestInv'
  <2> SUFFICES ASSUME NestInv, [Next]_vars
               PROVE  NestInv'
    OBVIOUS
  <2> USE DEF NestInv, InHandler
  <2>1. CASE Accept
    <3>1. pc = "main" /\ depth = 0
      BY <2>1 DEF Accept, CPU!Due
    <3> QED
      BY <2>1, <3>1 DEF Accept
  <2>2. CASE Sleep
    BY <2>2 DEF Sleep, guest
  <2>3. CASE Boot
    <3>1. CASE BootMode
      BY <3>1 DEF BootMode, Plain
    <3>2. CASE BootMask
      BY <3>2 DEF BootMask, Instruction, Plain
    <3>3. CASE BootEnable
      BY <3>3 DEF BootEnable, Instruction, EnableInterrupts
    <3> QED
      BY <2>3, <3>1, <3>2, <3>3 DEF Boot
  <2>4. CASE Main
    <3>1. CASE MainHalt
      BY <3>1 DEF MainHalt, Instruction
    <3>2. CASE MainMask
      BY <3>2 DEF MainMask, Instruction, Plain
    <3>3. CASE MainLinkMask
      BY <3>3 DEF MainLinkMask, Instruction, Plain
    <3>4. CASE MainReceive
      BY <3>4 DEF MainReceive, Instruction, Plain
    <3>5. CASE MainSend
      BY <3>5 DEF MainSend, Instruction, Plain
    <3> QED
      BY <2>4, <3>1, <3>2, <3>3, <3>4, <3>5 DEF Main
  <2>5. CASE Handler
    <3>1. CASE HandlerRead
      BY <3>1 DEF HandlerRead, Instruction, Plain
    <3>2. CASE HandlerAck
      BY <3>2 DEF HandlerAck, Instruction, Plain
    <3>3. CASE HandlerEnable
      BY <3>3 DEF HandlerEnable, Instruction, EnableInterrupts
    <3>4. CASE HandlerReturn
      BY <3>4 DEF HandlerReturn, Plain
    <3> QED
      BY <2>5, <3>1, <3>2, <3>3, <3>4 DEF Handler
  <2>6. CASE Environment
    BY <2>6, DevicesKeepTheGuest DEF processor, guest
  <2>7. CASE UNCHANGED vars
    BY <2>7 DEF vars, processor, guest
  <2> QED
    BY <2>1, <2>2, <2>3, <2>4, <2>5, <2>6, <2>7 DEF Next, Processor
<1> QED
  BY <1>1, <1>2, PTL DEF Spec

(* HandlersDoNotNest for every choice of sources, masks and bytes. *)
THEOREM NoNesting == Spec => []HandlersDoNotNest
<1>1. NestInv => HandlersDoNotNest
  BY DEF NestInv, InHandler, HandlersDoNotNest
<1> QED
  BY <1>1, NestInvHolds, PTL

-----------------------------------------------------------------------------
(* Type correctness of the parts the two theorems below rest on. *)
PinType ==
  /\ enabled \subseteq Sources /\ interrupted \subseteq Sources
  /\ interrupt \in {0, 1}

(* The four ways a step can treat the controller. *)
LatchesMore == interrupted \subseteq interrupted'
Drops == interrupted \ interrupted' \subseteq Sources \ enabled'
Acknowledges == interrupted \ interrupted' \subseteq cause

LEMMA StepsOfTheController ==
  ASSUME [Next]_vars, PinType
  PROVE  LatchesMore \/ Drops \/ Acknowledges
<1>1. CASE BootMask \/ MainMask
  BY <1>1 DEF BootMask, MainMask, IC!write_interrupt_mask, Drops, PinType
<1>2. CASE HandlerAck
  BY <1>2 DEF HandlerAck, IC!write_acknowledged_interrupts, Acknowledges, PinType
<1>3. CASE TimerTick
  BY <1>3 DEF TimerTick, IC!Fire, IC!ti_interrupts_interrupt, LatchesMore
<1>4. CASE OnKeyMoves
  BY <1>4 DEF OnKeyMoves, IC!depress_on_key, IC!release_on_key,
              IC!ti_interrupts_interrupt, LatchesMore
<1>5. CASE UNCHANGED controller
  BY <1>5 DEF controller, LatchesMore
<1>6. \/ BootMask \/ MainMask \/ HandlerAck \/ TimerTick \/ OnKeyMoves
      \/ UNCHANGED controller
  BY DEF Next, Processor, Boot, Main, Handler, Environment, vars,
         Accept, Sleep, BootMode, BootEnable, MainHalt, MainLinkMask, MainReceive, MainSend,
         HandlerRead, HandlerEnable, HandlerReturn, HostSends, HostCollects
<1> QED
  BY <1>1, <1>2, <1>3, <1>4, <1>5, <1>6

(* Every other step leaves the controller and the pin alone. *)
PinMoves ==
  \/ BootMask \/ MainMask \/ HandlerAck \/ TimerTick \/ OnKeyMoves
  \/ MainLinkMask \/ MainReceive \/ MainSend \/ HostSends \/ HostCollects
  \/ UNCHANGED <<controller, interrupt>>

LEMMA WhoMovesThePin ==
  ASSUME [Next]_vars
  PROVE  PinMoves
BY DEF PinMoves, Next, Processor, Boot, Main, Handler, Environment, vars,
       Accept, Sleep, BootMode, BootEnable, MainHalt,
       HandlerRead, HandlerEnable, HandlerReturn

LEMMA PinTypeHolds == Spec => []PinType
<1>1. Init => PinType
  BY DEF Init, IC!Init, PinType
<1>2. PinType /\ [Next]_vars => PinType'
  <2> SUFFICES ASSUME PinType, [Next]_vars
               PROVE  PinType'
    OBVIOUS
  <2> USE DEF PinType
  <2>1. CASE BootMask \/ MainMask
    BY <2>1, GuestAssumption
       DEF BootMask, MainMask, IC!write_interrupt_mask, IC!check_state
  <2>2. CASE HandlerAck
    BY <2>2 DEF HandlerAck, IC!write_acknowledged_interrupts, IC!check_state
  <2>3. CASE TimerTick \/ OnKeyMoves
    BY <2>3 DEF TimerTick, OnKeyMoves, IC!Fire, IC!depress_on_key, IC!release_on_key,
                IC!ti_interrupts_interrupt
  <2>4. CASE MainLinkMask \/ MainReceive \/ MainSend
    BY <2>4 DEF MainLinkMask, MainReceive, MainSend, controller,
                Link!write_link_assist_enable_port, Link!read_link_assist_rx_port,
                Link!write_link_assist_tx_port
  <2>5. CASE HostSends \/ HostCollects
    BY <2>5 DEF HostSends, HostCollects, controller,
                Link!link_recv_byte, Link!link_read_tx_buffer
  <2>6. CASE UNCHANGED <<controller, interrupt>>
    BY <2>6 DEF controller
  <2>7. PinMoves
    BY WhoMovesThePin
  <2> QED
    BY <2>1, <2>2, <2>3, <2>4, <2>5, <2>6, <2>7 DEF PinMoves
<1> QED
  BY <1>1, <1>2, PTL DEF Spec

(* SeenBeforeGone for every set of sources: between the handler's read of    *)
(* port 4 and its write to port 2 any number of sources may fire, and the    *)
(* write takes none of them with it.                                         *)
THEOREM NothingAcknowledgedUnseen == Spec => SeenBeforeGone
<1>1. PinType /\ [Next]_vars =>
        \A s \in interrupted \ interrupted' : s \in cause \/ s \notin enabled'
  BY StepsOfTheController DEF LatchesMore, Drops, Acknowledges
<1> QED
  BY <1>1, PinTypeHolds, PTL DEF Spec, SeenBeforeGone

(* OnlyTheOtherDeviceHides for every guest of this shape: neither device      *)
(* itself leaves a cause pending behind a low pin, the host's side of the     *)
(* link only raises the pin, and sending a byte does not move it.             *)
THEOREM OnlyTheOtherHides == Spec => OnlyTheOtherDeviceHides
<1>1. PinType /\ [Next]_vars => (Hidden' => Hidden \/ MainLinkMask \/ MainReceive)
  <2> SUFFICES ASSUME PinType, [Next]_vars, Hidden'
               PROVE  Hidden \/ MainLinkMask \/ MainReceive
    OBVIOUS
  <2> USE DEF Hidden, PinType
  <2>1. CASE BootMask \/ MainMask
    <3>1. interrupted' \subseteq interrupted /\ IC!check_state(interrupted')
      BY <2>1 DEF BootMask, MainMask, IC!write_interrupt_mask
    <3> QED
      BY <3>1 DEF IC!check_state
  <2>2. CASE HandlerAck
    <3>1. interrupted' \subseteq interrupted /\ IC!check_state(interrupted')
      BY <2>2 DEF HandlerAck, IC!write_acknowledged_interrupts
    <3> QED
      BY <3>1 DEF IC!check_state
  <2>3. CASE TimerTick \/ OnKeyMoves
    BY <2>3 DEF TimerTick, OnKeyMoves, IC!Fire, IC!depress_on_key, IC!release_on_key,
                IC!ti_interrupts_interrupt
  <2>4. CASE MainSend
    BY <2>4 DEF MainSend, controller, Link!write_link_assist_tx_port
  <2>5. CASE HostSends \/ HostCollects
    BY <2>5 DEF HostSends, HostCollects, controller,
                Link!link_recv_byte, Link!link_read_tx_buffer
  <2>6. CASE UNCHANGED <<controller, interrupt>>
    BY <2>6 DEF controller
  <2>7. PinMoves
    BY WhoMovesThePin
  <2> QED
    BY <2>1, <2>2, <2>3, <2>4, <2>5, <2>6, <2>7 DEF PinMoves
<1>2. PinType /\ [Next]_vars =>
        (ByteHidden' => ByteHidden \/ BootMask \/ MainMask \/ HandlerAck)
  <2> SUFFICES ASSUME PinType, [Next]_vars, ByteHidden'
               PROVE  ByteHidden \/ BootMask \/ MainMask \/ HandlerAck
    OBVIOUS
  <2> USE DEF ByteHidden, Link!RaisesFor, PinType
  <2>1. CASE TimerTick \/ OnKeyMoves
    BY <2>1 DEF TimerTick, OnKeyMoves, linkAssist, IC!Fire, IC!depress_on_key,
                IC!release_on_key, IC!ti_interrupts_interrupt
  <2>2. CASE MainLinkMask \/ MainReceive \/ MainSend
    BY <2>2 DEF MainLinkMask, MainReceive, MainSend, Link!write_link_assist_enable_port,
                Link!read_link_assist_rx_port, Link!write_link_assist_tx_port
  <2>3. CASE HostSends \/ HostCollects
    BY <2>3 DEF HostSends, HostCollects, Link!link_recv_byte, Link!link_read_tx_buffer,
                Link!RaisesFor
  <2>4. CASE UNCHANGED <<linkAssist, interrupt>>
    BY <2>4 DEF linkAssist
  <2>5. \/ BootMask \/ MainMask \/ HandlerAck \/ TimerTick \/ OnKeyMoves
        \/ MainLinkMask \/ MainReceive \/ MainSend \/ HostSends \/ HostCollects
        \/ UNCHANGED <<linkAssist, interrupt>>
    BY DEF Next, Processor, Boot, Main, Handler, Environment, vars,
           Accept, Sleep, BootMode, BootEnable, MainHalt,
           HandlerRead, HandlerEnable, HandlerReturn
  <2> QED
    BY <2>1, <2>2, <2>3, <2>4, <2>5
<1> QED
  BY <1>1, <1>2, PinTypeHolds, PTL DEF Spec, OnlyTheOtherDeviceHides

-----------------------------------------------------------------------------
(* A turn that finds nothing due and the processor awake is an instruction   *)
(* of the discipline, if it treats the processor as one of its kinds does.   *)
LEMMA PlainFinishes ==
  ASSUME ~CPU!Due, asleep = 0, Plain, UNCHANGED mode, interrupt' \in {0, 1}
  PROVE  CPU!Next
BY DEF Plain, CPU!Finish, CPU!Next, CPU!Bit

LEMMA EnableFinishes ==
  ASSUME ~CPU!Due, asleep = 0, EnableInterrupts, UNCHANGED <<mode, interrupt>>
  PROVE  CPU!Next
BY DEF EnableInterrupts, CPU!Finish, CPU!Next

(* The processor's steps, one by one: whatever the guest's instruction does   *)
(* to a device, it does to the processor what the discipline allows.         *)
LEMMA ProcessorDisciplined ==
  ASSUME PinType, PinType', Processor
  PROVE  CPU!Next
<1> USE DEF PinType, guest
<1>1. CASE Accept
  BY <1>1 DEF Accept, CPU!Serve, CPU!Next
<1>2. CASE Sleep
  BY <1>2 DEF Sleep, CPU!Sleep, CPU!Next
<1>3. CASE BootMode
  BY <1>3 DEF BootMode, Plain, CPU!Finish, CPU!Next
<1>4. CASE BootEnable \/ HandlerEnable
  BY <1>4, EnableFinishes DEF BootEnable, HandlerEnable, Instruction
<1>5. CASE MainHalt
  BY <1>5 DEF MainHalt, Instruction, CPU!Finish, CPU!Next
<1>6. CASE BootMask \/ MainMask \/ MainLinkMask \/ MainReceive \/ MainSend \/ HandlerAck
  BY <1>6, PlainFinishes
     DEF BootMask, MainMask, MainLinkMask, MainReceive, MainSend, HandlerAck, Instruction
<1>7. CASE HandlerRead \/ HandlerReturn
  BY <1>7, PlainFinishes DEF HandlerRead, HandlerReturn, Instruction
<1> QED
  BY <1>1, <1>2, <1>3, <1>4, <1>5, <1>6, <1>7 DEF Processor, Boot, Main, Handler

(* ImplementsDiscipline for every choice of sources, masks and bytes: the     *)
(* devices do to the processor nothing but move its pin between two          *)
(* instructions, and the guest's instructions are instructions.              *)
THEOREM DisciplineKept == Spec => ImplementsDiscipline
<1>1. Init => CPU!Init
  BY DEF Init
<1>2. PinType /\ PinType' /\ [Next]_vars => [CPU!Next]_(CPU!vars)
  <2> SUFFICES ASSUME PinType, PinType', [Next]_vars
               PROVE  CPU!Next \/ UNCHANGED CPU!vars
    OBVIOUS
  <2>1. CASE Processor
    BY <2>1, ProcessorDisciplined
  <2>2. CASE Environment
    <3>1. UNCHANGED <<iff, shield, asleep, mode>>
      BY <2>2, DevicesKeepTheGuest DEF processor
    <3>2. interrupt' = interrupt \/ interrupt' = 1 - interrupt
      BY DEF PinType
    <3> QED
      BY <3>1, <3>2 DEF CPU!Outside, CPU!Next, CPU!vars
  <2>3. CASE UNCHANGED vars
    BY <2>3 DEF vars, processor, CPU!vars
  <2> QED
    BY <2>1, <2>2, <2>3 DEF Next
<1> QED
  BY <1>1, <1>2, PinTypeHolds, PTL DEF Spec, ImplementsDiscipline, CPU!Spec

-----------------------------------------------------------------------------
(* Type correctness of the three parties, each from the steps that touch it.  *)
LinkType ==
  /\ mask \subseteq Link!MaskBits
  /\ status \subseteq Link!StatusBits
  /\ rx_buffer \in Bytes /\ tx_buffer \in Bytes

LEMMA LinkKeepsItsType ==
  ASSUME LinkType, [Next]_vars
  PROVE  LinkType'
<1> USE DEF LinkType
<1>1. CASE MainLinkMask
  BY <1>1, LinkAssumption DEF MainLinkMask, Link!write_link_assist_enable_port
<1>2. CASE MainReceive
  BY <1>2, LinkAssumption DEF MainReceive, Link!read_link_assist_rx_port
<1>3. CASE MainSend
  BY <1>3 DEF MainSend, Link!write_link_assist_tx_port, Link!StatusBits
<1>4. CASE HostSends
  BY <1>4 DEF HostSends, Link!link_recv_byte, Link!StatusBits
<1>5. CASE HostCollects
  BY <1>5 DEF HostCollects, Link!link_read_tx_buffer, Link!StatusBits
<1>6. CASE UNCHANGED linkAssist
  BY <1>6 DEF linkAssist
<1>7. \/ MainLinkMask \/ MainReceive \/ MainSend \/ HostSends \/ HostCollects
      \/ UNCHANGED linkAssist
  BY DEF Next, Processor, Boot, Main, Handler, Environment, vars,
         Accept, Sleep, BootMode, BootMask, BootEnable, MainHalt, MainMask,
         HandlerRead, HandlerAck, HandlerEnable, HandlerReturn, TimerTick, OnKeyMoves
<1> QED
  BY <1>1, <1>2, <1>3, <1>4, <1>5, <1>6, <1>7

LEMMA KeyKeepsItsType ==
  ASSUME on_key_pressed \in {0, 1}, [Next]_vars
  PROVE  on_key_pressed' \in {0, 1}
<1>1. CASE BootMask \/ MainMask
  BY <1>1 DEF BootMask, MainMask, IC!write_interrupt_mask
<1>2. CASE HandlerAck
  BY <1>2 DEF HandlerAck, IC!write_acknowledged_interrupts
<1>3. CASE TimerTick \/ OnKeyMoves
  BY <1>3 DEF TimerTick, OnKeyMoves, IC!Fire, IC!depress_on_key, IC!release_on_key
<1>4. CASE MainLinkMask \/ MainReceive \/ MainSend \/ HostSends \/ HostCollects
  BY <1>4 DEF MainLinkMask, MainReceive, MainSend, HostSends, HostCollects, controller
<1>5. CASE UNCHANGED <<controller, interrupt>>
  BY <1>5 DEF controller
<1> QED
  BY <1>1, <1>2, <1>3, <1>4, <1>5, WhoMovesThePin DEF PinMoves

GuestType ==
  /\ iff \in {0, 1} /\ shield \in {0, 1} /\ asleep \in {0, 1} /\ mode \in 0..2
  /\ pc \in Places /\ cause \subseteq Sources /\ depth \in 0..MaxDepth

LEMMA GuestKeepsItsType ==
  ASSUME GuestType, PinType, NestInv, [Next]_vars
  PROVE  GuestType'
<1> USE DEF GuestType, Places
<1>1. CASE Accept
  BY <1>1, GuestAssumption DEF Accept
<1>2. CASE Sleep
  BY <1>2 DEF Sleep, guest
<1>3. CASE Boot
  BY <1>3 DEF Boot, BootMode, BootMask, BootEnable, Instruction, Plain, EnableInterrupts
<1>4. CASE Main
  BY <1>4 DEF Main, MainHalt, MainMask, MainLinkMask, MainReceive, MainSend, Instruction, Plain
<1>5. CASE HandlerRead \/ HandlerAck \/ HandlerEnable
  BY <1>5 DEF HandlerRead, HandlerAck, HandlerEnable, Instruction, Plain, EnableInterrupts, PinType
<1>6. CASE HandlerReturn
  <2>1. depth = 1
    BY <1>6 DEF HandlerReturn, NestInv, InHandler
  <2>2. depth' \in 0..MaxDepth
    BY <1>6, <2>1, GuestAssumption DEF HandlerReturn
  <2> QED
    BY <1>6, <2>2 DEF HandlerReturn, Plain
<1>7. CASE Environment
  BY <1>7, DevicesKeepTheGuest DEF processor, guest
<1>8. CASE UNCHANGED vars
  BY <1>8 DEF vars, processor, guest
<1> QED
  BY <1>1, <1>2, <1>3, <1>4, <1>5, <1>6, <1>7, <1>8 DEF Next, Processor, Handler

(* The two devices, the processor and the guest stay within their types, for  *)
(* any sources, masks, bytes and depth. That a handler which returns finds    *)
(* the address it was called from takes NestInv.                             *)
THEOREM TypeCorrect == Spec => []TypeOK
<1>1. Init => LinkType /\ on_key_pressed \in {0, 1} /\ GuestType
  BY LinkAssumption, GuestAssumption
     DEF Init, IC!Init, Link!Init, CPU!Init, LinkType, GuestType, Places, Link!MaskBits, Link!StatusBits
<1>2. PinType /\ NestInv /\ LinkType /\ on_key_pressed \in {0, 1} /\ GuestType /\ [Next]_vars
        => (LinkType /\ on_key_pressed \in {0, 1} /\ GuestType)'
  BY LinkKeepsItsType, KeyKeepsItsType, GuestKeepsItsType
<1>3. PinType /\ LinkType /\ on_key_pressed \in {0, 1} /\ GuestType => TypeOK
  BY DEF PinType, LinkType, GuestType, TypeOK, IC!TypeOK, Link!TypeOK, CPU!TypeOK, CPU!Bit
<1> QED
  BY <1>1, <1>2, <1>3, PinTypeHolds, NestInvHolds, PTL DEF Spec

-----------------------------------------------------------------------------
(* The steps by which a hidden source comes out                              *)

(* Once the guest has started up, interrupts are on wherever it is not in    *)
(* its handler, the mode is served, and the timer is not disabled.           *)
WakeInv ==
  /\ iff \in {0, 1} /\ shield \in {0, 1}
  /\ pc \in {"main", "ret"} => iff = 1
  /\ pc \in {"mask", "enable", "main"} \/ InHandler => mode = 1
  /\ pc \in {"enable", "main"} \/ InHandler => Timer \in enabled

LEMMA WakeInvHolds == Spec => []WakeInv
<1>1. Init => WakeInv
  BY DEF Init, CPU!Init, WakeInv, InHandler
<1>2. NestInv /\ WakeInv /\ [Next]_vars => WakeInv'
  <2> SUFFICES ASSUME NestInv, WakeInv, [Next]_vars
               PROVE  WakeInv'
    OBVIOUS
  <2> USE DEF WakeInv, InHandler
  <2>1. CASE Accept
    <3>1. pc = "main"
      BY <2>1 DEF Accept, CPU!Due, NestInv
    <3> QED
      BY <2>1, <3>1 DEF Accept, controller
  <2>2. CASE Sleep
    BY <2>2 DEF Sleep, controller, guest
  <2>3. CASE BootMode
    BY <2>3 DEF BootMode, Plain, controller
  <2>4. CASE BootMask
    BY <2>4, TimerAssumption DEF BootMask, Instruction, Plain, IC!write_interrupt_mask
  <2>5. CASE MainMask
    BY <2>5, TimerAssumption DEF MainMask, Instruction, Plain, IC!write_interrupt_mask
  <2>6. CASE BootEnable \/ HandlerEnable
    BY <2>6 DEF BootEnable, HandlerEnable, Instruction, EnableInterrupts, controller
  <2>7. CASE MainHalt
    BY <2>7 DEF MainHalt, Instruction, controller
  <2>8. CASE MainLinkMask \/ MainReceive \/ MainSend
    BY <2>8 DEF MainLinkMask, MainReceive, MainSend, Instruction, Plain, controller
  <2>9. CASE HandlerRead
    BY <2>9 DEF HandlerRead, Instruction, Plain, controller
  <2>10. CASE HandlerAck
    BY <2>10 DEF HandlerAck, Instruction, Plain, IC!write_acknowledged_interrupts
  <2>11. CASE HandlerReturn
    BY <2>11 DEF HandlerReturn, Plain, controller
  <2>12. CASE Environment
    <3>1. UNCHANGED <<iff, shield, mode, pc>>
      BY <2>12, DevicesKeepTheGuest DEF processor, guest
    <3>2. UNCHANGED enabled
      BY <2>12 DEF Environment, TimerTick, OnKeyMoves, HostSends, HostCollects, controller,
                   IC!Fire, IC!depress_on_key, IC!release_on_key
    <3> QED
      BY <3>1, <3>2
  <2>13. CASE UNCHANGED vars
    BY <2>13 DEF vars, processor, guest, controller
  <2> QED
    BY <2>1, <2>2, <2>3, <2>4, <2>5, <2>6, <2>7, <2>8, <2>9, <2>10, <2>11, <2>12, <2>13
       DEF Next, Processor, Boot, Main, Handler
<1> QED
  BY <1>1, <1>2, NestInvHolds, PTL DEF Spec

(* Why nothing stays hidden, step by step. In the main program at most one    *)
(* instruction runs shielded (1), then the timer's next tick makes an         *)
(* interrupt due whatever the link assist did to the pin (2); what is due     *)
(* stays due until it is accepted, since no instruction runs before (3); the  *)
(* handler is called with everything that is latched (4), and nothing of it   *)
(* is gone before the handler has read it (5).                               *)
RunsUnshielded == pc = "main" /\ Processor => shield' = 0
TickIsDue      == pc = "main" /\ shield = 0 /\ TimerTick => CPU!Due'
DueStaysDue    == CPU!Due => CPU!Due' \/ Accept
CallsHandler   == Accept => pc' = "read" /\ UNCHANGED interrupted
ReadsAll       == pc = "read" => /\ interrupted \subseteq interrupted'
                                 /\ pc' = "read" \/ interrupted \subseteq cause'

HiddenComesOut ==
  /\ [][RunsUnshielded]_vars
  /\ [][TickIsDue]_vars
  /\ [][DueStaysDue]_vars
  /\ [][CallsHandler]_vars
  /\ [][ReadsAll]_vars

(* And on the way nothing can hold the handler up: nothing is due in it, and  *)
(* the processor is awake.                                                   *)
HandlerRunsFree == InHandler => ~CPU!Due /\ asleep = 0

LEMMA DueIsInMain ==
  ASSUME NestInv, CPU!Due
  PROVE  pc = "main"
BY DEF NestInv, CPU!Due

(* No instruction starts while an interrupt is due.                          *)
LEMMA OnlyAcceptWhenDue ==
  ASSUME CPU!Due, Processor
  PROVE  Accept
BY DEF Processor, Sleep, Boot, Main, Handler, BootMode, BootMask, BootEnable,
       MainHalt, MainMask, MainLinkMask, MainReceive, MainSend,
       HandlerRead, HandlerAck, HandlerEnable, HandlerReturn, Instruction

(* The devices never lower the pin on their own account.                      *)
LEMMA DevicesOnlyRaise ==
  ASSUME PinType, Environment
  PROVE  /\ interrupt = 1 => interrupt' = 1
         /\ interrupted \subseteq interrupted'
<1>1. CASE TimerTick \/ OnKeyMoves
  BY <1>1 DEF TimerTick, OnKeyMoves, IC!Fire, IC!depress_on_key, IC!release_on_key,
              IC!ti_interrupts_interrupt
<1>2. CASE HostSends
  BY <1>2 DEF HostSends, Link!link_recv_byte, controller
<1>3. CASE HostCollects
  BY <1>3 DEF HostCollects, Link!link_read_tx_buffer, controller
<1> QED
  BY <1>1, <1>2, <1>3 DEF Environment

(* The step facts under EventuallySeen, for every set of sources, masks and   *)
(* bytes; fairness then takes the steps.                                     *)
THEOREM HiddenComesOutCorrect == Spec => HiddenComesOut /\ []HandlerRunsFree
<1>1. NestInv /\ WakeInv /\ [Next]_vars => RunsUnshielded
  <2> SUFFICES ASSUME NestInv, WakeInv, pc = "main", Processor
               PROVE  shield' = 0
    BY DEF RunsUnshielded
  <2>1. CASE Accept
    BY <2>1 DEF Accept, CPU!Due
  <2>2. CASE Sleep
    BY <2>2 DEF Sleep
  <2>3. CASE Main
    BY <2>3 DEF Main, MainHalt, MainMask, MainLinkMask, MainReceive, MainSend, Plain
  <2>4. ~Boot /\ ~Handler
    BY DEF Boot, BootMode, BootMask, BootEnable, Handler, HandlerRead, HandlerAck,
           HandlerEnable, HandlerReturn, Instruction
  <2> QED
    BY <2>1, <2>2, <2>3, <2>4 DEF Processor
<1>2. WakeInv /\ [Next]_vars => TickIsDue
  BY DEF WakeInv, TickIsDue, TimerTick, processor, CPU!Due, IC!Fire, IC!ti_interrupts_interrupt
<1>3. PinType /\ [Next]_vars => DueStaysDue
  <2> SUFFICES ASSUME PinType, [Next]_vars, CPU!Due, ~Accept
               PROVE  CPU!Due'
    BY DEF DueStaysDue
  <2>1. CASE Environment
    BY <2>1, DevicesOnlyRaise, DevicesKeepTheGuest DEF processor, CPU!Due
  <2>2. CASE UNCHANGED vars
    BY <2>2 DEF vars, processor, CPU!Due
  <2> QED
    BY <2>1, <2>2, OnlyAcceptWhenDue DEF Next
<1>4. [Next]_vars => CallsHandler
  BY DEF CallsHandler, Accept, controller
<1>5. NestInv /\ PinType /\ [Next]_vars => ReadsAll
  <2> SUFFICES ASSUME NestInv, PinType, [Next]_vars, pc = "read"
               PROVE  /\ interrupted \subseteq interrupted'
                      /\ pc' = "read" \/ interrupted \subseteq cause'
    BY DEF ReadsAll
  <2>1. CASE Environment
    BY <2>1, DevicesOnlyRaise, DevicesKeepTheGuest DEF guest
  <2>2. CASE HandlerRead
    BY <2>2 DEF HandlerRead, controller
  <2>3. CASE Sleep
    BY <2>3 DEF Sleep, controller, guest
  <2>4. CASE UNCHANGED vars
    BY <2>4 DEF vars, controller, guest
  <2>5. ~Accept
    BY DueIsInMain DEF Accept
  <2>6. ~Boot /\ ~Main /\ ~HandlerAck /\ ~HandlerEnable /\ ~HandlerReturn
    BY DEF Boot, BootMode, BootMask, BootEnable, Main, MainHalt, MainMask, MainLinkMask,
           MainReceive, MainSend, HandlerAck, HandlerEnable, HandlerReturn, Instruction
  <2> QED
    BY <2>1, <2>2, <2>3, <2>4, <2>5, <2>6 DEF Next, Processor, Handler
<1>6. NestInv => HandlerRunsFree
  BY DueIsInMain DEF HandlerRunsFree, NestInv, InHandler
<1> QED
  BY <1>1, <1>2, <1>3, <1>4, <1>5, <1>6, NestInvHolds, WakeInvHolds, PinTypeHolds, PTL
     DEF Spec, HiddenComesOut
==============================================================================
