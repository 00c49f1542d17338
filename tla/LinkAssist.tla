------------------------------ MODULE LinkAssist ------------------------------
(***************************************************************************)
(* The link assist, libz80e/src/ti/hardware/link.c: the guest's ports 8    *)
(* (interrupt mask), 9 (status), A (receive) and D (transmit), and the     *)
(* functions with which the host side delivers and collects a byte.        *)
(*                                                                         *)
(* The bits of assist.status and of interrupts.mask are sets of names;     *)
(* the ones the emulator never sets (int_error, rx_active, error) are left *)
(* out. The two wires of port 0 carry no byte and are not modelled here.   *)
(***************************************************************************)
EXTENDS Naturals

CONSTANTS Bytes,      \* what travels over the link; 0 is the value of an empty buffer
          Nothing,    \* no byte
          Assisted    \* FALSE on the TI-73 and TI-83+

ASSUME BytesAssumption == 0 \in Bytes /\ Nothing \notin Bytes
ASSUME AssistedAssumption == Assisted \in BOOLEAN

VARIABLES mask, status, rx_buffer, tx_buffer,
          interrupt    \* cpu->interrupt, shared with the interrupt controller

linkVars == <<mask, status, rx_buffer, tx_buffer>>
vars == <<linkVars, interrupt>>

MaskBits   == {"rx", "tx", "disabled"}
StatusBits == {"int_rx_ready", "int_tx_ready", "rx_ready", "tx_ready", "tx_active"}

TypeOK ==
  /\ mask \subseteq MaskBits
  /\ status \subseteq StatusBits
  /\ rx_buffer \in Bytes /\ tx_buffer \in Bytes
  /\ interrupt \in {0, 1}

(* init_link_ports *)
Init ==
  /\ mask = {}
  /\ status = {"tx_ready", "int_tx_ready"}
  /\ rx_buffer = 0 /\ tx_buffer = 0
  /\ interrupt = 0

RaisesFor(bit) == "disabled" \notin mask /\ bit \in mask

-----------------------------------------------------------------------------
(* The guest *)

(* OUT (8): the pin is recomputed from the link's own conditions alone. *)
write_link_assist_enable_port(val) ==
  /\ Assisted
  /\ mask' = val
  /\ interrupt' = IF \/ "tx" \in val /\ "int_tx_ready" \in status
                     \/ "rx" \in val /\ "int_rx_ready" \in status
                  THEN 1 ELSE 0
  /\ UNCHANGED <<status, rx_buffer, tx_buffer>>

\* Mutant of read_link_assist_rx_port: the ready bit stays.
ReadLeavesReady ==
  /\ Assisted /\ "rx_ready" \in status
  /\ interrupt' = IF "int_tx_ready" \in status THEN 0 ELSE interrupt
  /\ status' = status \ {"int_rx_ready"}
  /\ rx_buffer' = 0
  /\ UNCHANGED <<mask, tx_buffer>>

(* IN (A): nothing happens unless a byte is there. *)
read_link_assist_rx_port ==
  /\ Assisted /\ "rx_ready" \in status
  /\ interrupt' = IF "int_tx_ready" \in status THEN 0 ELSE interrupt
  /\ status' = status \ {"rx_ready", "int_rx_ready"}
  /\ rx_buffer' = 0
  /\ UNCHANGED <<mask, tx_buffer>>

\* Mutant of write_link_assist_tx_port: a byte in transit is overwritten.
WriteOverwrites(val) ==
  /\ status' = (status \ {"tx_ready", "int_tx_ready"}) \cup {"tx_active"}
  /\ tx_buffer' = val
  /\ UNCHANGED <<mask, rx_buffer, interrupt>>

(* OUT (D): dropped while the previous byte has not been collected. *)
write_link_assist_tx_port(val) ==
  /\ "tx_ready" \in status
  /\ status' = (status \ {"tx_ready", "int_tx_ready"}) \cup {"tx_active"}
  /\ tx_buffer' = val
  /\ UNCHANGED <<mask, rx_buffer, interrupt>>

-----------------------------------------------------------------------------
(* The host *)

(* link_recv_byte: refused while the previous byte has not been read. *)
link_recv_byte(val) ==
  /\ "rx_ready" \notin status
  /\ status' = status \cup {"rx_ready", "int_rx_ready"}
  /\ rx_buffer' = val
  /\ interrupt' = IF RaisesFor("rx") THEN 1 ELSE interrupt
  /\ UNCHANGED <<mask, tx_buffer>>

\* Mutant of link_read_tx_buffer: the transmitter is not made ready again.
CollectStaysBusy ==
  /\ "tx_active" \in status
  /\ status' = status \ {"tx_active"}
  /\ interrupt' = IF RaisesFor("tx") THEN 1 ELSE interrupt
  /\ UNCHANGED <<mask, rx_buffer, tx_buffer>>

(* link_read_tx_buffer: EOF unless a byte is waiting. *)
link_read_tx_buffer ==
  /\ "tx_active" \in status
  /\ status' = (status \ {"tx_active"}) \cup {"tx_ready", "int_tx_ready"}
  /\ interrupt' = IF RaisesFor("tx") THEN 1 ELSE interrupt
  /\ UNCHANGED <<mask, rx_buffer, tx_buffer>>

Guest ==
  \/ \E val \in SUBSET MaskBits : write_link_assist_enable_port(val)
  \/ read_link_assist_rx_port
  \/ \E val \in Bytes : write_link_assist_tx_port(val)

Host ==
  \/ \E val \in Bytes : link_recv_byte(val)
  \/ link_read_tx_buffer

Next == Guest \/ Host

Spec == Init /\ [][Next]_vars

(* The run loop collects after every slice of execution (runloop_tick_cycles). *)
FairSpec == Spec /\ WF_vars(link_read_tx_buffer)

-----------------------------------------------------------------------------
(* Properties *)

(* The transmitter is either ready or holds a byte, never both and never     *)
(* neither, and each interrupt condition mirrors its ready bit.              *)
HandshakeInv ==
  /\ ("tx_ready" \in status) <=> ("tx_active" \notin status)
  /\ ("int_tx_ready" \in status) <=> ("tx_ready" \in status)
  /\ ("int_rx_ready" \in status) <=> ("rx_ready" \in status)

(* Behind its flags the link assist is a one-byte channel each way: no byte  *)
(* is lost, repeated or overwritten between the host and the guest.          *)
Channel == INSTANCE LinkChannel WITH
  inbox  <- IF "rx_ready" \in status THEN rx_buffer ELSE Nothing,
  outbox <- IF "tx_active" \in status THEN tx_buffer ELSE Nothing

ImplementsChannel == Channel!Spec

(* A byte the guest has handed over is always collected. *)
TransmitterRecovers == ("tx_active" \in status) ~> ("tx_ready" \in status)
==============================================================================
