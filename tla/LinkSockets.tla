----------------------------- MODULE LinkSockets -----------------------------
(***************************************************************************)
(* The host's side of the link: link_socket_update of runloop.c, which     *)
(* connects the link assist to the clients of a listening socket after     *)
(* every slice of execution, and `link send' of debugger/commands/link.c,  *)
(* which feeds a file to it, a byte for every byte the guest reads.        *)
(*                                                                         *)
(* `phase' is where the emulator's one thread is: in the guest ("run"),    *)
(* between collecting the guest's byte and serving the sockets ("socket"), *)
(* or in the hook that follows the guest's read ("hook"). The clients are  *)
(* processes of their own. The socket is listening from the start, and one *)
(* file is sent; of the array of clients only its own entries are used.    *)
(***************************************************************************)
EXTENDS LinkAssist, Sequences, FiniteSetsExt

CONSTANTS Clients, Nobody,
          File,            \* the origin of the bytes that no client sends
          Slots,           \* 10
          AcceptPeriod,    \* 4096
          Backlog,         \* 3
          Text,            \* what each client, and the file, has to send
          GuestText,       \* what the guest has to send
          GuestMasks,      \* what it writes to port 8
          Leavers          \* the clients that may hang up

Origins == Clients \cup {File}

ASSUME SlotsAssumption == Slots \in Nat /\ Backlog \in Nat /\ AcceptPeriod \in Nat
ASSUME ClientsAssumption == File \notin Clients /\ Nobody \notin Clients
ASSUME TextAssumption == Text \in [Origins -> Seq(Bytes)] /\ GuestText \in Seq(Bytes)
ASSUME GuestMasksAssumption == GuestMasks \subseteq SUBSET MaskBits

VARIABLES
  phase,
  c,           \* what was collected: a byte or Nothing
  accept,      \* updates since the last look at the backlog
  clients,     \* the slots
  backlog,     \* connections not yet accepted
  stage,       \* each client's end: "new", "up" or "gone"
  unread,      \* what has been sent and not read, by origin
  hooked,      \* the file is being fed
  sent,        \* history: what each origin has sent,
  got,         \* what the guest has read of it,
  lost,        \* what was dropped with the connection,
  from,        \* and where the byte in rx_buffer comes from
  posted,      \* history: what the guest has sent,
  collected,   \* what of it has been offered to the sockets,
  missed,      \* what of that was offered before a client was seated,
  heard        \* and what was written to it since

socketVars == <<accept, clients, backlog>>
arrivals == <<unread, sent, got, lost, from>>
departures == <<posted, collected, missed, heard>>
hostVars == <<vars, phase, c, socketVars, stage, hooked, arrivals, departures>>

HostInit ==
  /\ Init
  /\ phase = "run" /\ c = Nothing
  /\ accept = 0 /\ backlog = <<>>
  /\ clients = [i \in 1..Slots |-> Nobody]
  /\ stage = [k \in Clients |-> "new"]
  /\ hooked = FALSE
  /\ unread = [o \in Origins |-> <<>>] 
  /\ sent = unread /\ got = unread /\ lost = unread
  /\ from = File
  /\ posted = <<>> /\ collected = <<>>
  /\ missed = [k \in Clients |-> <<>>] /\ heard = missed

-----------------------------------------------------------------------------
(* The clients *)

Connect(k) ==
  /\ stage[k] = "new" /\ Len(backlog) < Backlog
  /\ stage' = [stage EXCEPT ![k] = "up"]
  /\ backlog' = Append(backlog, k)
  /\ UNCHANGED <<vars, phase, c, accept, clients, hooked, arrivals, departures>>

ClientSends(k) ==
  /\ stage[k] = "up" /\ Len(sent[k]) < Len(Text[k])
  /\ LET b == Text[k][Len(sent[k]) + 1] IN
       /\ unread' = [unread EXCEPT ![k] = Append(@, b)]
       /\ sent' = [sent EXCEPT ![k] = Append(@, b)]
  /\ UNCHANGED <<vars, phase, c, socketVars, stage, hooked, got, lost, from, departures>>

ClientCloses(k) ==
  /\ stage[k] = "up" /\ k \in Leavers
  /\ stage' = [stage EXCEPT ![k] = "gone"]
  /\ UNCHANGED <<vars, phase, c, socketVars, hooked, arrivals, departures>>

-----------------------------------------------------------------------------
(* The guest *)

GuestEnables ==
  /\ phase = "run"
  /\ \E val \in GuestMasks : write_link_assist_enable_port(val)
  /\ UNCHANGED <<phase, c, socketVars, stage, hooked, arrivals, departures>>

(* IN (A), and the hook if there is one: it is called whether or not there was *)
(* a byte to read.                                                            *)
GuestReads ==
  /\ phase = "run"
  /\ \/ /\ read_link_assist_rx_port
        /\ got' = [got EXCEPT ![from] = Append(@, rx_buffer)]
     \/ /\ "rx_ready" \notin status
        /\ UNCHANGED <<vars, got>>
  /\ phase' = IF hooked THEN "hook" ELSE "run"
  /\ UNCHANGED <<c, socketVars, stage, hooked, unread, sent, lost, from, departures>>

GuestPosts ==
  /\ phase = "run" /\ Len(posted) < Len(GuestText)
  /\ LET val == GuestText[Len(posted) + 1] IN
       write_link_assist_tx_port(val) /\ posted' = Append(posted, val)
  /\ UNCHANGED <<phase, c, socketVars, stage, hooked, arrivals, collected, missed, heard>>

-----------------------------------------------------------------------------
(* `link send' *)

(* send_byte_from_input: at the end of the file the hook is removed; a byte the *)
(* link refuses goes back to the file.                                         *)
FeedByte ==
  IF unread[File] = <<>>
  THEN hooked' = FALSE /\ UNCHANGED <<vars, arrivals>>
  ELSE /\ hooked' = TRUE
       /\ \/ /\ link_recv_byte(Head(unread[File]))
             /\ unread' = [unread EXCEPT ![File] = Tail(@)]
             /\ from' = File
             /\ UNCHANGED <<sent, got, lost>>
          \/ "rx_ready" \in status /\ UNCHANGED <<vars, arrivals>>

handle_send ==
  /\ phase = "run" /\ ~hooked /\ sent[File] = <<>>
  /\ sent' = [sent EXCEPT ![File] = Text[File]]
  /\ unread' = [unread EXCEPT ![File] = Text[File]]
  /\ hooked' = TRUE /\ phase' = "hook"
  /\ UNCHANGED <<vars, c, socketVars, stage, got, lost, from, departures>>

on_link_rx_buffer_read ==
  /\ phase = "hook" /\ phase' = "run"
  /\ FeedByte
  /\ UNCHANGED <<c, socketVars, stage, departures>>

-----------------------------------------------------------------------------
(* The run loop, at the end of a slice *)

Collect ==
  /\ phase = "run" /\ phase' = "socket"
  /\ \/ link_read_tx_buffer /\ c' = tx_buffer
     \/ "tx_active" \notin status /\ c' = Nothing /\ UNCHANGED vars
  /\ UNCHANGED <<socketVars, stage, hooked, arrivals, departures>>

Free == {i \in 1..Slots : clients[i] = Nobody}
Accepts == accept = AcceptPeriod /\ backlog # <<>>
Seating == Accepts /\ Free # {}

(* With every slot taken, the connection that was accepted is forgotten. *)
Seated == [i \in 1..Slots |-> IF Seating /\ i = Min(Free) THEN Head(backlog) ELSE clients[i]]

HungUp == {i \in 1..Slots : Seated[i] # Nobody /\ stage[Seated[i]] = "gone"}
Served == {i \in 1..Slots : Seated[i] # Nobody} \ HungUp

\* Mutant of Readable: the link is not asked whether it takes a byte.
ReadableAlways == {i \in Served : unread[Seated[i]] # <<>>}

(* The slots the loop reads from. It goes through them in order, and the link *)
(* refuses another byte once it has one: the first one counts.               *)
Readable == {i \in Served : "rx_ready" \notin status /\ unread[Seated[i]] # <<>>}

ServedClients == {Seated[i] : i \in Served}

\* Mutant of Listeners: a client that was read from is not written to.
ListenersNotRead == {k \in ServedClients : Readable = {} \/ k # Seated[Min(Readable)]}

Listeners == ServedClients

(* A connection that was closed is dropped with what it has sent. *)
DroppedClients == {Seated[i] : i \in HungUp}
Drop == lost' = [o \in Origins |-> IF o \in DroppedClients THEN lost[o] \o unread[o] ELSE lost[o]]
Unread(reading) ==
  [o \in Origins |-> IF o \in DroppedClients THEN <<>>
                     ELSE IF o \in reading THEN Tail(unread[o]) ELSE unread[o]]

(* read, and link_recv_byte: refused if the link has a byte. *)
Receive ==
  \/ /\ Readable = {}
     /\ unread' = Unread({})
     /\ UNCHANGED <<vars, from>>
  \/ \E i \in Readable :
       /\ \A j \in Readable : i <= j
       /\ unread' = Unread({Seated[i]})
       /\ \/ link_recv_byte(Head(unread[Seated[i]])) /\ from' = Seated[i]
          \/ "rx_ready" \in status /\ UNCHANGED <<vars, from>>

InHand == IF c = Nothing THEN <<>> ELSE <<c>>

JustSeated(k) == Seating /\ k = Head(backlog)

(* write, to every client that is served *)
Transmit ==
  /\ collected' = collected \o InHand
  /\ missed' = [k \in Clients |-> IF JustSeated(k) THEN collected ELSE missed[k]]
  /\ heard' = [k \in Clients |->
                 IF k \in Listeners THEN (IF JustSeated(k) THEN <<>> ELSE heard[k]) \o InHand
                 ELSE heard[k]]

link_socket_update ==
  /\ phase = "socket" /\ phase' = "run"
  /\ accept' = IF accept = AcceptPeriod THEN 0 ELSE accept + 1
  /\ backlog' = IF Accepts THEN Tail(backlog) ELSE backlog
  /\ clients' = [i \in 1..Slots |-> IF i \in HungUp THEN Nobody ELSE Seated[i]]
  /\ Drop
  /\ Receive
  /\ Transmit
  /\ c' = Nothing
  /\ UNCHANGED <<stage, hooked, sent, got, posted>>

-----------------------------------------------------------------------------
Client == \E k \in Clients : Connect(k) \/ ClientSends(k) \/ ClientCloses(k)
LinkedGuest == GuestEnables \/ GuestReads \/ GuestPosts
Emulator == handle_send \/ on_link_rx_buffer_read \/ Collect \/ link_socket_update

HostNext == Client \/ LinkedGuest \/ Emulator

HostSpec == HostInit /\ [][HostNext]_hostVars

(* Every slice ends, whatever the guest does in it (Cpu's ReturnsToCaller), and *)
(* hook and update return.                                                     *)
FairHostSpec ==
  /\ HostSpec
  /\ SF_hostVars(Collect)
  /\ WF_hostVars(link_socket_update) /\ WF_hostVars(on_link_rx_buffer_read)

-----------------------------------------------------------------------------
(* Properties *)

InTransit(o) == IF "rx_ready" \in status /\ from = o THEN <<rx_buffer>> ELSE <<>>

(* Whoever else sends, and whenever the guest reads, the bytes of a client and *)
(* of the file reach the guest in order, each of them once: what it has read,  *)
(* the byte in the buffer and what is still unread make up what was sent. A    *)
(* client that hangs up loses what was not read, and no other client does.     *)
BytesArrive ==
  \A o \in Origins :
    /\ got[o] \o InTransit(o) \o unread[o] \o lost[o] = sent[o]
    /\ lost[o] # <<>> => o \in Clients /\ stage[o] = "gone"

InBuffer == IF "tx_active" \in status THEN <<tx_buffer>> ELSE <<>>

(* What the guest has sent is offered to the sockets in order and once, and a  *)
(* client hears all of it from the moment it is seated until its slot is free  *)
(* again, also while it is itself sending.                                     *)
ClientsHear ==
  /\ collected \o InHand \o InBuffer = posted
  /\ \A i \in 1..Slots : clients[i] # Nobody =>
       missed[clients[i]] \o heard[clients[i]] = collected
==============================================================================
