--------------------------- MODULE LinkAssistProofs ---------------------------
(***************************************************************************)
(* The link assist, for every set of bytes: its flags agree, and behind    *)
(* them it is a one-byte channel each way. Then the sockets and the file   *)
(* behind it, for every set of clients, their texts and number of slots:   *)
(* bytes arrive in order and once, in both directions.                     *)
(***************************************************************************)
EXTENDS LinkSockets, SequenceTheorems, TLAPS

(* Type correctness: the pin stays a bit although two devices store to it. *)
THEOREM TypeCorrect == Spec => []TypeOK
<1>1. Init => TypeOK
  BY BytesAssumption DEF Init, TypeOK, StatusBits, MaskBits
<1>2. TypeOK /\ [Next]_vars => TypeOK'
  <2> SUFFICES ASSUME TypeOK, [Next]_vars
               PROVE  TypeOK'
    OBVIOUS
  <2> USE DEF TypeOK, StatusBits
  <2>1. ASSUME NEW val \in SUBSET MaskBits, write_link_assist_enable_port(val)
        PROVE  TypeOK'
    BY <2>1 DEF write_link_assist_enable_port
  <2>2. CASE read_link_assist_rx_port
    BY <2>2, BytesAssumption DEF read_link_assist_rx_port
  <2>3. ASSUME NEW val \in Bytes, write_link_assist_tx_port(val)
        PROVE  TypeOK'
    BY <2>3 DEF write_link_assist_tx_port
  <2>4. ASSUME NEW val \in Bytes, link_recv_byte(val)
        PROVE  TypeOK'
    BY <2>4 DEF link_recv_byte
  <2>5. CASE link_read_tx_buffer
    BY <2>5 DEF link_read_tx_buffer
  <2>6. CASE UNCHANGED vars
    BY <2>6 DEF vars, linkVars
  <2> QED
    BY <2>1, <2>2, <2>3, <2>4, <2>5, <2>6 DEF Next, Guest, Host
<1> QED
  BY <1>1, <1>2, PTL DEF Spec

(* HandshakeInv is inductive by itself: each of the five handlers moves a    *)
(* ready bit together with its interrupt condition and with tx_active.       *)
THEOREM HandshakeCorrect == Spec => []HandshakeInv
<1>1. Init => HandshakeInv
  BY DEF Init, HandshakeInv
<1>2. HandshakeInv /\ [Next]_vars => HandshakeInv'
  <2> SUFFICES ASSUME HandshakeInv, [Next]_vars
               PROVE  HandshakeInv'
    OBVIOUS
  <2> USE DEF HandshakeInv
  <2>1. ASSUME NEW val \in SUBSET MaskBits, write_link_assist_enable_port(val)
        PROVE  HandshakeInv'
    BY <2>1 DEF write_link_assist_enable_port
  <2>2. CASE read_link_assist_rx_port
    BY <2>2 DEF read_link_assist_rx_port
  <2>3. ASSUME NEW val \in Bytes, write_link_assist_tx_port(val)
        PROVE  HandshakeInv'
    BY <2>3 DEF write_link_assist_tx_port
  <2>4. ASSUME NEW val \in Bytes, link_recv_byte(val)
        PROVE  HandshakeInv'
    BY <2>4 DEF link_recv_byte
  <2>5. CASE link_read_tx_buffer
    BY <2>5 DEF link_read_tx_buffer
  <2>6. CASE UNCHANGED vars
    BY <2>6 DEF vars, linkVars
  <2> QED
    BY <2>1, <2>2, <2>3, <2>4, <2>5, <2>6 DEF Next, Guest, Host
<1> QED
  BY <1>1, <1>2, PTL DEF Spec

(* Every handler is one step of the channel or invisible to it: no byte is   *)
(* lost, repeated or overwritten between the host and the guest, whatever    *)
(* the bytes are. Overwriting is excluded by HandshakeInv: the guest's write *)
(* tests tx_ready, and the channel's outbox is full while tx_active is set.  *)
THEOREM ChannelImplemented == Spec => ImplementsChannel
<1>1. Init => Channel!Init
  BY DEF Init, Channel!Init
<1>2. TypeOK /\ HandshakeInv /\ [Next]_vars => [Channel!Next]_(Channel!vars)
  <2> SUFFICES ASSUME TypeOK, HandshakeInv, [Next]_vars
               PROVE  [Channel!Next]_(Channel!vars)
    OBVIOUS
  <2>0. Nothing \notin Bytes /\ rx_buffer \in Bytes /\ tx_buffer \in Bytes
    BY BytesAssumption DEF TypeOK
  <2>1. ASSUME NEW val \in SUBSET MaskBits, write_link_assist_enable_port(val)
        PROVE  UNCHANGED Channel!vars
    BY <2>1 DEF write_link_assist_enable_port, Channel!vars
  <2>2. CASE read_link_assist_rx_port
    <3>1. Channel!Take
      BY <2>0, <2>2 DEF read_link_assist_rx_port, Channel!Take
    <3> QED
      BY <3>1 DEF Channel!Next
  <2>3. ASSUME NEW val \in Bytes, write_link_assist_tx_port(val)
        PROVE  Channel!Next
    <3>1. Channel!Post(val)
      BY <2>0, <2>3 DEF write_link_assist_tx_port, HandshakeInv, Channel!Post
    <3> QED
      BY <3>1 DEF Channel!Next
  <2>4. ASSUME NEW val \in Bytes, link_recv_byte(val)
        PROVE  Channel!Next
    <3>1. Channel!Deliver(val)
      BY <2>4 DEF link_recv_byte, Channel!Deliver
    <3> QED
      BY <3>1 DEF Channel!Next
  <2>5. CASE link_read_tx_buffer
    <3>1. Channel!Collect
      BY <2>0, <2>5 DEF link_read_tx_buffer, Channel!Collect
    <3> QED
      BY <3>1 DEF Channel!Next
  <2>6. CASE UNCHANGED vars
    BY <2>6 DEF vars, linkVars, Channel!vars
  <2> QED
    BY <2>1, <2>2, <2>3, <2>4, <2>5, <2>6 DEF Next, Guest, Host
<1> QED
  BY <1>1, <1>2, TypeCorrect, HandshakeCorrect, PTL
     DEF Spec, ImplementsChannel, Channel!Spec

-----------------------------------------------------------------------------
(* The sockets and the file, for any clients, slots and texts. *)

HostType ==
  /\ status \subseteq StatusBits
  /\ rx_buffer \in Bytes /\ tx_buffer \in Bytes /\ c \in Bytes \cup {Nothing}
  /\ backlog \in Seq(Clients)
  /\ clients \in [1..Slots -> Clients \cup {Nobody}]
  /\ unread \in [Origins -> Seq(Bytes)] /\ sent \in [Origins -> Seq(Bytes)]
  /\ got \in [Origins -> Seq(Bytes)] /\ lost \in [Origins -> Seq(Bytes)]
  /\ from \in Origins
  /\ posted \in Seq(Bytes) /\ collected \in Seq(Bytes)
  /\ missed \in [Clients -> Seq(Bytes)] /\ heard \in [Clients -> Seq(Bytes)]

LEMMA HeadAndTail ==
  ASSUME NEW S, NEW s \in Seq(S), s # <<>>
  PROVE  /\ Head(s) \in S /\ Tail(s) \in Seq(S)
         /\ <<Head(s)>> \o Tail(s) = s
<1> DEFINE t == <<Head(s)>> \o Tail(s)
<1>1. Head(s) \in S /\ Tail(s) \in Seq(S) /\ <<Head(s)>> \in Seq(S)
  BY HeadTailProperties
<1>2. t \in Seq(S) /\ Len(t) = Len(s)
  BY <1>1, ConcatProperties, HeadTailProperties
<1>3. \A i \in 1..Len(s) : t[i] = s[i]
  BY <1>1, ConcatProperties, HeadTailProperties
<1>4. t = s
  BY <1>2, <1>3, SeqEqual
<1> QED
  BY <1>1, <1>4

(* The slots hold clients, and the backlog loses its first at most. *)
LEMMA SeatsType ==
  ASSUME HostType
  PROVE  /\ Seated \in [1..Slots -> Clients \cup {Nobody}]
         /\ DroppedClients \subseteq Clients
         /\ ServedClients \subseteq Clients
         /\ Accepts => Head(backlog) \in Clients /\ Tail(backlog) \in Seq(Clients)
<1>1. Accepts => Head(backlog) \in Clients /\ Tail(backlog) \in Seq(Clients)
  BY HeadTailProperties DEF HostType, Accepts
<1>2. Seated \in [1..Slots -> Clients \cup {Nobody}]
  BY <1>1 DEF HostType, Seated, Seating
<1> QED
  BY <1>1, <1>2 DEF DroppedClients, ServedClients, HungUp, Served

(* What an update does to an origin's bytes, with k the client that is read. *)
LEMMA UnreadType ==
  ASSUME HostType, NEW reading, \A o \in reading \cap Origins : unread[o] # <<>>
  PROVE  Unread(reading) \in [Origins -> Seq(Bytes)]
BY HeadTailProperties, EmptySeq DEF HostType, Unread

LEMMA SliceTypes ==
  ASSUME HostType, link_socket_update
  PROVE  HostType'
<1> USE DEF HostType
<1>1. clients' \in [1..Slots -> Clients \cup {Nobody}] /\ backlog' \in Seq(Clients)
  BY SeatsType DEF link_socket_update
<1>2. lost' \in [Origins -> Seq(Bytes)]
  BY ConcatProperties DEF link_socket_update, Drop
<1>3. InHand \in Seq(Bytes)
  BY DEF InHand
<1>4. /\ collected' \in Seq(Bytes) /\ missed' \in [Clients -> Seq(Bytes)]
  BY <1>3, ConcatProperties DEF link_socket_update, Transmit
<1>5. heard' \in [Clients -> Seq(Bytes)]
  BY <1>3, ConcatProperties, EmptySeq DEF link_socket_update, Transmit
<1> DEFINE Received == /\ unread' \in [Origins -> Seq(Bytes)] /\ from' \in Origins
                       /\ status' \subseteq StatusBits
                       /\ rx_buffer' \in Bytes /\ tx_buffer' = tx_buffer
<1>6. Received
  <2>1. CASE Readable = {} /\ unread' = Unread({}) /\ UNCHANGED <<vars, from>>
    BY <2>1, UnreadType DEF vars, linkVars
  <2>2. ASSUME NEW i \in Readable, unread' = Unread({Seated[i]}),
               \/ link_recv_byte(Head(unread[Seated[i]])) /\ from' = Seated[i]
               \/ "rx_ready" \in status /\ UNCHANGED <<vars, from>>
        PROVE  Received
    <3>1. Seated[i] \in Clients /\ unread[Seated[i]] # <<>>
      BY SeatsType DEF Readable, Served, ServedClients
    <3>2. unread' \in [Origins -> Seq(Bytes)]
      BY <2>2, <3>1, UnreadType
    <3>3. Head(unread[Seated[i]]) \in Bytes
      BY <3>1, HeadTailProperties DEF Origins
    <3> QED
      BY <2>2, <3>1, <3>2, <3>3 DEF link_recv_byte, vars, linkVars, StatusBits, Origins
  <2> QED
    BY <2>1, <2>2 DEF link_socket_update, Receive
<1> QED
  BY <1>1, <1>2, <1>4, <1>5, <1>6 DEF link_socket_update

LEMMA FeedTypes ==
  ASSUME HostType, on_link_rx_buffer_read
  PROVE  HostType'
<1> USE DEF HostType
<1>1. CASE UNCHANGED <<vars, arrivals>>
  BY <1>1 DEF on_link_rx_buffer_read, socketVars, departures, arrivals, vars, linkVars
<1>2. CASE /\ unread[File] # <<>> /\ link_recv_byte(Head(unread[File]))
           /\ unread' = [unread EXCEPT ![File] = Tail(@)]
           /\ from' = File /\ UNCHANGED <<sent, got, lost>>
  <2>1. File \in Origins
    BY DEF Origins
  <2>2. Head(unread[File]) \in Bytes /\ Tail(unread[File]) \in Seq(Bytes)
    BY <1>2, <2>1, HeadTailProperties
  <2> QED
    BY <1>2, <2>1, <2>2
       DEF on_link_rx_buffer_read, link_recv_byte, socketVars, departures, StatusBits
<1> QED
  BY <1>1, <1>2 DEF on_link_rx_buffer_read, FeedByte

LEMMA HostTypeHolds == HostSpec => []HostType
<1>1. HostInit => HostType
  BY BytesAssumption, EmptySeq DEF HostInit, Init, HostType, StatusBits, Origins
<1>2. HostType /\ [HostNext]_hostVars => HostType'
  <2> SUFFICES ASSUME HostType, [HostNext]_hostVars
               PROVE  HostType'
    OBVIOUS
  <2> USE DEF HostType, arrivals, departures, socketVars, vars, linkVars, StatusBits
  <2>1. ASSUME NEW k \in Clients, Connect(k)
        PROVE  HostType'
    BY <2>1, AppendProperties DEF Connect
  <2>2. ASSUME NEW k \in Clients, ClientSends(k)
        PROVE  HostType'
    <3>1. k \in Origins /\ Text[k][Len(sent[k]) + 1] \in Bytes
      BY <2>2, TextAssumption DEF ClientSends, Origins
    <3> QED
      BY <2>2, <3>1, AppendProperties DEF ClientSends
  <2>3. ASSUME NEW k \in Clients, ClientCloses(k)
        PROVE  HostType'
    BY <2>3 DEF ClientCloses
  <2>4. CASE GuestEnables
    BY <2>4 DEF GuestEnables, write_link_assist_enable_port
  <2>5. CASE GuestReads
    <3>1. Append(got[from], rx_buffer) \in Seq(Bytes)
      BY AppendProperties
    <3>2. got' \in [Origins -> Seq(Bytes)]
      BY <2>5, <3>1 DEF GuestReads
    <3>3. status' \subseteq StatusBits /\ rx_buffer' \in Bytes /\ tx_buffer' \in Bytes
      BY <2>5, BytesAssumption DEF GuestReads, read_link_assist_rx_port
    <3> QED
      BY <2>5, <3>2, <3>3 DEF GuestReads
  <2>6. CASE GuestPosts
    <3>1. GuestText[Len(posted) + 1] \in Bytes
      BY <2>6, TextAssumption DEF GuestPosts
    <3> QED
      BY <2>6, <3>1, AppendProperties DEF GuestPosts, write_link_assist_tx_port
  <2>7. CASE handle_send
    BY <2>7, TextAssumption DEF handle_send, Origins
  <2>8. CASE on_link_rx_buffer_read
    BY <2>8, FeedTypes
  <2>9. CASE Collect
    BY <2>9 DEF Collect, link_read_tx_buffer
  <2>10. CASE link_socket_update
    BY <2>10, SliceTypes
  <2>11. CASE UNCHANGED hostVars
    BY <2>11 DEF hostVars
  <2> QED
    BY <2>1, <2>2, <2>3, <2>4, <2>5, <2>6, <2>7, <2>8, <2>9, <2>10, <2>11
       DEF HostNext, Client, LinkedGuest, Emulator
<1> QED
  BY <1>1, <1>2, PTL DEF HostSpec

(* What is lost is final: nothing is left unread behind it. *)
ArriveInv ==
  /\ BytesArrive
  /\ \A o \in Origins : lost[o] # <<>> => unread[o] = <<>>

Flow(g, t, u, l) == g \o t \o u \o l

(* A byte is sent, received, read; what is unread is dropped. *)
LEMMA FlowSend ==
  ASSUME NEW g \in Seq(Bytes), NEW t \in Seq(Bytes), NEW u \in Seq(Bytes), NEW b \in Bytes
  PROVE  Flow(g, t, Append(u, b), <<>>) = Append(Flow(g, t, u, <<>>), b)
<1> DEFINE front == g \o t
<1>1. front \in Seq(Bytes) /\ <<b>> \in Seq(Bytes) /\ front \o u \in Seq(Bytes)
  BY ConcatProperties
<1>2. Append(u, b) \in Seq(Bytes) /\ Append(u, b) = u \o <<b>>
  BY AppendProperties, AppendIsConcat
<1>3. front \o (u \o <<b>>) = (front \o u) \o <<b>>
  BY <1>1, ConcatAssociative
<1>4. Append(front \o u, b) = (front \o u) \o <<b>>
  BY <1>1, AppendIsConcat
<1>5. Flow(g, t, u, <<>>) = front \o u
  BY <1>1, ConcatEmptySeq DEF Flow
<1>6. front \o Append(u, b) \in Seq(Bytes)
  BY <1>1, <1>2, ConcatProperties
<1>7. Flow(g, t, Append(u, b), <<>>) = front \o Append(u, b)
  BY <1>6, ConcatEmptySeq DEF Flow
<1> QED
  BY <1>2, <1>3, <1>4, <1>5, <1>7

LEMMA FlowReceive ==
  ASSUME NEW g \in Seq(Bytes), NEW u \in Seq(Bytes), NEW l \in Seq(Bytes), u # <<>>
  PROVE  Flow(g, <<Head(u)>>, Tail(u), l) = Flow(g, <<>>, u, l)
<1>1. Head(u) \in Bytes /\ Tail(u) \in Seq(Bytes) /\ <<Head(u)>> \o Tail(u) = u
  BY HeadAndTail
<1>2. <<Head(u)>> \in Seq(Bytes)
  BY <1>1
<1>3. (g \o <<Head(u)>>) \o Tail(u) = g \o (<<Head(u)>> \o Tail(u))
  BY <1>1, <1>2, ConcatAssociative
<1>4. g \o <<>> = g
  BY ConcatEmptySeq
<1> QED
  BY <1>1, <1>3, <1>4 DEF Flow

LEMMA FlowRead ==
  ASSUME NEW g \in Seq(Bytes), NEW u \in Seq(Bytes), NEW l \in Seq(Bytes), NEW b \in Bytes
  PROVE  Flow(Append(g, b), <<>>, u, l) = Flow(g, <<b>>, u, l)
<1>1. Append(g, b) \in Seq(Bytes) /\ Append(g, b) = g \o <<b>>
  BY AppendProperties, AppendIsConcat
<1>2. Append(g, b) \o <<>> = Append(g, b)
  BY <1>1, ConcatEmptySeq
<1> QED
  BY <1>1, <1>2 DEF Flow

LEMMA FlowDrop ==
  ASSUME NEW g \in Seq(Bytes), NEW t \in Seq(Bytes), NEW u \in Seq(Bytes), NEW l \in Seq(Bytes),
         l = <<>> \/ u = <<>>
  PROVE  Flow(g, t, <<>>, l \o u) = Flow(g, t, u, l)
<1>1. g \o t \in Seq(Bytes)
  BY ConcatProperties
<1>2. (g \o t) \o <<>> = g \o t /\ ((g \o t) \o u) \o <<>> = (g \o t) \o u
  BY <1>1, ConcatEmptySeq, ConcatProperties
<1>3. l \o <<>> = l /\ <<>> \o u = u
  BY ConcatEmptySeq
<1> QED
  BY <1>2, <1>3 DEF Flow

(* The steps that touch no byte on its way. *)
LEMMA NothingMoves ==
  ASSUME HostType, ArriveInv, UNCHANGED arrivals, UNCHANGED rx_buffer,
         "rx_ready" \in status' <=> "rx_ready" \in status,
         \A k \in Clients : stage[k] = "gone" => stage'[k] = "gone"
  PROVE  ArriveInv'
BY DEF ArriveInv, BytesArrive, InTransit, arrivals

(* link_recv_byte, for a byte of origin k. *)
LEMMA ByteReceived ==
  ASSUME HostType, ArriveInv, NEW k \in Origins, unread[k] # <<>>,
         link_recv_byte(Head(unread[k])), from' = k,
         UNCHANGED <<sent, got>>, UNCHANGED stage,
         NEW D \in SUBSET Clients, k \notin D, \A o \in D : stage[o] = "gone",
         unread' = [o \in Origins |-> IF o \in D THEN <<>>
                                      ELSE IF o = k THEN Tail(unread[o]) ELSE unread[o]],
         lost' = [o \in Origins |-> IF o \in D THEN lost[o] \o unread[o] ELSE lost[o]]
  PROVE  ArriveInv'
<1> SUFFICES ASSUME NEW o \in Origins
             PROVE  /\ Flow(got[o], InTransit(o)', unread'[o], lost'[o]) = sent[o]
                    /\ lost'[o] # <<>> => o \in Clients /\ stage[o] = "gone"
                    /\ lost'[o] # <<>> => unread'[o] = <<>>
  BY DEF ArriveInv, BytesArrive, Flow
<1>0. /\ got[o] \in Seq(Bytes) /\ unread[o] \in Seq(Bytes) /\ lost[o] \in Seq(Bytes)
      /\ InTransit(o) = <<>> /\ <<>> \in Seq(Bytes)
      /\ Flow(got[o], <<>>, unread[o], lost[o]) = sent[o]
      /\ lost[o] # <<>> => o \in Clients /\ stage[o] = "gone" /\ unread[o] = <<>>
  BY EmptySeq DEF HostType, ArriveInv, BytesArrive, Flow, InTransit, link_recv_byte
<1>1. CASE o \in D
  <2>1. InTransit(o)' = <<>>
    BY <1>1 DEF InTransit
  <2>2. unread'[o] = <<>> /\ lost'[o] = lost[o] \o unread[o]
    BY <1>1
  <2> QED
    BY <1>0, <1>1, <2>1, <2>2, FlowDrop
<1>2. CASE o = k
  <2>1. InTransit(o)' = <<Head(unread[o])>>
    BY <1>2 DEF InTransit, link_recv_byte
  <2>2. unread'[o] = Tail(unread[o]) /\ lost'[o] = lost[o] /\ lost[o] = <<>>
    BY <1>0, <1>2
  <2>3. unread[o] # <<>>
    BY <1>2
  <2>4. Flow(got[o], <<Head(unread[o])>>, Tail(unread[o]), lost[o]) = sent[o]
    BY <1>0, <2>3, FlowReceive
  <2> QED
    BY <2>1, <2>2, <2>4
<1>3. CASE o \notin D /\ o # k
  <2>1. InTransit(o)' = <<>>
    BY <1>3 DEF InTransit
  <2>2. unread'[o] = unread[o] /\ lost'[o] = lost[o]
    BY <1>3
  <2> QED
    BY <1>0, <2>1, <2>2
<1> QED
  BY <1>1, <1>2, <1>3

(* A slice's end in which nothing is received: connections may be dropped. *)
LEMMA NothingReceived ==
  ASSUME HostType, ArriveInv, UNCHANGED <<vars, sent, got, from>>, UNCHANGED stage,
         NEW D \in SUBSET Clients, \A o \in D : stage[o] = "gone",
         unread' = [o \in Origins |-> IF o \in D THEN <<>> ELSE unread[o]],
         lost' = [o \in Origins |-> IF o \in D THEN lost[o] \o unread[o] ELSE lost[o]]
  PROVE  ArriveInv'
<1> SUFFICES ASSUME NEW o \in Origins
             PROVE  /\ Flow(got[o], InTransit(o), unread'[o], lost'[o]) = sent[o]
                    /\ lost'[o] # <<>> => o \in Clients /\ stage[o] = "gone"
                    /\ lost'[o] # <<>> => unread'[o] = <<>>
  BY DEF ArriveInv, BytesArrive, Flow, InTransit, vars, linkVars
<1>0. /\ got[o] \in Seq(Bytes) /\ unread[o] \in Seq(Bytes) /\ lost[o] \in Seq(Bytes)
      /\ InTransit(o) \in Seq(Bytes)
      /\ Flow(got[o], InTransit(o), unread[o], lost[o]) = sent[o]
      /\ lost[o] # <<>> => o \in Clients /\ stage[o] = "gone" /\ unread[o] = <<>>
  <2>1. InTransit(o) \in Seq(Bytes)
    BY DEF HostType, InTransit
  <2> QED
    BY <2>1 DEF HostType, ArriveInv, BytesArrive, Flow
<1>1. CASE o \in D
  BY <1>0, <1>1, FlowDrop
<1>2. CASE o \notin D
  BY <1>0, <1>2
<1> QED
  BY <1>1, <1>2

LEMMA SliceArrives ==
  ASSUME HostType, ArriveInv, link_socket_update
  PROVE  ArriveInv'
<1>1. /\ DroppedClients \in SUBSET Clients
      /\ \A o \in DroppedClients : stage[o] = "gone"
  BY SeatsType DEF DroppedClients, HungUp
<1>2. lost' = [o \in Origins |-> IF o \in DroppedClients THEN lost[o] \o unread[o] ELSE lost[o]]
  BY DEF link_socket_update, Drop
<1>3. UNCHANGED <<sent, got>> /\ UNCHANGED stage
  BY DEF link_socket_update
<1>4. CASE Readable = {} /\ unread' = Unread({}) /\ UNCHANGED <<vars, from>>
  <2>1. unread' = [o \in Origins |-> IF o \in DroppedClients THEN <<>> ELSE unread[o]]
    BY <1>4 DEF Unread
  <2> QED
    BY <1>1, <1>2, <1>3, <1>4, <2>1, NothingReceived
<1>5. ASSUME NEW i \in Readable, unread' = Unread({Seated[i]}),
             \/ link_recv_byte(Head(unread[Seated[i]])) /\ from' = Seated[i]
             \/ "rx_ready" \in status /\ UNCHANGED <<vars, from>>
      PROVE  ArriveInv'
  <2> DEFINE k == Seated[i]
  <2>1. k \in Origins /\ unread[k] # <<>> /\ k \notin DroppedClients
    BY SeatsType DEF Readable, Served, ServedClients, DroppedClients, HungUp, Origins
  <2>2. link_recv_byte(Head(unread[k])) /\ from' = k
    BY <1>5 DEF Readable
  <2>3. unread' = [o \in Origins |-> IF o \in DroppedClients THEN <<>>
                                     ELSE IF o = k THEN Tail(unread[o]) ELSE unread[o]]
    BY <1>5 DEF Unread
  <2> HIDE DEF k
  <2> QED
    BY <1>1, <1>2, <1>3, <2>1, <2>2, <2>3, ByteReceived
<1> QED
  BY <1>4, <1>5 DEF link_socket_update, Receive

LEMMA FeedArrives ==
  ASSUME HostType, ArriveInv, on_link_rx_buffer_read
  PROVE  ArriveInv'
<1>1. UNCHANGED stage
  BY DEF on_link_rx_buffer_read
<1>2. CASE UNCHANGED <<vars, arrivals>>
  BY <1>1, <1>2, NothingMoves DEF vars, linkVars
<1>3. CASE /\ unread[File] # <<>> /\ link_recv_byte(Head(unread[File]))
           /\ unread' = [unread EXCEPT ![File] = Tail(@)]
           /\ from' = File /\ UNCHANGED <<sent, got, lost>>
  <2>1. File \in Origins /\ {} \in SUBSET Clients
    BY DEF Origins
  <2>2. unread' = [o \in Origins |-> IF o \in {} THEN <<>>
                                     ELSE IF o = File THEN Tail(unread[o]) ELSE unread[o]]
    BY <1>3 DEF HostType
  <2>3. lost' = [o \in Origins |-> IF o \in {} THEN lost[o] \o unread[o] ELSE lost[o]]
    BY <1>3 DEF HostType
  <2> QED
    BY <1>1, <1>3, <2>1, <2>2, <2>3, ByteReceived
<1> QED
  BY <1>2, <1>3 DEF on_link_rx_buffer_read, FeedByte

LEMMA ReadArrives ==
  ASSUME HostType, ArriveInv, GuestReads
  PROVE  ArriveInv'
<1>0. UNCHANGED <<stage, unread, sent, lost, from>>
  BY DEF GuestReads
<1>1. CASE UNCHANGED <<vars, got>>
  BY <1>0, <1>1, NothingMoves DEF vars, linkVars, arrivals
<1>2. CASE /\ read_link_assist_rx_port
           /\ got' = [got EXCEPT ![from] = Append(@, rx_buffer)]
  <2> SUFFICES ASSUME NEW o \in Origins
               PROVE  Flow(got'[o], InTransit(o)', unread[o], lost[o]) = sent[o]
    BY <1>0 DEF ArriveInv, BytesArrive, Flow
  <2>1. InTransit(o)' = <<>>
    BY <1>2 DEF InTransit, read_link_assist_rx_port
  <2>2. /\ got[o] \in Seq(Bytes) /\ unread[o] \in Seq(Bytes) /\ lost[o] \in Seq(Bytes)
        /\ rx_buffer \in Bytes
        /\ Flow(got[o], InTransit(o), unread[o], lost[o]) = sent[o]
    BY DEF HostType, ArriveInv, BytesArrive, Flow
  <2>3. CASE o = from
    <3>1. InTransit(o) = <<rx_buffer>>
      BY <1>2, <2>3 DEF InTransit, read_link_assist_rx_port
    <3>2. got'[o] = Append(got[o], rx_buffer)
      BY <1>2, <2>3 DEF HostType
    <3> QED
      BY <2>1, <2>2, <3>1, <3>2, FlowRead
  <2>4. CASE o # from
    BY <1>2, <2>1, <2>2, <2>4 DEF InTransit, HostType
  <2> QED
    BY <2>3, <2>4
<1> QED
  BY <1>1, <1>2 DEF GuestReads

LEMMA SendArrives ==
  ASSUME HostType, ArriveInv, NEW k \in Clients, ClientSends(k)
  PROVE  ArriveInv'
<1> DEFINE b == Text[k][Len(sent[k]) + 1]
<1>1. /\ UNCHANGED <<vars, stage, got, lost, from>> /\ stage[k] = "up"
      /\ unread' = [unread EXCEPT ![k] = Append(@, b)]
      /\ sent' = [sent EXCEPT ![k] = Append(@, b)]
  BY DEF ClientSends
<1>2. b \in Bytes /\ k \in Origins
  BY TextAssumption DEF ClientSends, Origins, HostType
<1> HIDE DEF b
<1> SUFFICES ASSUME NEW o \in Origins
             PROVE  /\ Flow(got[o], InTransit(o), unread'[o], lost[o]) = sent'[o]
                    /\ lost[o] # <<>> => o \in Clients /\ stage[o] = "gone"
                    /\ lost[o] # <<>> => unread'[o] = <<>>
  BY <1>1 DEF ArriveInv, BytesArrive, Flow, InTransit, vars, linkVars
<1>3. /\ got[o] \in Seq(Bytes) /\ unread[o] \in Seq(Bytes)
      /\ Flow(got[o], InTransit(o), unread[o], lost[o]) = sent[o]
      /\ lost[o] # <<>> => o \in Clients /\ stage[o] = "gone" /\ unread[o] = <<>>
  BY DEF HostType, ArriveInv, BytesArrive, Flow
<1>4. InTransit(o) \in Seq(Bytes)
  BY DEF HostType, InTransit
<1>5. CASE o = k
  <2>1. lost[o] = <<>>
    BY <1>1, <1>3, <1>5
  <2>2. unread'[o] = Append(unread[o], b) /\ sent'[o] = Append(sent[o], b)
    BY <1>1, <1>5 DEF HostType
  <2>3. Flow(got[o], InTransit(o), Append(unread[o], b), <<>>)
          = Append(Flow(got[o], InTransit(o), unread[o], <<>>), b)
    BY <1>2, <1>3, <1>4, FlowSend
  <2>4. Flow(got[o], InTransit(o), unread[o], <<>>) = sent[o]
    BY <1>3, <2>1
  <2> QED
    BY <2>1, <2>2, <2>3, <2>4
<1>6. CASE o # k
  BY <1>1, <1>3, <1>6 DEF HostType
<1> QED
  BY <1>5, <1>6

(* Nothing of the file is on its way before it is sent. *)
LEMMA FileArrives ==
  ASSUME HostType, ArriveInv, handle_send
  PROVE  ArriveInv'
<1>1. /\ UNCHANGED <<vars, stage, got, lost, from>> /\ sent[File] = <<>>
      /\ sent' = [sent EXCEPT ![File] = Text[File]]
      /\ unread' = [unread EXCEPT ![File] = Text[File]]
  BY DEF handle_send
<1>2. File \in Origins /\ File \notin Clients /\ Text[File] \in Seq(Bytes)
  BY ClientsAssumption, TextAssumption DEF Origins
<1> SUFFICES ASSUME NEW o \in Origins
             PROVE  /\ Flow(got[o], InTransit(o), unread'[o], lost[o]) = sent'[o]
                    /\ lost[o] # <<>> => o \in Clients /\ stage[o] = "gone"
                    /\ lost[o] # <<>> => unread'[o] = <<>>
  BY <1>1 DEF ArriveInv, BytesArrive, Flow, InTransit, vars, linkVars
<1>3. /\ got[o] \in Seq(Bytes) /\ unread[o] \in Seq(Bytes)
      /\ Flow(got[o], InTransit(o), unread[o], lost[o]) = sent[o]
      /\ lost[o] # <<>> => o \in Clients /\ stage[o] = "gone" /\ unread[o] = <<>>
  BY DEF HostType, ArriveInv, BytesArrive, Flow
<1>4. InTransit(o) \in Seq(Bytes)
  BY DEF HostType, InTransit
<1>5. CASE o = File
  <2>1. lost[o] = <<>>
    BY <1>2, <1>3, <1>5
  <2>2. /\ got[o] \o InTransit(o) \in Seq(Bytes)
        /\ (got[o] \o InTransit(o)) \o unread[o] \in Seq(Bytes)
    BY <1>3, <1>4, ConcatProperties
  <2>3. (got[o] \o InTransit(o)) \o unread[o] = <<>>
    BY <1>1, <1>3, <1>5, <2>1, <2>2, ConcatEmptySeq DEF Flow
  <2>4. got[o] \o InTransit(o) = <<>>
    BY <1>3, <2>2, <2>3, ConcatEqualIffEmpty
  <2>5. unread'[o] = Text[File] /\ sent'[o] = Text[File]
    BY <1>1, <1>5 DEF HostType
  <2>6. (<<>> \o Text[File]) \o <<>> = Text[File]
    BY <1>2, ConcatEmptySeq
  <2> QED
    BY <2>1, <2>4, <2>5, <2>6 DEF Flow
<1>6. CASE o # File
  BY <1>1, <1>3, <1>6 DEF HostType
<1> QED
  BY <1>5, <1>6

(* BytesArrive, for any clients, slots and texts: a byte that has been sent  *)
(* moves on from the socket or the file into the buffer and from there to    *)
(* the guest, and is in one of these places all the time.                    *)
THEOREM ArriveCorrect == HostSpec => []BytesArrive
<1>1. HostInit => ArriveInv
  <2> SUFFICES ASSUME HostInit, NEW o \in Origins
               PROVE  /\ got[o] \o InTransit(o) \o unread[o] \o lost[o] = sent[o]
                      /\ lost[o] = <<>>
    BY DEF ArriveInv, BytesArrive
  <2>1. got[o] = <<>> /\ unread[o] = <<>> /\ lost[o] = <<>> /\ sent[o] = <<>>
    BY DEF HostInit
  <2>2. InTransit(o) = <<>>
    BY DEF HostInit, Init, InTransit
  <2>3. <<>> \o <<>> \o <<>> \o <<>> = <<>>
    BY EmptySeq, ConcatEmptySeq
  <2> QED
    BY <2>1, <2>2, <2>3
<1>2. HostType /\ ArriveInv /\ [HostNext]_hostVars => ArriveInv'
  <2> SUFFICES ASSUME HostType, ArriveInv, [HostNext]_hostVars
               PROVE  ArriveInv'
    OBVIOUS
  <2>1. ASSUME NEW k \in Clients, Connect(k)
        PROVE  ArriveInv'
    BY <2>1, NothingMoves DEF Connect, vars, linkVars
  <2>2. ASSUME NEW k \in Clients, ClientSends(k)
        PROVE  ArriveInv'
    BY <2>2, SendArrives
  <2>3. ASSUME NEW k \in Clients, ClientCloses(k)
        PROVE  ArriveInv'
    BY <2>3, NothingMoves DEF ClientCloses, vars, linkVars
  <2>4. CASE GuestEnables
    BY <2>4, NothingMoves DEF GuestEnables, write_link_assist_enable_port
  <2>5. CASE GuestReads
    BY <2>5, ReadArrives
  <2>6. CASE GuestPosts
    BY <2>6, NothingMoves DEF GuestPosts, write_link_assist_tx_port
  <2>7. CASE handle_send
    BY <2>7, FileArrives
  <2>8. CASE on_link_rx_buffer_read
    BY <2>8, FeedArrives
  <2>9. CASE Collect
    BY <2>9, NothingMoves DEF Collect, link_read_tx_buffer, vars, linkVars
  <2>10. CASE link_socket_update
    BY <2>10, SliceArrives
  <2>11. CASE UNCHANGED hostVars
    BY <2>11, NothingMoves DEF hostVars, vars, linkVars
  <2> QED
    BY <2>1, <2>2, <2>3, <2>4, <2>5, <2>6, <2>7, <2>8, <2>9, <2>10, <2>11
       DEF HostNext, Client, LinkedGuest, Emulator
<1>3. ArriveInv => BytesArrive
  BY DEF ArriveInv
<1> QED
  BY <1>1, <1>2, <1>3, HostTypeHolds, PTL DEF HostSpec

(* In the other direction a byte is in the guest's buffer, in hand, or offered. *)
HearInv ==
  /\ ClientsHear
  /\ c # Nothing => phase = "socket"
  /\ "tx_ready" \in status => "tx_active" \notin status

LEMMA NothingLeaves ==
  ASSUME HearInv, UNCHANGED <<posted, collected, missed, heard, c, clients, tx_buffer>>,
         c # Nothing => phase' = "socket",
         "tx_active" \in status' <=> "tx_active" \in status,
         "tx_ready" \in status' <=> "tx_ready" \in status
  PROVE  HearInv'
BY DEF HearInv, ClientsHear, InHand, InBuffer

(* Slot by slot: whoever sits there was seated now, or sat there before, and *)
(* is written to.                                                            *)
LEMMA SliceHears ==
  ASSUME HostType, HearInv, link_socket_update
  PROVE  HearInv'
<1>1. /\ collected' = collected \o InHand /\ c' = Nothing /\ posted' = posted
      /\ phase = "socket"
  BY DEF link_socket_update, Transmit
<1>2. /\ tx_buffer' = tx_buffer
      /\ "tx_active" \in status' <=> "tx_active" \in status
      /\ "tx_ready" \in status' <=> "tx_ready" \in status
  BY DEF link_socket_update, Receive, link_recv_byte, vars, linkVars
<1>3. InHand \in Seq(Bytes) /\ collected \in Seq(Bytes)
  BY DEF HostType, InHand
<1>4. collected' \o InHand' \o InBuffer' = posted'
  <2>1. InHand' = <<>> /\ InBuffer' = InBuffer
    BY <1>1, <1>2 DEF InHand, InBuffer
  <2>2. (collected \o InHand) \o <<>> = collected \o InHand
    BY <1>3, ConcatProperties, ConcatEmptySeq
  <2>3. collected \o InHand \o InBuffer = posted
    BY DEF HearInv, ClientsHear
  <2> QED
    BY <1>1, <2>1, <2>2, <2>3
<1>5. ASSUME NEW i \in 1..Slots, clients'[i] # Nobody
      PROVE  missed'[clients'[i]] \o heard'[clients'[i]] = collected'
  <2> DEFINE k == clients'[i]
  <2>1. i \notin HungUp /\ k = Seated[i] /\ k # Nobody
    BY <1>5 DEF link_socket_update
  <2>2. k \in Listeners /\ k \in Clients
    BY <2>1, SeatsType DEF Served, ServedClients, Listeners
  <2>3. /\ missed'[k] = IF JustSeated(k) THEN collected ELSE missed[k]
        /\ heard'[k] = (IF JustSeated(k) THEN <<>> ELSE heard[k]) \o InHand
    BY <2>2 DEF link_socket_update, Transmit
  <2>4. CASE JustSeated(k)
    <3>1. <<>> \o InHand = InHand
      BY <1>3, ConcatEmptySeq
    <3> QED
      BY <1>1, <2>3, <2>4, <3>1
  <2>5. CASE ~JustSeated(k)
    <3>1. k = clients[i]
      BY <2>1, <2>5 DEF Seated, JustSeated
    <3>2. missed[k] \o heard[k] = collected
      BY <2>1, <3>1 DEF HearInv, ClientsHear
    <3>3. missed[k] \in Seq(Bytes) /\ heard[k] \in Seq(Bytes)
      BY <2>2 DEF HostType
    <3>4. \A m, h \in Seq(Bytes) : m \o (h \o InHand) = (m \o h) \o InHand
      BY <1>3, ConcatAssociative
    <3> QED
      BY <1>1, <2>3, <2>5, <3>2, <3>3, <3>4
  <2> QED
    BY <2>4, <2>5
<1> QED
  BY <1>1, <1>2, <1>4, <1>5 DEF HearInv, ClientsHear

LEMMA CollectHears ==
  ASSUME HostType, HearInv, Collect
  PROVE  HearInv'
<1>1. phase = "run" /\ phase' = "socket" /\ c = Nothing
      /\ UNCHANGED <<posted, collected, missed, heard, clients>>
  BY DEF Collect, HearInv, departures, socketVars
<1>2. CASE "tx_active" \notin status /\ c' = Nothing /\ UNCHANGED vars
  BY <1>1, <1>2, NothingLeaves DEF vars, linkVars
<1>3. CASE link_read_tx_buffer /\ c' = tx_buffer
  <2>1. /\ "tx_active" \in status /\ "tx_active" \notin status'
        /\ tx_buffer \in Bytes /\ tx_buffer # Nothing
    BY <1>3, BytesAssumption DEF link_read_tx_buffer, HostType
  <2>2. InHand = <<>> /\ InBuffer = <<tx_buffer>> /\ InHand' = <<tx_buffer>> /\ InBuffer' = <<>>
    BY <1>1, <1>3, <2>1 DEF InHand, InBuffer
  <2>3. collected \in Seq(Bytes) /\ <<tx_buffer>> \in Seq(Bytes)
    BY <2>1 DEF HostType
  <2>4. (collected \o <<>>) \o <<tx_buffer>> = (collected \o <<tx_buffer>>) \o <<>>
    BY <2>3, ConcatProperties, ConcatEmptySeq
  <2> QED
    BY <1>1, <2>1, <2>2, <2>4 DEF HearInv, ClientsHear
<1> QED
  BY <1>2, <1>3 DEF Collect

LEMMA PostHears ==
  ASSUME HostType, HearInv, GuestPosts
  PROVE  HearInv'
<1> DEFINE val == GuestText[Len(posted) + 1]
<1>1. /\ phase = "run" /\ UNCHANGED <<phase, c, clients, collected, missed, heard>>
      /\ write_link_assist_tx_port(val) /\ posted' = Append(posted, val)
      /\ c = Nothing
  BY DEF GuestPosts, HearInv, socketVars
<1>2. val \in Bytes
  BY TextAssumption DEF GuestPosts, HostType
<1> HIDE DEF val
<1>3. /\ "tx_active" \notin status /\ "tx_active" \in status' /\ "tx_ready" \notin status'
      /\ tx_buffer' = val
  BY <1>1 DEF HearInv, write_link_assist_tx_port
<1>4. InHand = <<>> /\ InHand' = <<>> /\ InBuffer = <<>> /\ InBuffer' = <<val>>
  BY <1>1, <1>3 DEF InHand, InBuffer
<1>5. collected \in Seq(Bytes) /\ posted \in Seq(Bytes) /\ <<>> \in Seq(Bytes)
  BY EmptySeq DEF HostType
<1>6. collected \o <<>> = collected
  BY <1>5, ConcatEmptySeq
<1>7. collected = posted
  BY <1>4, <1>6 DEF HearInv, ClientsHear
<1>8. Append(posted, val) = posted \o <<val>>
  BY <1>2, <1>5, AppendIsConcat
<1> QED
  BY <1>1, <1>3, <1>4, <1>6, <1>7, <1>8 DEF HearInv, ClientsHear

(* ClientsHear, for any clients, slots and texts: what the guest sends is in *)
(* the buffer, in hand between two calls of the run loop, or offered; and a  *)
(* client is written to in every update in which it keeps its slot.          *)
THEOREM HearCorrect == HostSpec => []ClientsHear
<1>1. HostInit => HearInv
  <2> SUFFICES ASSUME HostInit
               PROVE  HearInv
    OBVIOUS
  <2>1. InHand = <<>> /\ InBuffer = <<>>
    BY DEF HostInit, Init, InHand, InBuffer
  <2>2. <<>> \o <<>> \o <<>> = <<>>
    BY EmptySeq, ConcatEmptySeq
  <2> QED
    BY <2>1, <2>2 DEF HearInv, ClientsHear, HostInit, Init
<1>2. HostType /\ HearInv /\ [HostNext]_hostVars => HearInv'
  <2> SUFFICES ASSUME HostType, HearInv, [HostNext]_hostVars
               PROVE  HearInv'
    OBVIOUS
  <2> USE DEF vars, linkVars, departures, socketVars
  <2>1. ASSUME NEW k \in Clients, Connect(k) \/ ClientSends(k) \/ ClientCloses(k)
        PROVE  HearInv'
    BY <2>1, NothingLeaves DEF Connect, ClientSends, ClientCloses, HearInv
  <2>2. CASE GuestEnables
    BY <2>2, NothingLeaves DEF GuestEnables, HearInv, write_link_assist_enable_port
  <2>3. CASE GuestReads
    BY <2>3, NothingLeaves DEF GuestReads, HearInv, read_link_assist_rx_port
  <2>4. CASE GuestPosts
    BY <2>4, PostHears
  <2>5. CASE handle_send
    BY <2>5, NothingLeaves DEF handle_send, HearInv
  <2>6. CASE on_link_rx_buffer_read
    BY <2>6, NothingLeaves DEF on_link_rx_buffer_read, FeedByte, HearInv, link_recv_byte
  <2>7. CASE Collect
    BY <2>7, CollectHears
  <2>8. CASE link_socket_update
    BY <2>8, SliceHears
  <2>9. CASE UNCHANGED hostVars
    BY <2>9, NothingLeaves DEF hostVars, HearInv
  <2> QED
    BY <2>1, <2>2, <2>3, <2>4, <2>5, <2>6, <2>7, <2>8, <2>9
       DEF HostNext, Client, LinkedGuest, Emulator
<1>3. HearInv => ClientsHear
  BY DEF HearInv
<1> QED
  BY <1>1, <1>2, <1>3, HostTypeHolds, PTL DEF HostSpec

(* The sockets, the file and the run loop use the link assist as its own     *)
(* specification allows: what is proved of it holds with them.               *)
THEOREM HostUsesAssist == HostSpec => []HandshakeInv /\ ImplementsChannel
<1>1. HostInit => Init
  BY DEF HostInit
<1>2. HostType /\ [HostNext]_hostVars => [Next]_vars
  <2> SUFFICES ASSUME HostType, HostNext
               PROVE  Next \/ UNCHANGED vars
    BY DEF hostVars
  <2>1. CASE GuestEnables
    BY <2>1, GuestMasksAssumption DEF GuestEnables, Next, Guest
  <2>2. CASE GuestReads
    BY <2>2 DEF GuestReads, Next, Guest
  <2>3. CASE GuestPosts
    BY <2>3, TextAssumption DEF GuestPosts, Next, Guest, HostType
  <2>4. CASE on_link_rx_buffer_read
    <3>1. unread[File] # <<>> => Head(unread[File]) \in Bytes
      BY HeadTailProperties DEF HostType, Origins
    <3> QED
      BY <2>4, <3>1 DEF on_link_rx_buffer_read, FeedByte, Next, Host
  <2>5. CASE Collect
    BY <2>5 DEF Collect, Next, Host
  <2>6. CASE link_socket_update
    <3>1. ASSUME NEW i \in Readable
          PROVE  Head(unread[Seated[i]]) \in Bytes
      BY SeatsType, HeadTailProperties DEF Readable, Served, ServedClients, HostType, Origins
    <3> QED
      BY <2>6, <3>1 DEF link_socket_update, Receive, Next, Host
  <2> QED
    BY <2>1, <2>2, <2>3, <2>4, <2>5, <2>6
       DEF HostNext, Client, LinkedGuest, Emulator, Connect, ClientSends, ClientCloses, handle_send
<1> QED
  BY <1>1, <1>2, HostTypeHolds, HandshakeCorrect, ChannelImplemented, PTL DEF HostSpec, Spec
==============================================================================
