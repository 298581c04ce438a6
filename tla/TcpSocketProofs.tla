---------------------------- MODULE TcpSocketProofs ----------------------------
(***************************************************************************)
(* TcpSocket's order of delivery for any number of clients, any bounds,    *)
(* any failing socket call and any behaviour of the network, except an     *)
(* ESTABLISH_1 that is overtaken by data (LateEstablish = FALSE).          *)
(*                                                                         *)
(* The sequence number of a data packet is the position of its chunk in    *)
(* the stream, wherever the packet is: in a send list, on the network or   *)
(* in a receive list.  The sets Sound... collect the packets of which this *)
(* is true when s[l] chunks have been sent on each link l.                 *)
(***************************************************************************)
EXTENDS TcpSocket, SequenceTheorems, TLAPS

\* x goes from e to p, and is the k-th chunk of the link if it carries data.
Sound(s, e, p, x) ==
  /\ <<e, p>> \in Links
  /\ x.type = "ESTABLISH_1" => p = Server /\ x.seq = 0
  /\ x.type = "ESTABLISH_2" => e = Server /\ x.seq = 0
  /\ x.type = "DATA" => x.seq = x.data /\ 1 <= x.data /\ x.data <= s[<<e, p>>]
  /\ x.type = "ACK" => p = Server \/ 1 <= s[<<p, e>>]

SoundPackets(s) == {m \in Packets : Sound(s, m.from, m.to, m)}
SoundNodes(s, e) == {n \in Nodes : n.type # "ACK" /\ Sound(s, e, n.to, n)}
SoundEntries(s, l) ==
  {x \in [seq : Nat, data : Nat] : x.seq = x.data /\ 1 <= x.data /\ x.data <= s[Peer(l)]}

\* The invariant, in parts.
Typed ==
  /\ phase \in [Endpoints -> {"closed", "waiting", "open", "failed"}]
  /\ sender \in [Endpoints -> {"none", "run", "dead"}]
  /\ receiver \in [Endpoints -> {"none", "run", "dead"}]
  /\ nextSend \in [Links -> Nat]
  /\ nextRecv \in [Links -> Nat]
  /\ sent \in [Links -> Nat]
  /\ delivered \in [Links -> Seq(Nat)]

NetSound == net \subseteq SoundPackets(sent)

ListsSound ==
  /\ sendList \in [Endpoints -> Seq(Nodes)]
  /\ \A e \in Endpoints : sendList[e] \in Seq(SoundNodes(sent, e))

EntriesSound ==
  /\ recvList \in [Links -> Seq([seq : Nat, data : Nat])]
  /\ \A l \in Links : recvList[l] \in Seq(SoundEntries(sent, l))

\* The number expected is that of the next chunk, or there has been no handshake.
Numbered ==
  \A l \in Links :
    \/ nextRecv[l] = Len(delivered[l]) + 1
    \/ nextRecv[l] = 0 /\ delivered[l] = <<>>

\* A client with a send thread numbers its chunks from 1; it has none before Connect
\* has returned, and receives none unless Connect succeeded.
ClientNumbers ==
  \A c \in Clients :
    /\ sender[c] # "none" => nextSend[<<c, Server>>] = sent[<<c, Server>>] + 1
    /\ phase[c] \in {"waiting", "open"} => sender[c] # "none"
    /\ phase[c] = "closed" => sender[c] = "none"
    /\ phase[c] \in {"closed", "waiting"} => sent[<<c, Server>>] = 0
    /\ phase[c] # "open" => receiver[c] = "none" /\ delivered[<<c, Server>>] = <<>>

\* The server does so after the handshake.
ServerNumbers ==
  \A c \in Clients :
    /\ nextRecv[<<Server, c>>] = 0 => sent[<<Server, c>>] = 0
    /\ nextRecv[<<Server, c>>] > 0 =>
         nextSend[<<Server, c>>] = sent[<<Server, c>>] + 1

SocketInv ==
  /\ Typed
  /\ NetSound
  /\ ListsSound
  /\ EntriesSound
  /\ InOrderDelivery
  /\ Numbered
  /\ ClientNumbers
  /\ ServerNumbers

-----------------------------------------------------------------------------
(* Links and sequences. *)

\* A link joins a client and the server, and has a peer.
LEMMA LinkShape ==
  /\ \A c \in Clients : <<c, Server>> \in Links /\ <<Server, c>> \in Links
  /\ \A c \in Clients : c # Server /\ c \in Endpoints
  /\ Server \in Endpoints
  /\ \A e, p : <<e, p>> \in Links =>
       \/ e \in Clients /\ p = Server
       \/ e = Server /\ p \in Clients
  /\ \A l \in Links :
       /\ l = <<l[1], l[2]>>
       /\ l[1] \in Endpoints /\ l[2] \in Endpoints
       /\ Peer(l) \in Links
       /\ Peer(Peer(l)) = l
  BY SocketAssumption DEF Links, Endpoints, Peer

\* A function on 1 .. n is a list.
LEMMA FunctionIsSeq ==
  ASSUME NEW S, NEW n \in Nat, NEW f \in [1 .. n -> S] PROVE f \in Seq(S) /\ Len(f) = n
  BY SeqDef

\* Taking an element out of a list leaves a list.
LEMMA RemoveAtIsSeq ==
  ASSUME NEW S, NEW q \in Seq(S), NEW i \in 1 .. Len(q)
  PROVE  RemoveAt(q, i) \in Seq(S)
<1>1. SubSeq(q, 1, i - 1) \in Seq(S)
  BY SubSeqProperties, LenProperties
<1>2. SubSeq(q, i + 1, Len(q)) \in Seq(S)
  BY SubSeqProperties, LenProperties
<1> QED
  BY <1>1, <1>2, ConcatProperties DEF RemoveAt

\* Putting one in leaves a list.
LEMMA InsertAtIsSeq ==
  ASSUME NEW S, NEW q \in Seq(S), NEW i \in 1 .. Len(q) + 1, NEW x \in S
  PROVE  InsertAt(q, i, x) \in Seq(S)
<1>1. SubSeq(q, 1, i - 1) \in Seq(S)
  BY SubSeqProperties, LenProperties
<1>2. SubSeq(q, i, Len(q)) \in Seq(S)
  BY SubSeqProperties, LenProperties
<1>3. <<x>> \in Seq(S)
  OBVIOUS
<1>4. SubSeq(q, 1, i - 1) \o <<x>> \in Seq(S)
  BY <1>1, <1>3, ConcatProperties
<1> QED
  BY <1>2, <1>4, ConcatProperties DEF InsertAt

\* What is sound stays sound when more is sent.
LEMMA SoundGrows ==
  ASSUME NEW s \in [Links -> Nat], NEW t \in [Links -> Nat],
         \A l \in Links : s[l] <= t[l]
  PROVE  /\ SoundPackets(s) \subseteq SoundPackets(t)
         /\ \A e \in Endpoints : SoundNodes(s, e) \subseteq SoundNodes(t, e)
         /\ \A l \in Links : SoundEntries(s, l) \subseteq SoundEntries(t, l)
<1>1. ASSUME NEW e, NEW p, NEW x, x.data \in Nat, Sound(s, e, p, x)
      PROVE  Sound(t, e, p, x)
  <2>1. <<e, p>> \in Links /\ <<p, e>> \in Links
    BY <1>1, LinkShape DEF Sound
  <2>2. s[<<e, p>>] <= t[<<e, p>>] /\ s[<<p, e>>] <= t[<<p, e>>]
    BY <2>1
  <2>3. s[<<e, p>>] \in Nat /\ t[<<e, p>>] \in Nat /\ s[<<p, e>>] \in Nat /\ t[<<p, e>>] \in Nat
    BY <2>1
  <2> QED
    BY <1>1, <2>2, <2>3 DEF Sound
<1>2. SoundPackets(s) \subseteq SoundPackets(t)
  BY <1>1 DEF SoundPackets, Packets
<1>3. \A e \in Endpoints : SoundNodes(s, e) \subseteq SoundNodes(t, e)
  BY <1>1 DEF SoundNodes, Nodes
<1>4. \A l \in Links : SoundEntries(s, l) \subseteq SoundEntries(t, l)
  <2> SUFFICES ASSUME NEW l \in Links, NEW x \in SoundEntries(s, l)
               PROVE  x \in SoundEntries(t, l)
    OBVIOUS
  <2>1. Peer(l) \in Links
    BY LinkShape
  <2>2. s[Peer(l)] <= t[Peer(l)] /\ s[Peer(l)] \in Nat /\ t[Peer(l)] \in Nat
    BY <2>1
  <2> QED
    BY <2>2 DEF SoundEntries
<1> QED
  BY <1>2, <1>3, <1>4

-----------------------------------------------------------------------------
(* The invariant is kept by every step: first the ones that open a connection. *)

\* Nothing sent, nothing received: the invariant holds.
LEMMA SocketInit == Init => SocketInv
<1> SUFFICES ASSUME Init PROVE SocketInv
  OBVIOUS
<1>1. Typed /\ NetSound
  BY DEF Init, Typed, NetSound
<1>2. ListsSound
  BY EmptySeq DEF Init, ListsSound
<1>3. EntriesSound
  BY EmptySeq DEF Init, EntriesSound
<1>4. InOrderDelivery
  BY LinkShape DEF Init, InOrderDelivery
<1>5. Numbered
  BY DEF Init, Numbered
<1>6. ASSUME NEW c \in Clients
      PROVE  /\ phase[c] = "closed" /\ sender[c] = "none" /\ receiver[c] = "none"
             /\ sent[<<c, Server>>] = 0
             /\ delivered[<<c, Server>>] = <<>>
             /\ nextRecv[<<Server, c>>] = 0 /\ sent[<<Server, c>>] = 0
  <2>1. <<c, Server>> \in Links /\ <<Server, c>> \in Links /\ c \in Endpoints
    BY LinkShape
  <2> QED
    BY <2>1 DEF Init
<1>7. ClientNumbers
  BY <1>6 DEF ClientNumbers
<1>8. ServerNumbers
  <2> SUFFICES ASSUME NEW c \in Clients
               PROVE  /\ nextRecv[<<Server, c>>] = 0 => sent[<<Server, c>>] = 0
                      /\ ~ (nextRecv[<<Server, c>>] > 0)
    BY DEF ServerNumbers
  <2>1. nextRecv[<<Server, c>>] = 0 /\ sent[<<Server, c>>] = 0
    BY <1>6
  <2> QED
    BY <2>1
<1> QED
  BY <1>1, <1>2, <1>3, <1>4, <1>5, <1>7, <1>8 DEF SocketInv

\* A step that leaves packets, lists and connections alone keeps the invariant if it
\* neither opens a client nor starts its receive thread.
LEMMA QuietKeeps ==
  ASSUME SocketInv, UNCHANGED <<sendList, connVars, net>>, Typed',
         \A c \in Clients :
           /\ phase'[c] # "failed" => phase'[c] = phase[c]
           /\ phase'[c] # "open" => phase[c] # "open" /\ receiver'[c] = receiver[c]
           /\ sender'[c] = sender[c]
  PROVE  SocketInv'
<1>1. NetSound' /\ ListsSound' /\ EntriesSound'
  BY DEF SocketInv, NetSound, ListsSound, EntriesSound, connVars
<1>2. InOrderDelivery' /\ Numbered' /\ ServerNumbers'
  BY DEF SocketInv, InOrderDelivery, Numbered, ServerNumbers, connVars
<1>3. ClientNumbers'
  BY DEF SocketInv, ClientNumbers, Typed, connVars
<1> QED
  BY <1>1, <1>2, <1>3 DEF SocketInv

\* The server opens its socket; no connection changes.
LEMMA KeepListen == ASSUME SocketInv, Listen PROVE SocketInv'
<1>1. Typed'
  BY LinkShape DEF SocketInv, Typed, Listen, connVars
<1> QED
  BY <1>1, QuietKeeps, LinkShape DEF SocketInv, Typed, Listen

\* socket or bind fails; no connection changes.
LEMMA KeepOpenFails == ASSUME SocketInv, NEW e \in Endpoints, OpenFails(e) PROVE SocketInv'
<1>1. Typed'
  BY LinkShape DEF SocketInv, Typed, OpenFails, connVars
<1> QED
  BY <1>1, QuietKeeps, LinkShape DEF SocketInv, Typed, OpenFails

\* recvfrom of Connect fails; what it has listed and sent stays.
LEMMA KeepConnectRecvFails ==
  ASSUME SocketInv, NEW c \in Clients, ConnectRecvFails(c) PROVE SocketInv'
<1>1. Typed'
  BY LinkShape DEF SocketInv, Typed, ConnectRecvFails, connVars
<1> QED
  BY <1>1, QuietKeeps, LinkShape DEF SocketInv, Typed, ConnectRecvFails

\* The receive thread stops; a client's has been running only if it is open.
LEMMA KeepReceiverStops ==
  ASSUME SocketInv, NEW e \in Endpoints, receiver[e] = "run", ReceiverStops(e),
         UNCHANGED <<phase, sender, sendList, connVars, net>>
  PROVE  SocketInv'
<1>1. Typed'
  BY LinkShape DEF SocketInv, Typed, ReceiverStops, connVars
<1>2. \A c \in Clients : phase[c] # "open" => receiver[c] = "none"
  BY DEF SocketInv, ClientNumbers
<1>3. \A c \in Clients : phase[c] # "open" => receiver'[c] = receiver[c]
  BY <1>2, LinkShape DEF SocketInv, Typed, ReceiverStops
<1> QED
  BY <1>1, <1>3, QuietKeeps

\* Connect lists and sends ESTABLISH_1.
LEMMA KeepConnectSend ==
  ASSUME SocketInv, NEW c \in Clients, ConnectSend(c) PROVE SocketInv'
<1> DEFINE l == <<c, Server>>
<1> USE LinkShape
<1>1. l \in Links /\ c \in Endpoints /\ Server \in Endpoints
  OBVIOUS
<1>2. Typed'
  BY <1>1 DEF SocketInv, Typed, ConnectSend
<1>3. NetSound'
  <2>1. Packet(c, Server, "ESTABLISH_1", 0, 0) \in SoundPackets(sent)
    BY <1>1 DEF SoundPackets, Packets, Packet, Sound, Types
  <2> QED
    BY <2>1 DEF SocketInv, NetSound, ConnectSend
<1>4. ListsSound'
  <2>1. SendListNode(Server, "ESTABLISH_1", 0, 0, TRUE) \in SoundNodes(sent, c)
    BY <1>1 DEF SoundNodes, Nodes, SendListNode, Sound, Types
  <2>2. SendListNode(Server, "ESTABLISH_1", 0, 0, TRUE) \in Nodes
    BY <2>1 DEF SoundNodes
  <2>3. sendList[c] \in Seq(SoundNodes(sent, c)) /\ sendList[c] \in Seq(Nodes)
    BY <1>1 DEF SocketInv, ListsSound
  <2> DEFINE q == Append(sendList[c], SendListNode(Server, "ESTABLISH_1", 0, 0, TRUE))
  <2>4. q \in Seq(SoundNodes(sent, c)) /\ q \in Seq(Nodes)
    BY <2>1, <2>2, <2>3, AppendProperties
  <2>5. sendList' = [sendList EXCEPT ![c] = q] /\ sent' = sent
    BY DEF ConnectSend
  <2> HIDE DEF q
  <2> QED
    BY <1>1, <2>4, <2>5 DEF SocketInv, ListsSound
<1>5. EntriesSound' /\ InOrderDelivery' /\ Numbered'
  BY DEF SocketInv, EntriesSound, InOrderDelivery, Numbered, ConnectSend
<1>6. ClientNumbers'
  <2> SUFFICES ASSUME NEW d \in Clients
               PROVE  /\ sender'[d] # "none" => nextSend'[<<d, Server>>] = sent[<<d, Server>>] + 1
                      /\ phase'[d] \in {"waiting", "open"} => sender'[d] # "none"
                      /\ phase'[d] = "closed" => sender'[d] = "none"
                      /\ phase'[d] \in {"closed", "waiting"} => sent[<<d, Server>>] = 0
                      /\ phase'[d] # "open" =>
                           receiver[d] = "none" /\ delivered[<<d, Server>>] = <<>>
    BY DEF ClientNumbers, ConnectSend
  <2>1. CASE d = c
    BY <1>1, <2>1 DEF SocketInv, Typed, ClientNumbers, ConnectSend
  <2>2. CASE d # c
    <3>1. /\ nextSend'[<<d, Server>>] = nextSend[<<d, Server>>]
          /\ phase'[d] = phase[d] /\ sender'[d] = sender[d]
      BY <1>1, <2>2 DEF SocketInv, Typed, ConnectSend
    <3> QED
      BY <3>1 DEF SocketInv, ClientNumbers
  <2> QED
    BY <2>1, <2>2
<1>7. ServerNumbers'
  <2>1. \A d \in Clients : nextSend'[<<Server, d>>] = nextSend[<<Server, d>>]
    BY <1>1 DEF SocketInv, Typed, ConnectSend
  <2> QED
    BY <2>1 DEF SocketInv, ServerNumbers, ConnectSend
<1> QED
  BY <1>2, <1>3, <1>4, <1>5, <1>6, <1>7 DEF SocketInv

\* sendto of Connect fails after ESTABLISH_1 was listed.
LEMMA KeepConnectSendFails ==
  ASSUME SocketInv, NEW c \in Clients, ConnectSendFails(c) PROVE SocketInv'
<1> USE LinkShape
<1>1. <<c, Server>> \in Links /\ c \in Endpoints
  OBVIOUS
<1>2. Typed'
  BY <1>1 DEF SocketInv, Typed, ConnectSendFails
<1>3. NetSound' /\ ListsSound' /\ EntriesSound' /\ InOrderDelivery' /\ Numbered'
  BY DEF SocketInv, NetSound, ListsSound, EntriesSound, InOrderDelivery, Numbered, ConnectSendFails
<1>4. ClientNumbers'
  BY <1>1 DEF SocketInv, Typed, ClientNumbers, ConnectSendFails
<1>5. ServerNumbers'
  <2>1. \A d \in Clients : nextSend'[<<Server, d>>] = nextSend[<<Server, d>>]
    BY <1>1 DEF SocketInv, Typed, ConnectSendFails
  <2> QED
    BY <2>1 DEF SocketInv, ServerNumbers, ConnectSendFails
<1> QED
  BY <1>2, <1>3, <1>4, <1>5 DEF SocketInv

\* What Connect takes for the answer of the server has number 0.
LEMMA AnswerIsHandshake ==
  ASSUME SocketInv, NEW c \in Clients, NEW m \in net, phase[c] = "waiting", Answers(c, m)
  PROVE  m.type = "ESTABLISH_2" /\ m.seq = 0 /\ m.from = Server /\ m.to = c
<1>1. m \in Packets /\ Sound(sent, m.from, m.to, m)
  BY DEF SocketInv, NetSound, SoundPackets
<1>2. m.to = c /\ m.type # "DATA"
  BY DEF Answers
<1>3. m.from = Server
  BY <1>1, <1>2, LinkShape DEF Sound
<1>4. sent[<<c, Server>>] = 0
  BY DEF SocketInv, ClientNumbers
<1>5. m.type # "ACK"
  BY <1>1, <1>2, <1>3, <1>4, LinkShape DEF Sound
<1>6. m.type # "ESTABLISH_1"
  BY <1>1, <1>2, LinkShape DEF Sound
<1>7. m.type = "ESTABLISH_2"
  BY <1>1, <1>2, <1>5, <1>6 DEF Packets, Types
<1> QED
  BY <1>1, <1>2, <1>3, <1>7 DEF Sound

\* What both endings of Connect have in common.
LEMMA KeepConnected ==
  ASSUME SocketInv, NEW c \in Clients, NEW m \in net,
         phase[c] = "waiting", Answers(c, m),
         nextRecv' = [nextRecv EXCEPT ![<<c, Server>>] = AfterHandshake(m)],
         sendList' = [sendList EXCEPT ![c] = <<>>],
         Typed', NetSound',
         UNCHANGED <<sender, nextSend, recvList, delivered, sent>>,
         \A d \in Clients \ {c} : phase'[d] = phase[d] /\ receiver'[d] = receiver[d],
         phase'[c] # "open" => phase'[c] = "failed" /\ receiver'[c] = receiver[c]
  PROVE  SocketInv'
<1> USE LinkShape
<1> DEFINE l == <<c, Server>>
<1>1. l \in Links /\ c \in Endpoints
  OBVIOUS
<1>2. nextRecv'[l] = 1 /\ delivered[l] = <<>>
  <2>1. AfterHandshake(m) = 1
    BY AnswerIsHandshake DEF AfterHandshake
  <2>2. nextRecv \in [Links -> Nat]
    BY DEF SocketInv, Typed
  <2>3. delivered[l] = <<>>
    BY DEF SocketInv, ClientNumbers
  <2> QED
    BY <1>1, <2>1, <2>2, <2>3
<1>3. \A k \in Links : k # l => nextRecv'[k] = nextRecv[k]
  BY DEF SocketInv, Typed
<1>4. ListsSound'
  <2>1. sendList' \in [Endpoints -> Seq(Nodes)]
    BY DEF SocketInv, ListsSound
  <2>2. \A e \in Endpoints : sendList'[e] \in Seq(SoundNodes(sent, e))
    BY DEF SocketInv, ListsSound
  <2> QED
    BY <2>1, <2>2 DEF ListsSound
<1>5. EntriesSound' /\ InOrderDelivery'
  BY DEF SocketInv, EntriesSound, InOrderDelivery
<1>6. Numbered'
  BY <1>2, <1>3 DEF SocketInv, Numbered
<1>7. ClientNumbers'
  BY DEF SocketInv, ClientNumbers
<1>8. ServerNumbers'
  <2>1. \A d \in Clients : nextRecv'[<<Server, d>>] = nextRecv[<<Server, d>>]
    BY <1>3
  <2> QED
    BY <2>1 DEF SocketInv, ServerNumbers
<1> QED
  BY <1>4, <1>5, <1>6, <1>7, <1>8 DEF SocketInv

\* Connect acknowledges ESTABLISH_2 and numbers its data from 1.
LEMMA KeepConnectRecv ==
  ASSUME SocketInv, NEW c \in Clients, NEW m \in net, ConnectRecv(c, m) PROVE SocketInv'
<1> USE LinkShape
<1>1. <<c, Server>> \in Links /\ c \in Endpoints /\ Server \in Endpoints
  OBVIOUS
<1>2. m.seq = 0
  BY AnswerIsHandshake DEF ConnectRecv
<1>3. Typed'
  BY <1>1, <1>2 DEF SocketInv, Typed, ConnectRecv, AfterHandshake
<1>4. NetSound'
  <2>1. Packet(c, Server, "ACK", m.seq, 0) \in SoundPackets(sent)
    BY <1>1, <1>2 DEF SoundPackets, Packets, Packet, Sound, Types
  <2> QED
    BY <2>1 DEF SocketInv, NetSound, ConnectRecv
<1>5. \A d \in Clients \ {c} : phase'[d] = phase[d] /\ receiver'[d] = receiver[d]
  BY DEF SocketInv, Typed, ConnectRecv
<1>6. phase'[c] = "open"
  BY <1>1 DEF SocketInv, Typed, ConnectRecv
<1> QED
  BY <1>3, <1>4, <1>5, <1>6, KeepConnected DEF ConnectRecv

\* sendto of the acknowledgement fails; Connect returns false.
LEMMA KeepConnectAckFails ==
  ASSUME SocketInv, NEW c \in Clients, NEW m \in net, ConnectAckFails(c, m) PROVE SocketInv'
<1> USE LinkShape
<1>1. <<c, Server>> \in Links /\ c \in Endpoints
  OBVIOUS
<1>2. m.seq = 0
  BY AnswerIsHandshake DEF ConnectAckFails
<1>3. Typed'
  BY <1>1, <1>2 DEF SocketInv, Typed, ConnectAckFails, AfterHandshake
<1>4. NetSound'
  BY DEF SocketInv, NetSound, ConnectAckFails
<1>5. \A d \in Clients \ {c} : phase'[d] = phase[d] /\ receiver'[d] = receiver[d]
  BY DEF SocketInv, Typed, ConnectAckFails
<1>6. phase'[c] = "failed" /\ receiver'[c] = receiver[c]
  BY <1>1 DEF SocketInv, Typed, ConnectAckFails
<1> QED
  BY <1>3, <1>4, <1>5, <1>6, KeepConnected DEF ConnectAckFails

-----------------------------------------------------------------------------
(* Steps of the two threads that leave the streams alone. *)

\* Connections as they are, the lists and the network still sound.
LEMMA TrafficKeeps ==
  ASSUME SocketInv, UNCHANGED connVars, UNCHANGED <<phase, receiver>>, Typed',
         NetSound', ListsSound', \A c \in Clients : sender'[c] = "none" <=> sender[c] = "none"
  PROVE  SocketInv'
<1>1. EntriesSound' /\ InOrderDelivery' /\ Numbered'
  BY DEF SocketInv, EntriesSound, InOrderDelivery, Numbered, connVars
<1>2. ClientNumbers' /\ ServerNumbers'
  BY DEF SocketInv, ClientNumbers, ServerNumbers, connVars
<1> QED
  BY <1>1, <1>2 DEF SocketInv

\* Transmission copies nodes of the list to the network.
LEMMA TransmitSound ==
  ASSUME SocketInv, NEW e \in Endpoints, NEW due, due \subseteq DOMAIN sendList[e],
         Transmit(e, due), UNCHANGED sent
  PROVE  NetSound' /\ ListsSound'
<1> DEFINE q == sendList[e]
           r == [i \in DOMAIN q |-> IF i \in due THEN [q[i] EXCEPT !.tried = TRUE] ELSE q[i]]
<1>1. q \in Seq(SoundNodes(sent, e)) /\ q \in Seq(Nodes)
  BY DEF SocketInv, ListsSound
<1>2. \A i \in DOMAIN q : q[i] \in Nodes /\ q[i].type # "ACK" /\ Sound(sent, e, q[i].to, q[i])
  BY <1>1, LenProperties, ElementOfSeq DEF SoundNodes
<1>3. ASSUME NEW i \in DOMAIN q
      PROVE  Packet(e, q[i].to, q[i].type, q[i].seq, q[i].data) \in SoundPackets(sent)
  BY <1>2 DEF SoundPackets, Packets, Packet, Nodes, Sound
<1>4. NetSound'
  BY <1>3 DEF SocketInv, NetSound, Transmit
<1>5. ASSUME NEW i \in DOMAIN q
      PROVE  r[i] \in SoundNodes(sent, e) /\ r[i] \in Nodes
  <2>1. q[i] \in Nodes /\ q[i].type # "ACK" /\ Sound(sent, e, q[i].to, q[i])
    BY <1>2
  <2>2. r[i] = q[i] \/ r[i] = [q[i] EXCEPT !.tried = TRUE]
    OBVIOUS
  <2>3. r[i] \in Nodes
    BY <2>1, <2>2 DEF Nodes
  <2>4. /\ r[i].to = q[i].to /\ r[i].type = q[i].type
        /\ r[i].seq = q[i].seq /\ r[i].data = q[i].data
    BY <2>1, <2>2 DEF Nodes
  <2>5. Sound(sent, e, r[i].to, r[i])
    BY <2>1, <2>4 DEF Sound
  <2> QED
    BY <2>1, <2>3, <2>4, <2>5 DEF SoundNodes
<1>6. DOMAIN q = 1 .. Len(q) /\ Len(q) \in Nat
  BY <1>1, LenProperties
<1>7. r \in [1 .. Len(q) -> SoundNodes(sent, e)] /\ r \in [1 .. Len(q) -> Nodes]
  BY <1>5, <1>6
<1>8. r \in Seq(SoundNodes(sent, e)) /\ r \in Seq(Nodes)
  BY <1>6, <1>7, SeqDef
<1>9. sendList' = [sendList EXCEPT ![e] = r]
  BY DEF Transmit
<1> HIDE DEF r
<1>10. ListsSound'
  BY <1>8, <1>9 DEF SocketInv, ListsSound
<1> QED
  BY <1>4, <1>10

\* A pass of the send thread only puts listed packets on the network.
LEMMA KeepSendPass ==
  ASSUME SocketInv, NEW e \in Endpoints, NEW expired, SendPass(e, expired)
  PROVE  SocketInv'
<1>1. Due(e, expired) \subseteq DOMAIN sendList[e]
  BY DEF Due
<1>2. NetSound' /\ ListsSound'
  BY <1>1, TransmitSound DEF SendPass, connVars
<1>3. Typed'
  BY DEF SocketInv, Typed, SendPass, threadVars, connVars
<1> QED
  BY <1>2, <1>3, TrafficKeeps DEF SendPass, threadVars

\* A failing sendto ends the pass, and the thread, in the middle of the list.
LEMMA KeepSendPassFails ==
  ASSUME SocketInv, NEW e \in Endpoints, NEW expired, NEW i, SendPassFails(e, expired, i)
  PROVE  SocketInv'
<1>1. {j \in Due(e, expired) : j < i} \subseteq DOMAIN sendList[e]
  BY DEF Due
<1>2. NetSound' /\ ListsSound'
  BY <1>1, TransmitSound DEF SendPassFails, connVars
<1>3. Typed'
  BY DEF SocketInv, Typed, SendPassFails, connVars
<1> QED
  BY <1>2, <1>3, TrafficKeeps DEF SendPassFails

\* The sender of a packet and its receiver are the ends of a link.
LEMMA PacketShape ==
  ASSUME SocketInv, NEW e \in Endpoints, NEW m \in net, m.to = e
  PROVE  /\ m \in Packets /\ Sound(sent, m.from, e, m)
         /\ <<e, m.from>> \in Links /\ <<m.from, e>> \in Links
         /\ Peer(<<e, m.from>>) = <<m.from, e>>
         /\ m.from \in Endpoints /\ m.seq \in Nat /\ m.data \in Nat
<1>1. m \in Packets /\ Sound(sent, m.from, e, m)
  BY DEF SocketInv, NetSound, SoundPackets
<1>2. <<m.from, e>> \in Links
  BY <1>1 DEF Sound
<1>3. <<e, m.from>> \in Links
  BY <1>2, LinkShape
<1> QED
  BY <1>1, <1>2, <1>3 DEF Packets, Peer

\* An acknowledgement sent back for a packet that may have one.
LEMMA AckSound ==
  ASSUME SocketInv, NEW e \in Endpoints, NEW m \in net, m.to = e,
         m.type \in {"ESTABLISH_2", "DATA"}
  PROVE  Packet(e, m.from, "ACK", m.seq, 0) \in SoundPackets(sent)
<1>1. m \in Packets /\ Sound(sent, m.from, e, m) /\ <<e, m.from>> \in Links
      /\ <<m.from, e>> \in Links /\ m.from \in Endpoints /\ m.seq \in Nat /\ m.data \in Nat
  BY PacketShape
<1>2. Packet(e, m.from, "ACK", m.seq, 0) \in Packets
  BY <1>1 DEF Packet, Packets, Types
<1>3. sent[<<m.from, e>>] \in Nat
  BY <1>1 DEF SocketInv, Typed
<1>4. m.from = Server \/ 1 <= sent[<<m.from, e>>]
  BY <1>1, <1>3 DEF Sound
<1> QED
  BY <1>1, <1>2, <1>4 DEF SoundPackets, Sound, Packet

\* A repeated ESTABLISH_2 is acknowledged again.
LEMMA KeepRecvEstablish2 ==
  ASSUME SocketInv, NEW e \in Endpoints, NEW m \in net, RecvEstablish2(e, m)
  PROVE  SocketInv'
<1>1. NetSound'
  BY AckSound DEF SocketInv, NetSound, RecvEstablish2, Receives, connVars
<1>2. Typed' /\ ListsSound'
  BY DEF SocketInv, Typed, ListsSound, RecvEstablish2, threadVars, connVars
<1> QED
  BY <1>1, <1>2, TrafficKeeps DEF RecvEstablish2, threadVars

\* A repeated packet is acknowledged and otherwise ignored.
LEMMA KeepRecvOld ==
  ASSUME SocketInv, NEW e \in Endpoints, NEW m \in net, RecvOld(e, m)
  PROVE  SocketInv'
<1>1. NetSound'
  BY AckSound DEF SocketInv, NetSound, RecvOld, AckData, Receives, connVars
<1>2. Typed' /\ ListsSound'
  BY DEF SocketInv, Typed, ListsSound, RecvOld, threadVars, connVars
<1> QED
  BY <1>1, <1>2, TrafficKeeps DEF RecvOld, threadVars

\* An acknowledgement takes one entry off the send list.
LEMMA KeepRecvAck ==
  ASSUME SocketInv, NEW e \in Endpoints, NEW m \in net, RecvAck(e, m)
  PROVE  SocketInv'
<1>1. PICK i \in DOMAIN sendList[e] : sendList' = [sendList EXCEPT ![e] = RemoveAt(@, i)]
  BY DEF RecvAck
<1>2. sendList[e] \in Seq(SoundNodes(sent, e)) /\ sendList[e] \in Seq(Nodes)
  BY DEF SocketInv, ListsSound
<1>3. i \in 1 .. Len(sendList[e])
  BY <1>2, LenProperties
<1>4. RemoveAt(sendList[e], i) \in Seq(SoundNodes(sent, e)) /\ RemoveAt(sendList[e], i) \in Seq(Nodes)
  BY <1>2, <1>3, RemoveAtIsSeq
<1>5. ListsSound'
  BY <1>1, <1>4 DEF SocketInv, ListsSound, RecvAck, connVars
<1>6. NetSound' /\ Typed'
  BY DEF SocketInv, Typed, NetSound, RecvAck, threadVars, connVars
<1> QED
  BY <1>5, <1>6, TrafficKeeps DEF RecvAck, threadVars

\* The network loses a datagram.
LEMMA KeepLose == ASSUME SocketInv, NEW m \in net, Lose(m) PROVE SocketInv'
<1>1. NetSound' /\ Typed' /\ ListsSound'
  BY DEF SocketInv, Typed, NetSound, ListsSound, Lose, threadVars, connVars
<1> QED
  BY <1>1, TrafficKeeps DEF Lose, threadVars

-----------------------------------------------------------------------------
(* Steps that change a connection. *)

\* Whoever may send has its next number in step with what it has sent.
LEMMA SenderNumbers ==
  ASSUME SocketInv, NEW l \in Links, MaySend(l)
  PROVE  /\ nextSend[l] = sent[l] + 1
         /\ l[1] = Server => nextRecv[l] > 0
         /\ l[1] # Server =>
              /\ l[1] \in Clients /\ l = <<l[1], Server>>
              /\ phase[l[1]] \in {"open", "failed"}
<1>1. CASE l[1] = Server
  <2>1. l = <<Server, l[2]>> /\ l[2] \in Clients
    BY <1>1, LinkShape
  <2>2. nextRecv[l] = Len(delivered[l]) + 1
    BY <1>1 DEF MaySend, SocketInv, Numbered
  <2>3. Len(delivered[l]) \in Nat
    BY LenProperties DEF SocketInv, Typed
  <2>4. nextRecv[l] > 0
    BY <2>2, <2>3
  <2> QED
    BY <1>1, <2>1, <2>4 DEF SocketInv, ServerNumbers
<1>2. CASE l[1] # Server
  <2>1. l = <<l[1], Server>> /\ l[1] \in Clients
    BY <1>2, LinkShape
  <2> QED
    BY <1>2, <2>1 DEF MaySend, SocketInv, ClientNumbers
<1> QED
  BY <1>1, <1>2

\* Send lists new packets under the numbers that follow.
LEMMA KeepSend ==
  ASSUME SocketInv, NEW l \in Links, NEW n \in 1 .. (MaxSent(l) - sent[l]), Send(l, n)
  PROVE  SocketInv'
<1> USE LinkShape
<1> DEFINE e == l[1]
           q == [i \in 1 .. n |->
                   SendListNode(l[2], "DATA", nextSend[l] + i - 1, sent[l] + i, FALSE)]
<1>1. /\ l = <<e, l[2]>> /\ e \in Endpoints /\ l[2] \in Endpoints
      /\ n \in Nat /\ n >= 1 /\ sent[l] \in Nat /\ nextSend[l] \in Nat
  BY SocketAssumption DEF SocketInv, Typed, MaxSent
<1>2. /\ nextSend[l] = sent[l] + 1
      /\ l[1] = Server => nextRecv[l] > 0
      /\ l[1] # Server =>
           /\ l[1] \in Clients /\ l = <<l[1], Server>>
           /\ phase[l[1]] \in {"open", "failed"}
  BY SenderNumbers DEF Send
<1>3. Typed'
  <2> HIDE DEF e, q
  <2>1. sent[l] + n \in Nat /\ nextSend[l] + n \in Nat
    BY <1>1
  <2>2. sent' = [sent EXCEPT ![l] = sent[l] + n] /\ nextSend' = [nextSend EXCEPT ![l] = nextSend[l] + n]
    BY DEF Send
  <2>3. sent' \in [Links -> Nat] /\ nextSend' \in [Links -> Nat]
    BY <2>1, <2>2 DEF SocketInv, Typed
  <2>4. UNCHANGED <<phase, sender, receiver, nextRecv, delivered>>
    BY DEF Send, threadVars
  <2> QED
    BY <2>3, <2>4 DEF SocketInv, Typed
<1>4. sent \in [Links -> Nat] /\ sent' \in [Links -> Nat]
  BY <1>3 DEF SocketInv, Typed
<1>5. /\ sent'[l] = sent[l] + n /\ nextSend'[l] = nextSend[l] + n
      /\ \A k \in Links : k # l => sent'[k] = sent[k] /\ nextSend'[k] = nextSend[k]
  BY DEF SocketInv, Typed, Send
<1>6. \A k \in Links : sent[k] <= sent'[k]
  BY <1>1, <1>4, <1>5
<1>7. /\ SoundPackets(sent) \subseteq SoundPackets(sent')
      /\ \A f \in Endpoints : SoundNodes(sent, f) \subseteq SoundNodes(sent', f)
      /\ \A k \in Links : SoundEntries(sent, k) \subseteq SoundEntries(sent', k)
  BY <1>4, <1>6, SoundGrows
<1>8. NetSound'
  BY <1>7 DEF SocketInv, NetSound, Send
<1>9. EntriesSound'
  <2>1. \A k \in Links : recvList[k] \in Seq(SoundEntries(sent', k))
    BY <1>7, SeqMonotonic DEF SocketInv, EntriesSound
  <2> QED
    BY <2>1 DEF SocketInv, EntriesSound, Send
<1>10. ListsSound'
  <2>1. ASSUME NEW i \in 1 .. n
        PROVE  q[i] \in SoundNodes(sent', e)
    <3>0. nextSend[l] + i - 1 = sent[l] + i
      BY <1>1, <1>2
    <3>1. q[i] = SendListNode(l[2], "DATA", sent[l] + i, sent[l] + i, FALSE)
      BY <3>0
    <3>2. q[i] \in Nodes
      BY <1>1, <3>1 DEF Nodes, SendListNode, Types
    <3>3. sent[l] + i <= sent'[<<e, l[2]>>] /\ 1 <= sent[l] + i
      BY <1>1, <1>5
    <3>4. Sound(sent', e, l[2], q[i])
      BY <1>1, <3>1, <3>3 DEF Sound, SendListNode
    <3>5. q[i].to = l[2] /\ q[i].type # "ACK"
      BY <3>1 DEF SendListNode
    <3> QED
      BY <3>2, <3>4, <3>5 DEF SoundNodes
  <2>2. q \in Seq(SoundNodes(sent', e))
    <3>1. q \in [1 .. n -> SoundNodes(sent', e)]
      BY <2>1
    <3> HIDE DEF q
    <3> QED
      BY <1>1, <3>1, FunctionIsSeq
  <2>3. \A f \in Endpoints : sendList[f] \in Seq(SoundNodes(sent', f))
    BY <1>7, SeqMonotonic DEF SocketInv, ListsSound
  <2>4. sendList[e] \o q \in Seq(SoundNodes(sent', e))
    BY <1>1, <2>2, <2>3, ConcatProperties
  <2>5. SoundNodes(sent', e) \subseteq Nodes
    BY DEF SoundNodes
  <2>6. sendList[e] \o q \in Seq(Nodes)
    BY <2>4, <2>5, SeqMonotonic
  <2>7. sendList' = [sendList EXCEPT ![e] = sendList[e] \o q]
    BY DEF Send
  <2> HIDE DEF q
  <2> QED
    BY <1>1, <2>3, <2>4, <2>6, <2>7 DEF SocketInv, ListsSound
<1>11. InOrderDelivery'
  <2> SUFFICES ASSUME NEW k \in Links
               PROVE  /\ Len(delivered[k]) <= sent'[Peer(k)]
                      /\ \A i \in DOMAIN delivered[k] : delivered[k][i] = i
    BY DEF InOrderDelivery, Send
  <2>1. Peer(k) \in Links /\ Len(delivered[k]) \in Nat
    BY LenProperties DEF SocketInv, Typed
  <2>2. sent[Peer(k)] <= sent'[Peer(k)] /\ sent[Peer(k)] \in Nat /\ sent'[Peer(k)] \in Nat
    BY <1>4, <1>6, <2>1
  <2> QED
    BY <2>1, <2>2 DEF SocketInv, InOrderDelivery
<1>12. Numbered'
  BY DEF SocketInv, Numbered, Send
<1>13. ClientNumbers'
  <2> SUFFICES ASSUME NEW c \in Clients
               PROVE  /\ sender[c] # "none" => nextSend'[<<c, Server>>] = sent'[<<c, Server>>] + 1
                      /\ phase[c] \in {"closed", "waiting"} => sent'[<<c, Server>>] = 0
    BY DEF SocketInv, ClientNumbers, Send, threadVars
  <2>1. CASE l = <<c, Server>>
    BY <1>1, <1>2, <1>5, <2>1
  <2>2. CASE l # <<c, Server>>
    BY <1>5, <2>2 DEF SocketInv, ClientNumbers
  <2> QED
    BY <2>1, <2>2
<1>14. ServerNumbers'
  <2> SUFFICES ASSUME NEW c \in Clients
               PROVE  /\ nextRecv[<<Server, c>>] = 0 => sent'[<<Server, c>>] = 0
                      /\ nextRecv[<<Server, c>>] > 0 =>
                           nextSend'[<<Server, c>>] = sent'[<<Server, c>>] + 1
    BY DEF ServerNumbers, Send
  <2>1. CASE l = <<Server, c>>
    BY <1>1, <1>2, <1>5, <2>1
  <2>2. CASE l # <<Server, c>>
    BY <1>5, <2>2 DEF SocketInv, ServerNumbers
  <2> QED
    BY <2>1, <2>2
<1> QED
  BY <1>3, <1>8, <1>9, <1>10, <1>11, <1>12, <1>13, <1>14 DEF SocketInv

\* The server meets ESTABLISH_1 before any data of the connection (Timely), so the
\* numbers it sets are those of an unused connection.
LEMMA KeepRecvEstablish1 ==
  ASSUME SocketInv, ~ LateEstablish, NEW e \in Endpoints, NEW m \in net, RecvEstablish1(e, m)
  PROVE  SocketInv'
<1> USE LinkShape
<1> DEFINE l == <<e, m.from>>
<1>1. /\ Sound(sent, m.from, e, m) /\ l \in Links /\ m.from \in Endpoints /\ m.seq \in Nat
  BY PacketShape DEF RecvEstablish1, Receives
<1>2. e = Server /\ m.seq = 0 /\ m.from \in Clients
  BY <1>1 DEF Sound, RecvEstablish1, Receives
<1>3. delivered[l] = <<>> /\ sent[l] = 0
  BY DEF RecvEstablish1, Timely, Receives
<1>4. nextSend' = [nextSend EXCEPT ![l] = 1] /\ nextRecv' = [nextRecv EXCEPT ![l] = 1]
  BY <1>2 DEF RecvEstablish1, AfterHandshake
<1>5. /\ nextSend'[l] = 1 /\ nextRecv'[l] = 1
      /\ \A k \in Links : k # l => nextSend'[k] = nextSend[k] /\ nextRecv'[k] = nextRecv[k]
  BY <1>1, <1>4 DEF SocketInv, Typed
<1>6. /\ UNCHANGED <<phase, sender, recvList, delivered, sent, net>>
      /\ receiver' = receiver \/ receiver' = [receiver EXCEPT ![e] = "dead"]
  BY DEF RecvEstablish1, ReceiverStops
<1>7. Typed'
  BY <1>4, <1>6 DEF SocketInv, Typed
<1>8. NetSound' /\ EntriesSound' /\ InOrderDelivery'
  BY <1>6 DEF SocketInv, NetSound, EntriesSound, InOrderDelivery
<1>9. ListsSound'
  <2> DEFINE n == SendListNode(m.from, "ESTABLISH_2", 0, 0, FALSE)
             q == Append(sendList[e], n)
  <2>1. n \in SoundNodes(sent, e) /\ n \in Nodes
    BY <1>1, <1>2 DEF SoundNodes, Nodes, SendListNode, Sound, Types
  <2>2. sendList[e] \in Seq(SoundNodes(sent, e)) /\ sendList[e] \in Seq(Nodes)
    BY DEF SocketInv, ListsSound
  <2>3. q \in Seq(SoundNodes(sent, e)) /\ q \in Seq(Nodes)
    BY <2>1, <2>2, AppendProperties
  <2>4. sendList' = sendList \/ sendList' = [sendList EXCEPT ![e] = q]
    BY DEF RecvEstablish1
  <2>5. sent' = sent
    BY <1>6
  <2> HIDE DEF q
  <2>6. CASE sendList' = sendList
    BY <2>5, <2>6 DEF SocketInv, ListsSound
  <2>7. CASE sendList' = [sendList EXCEPT ![e] = q]
    BY <2>3, <2>5, <2>7 DEF SocketInv, ListsSound
  <2> QED
    BY <2>4, <2>6, <2>7
<1>10. Numbered'
  <2> SUFFICES ASSUME NEW k \in Links
               PROVE  \/ nextRecv'[k] = Len(delivered[k]) + 1
                      \/ nextRecv'[k] = 0 /\ delivered[k] = <<>>
    BY <1>6 DEF Numbered
  <2>1. CASE k = l
    BY <1>3, <1>5, <2>1
  <2>2. CASE k # l
    BY <1>5, <2>2 DEF SocketInv, Numbered
  <2> QED
    BY <2>1, <2>2
<1>11. ClientNumbers'
  <2> SUFFICES ASSUME NEW c \in Clients
               PROVE  /\ nextSend'[<<c, Server>>] = nextSend[<<c, Server>>]
                      /\ receiver'[c] = receiver[c]
    BY <1>6 DEF SocketInv, ClientNumbers
  <2>1. <<c, Server>> # l
    BY <1>2
  <2> QED
    BY <1>2, <1>5, <1>6, <2>1 DEF SocketInv, Typed
<1>12. ServerNumbers'
  <2> SUFFICES ASSUME NEW c \in Clients
               PROVE  /\ nextRecv'[<<Server, c>>] = 0 => sent[<<Server, c>>] = 0
                      /\ nextRecv'[<<Server, c>>] > 0 =>
                           nextSend'[<<Server, c>>] = sent[<<Server, c>>] + 1
    BY <1>6 DEF ServerNumbers
  <2>1. CASE <<Server, c>> = l
    BY <1>3, <1>5, <2>1
  <2>2. CASE <<Server, c>> # l
    BY <1>5, <2>2 DEF SocketInv, ServerNumbers
  <2> QED
    BY <2>1, <2>2
<1> QED
  BY <1>7, <1>8, <1>9, <1>10, <1>11, <1>12 DEF SocketInv

\* A packet that came early is kept in the receive list.
LEMMA KeepRecvAhead ==
  ASSUME SocketInv, NEW e \in Endpoints, NEW m \in net, RecvAhead(e, m)
  PROVE  SocketInv'
<1> DEFINE l == <<e, m.from>>
           x == [seq |-> m.seq, data |-> m.data]
<1>1. /\ Sound(sent, m.from, e, m) /\ l \in Links /\ Peer(l) = <<m.from, e>>
      /\ m.seq \in Nat /\ m.data \in Nat
  BY PacketShape DEF RecvAhead, Receives
<1>2. x \in SoundEntries(sent, l) /\ x \in [seq : Nat, data : Nat]
  BY <1>1 DEF Sound, SoundEntries, RecvAhead, Receives
<1>3. PICK i \in 1 .. Len(recvList[l]) + 1 :
        recvList' = [recvList EXCEPT ![l] = InsertAt(recvList[l], i, x)]
  BY DEF RecvAhead
<1>4. /\ recvList[l] \in Seq(SoundEntries(sent, l))
      /\ recvList[l] \in Seq([seq : Nat, data : Nat])
  BY <1>1 DEF SocketInv, EntriesSound
<1> DEFINE q == InsertAt(recvList[l], i, x)
<1>5. q \in Seq(SoundEntries(sent, l)) /\ q \in Seq([seq : Nat, data : Nat])
  <2> HIDE DEF x
  <2> QED
    BY <1>2, <1>4, InsertAtIsSeq
<1>6. recvList' = [recvList EXCEPT ![l] = q] /\ sent' = sent
  BY <1>3 DEF RecvAhead
<1>7. EntriesSound'
  <2> HIDE DEF q
  <2> QED
    BY <1>5, <1>6 DEF SocketInv, EntriesSound
<1>8. NetSound'
  BY AckSound DEF SocketInv, NetSound, RecvAhead, AckData, Receives
<1>9. Typed' /\ ListsSound' /\ InOrderDelivery' /\ Numbered'
  BY DEF SocketInv, Typed, ListsSound, InOrderDelivery, Numbered, RecvAhead, threadVars
<1>10. ClientNumbers' /\ ServerNumbers'
  BY DEF SocketInv, ClientNumbers, ServerNumbers, RecvAhead, threadVars
<1> QED
  BY <1>7, <1>8, <1>9, <1>10 DEF SocketInv

\* The stream 1, 2, ..., Len(d) grows by the next chunk and the k chunks behind it.
LEMMA PrefixGrows ==
  ASSUME NEW d \in Seq(Nat), \A i \in DOMAIN d : d[i] = i,
         NEW k \in Nat, NEW f \in Seq(Nat), Len(f) = k,
         \A i \in 1 .. k : f[i] = Len(d) + 1 + i
  PROVE  /\ Append(d, Len(d) + 1) \o f \in Seq(Nat)
         /\ Len(Append(d, Len(d) + 1) \o f) = Len(d) + 1 + k
         /\ \A i \in DOMAIN (Append(d, Len(d) + 1) \o f) : (Append(d, Len(d) + 1) \o f)[i] = i
<1> DEFINE a == Append(d, Len(d) + 1)
           x == a \o f
<1>1. Len(d) \in Nat /\ DOMAIN d = 1 .. Len(d)
  BY LenProperties
<1>2. /\ a \in Seq(Nat) /\ Len(a) = Len(d) + 1 /\ a[Len(d) + 1] = Len(d) + 1
      /\ \A i \in 1 .. Len(d) : a[i] = d[i]
  BY <1>1, AppendProperties
<1> HIDE DEF a
<1>3. ASSUME NEW i \in 1 .. Len(a) PROVE a[i] = i
  <2>1. i \in 1 .. Len(d) \/ i = Len(d) + 1
    BY <1>1, <1>2
  <2>2. CASE i \in 1 .. Len(d)
    BY <1>1, <1>2, <2>2
  <2>3. CASE i = Len(d) + 1
    BY <1>2, <2>3
  <2> QED
    BY <2>1, <2>2, <2>3
<1>4. /\ x \in Seq(Nat) /\ Len(x) = Len(a) + Len(f)
      /\ \A i \in 1 .. Len(a) + Len(f) : x[i] = IF i <= Len(a) THEN a[i] ELSE f[i - Len(a)]
  BY <1>2, ConcatProperties
<1>5. DOMAIN x = 1 .. Len(d) + 1 + k
  BY <1>2, <1>4, LenProperties
<1> HIDE DEF x
<1>6. ASSUME NEW i \in 1 .. Len(d) + 1 + k PROVE x[i] = i
  <2>1. CASE i <= Len(a)
    BY <1>1, <1>2, <1>3, <1>4, <2>1
  <2>2. CASE i > Len(a)
    <3>1. i - Len(a) \in 1 .. k
      BY <1>1, <1>2, <2>2
    <3>2. x[i] = f[i - Len(a)]
      BY <1>1, <1>2, <1>4, <2>2
    <3>3. f[i - Len(a)] = Len(d) + 1 + (i - Len(a))
      BY <3>1
    <3> QED
      BY <1>1, <1>2, <3>2, <3>3
  <2> QED
    BY <1>1, <1>2, <2>1, <2>2
<1> QED
  BY <1>2, <1>4, <1>5, <1>6 DEF x, a

\* What the receive thread writes when the expected packet arrives.
LEMMA NextDelivers ==
  ASSUME SocketInv, NEW e \in Endpoints, NEW m \in net, RecvNext(e, m)
  PROVE  LET l == <<e, m.from>>
         IN  /\ l \in Links
             /\ nextRecv[l] = Len(delivered[l]) + 1
             /\ \E k \in Nat, x \in Seq(Nat) :
                  /\ k <= Len(recvList[l])
                  /\ Len(x) = Len(delivered[l]) + 1 + k /\ Len(x) <= sent[Peer(l)]
                  /\ \A i \in DOMAIN x : x[i] = i
                  /\ delivered' = [delivered EXCEPT ![l] = x]
                  /\ nextRecv' = [nextRecv EXCEPT ![l] = Len(x) + 1]
                  /\ recvList' = [recvList EXCEPT ![l] =
                                    SubSeq(recvList[l], k + 1, Len(recvList[l]))]
<1> DEFINE l == <<e, m.from>>
           list == recvList[l]
           d == delivered[l]
<1>1. /\ Sound(sent, m.from, e, m) /\ l \in Links /\ Peer(l) = <<m.from, e>>
      /\ <<m.from, e>> \in Links /\ m.seq \in Nat /\ m.data \in Nat
  BY PacketShape DEF RecvNext, Receives
<1>2. /\ m.seq = m.data /\ 1 <= m.data /\ m.data <= sent[Peer(l)]
      /\ m.seq = nextRecv[l] /\ sent[Peer(l)] \in Nat
  BY <1>1 DEF Sound, RecvNext, Receives, SocketInv, Typed
<1>3. d \in Seq(Nat) /\ Len(d) \in Nat /\ \A i \in DOMAIN d : d[i] = i
  BY <1>1, LenProperties DEF SocketInv, Typed, InOrderDelivery
<1>4. nextRecv[l] = Len(d) + 1 /\ m.data = Len(d) + 1
  BY <1>1, <1>2 DEF SocketInv, Numbered
<1>5. list \in Seq(SoundEntries(sent, l)) /\ Len(list) \in Nat /\ DOMAIN list = 1 .. Len(list)
  BY <1>1, LenProperties DEF SocketInv, EntriesSound
<1>6. \A i \in 1 .. Len(list) :
        list[i].seq = list[i].data /\ list[i].data \in Nat /\ list[i].data <= sent[Peer(l)]
  <2>1. \A i \in 1 .. Len(list) : list[i] \in SoundEntries(sent, l)
    BY <1>5, ElementOfSeq
  <2> HIDE DEF list, l
  <2> QED
    BY <2>1 DEF SoundEntries
<1>7. PICK k \in 0 .. Len(list) :
        /\ RunAtHead(list, nextRecv[l] + 1, k)
        /\ delivered' = [delivered EXCEPT ![l] = Append(d, m.data) \o [i \in 1 .. k |-> list[i].data]]
        /\ nextRecv' = [nextRecv EXCEPT ![l] = nextRecv[l] + 1 + k]
        /\ recvList' = [recvList EXCEPT ![l] = SubSeq(list, k + 1, Len(list))]
  BY DEF RecvNext
<1> DEFINE f == [i \in 1 .. k |-> list[i].data]
           x == Append(d, Len(d) + 1) \o f
<1>8. k \in Nat /\ k <= Len(list)
  BY <1>5
<1>9. ASSUME NEW i \in 1 .. k PROVE f[i] = Len(d) + 1 + i /\ f[i] \in Nat
  <2>1. list[i].seq = nextRecv[l] + 1 + i - 1
    BY <1>7 DEF RunAtHead
  <2>2. i \in 1 .. Len(list)
    BY <1>8, <1>5
  <2>3. list[i].data = list[i].seq
    BY <1>6, <2>2
  <2> QED
    BY <1>3, <1>4, <2>1, <2>3
<1>10. f \in Seq(Nat) /\ Len(f) = k
  <2>1. f \in [1 .. k -> Nat]
    BY <1>9
  <2> HIDE DEF f
  <2> QED
    BY <1>8, <2>1, FunctionIsSeq
<1>11. Len(d) + 1 + k <= sent[Peer(l)]
  <2>1. CASE k = 0
    BY <1>2, <1>3, <1>4, <2>1
  <2>2. CASE k # 0
    <3>1. k \in 1 .. k /\ k \in 1 .. Len(list)
      BY <1>5, <1>8, <2>2
    <3>2. f[k] = Len(d) + 1 + k /\ f[k] = list[k].data
      BY <1>9, <3>1
    <3> QED
      BY <1>6, <3>1, <3>2
  <2> QED
    BY <2>1, <2>2
<1>12. delivered' = [delivered EXCEPT ![l] = x]
  BY <1>4, <1>7
<1> HIDE DEF f
<1>13. x \in Seq(Nat) /\ Len(x) = Len(d) + 1 + k /\ \A i \in DOMAIN x : x[i] = i
  <2>1. \A i \in 1 .. k : f[i] = Len(d) + 1 + i
    BY <1>9
  <2> HIDE DEF d
  <2> QED
    BY <1>3, <1>8, <1>10, <2>1, PrefixGrows
<1>14. nextRecv' = [nextRecv EXCEPT ![l] = Len(x) + 1]
  <2>1. nextRecv[l] + 1 + k = Len(x) + 1
    <3> HIDE DEF x, d
    <3> QED
      BY <1>3, <1>4, <1>8, <1>13
  <2> QED
    BY <1>7, <2>1
<1> HIDE DEF x
<1> QED
  BY <1>1, <1>4, <1>7, <1>8, <1>11, <1>12, <1>13, <1>14

\* The expected packet and those listed behind it are written to the stream.
LEMMA KeepRecvNext ==
  ASSUME SocketInv, NEW e \in Endpoints, NEW m \in net, RecvNext(e, m)
  PROVE  SocketInv'
<1> USE LinkShape
<1> DEFINE l == <<e, m.from>>
           list == recvList[l]
<1>1. l \in Links /\ nextRecv[l] = Len(delivered[l]) + 1
  BY NextDelivers
<1>2. PICK k \in Nat, x \in Seq(Nat) :
        /\ k <= Len(list)
        /\ Len(x) = Len(delivered[l]) + 1 + k /\ Len(x) <= sent[Peer(l)]
        /\ \A i \in DOMAIN x : x[i] = i
        /\ delivered' = [delivered EXCEPT ![l] = x]
        /\ nextRecv' = [nextRecv EXCEPT ![l] = Len(x) + 1]
        /\ recvList' = [recvList EXCEPT ![l] = SubSeq(list, k + 1, Len(list))]
  BY NextDelivers
<1>3. UNCHANGED <<phase, sender, receiver, sendList, nextSend, sent>>
  BY DEF RecvNext, threadVars
<1>4. Len(x) \in Nat /\ Len(delivered[l]) \in Nat
  BY <1>1, LenProperties DEF SocketInv, Typed
<1>5. Typed'
  <2>1. delivered' \in [Links -> Seq(Nat)]
    BY <1>2 DEF SocketInv, Typed
  <2>2. nextRecv' \in [Links -> Nat]
    <3>1. Len(x) + 1 \in Nat
      BY <1>4
    <3>2. nextRecv' = [nextRecv EXCEPT ![l] = Len(x) + 1] /\ nextRecv \in [Links -> Nat]
      BY <1>2 DEF SocketInv, Typed
    <3> QED
      BY <3>1, <3>2
  <2> QED
    BY <1>3, <2>1, <2>2 DEF SocketInv, Typed
<1>6. NetSound'
  BY <1>3, AckSound DEF SocketInv, NetSound, RecvNext, AckData, Receives
<1>7. ListsSound'
  BY <1>3 DEF SocketInv, ListsSound
<1>8. EntriesSound'
  <2> DEFINE q == SubSeq(list, k + 1, Len(list))
  <2>1. /\ list \in Seq(SoundEntries(sent, l)) /\ list \in Seq([seq : Nat, data : Nat])
        /\ Len(list) \in Nat
    BY <1>1, LenProperties DEF SocketInv, EntriesSound
  <2>2. \A i \in k + 1 .. Len(list) : list[i] \in SoundEntries(sent, l) /\ list[i] \in [seq : Nat, data : Nat]
    <3>1. \A i \in k + 1 .. Len(list) : i \in 1 .. Len(list)
      BY <2>1
    <3> QED
      BY <2>1, <3>1, ElementOfSeq
  <2>3. q \in Seq(SoundEntries(sent, l)) /\ q \in Seq([seq : Nat, data : Nat])
    <3> HIDE DEF list
    <3>1. k + 1 \in Int /\ Len(list) \in Int
      BY <2>1
    <3>2. q \in Seq(SoundEntries(sent, l))
      BY <2>2, <3>1, SubSeqProperties
    <3>3. q \in Seq([seq : Nat, data : Nat])
      BY <2>2, <3>1, SubSeqProperties
    <3> QED
      BY <3>2, <3>3
  <2>4. recvList' = [recvList EXCEPT ![l] = q]
    BY <1>2
  <2> HIDE DEF q
  <2> QED
    BY <1>3, <2>3, <2>4 DEF SocketInv, EntriesSound
<1>9. InOrderDelivery'
  BY <1>2, <1>3 DEF SocketInv, Typed, InOrderDelivery
<1>10. Numbered'
  BY <1>2 DEF SocketInv, Typed, Numbered
<1>11. ClientNumbers'
  <2> SUFFICES ASSUME NEW c \in Clients, phase[c] # "open"
               PROVE  delivered'[<<c, Server>>] = delivered[<<c, Server>>]
    BY <1>3 DEF SocketInv, ClientNumbers
  <2>1. receiver[c] = "none" /\ receiver[e] = "run"
    BY DEF SocketInv, ClientNumbers, RecvNext, Receives
  <2>2. l # <<c, Server>>
    BY <2>1
  <2> QED
    BY <1>2, <2>2 DEF SocketInv, Typed
<1>12. ServerNumbers'
  <2> SUFFICES ASSUME NEW c \in Clients
               PROVE  /\ nextRecv'[<<Server, c>>] = 0 => sent[<<Server, c>>] = 0
                      /\ nextRecv'[<<Server, c>>] > 0 =>
                           nextSend[<<Server, c>>] = sent[<<Server, c>>] + 1
    BY <1>3 DEF ServerNumbers
  <2>1. CASE l = <<Server, c>>
    <3>1. nextRecv[<<Server, c>>] > 0 /\ nextRecv'[<<Server, c>>] > 0
      <4>1. nextRecv'[l] = Len(x) + 1
        BY <1>1, <1>2 DEF SocketInv, Typed
      <4> QED
        BY <1>1, <1>4, <2>1, <4>1
    <3>2. nextSend[<<Server, c>>] = sent[<<Server, c>>] + 1
      BY <3>1 DEF SocketInv, ServerNumbers
    <3>3. nextRecv'[<<Server, c>>] # 0
      BY <3>1
    <3> QED
      BY <3>2, <3>3
  <2>2. CASE l # <<Server, c>>
    <3>1. nextRecv'[<<Server, c>>] = nextRecv[<<Server, c>>]
      BY <1>2, <2>2 DEF SocketInv, Typed
    <3> QED
      BY <3>1 DEF SocketInv, ServerNumbers
  <2> QED
    BY <2>1, <2>2
<1> QED
  BY <1>5, <1>6, <1>7, <1>8, <1>9, <1>10, <1>11, <1>12 DEF SocketInv

-----------------------------------------------------------------------------
(* The theorems. *)

\* Every step of client, server and network preserves the invariant.
LEMMA SocketStep == ~ LateEstablish /\ SocketInv /\ [Next]_vars => SocketInv'
<1> SUFFICES ASSUME ~ LateEstablish, SocketInv, [Next]_vars PROVE SocketInv'
  OBVIOUS
<1>1. CASE Listen
  BY <1>1, KeepListen
<1>2. ASSUME NEW e \in Endpoints, OpenFails(e) PROVE SocketInv'
  BY <1>2, KeepOpenFails
<1>3. ASSUME NEW c \in Clients, ConnectSend(c) \/ ConnectSendFails(c) \/ ConnectRecvFails(c)
      PROVE  SocketInv'
  BY <1>3, KeepConnectSend, KeepConnectSendFails, KeepConnectRecvFails
<1>4. ASSUME NEW c \in Clients, NEW m \in net, ConnectRecv(c, m) \/ ConnectAckFails(c, m)
      PROVE  SocketInv'
  BY <1>4, KeepConnectRecv, KeepConnectAckFails
<1>5. ASSUME NEW l \in Links, NEW n \in 1 .. (MaxSent(l) - sent[l]), Send(l, n)
      PROVE  SocketInv'
  BY <1>5, KeepSend
<1>6. ASSUME NEW e \in Endpoints, NEW expired \in SUBSET Tried(e), SendPass(e, expired)
      PROVE  SocketInv'
  BY <1>6, KeepSendPass
<1>7. ASSUME NEW e \in Endpoints, NEW expired \in SUBSET Tried(e),
             NEW i \in DOMAIN sendList[e], SendPassFails(e, expired, i)
      PROVE  SocketInv'
  BY <1>7, KeepSendPassFails
<1>8. ASSUME NEW e \in Endpoints, RecvFails(e) PROVE SocketInv'
  BY <1>8, KeepReceiverStops DEF RecvFails
<1>9. ASSUME NEW e \in Endpoints, NEW m \in net, RecvThreadProc(e, m) PROVE SocketInv'
  BY <1>9, KeepRecvEstablish1, KeepRecvEstablish2, KeepRecvNext, KeepRecvAhead, KeepRecvOld,
     KeepRecvAck DEF RecvThreadProc
<1>10. ASSUME NEW e \in Endpoints, NEW m \in net, RecvAckBlocks(e, m) \/ RecvReplyFails(e, m)
       PROVE  SocketInv'
  BY <1>10, KeepReceiverStops DEF RecvAckBlocks, RecvReplyFails, Receives
<1>11. ASSUME NEW m \in net, Lose(m) PROVE SocketInv'
  BY <1>11, KeepLose
<1>12. CASE UNCHANGED vars
  <2>1. Typed' /\ NetSound' /\ ListsSound'
    BY <1>12 DEF SocketInv, Typed, NetSound, ListsSound, vars
  <2> QED
    BY <1>12, <2>1, TrafficKeeps DEF vars, connVars
<1> QED
  BY <1>1, <1>2, <1>3, <1>4, <1>5, <1>6, <1>7, <1>8, <1>9, <1>10, <1>11, <1>12 DEF Next

\* The invariant holds as long as no ESTABLISH_1 is overtaken by data.
THEOREM SocketInvariant == ASSUME ~ LateEstablish PROVE Spec => []SocketInv
<1>1. SocketInv /\ [Next]_vars => SocketInv'
  BY SocketStep
<1> QED
  BY <1>1, SocketInit, PTL DEF Spec

\* Sequence numbers, lists and datagrams of the transport are well formed at all times,
\* with any number of clients, a network that loses, duplicates and reorders, and any
\* failing socket call.
THEOREM SocketTypeCorrect == ASSUME ~ LateEstablish PROVE Spec => []TypeOK
<1>1. SocketInv => TypeOK
  BY DEF SocketInv, Typed, NetSound, ListsSound, EntriesSound, SoundPackets, TypeOK
<1> QED
  BY <1>1, SocketInvariant, PTL

\* RecvThreadProc writes the chunks of every link in order, without gap or repetition,
\* and none that was not sent.
THEOREM SocketInOrderDelivery == ASSUME ~ LateEstablish PROVE Spec => []InOrderDelivery
<1>1. SocketInv => InOrderDelivery
  BY DEF SocketInv
<1> QED
  BY <1>1, SocketInvariant, PTL

\* Once data has arrived, m_nNextRecvSeq is the number of the next chunk.
THEOREM SocketNextRecvIsNext == ASSUME ~ LateEstablish PROVE Spec => []NextRecvIsNext
<1>1. SocketInv => NextRecvIsNext
  BY DEF SocketInv, Numbered, NextRecvIsNext
<1> QED
  BY <1>1, SocketInvariant, PTL

-----------------------------------------------------------------------------
(* The refinement of FifoStream. *)

\* A step that sends nothing and writes nothing is invisible.
LEMMA Invisible ==
  ASSUME UNCHANGED <<sent, delivered>> PROVE UNCHANGED FS!vars
  BY DEF FS!vars

\* Send is a Write of the stream.
LEMMA SendIsWrite ==
  ASSUME SocketInv, NEW l \in Links, NEW n \in 1 .. (MaxSent(l) - sent[l]), Send(l, n)
  PROVE  FS!Write(l)
<1>1. n \in Nat /\ n >= 1 /\ sent[l] \in Nat
  BY SocketAssumption DEF SocketInv, Typed, MaxSent
<1>2. sent' = [sent EXCEPT ![l] = sent[l] + n] /\ sent'[l] = sent[l] + n
  BY DEF Send, SocketInv, Typed
<1>3. sent'[l] > sent[l]
  BY <1>1, <1>2
<1>4. sent' = [sent EXCEPT ![l] = sent'[l]]
  BY <1>2
<1>5. delivered' = delivered
  BY DEF Send
<1> QED
  BY <1>3, <1>4, <1>5 DEF FS!Write

\* The arrival of the expected packet is an Arrive of the peer's stream.
LEMMA RecvNextIsArrive ==
  ASSUME SocketInv, NEW e \in Endpoints, NEW m \in net, RecvNext(e, m)
  PROVE  FS!Arrive(Peer(<<e, m.from>>))
<1> DEFINE l == <<e, m.from>>
           p == Peer(l)
           r == [k \in Links |-> delivered[Peer(k)]]
<1>1. l \in Links /\ p \in Links /\ Peer(p) = l
  BY NextDelivers, LinkShape
<1>2. PICK k \in Nat, x \in Seq(Nat) :
        /\ k <= Len(recvList[l])
        /\ Len(x) = Len(delivered[l]) + 1 + k /\ Len(x) <= sent[Peer(l)]
        /\ \A i \in DOMAIN x : x[i] = i
        /\ delivered' = [delivered EXCEPT ![l] = x]
        /\ nextRecv' = [nextRecv EXCEPT ![l] = Len(x) + 1]
        /\ recvList' = [recvList EXCEPT ![l] = SubSeq(recvList[l], k + 1, Len(recvList[l]))]
  BY NextDelivers, Zenon
<1>3. Len(delivered[l]) \in Nat /\ Len(x) \in Nat /\ sent[p] \in Nat /\ DOMAIN x = 1 .. Len(x)
  BY <1>1, LenProperties DEF SocketInv, Typed
<1>4. r[p] = delivered[l]
  BY <1>1
<1>5. Len(x) \in Len(r[p]) + 1 .. sent[p]
  BY <1>2, <1>3, <1>4
<1>6. x = [i \in 1 .. Len(x) |-> i]
  <2>1. x \in [1 .. Len(x) -> Nat]
    BY LenProperties
  <2> QED
    BY <1>2, <1>3, <2>1
<1>7. ASSUME NEW k_1 \in Links
      PROVE  delivered'[Peer(k_1)] = IF k_1 = p THEN x ELSE delivered[Peer(k_1)]
  <2>1. Peer(k_1) \in Links /\ (Peer(k_1) = l <=> k_1 = p)
    BY <1>1, LinkShape
  <2> QED
    BY <1>2, <2>1 DEF SocketInv, Typed
<1>8. [k_1 \in Links |-> delivered'[Peer(k_1)]] = [r EXCEPT ![p] = x]
  BY <1>1, <1>7
<1>9. \E j \in Len(r[p]) + 1 .. sent[p] :
        [k_1 \in Links |-> delivered'[Peer(k_1)]] = [r EXCEPT ![p] = [i \in 1 .. j |-> i]]
  BY <1>5, <1>6, <1>8
<1>10. sent' = sent
  BY DEF RecvNext
<1> QED
  BY <1>9, <1>10 DEF FS!Arrive, Peer

\* Every step is a Write, an Arrive or invisible to the two ends.
LEMMA SocketRefines == SocketInv /\ [Next]_vars => [FS!Next]_(FS!vars)
<1> SUFFICES ASSUME SocketInv, [Next]_vars PROVE FS!Next \/ UNCHANGED FS!vars
  BY DEF FS!vars
<1>1. ASSUME NEW l \in Links, NEW n \in 1 .. (MaxSent(l) - sent[l]), Send(l, n)
      PROVE  FS!Next
  BY <1>1, SendIsWrite DEF FS!Next
<1>2. ASSUME NEW e \in Endpoints, NEW m \in net, RecvNext(e, m)
      PROVE  FS!Next
  <2>1. Peer(<<e, m.from>>) \in Links
    BY <1>2, NextDelivers, LinkShape
  <2> QED
    BY <1>2, <2>1, RecvNextIsArrive DEF FS!Next
<1>3. CASE Listen \/ UNCHANGED vars
  BY <1>3, Invisible DEF Listen, connVars, vars
<1>4. ASSUME NEW e \in Endpoints, OpenFails(e) \/ RecvFails(e)
      PROVE  UNCHANGED <<sent, delivered>>
  BY <1>4 DEF OpenFails, RecvFails, connVars
<1>5. ASSUME NEW c \in Clients, ConnectSend(c) \/ ConnectSendFails(c) \/ ConnectRecvFails(c)
      PROVE  UNCHANGED <<sent, delivered>>
  BY <1>5 DEF ConnectSend, ConnectSendFails, ConnectRecvFails, connVars
<1>6. ASSUME NEW c \in Clients, NEW m \in net, ConnectRecv(c, m) \/ ConnectAckFails(c, m)
      PROVE  UNCHANGED <<sent, delivered>>
  BY <1>6 DEF ConnectRecv, ConnectAckFails
<1>7. ASSUME NEW e \in Endpoints, NEW expired \in SUBSET Tried(e),
             SendPass(e, expired) \/ \E i \in DOMAIN sendList[e] : SendPassFails(e, expired, i)
      PROVE  UNCHANGED <<sent, delivered>>
  BY <1>7 DEF SendPass, SendPassFails, connVars
<1>8. ASSUME NEW e \in Endpoints, NEW m \in net,
             \/ RecvEstablish1(e, m) \/ RecvEstablish2(e, m) \/ RecvAhead(e, m)
             \/ RecvOld(e, m) \/ RecvAck(e, m) \/ RecvAckBlocks(e, m) \/ RecvReplyFails(e, m)
      PROVE  UNCHANGED <<sent, delivered>>
  BY <1>8 DEF RecvEstablish1, RecvEstablish2, RecvAhead, RecvOld, RecvAck, RecvAckBlocks,
              RecvReplyFails, connVars
<1>9. ASSUME NEW m \in net, Lose(m) PROVE UNCHANGED <<sent, delivered>>
  BY <1>9 DEF Lose, connVars
<1> QED
  BY <1>1, <1>2, <1>3, <1>4, <1>5, <1>6, <1>7, <1>8, <1>9, Invisible DEF Next, RecvThreadProc

\* Seen from its two ends every connection is a FIFO stream.
THEOREM SocketImplementsFifoStream == ASSUME ~ LateEstablish PROVE Spec => ImplementsFifoStream
<1>1. Init => FS!Init
  <2> SUFFICES ASSUME Init PROVE FS!Init
    OBVIOUS
  <2>1. sent = [l \in Links |-> 0]
    BY DEF Init
  <2>2. [l \in Links |-> delivered[Peer(l)]] = [l \in Links |-> <<>>]
    BY LinkShape DEF Init
  <2> QED
    BY <2>1, <2>2 DEF FS!Init
<1> QED
  BY <1>1, SocketRefines, SocketInvariant, PTL DEF Spec, ImplementsFifoStream, FS!Spec
=============================================================================
