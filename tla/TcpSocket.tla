------------------------------- MODULE TcpSocket -------------------------------
(***************************************************************************)
(* The reliable transport over UDP of TcpSocketDll: CTcpSocket (Send,      *)
(* SendThreadProc, RecvThreadProc), CTcpClient::Connect and                *)
(* CTcpServer::Listen.                                                     *)
(*                                                                         *)
(* One server and any number of clients.  Each endpoint has one socket,    *)
(* one send list shared by all its peers (m_sendList), and per peer a      *)
(* connection record (m_connectMap).  A link <<e, p>> is the record        *)
(* endpoint e keeps for peer p.                                            *)
(*                                                                         *)
(* The payload of the k-th chunk handed to Send on a link is the number k; *)
(* `delivered' is everything ever written to the link's m_byteStream.      *)
(* A pass of the send thread runs under m_sendListLock and is one action;  *)
(* so is the handling of one datagram by the receive thread, whose         *)
(* m_nNextRecvSeq and m_recvList no other thread touches (the interleaving *)
(* of its stream and status writes with the server's threads is module     *)
(* Dispatch).  Timeouts are not measured: a packet sent once may be resent *)
(* in any later pass.                                                      *)
(***************************************************************************)
EXTENDS Integers, Sequences, SequencesExt

CONSTANTS
  Clients,        \* client addresses
  Server,         \* the server's address
  MaxUp,          \* bound: chunks a client sends on its connection
  MaxDown,        \* bound: chunks the server sends to one client
  MaxSendList,    \* bound: nodes in a send list
  MaxRecvList,    \* bound: packets in a receive list
  LateEstablish,  \* may an ESTABLISH_1 copy arrive after the data it precedes?
  Lossy,          \* does the network drop datagrams?
  Faults          \* the socket calls that may fail: subset of FaultKinds

FaultKinds == {"socket", "sendto", "recvfrom"}

ASSUME SocketAssumption ==
  /\ Server \notin Clients
  /\ MaxUp \in Nat
  /\ MaxDown \in Nat
  /\ MaxSendList \in Nat
  /\ MaxRecvList \in Nat
  /\ LateEstablish \in BOOLEAN
  /\ Lossy \in BOOLEAN
  /\ Faults \subseteq FaultKinds

Endpoints == Clients \cup {Server}
Links == (Clients \X {Server}) \cup ({Server} \X Clients)

MaxSent(l) == IF l[1] = Server THEN MaxDown ELSE MaxUp

Types == {"ESTABLISH_1", "ESTABLISH_2", "DATA", "ACK"}

\* A datagram; ESTABLISH and ACK packets carry no payload.
Packets == [from : Endpoints, to : Endpoints, type : Types, seq : Nat, data : Nat]

\* A SendListNode; tried stands for m_time # 0.
Nodes == [to : Endpoints, type : Types, seq : Nat, data : Nat, tried : BOOLEAN]

Packet(from, to, type, seq, data) ==
  [from |-> from, to |-> to, type |-> type, seq |-> seq, data |-> data]

SendListNode(to, type, seq, data, tried) ==
  [to |-> to, type |-> type, seq |-> seq, data |-> data, tried |-> tried]

VARIABLES
  phase,      \* progress of Connect or Listen at each endpoint
  sender,     \* the SendThreadProc thread of each endpoint
  receiver,   \* the RecvThreadProc thread of each endpoint
  sendList,   \* m_sendList
  nextSend,   \* m_nNextSendSeq
  nextRecv,   \* m_nNextRecvSeq
  recvList,   \* m_recvList, entries [seq, data]
  delivered,  \* payloads written to m_byteStream so far
  sent,       \* number of chunks passed to Send so far
  net         \* datagrams in flight

vars == <<phase, sender, receiver, sendList, nextSend, nextRecv, recvList,
          delivered, sent, net>>

threadVars == <<phase, sender, receiver>>
connVars == <<nextSend, nextRecv, recvList, delivered, sent>>

TypeOK ==
  /\ phase \in [Endpoints -> {"closed", "waiting", "open", "failed"}]
  /\ sender \in [Endpoints -> {"none", "run", "dead"}]
  /\ receiver \in [Endpoints -> {"none", "run", "dead"}]
  /\ sendList \in [Endpoints -> Seq(Nodes)]
  /\ nextSend \in [Links -> Nat]
  /\ nextRecv \in [Links -> Nat]
  /\ recvList \in [Links -> Seq([seq : Nat, data : Nat])]
  /\ delivered \in [Links -> Seq(Nat)]
  /\ sent \in [Links -> Nat]
  /\ net \in SUBSET Packets

\* No socket yet; Conn() starts with both sequence numbers at 0.
Init ==
  /\ phase = [e \in Endpoints |-> "closed"]
  /\ sender = [e \in Endpoints |-> "none"]
  /\ receiver = [e \in Endpoints |-> "none"]
  /\ sendList = [e \in Endpoints |-> <<>>]
  /\ nextSend = [l \in Links |-> 0]
  /\ nextRecv = [l \in Links |-> 0]
  /\ recvList = [l \in Links |-> <<>>]
  /\ delivered = [l \in Links |-> <<>>]
  /\ sent = [l \in Links |-> 0]
  /\ net = {}

\* SendThreadProc returns from a failed sendto without UnLock: from then on
\* m_sendListLock is never free again at that endpoint.
LockFree(e) == sender[e] # "dead"

\* Mutants: off by one in either direction.
AfterHandshakeSkips(m) == m.seq + 2
AfterHandshakeBack(m) == m.seq - 1

\* m_nNextRecvSeq once the handshake packet m of the peer has been seen.
AfterHandshake(m) == m.seq + 1

-----------------------------------------------------------------------------
(* Opening: CTcpServer::Listen and CTcpClient::Connect. *)

\* Listen: socket, bind, both threads.
Listen ==
  /\ phase[Server] = "closed"
  /\ phase' = [phase EXCEPT ![Server] = "open"]
  /\ sender' = [sender EXCEPT ![Server] = "run"]
  /\ receiver' = [receiver EXCEPT ![Server] = "run"]
  /\ UNCHANGED <<sendList, connVars, net>>

\* socket() or bind() fails, before anything else has happened.
OpenFails(e) ==
  /\ "socket" \in Faults
  /\ phase[e] = "closed"
  /\ phase' = [phase EXCEPT ![e] = "failed"]
  /\ UNCHANGED <<sender, receiver, sendList, connVars, net>>

\* Connect up to its recvfrom: ESTABLISH_1 is sent directly, then listed for
\* retransmission, and the send thread starts.
ConnectSend(c) ==
  /\ phase[c] = "closed"
  /\ phase' = [phase EXCEPT ![c] = "waiting"]
  /\ nextSend' = [nextSend EXCEPT ![<<c, Server>>] = 1]
  /\ net' = net \cup {Packet(c, Server, "ESTABLISH_1", 0, 0)}
  /\ sendList' = [sendList EXCEPT
                    ![c] = Append(@, SendListNode(Server, "ESTABLISH_1", 0, 0, TRUE))]
  /\ sender' = [sender EXCEPT ![c] = "run"]
  /\ UNCHANGED <<receiver, nextRecv, recvList, delivered, sent>>

\* The first sendto of Connect fails: nothing listed, no thread.
ConnectSendFails(c) ==
  /\ "sendto" \in Faults
  /\ phase[c] = "closed"
  /\ phase' = [phase EXCEPT ![c] = "failed"]
  /\ nextSend' = [nextSend EXCEPT ![<<c, Server>>] = 1]
  /\ UNCHANGED <<sender, receiver, sendList, nextRecv, recvList, delivered, sent, net>>

\* Connect's recvfrom has room for a bare Packet, and the first one that arrives is
\* taken for the server's answer, its type unread.
Answers(c, m) == m.to = c /\ m.type # "DATA"

\* The answer arrives: the send list is cleared, the ACK sent, the receive thread
\* started.  With the lock lost, Connect never returns.
ConnectRecv(c, m) ==
  /\ phase[c] = "waiting"
  /\ LockFree(c)
  /\ Answers(c, m)
  /\ nextRecv' = [nextRecv EXCEPT ![<<c, Server>>] = AfterHandshake(m)]
  /\ sendList' = [sendList EXCEPT ![c] = <<>>]
  /\ net' = net \cup {Packet(c, Server, "ACK", m.seq, 0)}
  /\ phase' = [phase EXCEPT ![c] = "open"]
  /\ receiver' = [receiver EXCEPT ![c] = "run"]
  /\ UNCHANGED <<sender, nextSend, recvList, delivered, sent>>

\* The sendto of that ACK fails: Connect gives up after it cleared the list.
ConnectAckFails(c, m) ==
  /\ "sendto" \in Faults
  /\ phase[c] = "waiting"
  /\ LockFree(c)
  /\ Answers(c, m)
  /\ nextRecv' = [nextRecv EXCEPT ![<<c, Server>>] = AfterHandshake(m)]
  /\ sendList' = [sendList EXCEPT ![c] = <<>>]
  /\ phase' = [phase EXCEPT ![c] = "failed"]
  /\ UNCHANGED <<sender, receiver, nextSend, recvList, delivered, sent, net>>

\* Connect's recvfrom fails: the send thread keeps running, ESTABLISH_1 listed.  The
\* packet was on Connect's stack; here it is resent as it was, or no more.
ConnectRecvFails(c) ==
  /\ "recvfrom" \in Faults
  /\ phase[c] = "waiting"
  /\ phase' = [phase EXCEPT ![c] = "failed"]
  /\ UNCHANGED <<sender, receiver, sendList, connVars, net>>

-----------------------------------------------------------------------------
(* Sending: CTcpSocket::Send and SendThreadProc. *)

\* A client sends once Connect has returned, even if it failed: OnInitDialog goes on
\* to SendSql all the same.  If Connect failed before it started the send thread,
\* nobody ever looks at what is listed, and Send has no effect worth a step.  The
\* server sends only from CSqlTask::Execute, to a peer whose data Select has seen.
MaySend(l) ==
  IF l[1] = Server THEN delivered[l] # <<>>
  ELSE phase[l[1]] = "open" \/ (phase[l[1]] = "failed" /\ sender[l[1]] # "none")

\* Send split into n packets, listed with consecutive sequence numbers.
Send(l, n) ==
  /\ MaySend(l)
  /\ LockFree(l[1])
  /\ Len(sendList[l[1]]) + n <= MaxSendList
  /\ sendList' = [sendList EXCEPT ![l[1]] =
                    @ \o [i \in 1 .. n |->
                            SendListNode(l[2], "DATA", nextSend[l] + i - 1, sent[l] + i, FALSE)]]
  /\ nextSend' = [nextSend EXCEPT ![l] = @ + n]
  /\ sent' = [sent EXCEPT ![l] = @ + n]
  /\ UNCHANGED <<threadVars, nextRecv, recvList, delivered, net>>

Tried(e) == {i \in DOMAIN sendList[e] : sendList[e][i].tried}

\* Mutant: nothing is sent a second time.
DueOnce(e, expired) == {i \in DOMAIN sendList[e] : ~ sendList[e][i].tried}

\* What a pass sends: every new node, and those of the others (`expired') whose
\* last transmission is 1000 clock ticks old.
Due(e, expired) == {i \in DOMAIN sendList[e] : ~ sendList[e][i].tried \/ i \in expired}

\* The nodes at positions `due' have been sent, and their m_time updated.
Transmit(e, due) ==
  /\ net' = net \cup {Packet(e, sendList[e][i].to, sendList[e][i].type,
                              sendList[e][i].seq, sendList[e][i].data) : i \in due}
  /\ sendList' = [sendList EXCEPT ![e] =
                    [i \in DOMAIN @ |-> IF i \in due THEN [@[i] EXCEPT !.tried = TRUE] ELSE @[i]]]

\* One pass of SendThreadProc under the lock.
SendPass(e, expired) ==
  /\ sender[e] = "run"
  /\ Due(e, expired) # {}
  /\ Transmit(e, Due(e, expired))
  /\ UNCHANGED <<threadVars, connVars>>

\* sendto fails for node i of a pass: the thread returns with the lock held.
SendPassFails(e, expired, i) ==
  /\ "sendto" \in Faults
  /\ sender[e] = "run"
  /\ i \in Due(e, expired)
  /\ Transmit(e, {j \in Due(e, expired) : j < i})
  /\ sender' = [sender EXCEPT ![e] = "dead"]
  /\ UNCHANGED <<phase, receiver, connVars>>

-----------------------------------------------------------------------------
(* Receiving: RecvThreadProc, one action per packet type. *)

Receives(e, m, type) ==
  /\ receiver[e] = "run"
  /\ m.to = e
  /\ m.type = type

\* The receive thread stops for good: it returns on a socket error, or waits for
\* a lock the send thread took with it.
ReceiverStops(e) == receiver' = [receiver EXCEPT ![e] = "dead"]

\* The network never delivers ESTABLISH_1 after data that followed it, unless
\* LateEstablish: nothing has been written, and early packets are listed only if the
\* connection was already numbered by another copy.  The loopback interface keeps this
\* order; a client whose Connect failed can break it, as it goes on sending both.
Timely(m) ==
  LET l == <<m.to, m.from>>
  IN  \/ LateEstablish
      \/ /\ delivered[l] = <<>>
         /\ sent[l] = 0
         /\ recvList[l] # <<>> => nextRecv[l] > 0

\* First handshake: (re)initialise the sequence numbers, list an ESTABLISH_2.
RecvEstablish1(e, m) ==
  LET l == <<e, m.from>>
  IN  /\ Receives(e, m, "ESTABLISH_1")
      /\ Timely(m)
      /\ nextSend' = [nextSend EXCEPT ![l] = 1]
      /\ nextRecv' = [nextRecv EXCEPT ![l] = AfterHandshake(m)]
      /\ \/ /\ LockFree(e)
            /\ Len(sendList[e]) < MaxSendList
            /\ sendList' = [sendList EXCEPT
                              ![e] = Append(@, SendListNode(m.from, "ESTABLISH_2", 0, 0, FALSE))]
            /\ UNCHANGED receiver
         \/ /\ ~ LockFree(e)
            /\ ReceiverStops(e)
            /\ UNCHANGED sendList
      /\ UNCHANGED <<phase, sender, recvList, delivered, sent, net>>

\* Second handshake seen again by a connected client: acknowledge it.
RecvEstablish2(e, m) ==
  /\ Receives(e, m, "ESTABLISH_2")
  /\ net' = net \cup {Packet(e, m.from, "ACK", m.seq, 0)}
  /\ UNCHANGED <<threadVars, sendList, connVars>>

\* A data packet is acknowledged whatever its number.
AckData(e, m) == net' = net \cup {Packet(e, m.from, "ACK", m.seq, 0)}

\* Mutant: the whole list is written, gaps or not.
RunAtHeadAll(list, next, k) == k = Len(list)

\* k entries at the head of the list carry on from sequence number next, and the
\* traversal stops at the first one that does not.
RunAtHead(list, next, k) ==
  /\ k \in 0 .. Len(list)
  /\ \A i \in 1 .. k : list[i].seq = next + i - 1
  /\ k < Len(list) => list[k + 1].seq # next + k

\* The expected packet: write it and the run of listed packets behind it.
RecvNext(e, m) ==
  LET l == <<e, m.from>>
      list == recvList[l]
  IN  /\ Receives(e, m, "DATA")
      /\ m.seq = nextRecv[l]
      /\ AckData(e, m)
      /\ \E k \in 0 .. Len(list) :
           /\ RunAtHead(list, nextRecv[l] + 1, k)
           /\ delivered' = [delivered EXCEPT ![l] =
                              Append(@, m.data) \o [i \in 1 .. k |-> list[i].data]]
           /\ nextRecv' = [nextRecv EXCEPT ![l] = @ + 1 + k]
           /\ recvList' = [recvList EXCEPT ![l] = SubSeq(@, k + 1, Len(list))]
      /\ UNCHANGED <<threadVars, sendList, nextSend, sent>>

\* Mutant: packets are kept in the order of their arrival.
InsertPosLast(list, seq, i) == i = Len(list) + 1

\* A packet is inserted before the first entry with a greater number.
InsertPos(list, seq, i) ==
  /\ i \in 1 .. Len(list) + 1
  /\ \A j \in 1 .. (i - 1) : list[j].seq <= seq
  /\ i <= Len(list) => list[i].seq > seq

\* A packet ahead of the expected one: keep it in the list.
RecvAhead(e, m) ==
  LET l == <<e, m.from>>
  IN  /\ Receives(e, m, "DATA")
      /\ m.seq > nextRecv[l]
      /\ Len(recvList[l]) < MaxRecvList
      /\ AckData(e, m)
      /\ \E i \in 1 .. Len(recvList[l]) + 1 :
           /\ InsertPos(recvList[l], m.seq, i)
           /\ recvList' = [recvList EXCEPT
                             ![l] = InsertAt(@, i, [seq |-> m.seq, data |-> m.data])]
      /\ UNCHANGED <<threadVars, sendList, nextSend, nextRecv, delivered, sent>>

\* A packet already written: acknowledged again, otherwise ignored.
RecvOld(e, m) ==
  /\ Receives(e, m, "DATA")
  /\ m.seq < nextRecv[<<e, m.from>>]
  /\ AckData(e, m)
  /\ UNCHANGED <<threadVars, sendList, connVars>>

\* Mutant: a packet acknowledges all numbers up to its own.
AcknowledgedUpTo(list, seq, i) ==
  /\ i \in DOMAIN list
  /\ list[i].seq <= seq
  /\ \A j \in 1 .. (i - 1) : list[j].seq > seq

\* The first node listed with the acknowledged number, whatever its peer or type.
Acknowledged(list, seq, i) ==
  /\ i \in DOMAIN list
  /\ list[i].seq = seq
  /\ \A j \in 1 .. (i - 1) : list[j].seq # seq

\* An acknowledgement: unlist one node.
RecvAck(e, m) ==
  /\ Receives(e, m, "ACK")
  /\ LockFree(e)
  /\ \E i \in DOMAIN sendList[e] :
       /\ Acknowledged(sendList[e], m.seq, i)
       /\ sendList' = [sendList EXCEPT ![e] = RemoveAt(@, i)]
  /\ UNCHANGED <<threadVars, connVars, net>>

\* An acknowledgement that meets the lock the send thread never gave back.
RecvAckBlocks(e, m) ==
  /\ Receives(e, m, "ACK")
  /\ ~ LockFree(e)
  /\ ReceiverStops(e)
  /\ UNCHANGED <<phase, sender, sendList, connVars, net>>

\* The sendto of an ACK fails: the thread returns before it looks at the packet.
RecvReplyFails(e, m) ==
  /\ "sendto" \in Faults
  /\ Receives(e, m, "ESTABLISH_2") \/ Receives(e, m, "DATA")
  /\ ReceiverStops(e)
  /\ UNCHANGED <<phase, sender, sendList, connVars, net>>

\* recvfrom fails: the thread returns.
RecvFails(e) ==
  /\ "recvfrom" \in Faults
  /\ receiver[e] = "run"
  /\ ReceiverStops(e)
  /\ UNCHANGED <<phase, sender, sendList, connVars, net>>

\* The network drops a datagram.  Until then it may be delivered any number of
\* times and in any order.
Lose(m) ==
  /\ Lossy
  /\ net' = net \ {m}
  /\ UNCHANGED <<threadVars, sendList, connVars>>

RecvThreadProc(e, m) ==
  \/ RecvEstablish1(e, m)
  \/ RecvEstablish2(e, m)
  \/ RecvNext(e, m)
  \/ RecvAhead(e, m)
  \/ RecvOld(e, m)
  \/ RecvAck(e, m)

Next ==
  \/ Listen
  \/ \E e \in Endpoints : OpenFails(e)
  \/ \E c \in Clients : ConnectSend(c) \/ ConnectSendFails(c) \/ ConnectRecvFails(c)
  \/ \E c \in Clients, m \in net : ConnectRecv(c, m) \/ ConnectAckFails(c, m)
  \/ \E l \in Links : \E n \in 1 .. (MaxSent(l) - sent[l]) : Send(l, n)
  \/ \E e \in Endpoints : \E expired \in SUBSET Tried(e) :
       SendPass(e, expired) \/ \E i \in DOMAIN sendList[e] : SendPassFails(e, expired, i)
  \/ \E e \in Endpoints : RecvFails(e)
  \/ \E e \in Endpoints, m \in net :
       RecvThreadProc(e, m) \/ RecvAckBlocks(e, m) \/ RecvReplyFails(e, m)
  \/ \E m \in net : Lose(m)

Spec == Init /\ [][Next]_vars

\* The server and the clients are started; the send thread wakes every 20 ms and
\* retransmits whatever has expired; and the network is fair: a handshake or data
\* packet that is retransmitted again and again arrives.  No fairness on Send,
\* Lose, faults, acknowledgements or packets out of order.
Fairness ==
  /\ WF_vars(Listen)
  /\ \A c \in Clients : WF_vars(ConnectSend(c))
  /\ \A e \in Endpoints : WF_vars(SendPass(e, Tried(e)))
  /\ \A c \in Clients : SF_vars(\E m \in net : m.from = c /\ RecvEstablish1(Server, m))
  /\ \A c \in Clients : SF_vars(\E m \in net : ConnectRecv(c, m))
  /\ \A l \in Links : SF_vars(\E m \in net : m.from = l[2] /\ RecvNext(l[1], m))

FairSpec == Spec /\ Fairness

-----------------------------------------------------------------------------
(* Properties. *)

Peer(l) == <<l[2], l[1]>>

\* What reaches the reader of a link is a prefix of what the peer passed to Send:
\* in order, nothing lost in between, nothing twice, whatever the network drops,
\* duplicates and reorders (RecvThreadProc's sequence number logic).
InOrderDelivery ==
  \A l \in Links :
    /\ Len(delivered[l]) <= sent[Peer(l)]
    /\ \A i \in DOMAIN delivered[l] : delivered[l][i] = i

\* The streams this module implements: read from the peer's side of each link.
FS == INSTANCE FifoStream WITH written <- sent, read <- [l \in Links |-> delivered[Peer(l)]]

\* Seen from its two ends every connection is a FIFO stream: Send only adds to it,
\* and a datagram that arrives extends what the peer has read, in order, or leaves
\* it alone.
ImplementsFifoStream == FS!Spec

\* m_nNextRecvSeq is the number of the next packet to receive (CTcpSocket.h:83):
\* once data has arrived it is one more than the number of chunks written.
NextRecvIsNext ==
  \A l \in Links : delivered[l] # <<>> => nextRecv[l] = Len(delivered[l]) + 1

\* Chunk k passed to Send on link l has reached the peer's stream or its receive
\* list, or is still listed for retransmission.
Retained(l, k) ==
  \/ k <= Len(delivered[Peer(l)])
  \/ \E i \in DOMAIN recvList[Peer(l)] : recvList[Peer(l)][i].data = k
  \/ \E i \in DOMAIN sendList[l[1]] :
       /\ sendList[l[1]][i].to = l[2]
       /\ sendList[l[1]][i].type = "DATA"
       /\ sendList[l[1]][i].data = k

\* An acknowledgement never unlists a chunk of a client that the server has not
\* received: a request stays retransmittable until it has arrived.
RequestsRetained ==
  \A c \in Clients : \A k \in 1 .. sent[<<c, Server>>] : Retained(<<c, Server>>, k)

\* The same for the server's answers.
RepliesRetained ==
  \A c \in Clients : \A k \in 1 .. sent[<<Server, c>>] : Retained(<<Server, c>>, k)

\* The expected packet lies unwritten in the receive list; it has been acknowledged,
\* so no retransmission will release it.
Stranded(l) == \E i \in DOMAIN recvList[l] : recvList[l][i].seq = nextRecv[l]

\* The head of the receive list is a duplicate of a packet already written.
StaleHead(l) == recvList[l] # <<>> /\ recvList[l][1].seq < nextRecv[l]

\* After every datagram the receive list has been written out as far as it goes.
NothingStranded == \A l \in Links : ~ Stranded(l)

\* The traversal of the receive list can strand a packet only behind a duplicate:
\* the list stays sorted and is otherwise drained completely.
StrandedOnlyBehindDuplicate == \A l \in Links : Stranded(l) => StaleHead(l)

\* Every chunk passed to Send is written to the peer's stream in the end, however
\* often datagrams and acknowledgements are lost, unless a duplicate comes to lie
\* at the head of the receive list.
EventuallyDelivered ==
  \A l \in Links : \A k \in 1 .. MaxSent(l) :
    sent[l] >= k ~> Len(delivered[Peer(l)]) >= k \/ StaleHead(Peer(l))
=============================================================================
