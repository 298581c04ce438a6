-------------------------- MODULE TcpRetentionProofs --------------------------
(***************************************************************************)
(* What TcpSocket keeps until it has arrived, and how its receive lists    *)
(* drain, for any number of clients, any bounds and any failing socket     *)
(* call, as long as no ESTABLISH_1 is overtaken by data.                   *)
(***************************************************************************)
EXTENDS TcpSocketProofs

\* Chunk k of link l is in the peer's stream or waits in its receive list.
Arrived(l, k) ==
  \/ k <= Len(delivered[Peer(l)])
  \/ \E i \in DOMAIN recvList[Peer(l)] : recvList[Peer(l)][i].data = k

\* Chunk k of link l is in the send list.
Listed(l, k) ==
  \E i \in DOMAIN sendList[l[1]] :
    /\ sendList[l[1]][i].to = l[2]
    /\ sendList[l[1]][i].type = "DATA"
    /\ sendList[l[1]][i].data = k

\* A data packet is acknowledged only after it has been put where it belongs.
AcksHonest ==
  \A m \in net : m.type = "ACK" /\ m.seq > 0 => Arrived(<<m.to, m.from>>, m.seq)

\* The owner of the link has no other peer: acknowledgements cannot be mistaken for
\* those of another one, which RecvThreadProc does not tell apart.
OnlyPeer(l) == \A p \in Endpoints : <<l[1], p>> \in Links => p = l[2]

Kept == \A l \in Links : OnlyPeer(l) => \A k \in 1 .. sent[l] : Arrived(l, k) \/ Listed(l, k)

RetentionInv == AcksHonest /\ Kept

\* Entries are in the order of their numbers.
ListsSorted ==
  \A l \in Links : \A i, j \in DOMAIN recvList[l] :
    i <= j => recvList[l][i].seq <= recvList[l][j].seq

\* A client receives nothing before it is open.
NothingEarly == \A c \in Clients : phase[c] # "open" => recvList[<<c, Server>>] = <<>>

DrainInv == ListsSorted /\ NothingEarly /\ StrandedOnlyBehindDuplicate

-----------------------------------------------------------------------------
(* What has arrived stays, and what is listed stays until it is acknowledged. *)

\* Entries of a list other than the one taken out are still in it.
LEMMA RemoveAtKeeps ==
  ASSUME NEW S, NEW q \in Seq(S), NEW i \in 1 .. Len(q), NEW j \in 1 .. Len(q), j # i
  PROVE  \E n \in DOMAIN RemoveAt(q, i) : RemoveAt(q, i)[n] = q[j]
<1> DEFINE a == SubSeq(q, 1, i - 1)
           b == SubSeq(q, i + 1, Len(q))
<1>1. Len(q) \in Nat
  BY LenProperties
<1>2. a \in Seq(S) /\ Len(a) = i - 1 /\ \A n \in 1 .. i - 1 : a[n] = q[n]
  BY <1>1, SubSeqProperties, LenProperties
<1>3. b \in Seq(S) /\ Len(b) = Len(q) - i /\ \A n \in 1 .. Len(q) - i : b[n] = q[i + n]
  BY <1>1, SubSeqProperties, LenProperties
<1>4. RemoveAt(q, i) = a \o b
  BY DEF RemoveAt
<1> HIDE DEF a, b
<1>5. /\ a \o b \in Seq(S) /\ Len(a \o b) = Len(a) + Len(b)
      /\ \A n \in 1 .. Len(a) + Len(b) : (a \o b)[n] = IF n <= Len(a) THEN a[n] ELSE b[n - Len(a)]
  BY <1>2, <1>3, ConcatProperties
<1>6. DOMAIN (a \o b) = 1 .. Len(q) - 1
  <2>1. Len(a \o b) = Len(q) - 1
    BY <1>1, <1>2, <1>3, <1>5
  <2> QED
    BY <1>5, <2>1, LenProperties
<1>7. CASE j < i
  <2>1. j \in 1 .. Len(q) - 1 /\ (a \o b)[j] = q[j]
    BY <1>1, <1>2, <1>3, <1>5, <1>7
  <2> QED
    BY <1>4, <1>6, <2>1
<1>8. CASE j > i
  <2>1. j - 1 \in 1 .. Len(q) - 1 /\ (a \o b)[j - 1] = b[j - i]
    BY <1>1, <1>2, <1>3, <1>5, <1>8
  <2>2. b[j - i] = q[j]
    BY <1>1, <1>3, <1>8
  <2> QED
    BY <1>4, <1>6, <2>1, <2>2
<1> QED
  BY <1>7, <1>8

\* An entry put into a list joins those that are in it.
LEMMA InsertAtEntries ==
  ASSUME NEW S, NEW q \in Seq(S), NEW i \in 1 .. Len(q) + 1, NEW x \in S
  PROVE  LET r == InsertAt(q, i, x)
         IN  /\ r \in Seq(S) /\ Len(r) = Len(q) + 1 /\ DOMAIN r = 1 .. Len(q) + 1
             /\ \A n \in 1 .. i - 1 : r[n] = q[n]
             /\ r[i] = x
             /\ \A n \in i + 1 .. Len(q) + 1 : r[n] = q[n - 1]
<1> DEFINE a == SubSeq(q, 1, i - 1)
           b == SubSeq(q, i, Len(q))
           u == a \o <<x>>
<1>1. Len(q) \in Nat
  BY LenProperties
<1>2. a \in Seq(S) /\ Len(a) = i - 1 /\ \A n \in 1 .. i - 1 : a[n] = q[n]
  BY <1>1, SubSeqProperties, LenProperties
<1>3. b \in Seq(S) /\ Len(b) = Len(q) - i + 1 /\ \A n \in 1 .. Len(q) - i + 1 : b[n] = q[i + n - 1]
  BY <1>1, SubSeqProperties, LenProperties
<1>4. InsertAt(q, i, x) = u \o b
  BY DEF InsertAt
<1> HIDE DEF a, b
<1>5. <<x>> \in Seq(S) /\ Len(<<x>>) = 1 /\ <<x>>[1] = x
  OBVIOUS
<1>6. /\ u \in Seq(S) /\ Len(u) = i
      /\ \A n \in 1 .. i : u[n] = IF n <= i - 1 THEN q[n] ELSE x
  <2>1. /\ u \in Seq(S) /\ Len(u) = Len(a) + 1
        /\ \A n \in 1 .. Len(a) + 1 : u[n] = IF n <= Len(a) THEN a[n] ELSE <<x>>[n - Len(a)]
    BY <1>2, <1>5, ConcatProperties
  <2> HIDE DEF u
  <2> QED
    BY <1>1, <1>2, <1>5, <2>1
<1> HIDE DEF u
<1>7. /\ u \o b \in Seq(S) /\ Len(u \o b) = Len(u) + Len(b)
      /\ \A n \in 1 .. Len(u) + Len(b) : (u \o b)[n] = IF n <= Len(u) THEN u[n] ELSE b[n - Len(u)]
  BY <1>3, <1>6, ConcatProperties
<1>8. DOMAIN (u \o b) = 1 .. Len(q) + 1 /\ Len(u \o b) = Len(q) + 1
  BY <1>1, <1>3, <1>6, <1>7, LenProperties
<1>9. \A n \in 1 .. i - 1 : (u \o b)[n] = q[n]
  BY <1>1, <1>3, <1>6, <1>7
<1>10. (u \o b)[i] = x
  BY <1>1, <1>3, <1>6, <1>7
<1>11. \A n \in i + 1 .. Len(q) + 1 : (u \o b)[n] = q[n - 1]
  <2> SUFFICES ASSUME NEW n \in i + 1 .. Len(q) + 1 PROVE (u \o b)[n] = q[n - 1]
    OBVIOUS
  <2>1. (u \o b)[n] = b[n - i]
    BY <1>1, <1>3, <1>6, <1>7
  <2>2. n - i \in 1 .. Len(q) - i + 1 /\ i + (n - i) - 1 = n - 1
    BY <1>1
  <2> QED
    BY <1>3, <2>1, <2>2
<1> QED
  BY <1>4, <1>7, <1>8, <1>9, <1>10, <1>11

\* The second part of a concatenation follows the first.
LEMMA ConcatSecond ==
  ASSUME NEW S, NEW a \in Seq(S), NEW b \in Seq(S), NEW i \in 1 .. Len(b)
  PROVE  Len(a) + i \in DOMAIN (a \o b) /\ (a \o b)[Len(a) + i] = b[i]
<1>1. Len(a) \in Nat /\ Len(b) \in Nat
  BY LenProperties
<1>2. /\ a \o b \in Seq(S) /\ Len(a \o b) = Len(a) + Len(b)
      /\ \A n \in 1 .. Len(a) + Len(b) : (a \o b)[n] = IF n <= Len(a) THEN a[n] ELSE b[n - Len(a)]
  BY ConcatProperties
<1>3. DOMAIN (a \o b) = 1 .. Len(a \o b)
  BY <1>2, LenProperties
<1>4. Len(a) + i \in 1 .. Len(a) + Len(b) /\ ~ (Len(a) + i <= Len(a)) /\ Len(a) + i - Len(a) = i
  BY <1>1
<1> QED
  BY <1>2, <1>3, <1>4

\* The entries of a receive list are chunks under their own numbers.
LEMMA EntriesShape ==
  ASSUME SocketInv, NEW l \in Links
  PROVE  /\ recvList[l] \in Seq(SoundEntries(sent, l))
         /\ recvList[l] \in Seq([seq : Nat, data : Nat])
         /\ Len(recvList[l]) \in Nat /\ DOMAIN recvList[l] = 1 .. Len(recvList[l])
         /\ \A i \in 1 .. Len(recvList[l]) :
              /\ recvList[l][i] \in SoundEntries(sent, l)
              /\ recvList[l][i].seq = recvList[l][i].data /\ recvList[l][i].data \in Nat
<1>1. /\ recvList[l] \in Seq(SoundEntries(sent, l))
      /\ recvList[l] \in Seq([seq : Nat, data : Nat])
  BY DEF SocketInv, EntriesSound
<1>2. Len(recvList[l]) \in Nat /\ DOMAIN recvList[l] = 1 .. Len(recvList[l])
  BY <1>1, LenProperties
<1>3. \A i \in 1 .. Len(recvList[l]) : recvList[l][i] \in SoundEntries(sent, l)
  BY <1>1, ElementOfSeq
<1> QED
  BY <1>1, <1>2, <1>3 DEF SoundEntries

\* Neither stream nor receive list changes.
LEMMA ArrivedSame ==
  ASSUME UNCHANGED <<delivered, recvList>>
  PROVE  \A l \in Links : \A k \in Nat : Arrived(l, k) => Arrived(l, k)'
  BY DEF Arrived, Peer

\* The packets written from the head of the receive list are in the stream.
LEMMA ArrivedNext ==
  ASSUME SocketInv, NEW e \in Endpoints, NEW m \in net, RecvNext(e, m)
  PROVE  /\ \A l \in Links : \A k \in Nat : Arrived(l, k) => Arrived(l, k)'
         /\ Arrived(<<m.from, e>>, m.seq)'
<1> DEFINE p == <<e, m.from>>
           q == recvList[p]
           d == delivered[p]
<1>1. /\ Sound(sent, m.from, e, m) /\ p \in Links /\ Peer(<<m.from, e>>) = p
      /\ m.seq \in Nat /\ m.data \in Nat /\ m.seq = nextRecv[p]
  BY PacketShape, LinkShape DEF RecvNext, Receives, Peer
<1>2. PICK n \in 0 .. Len(q) :
        /\ RunAtHead(q, nextRecv[p] + 1, n)
        /\ delivered' = [delivered EXCEPT ![p] = Append(d, m.data) \o [i \in 1 .. n |-> q[i].data]]
        /\ nextRecv' = [nextRecv EXCEPT ![p] = nextRecv[p] + 1 + n]
        /\ recvList' = [recvList EXCEPT ![p] = SubSeq(q, n + 1, Len(q))]
  BY DEF RecvNext
<1>3. d \in Seq(Nat) /\ Len(d) \in Nat /\ nextRecv[p] = Len(d) + 1
  BY <1>1, NextDelivers, LenProperties DEF SocketInv, Typed
<1>4. /\ q \in Seq(SoundEntries(sent, p)) /\ Len(q) \in Nat /\ DOMAIN q = 1 .. Len(q)
      /\ \A i \in 1 .. Len(q) : q[i].seq = q[i].data /\ q[i].data \in Nat
  BY <1>1, EntriesShape
<1>5. n \in Nat /\ n <= Len(q)
  BY <1>4
<1>6. delivered'[p] = Append(d, m.data) \o [i \in 1 .. n |-> q[i].data]
  BY <1>1, <1>2 DEF SocketInv, Typed
<1>7. Len(delivered'[p]) = Len(d) + 1 + n
  <2> DEFINE f == [i \in 1 .. n |-> q[i].data]
  <2>1. \A i \in 1 .. n : i \in 1 .. Len(q)
    BY <1>4, <1>5
  <2>2. f \in [1 .. n -> Nat]
    BY <1>4, <2>1
  <2> HIDE DEF f
  <2>3. f \in Seq(Nat) /\ Len(f) = n
    BY <1>5, <2>2, FunctionIsSeq
  <2>4. Append(d, m.data) \in Seq(Nat) /\ Len(Append(d, m.data)) = Len(d) + 1
    BY <1>1, <1>3, AppendProperties
  <2>5. delivered'[p] = Append(d, m.data) \o f
    BY <1>6 DEF f
  <2>6. Len(Append(d, m.data) \o f) = Len(Append(d, m.data)) + Len(f)
    BY <2>3, <2>4, ConcatProperties
  <2> QED
    BY <2>3, <2>4, <2>5, <2>6
<1>8. Arrived(<<m.from, e>>, m.seq)'
  <2>1. m.seq <= Len(delivered'[p])
    BY <1>1, <1>3, <1>5, <1>7
  <2> QED
    BY <1>1, <2>1 DEF Arrived, Peer
<1>9. ASSUME NEW l \in Links, NEW k \in Nat, Arrived(l, k), Peer(l) = p
      PROVE  Arrived(l, k)'
  <2>1. CASE k <= Len(d)
    <3>1. k <= Len(delivered'[p])
      BY <1>3, <1>5, <1>7, <2>1
    <3> QED
      BY <1>9, <3>1 DEF Arrived, Peer
  <2>2. CASE \E i \in DOMAIN q : q[i].data = k
    <3>1. PICK i \in 1 .. Len(q) : q[i].data = k
      BY <1>4, <2>2
    <3>2. CASE i <= n
      <4> HIDE DEF q
      <4>0. i \in 1 .. n /\ i \in Nat
        BY <1>4, <1>5, <3>2
      <4>1. q[i].seq = nextRecv[p] + 1 + i - 1
        BY <1>2, <4>0 DEF RunAtHead
      <4>2. k <= Len(delivered'[p])
        <5> HIDE DEF d, p
        <5> QED
          BY <4>0, <1>3, <1>4, <1>5, <1>7, <3>1, <3>2, <4>1
      <4> QED
        BY <1>9, <4>2 DEF Arrived, Peer
    <3>3. CASE i > n
      <4> DEFINE r == SubSeq(q, n + 1, Len(q))
      <4>1. r \in Seq(SoundEntries(sent, p)) /\ Len(r) = Len(q) - n /\ r[i - n] = q[i]
        <5>1. \A j \in n + 1 .. Len(q) : q[j] \in SoundEntries(sent, p)
          <6>1. \A j \in n + 1 .. Len(q) : j \in 1 .. Len(q)
            BY <1>4, <1>5
          <6> QED
            BY <1>4, <6>1, ElementOfSeq
        <5>2. n + 1 \in Int /\ Len(q) \in Int /\ n + 1 <= Len(q)
          BY <1>4, <1>5, <3>3
        <5> HIDE DEF q
        <5>3. /\ r \in Seq(SoundEntries(sent, p))
              /\ Len(r) = IF n + 1 <= Len(q) THEN Len(q) - (n + 1) + 1 ELSE 0
              /\ \A j \in 1 .. Len(q) - (n + 1) + 1 : r[j] = q[n + 1 + j - 1]
          BY <5>1, <5>2, SubSeqProperties
        <5>4. i - n \in 1 .. Len(q) - (n + 1) + 1 /\ n + 1 + (i - n) - 1 = i
          BY <1>4, <1>5, <3>3
        <5>5. r[i - n] = q[i]
          BY <5>3, <5>4
        <5>6. Len(r) = Len(q) - n
          BY <5>2, <5>3, <1>5
        <5> QED
          BY <5>3, <5>5, <5>6
      <4>2. i - n \in DOMAIN r
        <5>1. i - n \in 1 .. Len(r)
          BY <1>4, <1>5, <3>3, <4>1
        <5> HIDE DEF r
        <5> QED
          BY <4>1, <5>1, LenProperties
      <4>3. recvList'[p] = r
        BY <1>1, <1>2 DEF SocketInv, EntriesSound
      <4> HIDE DEF r
      <4> QED
        BY <1>9, <3>1, <4>1, <4>2, <4>3 DEF Arrived, Peer
    <3> QED
      BY <1>4, <1>5, <3>2, <3>3
  <2> QED
    BY <1>9, <2>1, <2>2 DEF Arrived
<1>10. ASSUME NEW l \in Links, NEW k \in Nat, Arrived(l, k), Peer(l) # p
       PROVE  Arrived(l, k)'
  <2>1. delivered'[Peer(l)] = delivered[Peer(l)] /\ recvList'[Peer(l)] = recvList[Peer(l)]
    BY <1>2, <1>10, LinkShape DEF SocketInv, Typed, EntriesSound
  <2> QED
    BY <1>10, <2>1 DEF Arrived, Peer
<1> QED
  BY <1>8, <1>9, <1>10

\* A packet put into the receive list has arrived, and those in it stay.
LEMMA ArrivedAhead ==
  ASSUME SocketInv, NEW e \in Endpoints, NEW m \in net, RecvAhead(e, m)
  PROVE  /\ \A l \in Links : \A k \in Nat : Arrived(l, k) => Arrived(l, k)'
         /\ Arrived(<<m.from, e>>, m.seq)'
<1> DEFINE p == <<e, m.from>>
           q == recvList[p]
           x == [seq |-> m.seq, data |-> m.data]
<1>1. /\ Sound(sent, m.from, e, m) /\ p \in Links /\ Peer(<<m.from, e>>) = p
      /\ m.seq \in Nat /\ m.data \in Nat
  BY PacketShape, LinkShape DEF RecvAhead, Receives, Peer
<1>2. PICK n \in 1 .. Len(q) + 1 : recvList' = [recvList EXCEPT ![p] = InsertAt(q, n, x)]
  BY DEF RecvAhead
<1>3. q \in Seq([seq : Nat, data : Nat]) /\ Len(q) \in Nat /\ DOMAIN q = 1 .. Len(q)
  BY <1>1, LenProperties DEF SocketInv, EntriesSound
<1>4. x \in [seq : Nat, data : Nat] /\ x.data = m.data /\ m.data = m.seq
  BY <1>1 DEF Sound, RecvAhead, Receives
<1> DEFINE r == InsertAt(q, n, x)
<1>5. r = recvList'[p] /\ delivered' = delivered
  BY <1>1, <1>2 DEF SocketInv, EntriesSound, RecvAhead
<1> HIDE DEF x
<1>6. /\ DOMAIN r = 1 .. Len(q) + 1
      /\ \A i \in 1 .. n - 1 : r[i] = q[i]
      /\ r[n] = x
      /\ \A i \in n + 1 .. Len(q) + 1 : r[i] = q[i - 1]
  <2> DEFINE T == [seq : Nat, data : Nat]
  <2>1. q \in Seq(T) /\ x \in T
    BY <1>3, <1>4
  <2> HIDE DEF q, T
  <2> QED
    BY <2>1, InsertAtEntries, SMTT(30)
<1> HIDE DEF r
<1>7. Arrived(<<m.from, e>>, m.seq)'
  <2>1. n \in DOMAIN r /\ r[n].data = m.seq
    BY <1>4, <1>6
  <2> QED
    BY <1>1, <1>5, <2>1 DEF Arrived, Peer
<1>8. \A i \in DOMAIN q : \E j \in DOMAIN r : r[j] = q[i]
  <2> SUFFICES ASSUME NEW i \in 1 .. Len(q) PROVE \E j \in DOMAIN r : r[j] = q[i]
    BY <1>3
  <2>1. CASE i < n
    <3>1. i \in 1 .. n - 1 /\ i \in DOMAIN r
      BY <1>3, <1>6, <2>1
    <3> QED
      BY <1>6, <3>1
  <2>2. CASE i >= n
    <3>1. i + 1 \in n + 1 .. Len(q) + 1 /\ i + 1 \in DOMAIN r /\ (i + 1) - 1 = i
      BY <1>3, <1>6, <2>2
    <3> QED
      BY <1>6, <3>1
  <2>3. i \in Nat /\ n \in Nat
    BY <1>3
  <2> QED
    BY <2>1, <2>2, <2>3
<1>9. ASSUME NEW l \in Links, NEW k \in Nat, Arrived(l, k) PROVE Arrived(l, k)'
  <2>1. CASE Peer(l) = p
    BY <1>5, <1>8, <1>9, <2>1 DEF Arrived, Peer
  <2>2. CASE Peer(l) # p
    <3>1. recvList'[Peer(l)] = recvList[Peer(l)]
      BY <1>2, <2>2, LinkShape DEF SocketInv, EntriesSound
    <3> QED
      BY <1>5, <1>9, <3>1 DEF Arrived, Peer
  <2> QED
    BY <2>1, <2>2
<1> QED
  BY <1>7, <1>9

\* A packet with an old number has been written before.
LEMMA ArrivedOld ==
  ASSUME SocketInv, NEW e \in Endpoints, NEW m \in net, RecvOld(e, m)
  PROVE  Arrived(<<m.from, e>>, m.seq)'
<1> DEFINE p == <<e, m.from>>
<1>1. /\ p \in Links /\ Peer(<<m.from, e>>) = p /\ m.seq \in Nat /\ m.seq < nextRecv[p]
      /\ Sound(sent, m.from, e, m) /\ m.type = "DATA" /\ m.data \in Nat
  BY PacketShape, LinkShape DEF RecvOld, Receives, Peer
<1>2. Len(delivered[p]) \in Nat /\ nextRecv[p] \in Nat
  BY <1>1, LenProperties DEF SocketInv, Typed
<1>3. m.seq <= Len(delivered[p])
  BY <1>1, <1>2 DEF SocketInv, Numbered
<1> QED
  BY <1>1, <1>3 DEF Arrived, Peer, RecvOld, connVars

-----------------------------------------------------------------------------
(* Acknowledgements are honest, and unlist only what has arrived. *)

\* A step that sends no chunk keeps the invariant if what it unlists has arrived, and
\* what it acknowledges too.
LEMMA StepRetains ==
  ASSUME SocketInv, RetentionInv, sent' = sent,
         \A l \in Links : \A k \in Nat : Arrived(l, k) => Arrived(l, k)',
         \A m \in net' : m \in net \/ (m.type = "ACK" /\ m.seq > 0 =>
                                         Arrived(<<m.to, m.from>>, m.seq)'),
         \A l \in Links : \A k \in 1 .. sent[l] :
           OnlyPeer(l) /\ Listed(l, k) => Arrived(l, k)' \/ Listed(l, k)'
  PROVE  RetentionInv'
<1>1. AcksHonest'
  <2> SUFFICES ASSUME NEW m \in net', m.type = "ACK", m.seq > 0
               PROVE  Arrived(<<m.to, m.from>>, m.seq)'
    BY DEF AcksHonest
  <2>1. CASE m \in net
    <3>1. m \in Packets /\ Sound(sent, m.from, m.to, m)
      BY <2>1 DEF SocketInv, NetSound, SoundPackets
    <3>2. <<m.to, m.from>> \in Links /\ m.seq \in Nat
      BY <3>1, LinkShape DEF Sound, Packets
    <3>3. Arrived(<<m.to, m.from>>, m.seq)
      BY <2>1 DEF RetentionInv, AcksHonest
    <3> QED
      BY <3>2, <3>3
  <2>2. CASE m \notin net
    BY <2>2
  <2> QED
    BY <2>1, <2>2
<1>2. Kept'
  <2> SUFFICES ASSUME NEW l \in Links, OnlyPeer(l), NEW k \in 1 .. sent[l]
               PROVE  Arrived(l, k)' \/ Listed(l, k)'
    BY DEF Kept, OnlyPeer
  <2>1. Arrived(l, k) \/ Listed(l, k)
    BY DEF RetentionInv, Kept
  <2>2. k \in Nat
    BY DEF SocketInv, Typed
  <2> QED
    BY <2>1, <2>2
<1> QED
  BY <1>1, <1>2 DEF RetentionInv

\* The send list is the same.
LEMMA ListedSame ==
  ASSUME sendList' = sendList
  PROVE  \A l \in Links : \A k \in 1 .. sent[l] : Listed(l, k) => Listed(l, k)'
  BY DEF Listed

\* Entries added behind a send list leave the others listed.
LEMMA ListedBehind ==
  ASSUME SocketInv, NEW e \in Endpoints, NEW r \in Seq(Nodes),
         sendList' = [sendList EXCEPT ![e] = sendList[e] \o r]
  PROVE  \A l \in Links : \A k \in Nat : Listed(l, k) => Listed(l, k)'
<1> SUFFICES ASSUME NEW l \in Links, NEW k \in Nat, Listed(l, k) PROVE Listed(l, k)'
  OBVIOUS
<1>1. l[1] \in Endpoints /\ sendList[e] \in Seq(Nodes)
  BY LinkShape DEF SocketInv, ListsSound
<1>2. CASE l[1] = e
  <2>1. PICK i \in DOMAIN sendList[e] :
          /\ sendList[e][i].to = l[2]
          /\ sendList[e][i].type = "DATA"
          /\ sendList[e][i].data = k
    BY <1>2 DEF Listed
  <2>2. sendList'[l[1]] = sendList[e] \o r
    BY <1>1, <1>2 DEF SocketInv, ListsSound
  <2>3. Len(sendList[e]) \in Nat /\ Len(r) \in Nat /\ i \in 1 .. Len(sendList[e])
    BY <1>1, LenProperties
  <2>4. /\ sendList[e] \o r \in Seq(Nodes) /\ Len(sendList[e] \o r) = Len(sendList[e]) + Len(r)
        /\ (sendList[e] \o r)[i] = sendList[e][i]
    BY <1>1, <2>3, ConcatProperties
  <2>5. i \in DOMAIN (sendList[e] \o r)
    <3>1. i \in 1 .. Len(sendList[e] \o r)
      BY <2>3, <2>4
    <3> QED
      BY <2>4, <3>1, LenProperties
  <2> QED
    BY <2>1, <2>2, <2>4, <2>5 DEF Listed
<1>3. CASE l[1] # e
  <2>1. sendList'[l[1]] = sendList[l[1]]
    BY <1>1, <1>3 DEF SocketInv, ListsSound
  <2> QED
    BY <2>1 DEF Listed
<1> QED
  BY <1>2, <1>3

\* One more entry.
LEMMA ListedAppend ==
  ASSUME SocketInv, NEW e \in Endpoints, NEW x \in Nodes,
         sendList' = [sendList EXCEPT ![e] = Append(sendList[e], x)]
  PROVE  \A l \in Links : \A k \in Nat : Listed(l, k) => Listed(l, k)'
<1>1. sendList[e] \in Seq(Nodes) /\ <<x>> \in Seq(Nodes)
  BY DEF SocketInv, ListsSound
<1>2. Append(sendList[e], x) = sendList[e] \o <<x>>
  BY <1>1, AppendIsConcat
<1> QED
  BY <1>1, <1>2, ListedBehind

\* Transmission keeps what it sends.
LEMMA RetainTransmit ==
  ASSUME SocketInv, RetentionInv, NEW e \in Endpoints, NEW due, due \subseteq DOMAIN sendList[e],
         Transmit(e, due), UNCHANGED connVars
  PROVE  RetentionInv'
<1> DEFINE q == sendList[e]
           r == [i \in DOMAIN q |-> IF i \in due THEN [q[i] EXCEPT !.tried = TRUE] ELSE q[i]]
<1>1. q \in Seq(SoundNodes(sent, e)) /\ q \in Seq(Nodes)
  BY DEF SocketInv, ListsSound
<1>2. \A i \in DOMAIN q : q[i] \in Nodes /\ q[i].type # "ACK"
  BY <1>1, LenProperties, ElementOfSeq DEF SoundNodes
<1>3. \A m \in net' : m \in net \/ m.type # "ACK"
  <2>1. net' = net \cup {Packet(e, q[i].to, q[i].type, q[i].seq, q[i].data) : i \in due}
    BY DEF Transmit
  <2>2. \A i \in due : Packet(e, q[i].to, q[i].type, q[i].seq, q[i].data).type = q[i].type
    BY DEF Packet
  <2> QED
    BY <1>2, <2>1, <2>2
<1>4. sendList' = [sendList EXCEPT ![e] = r]
  BY DEF Transmit
<1>5. ASSUME NEW i \in DOMAIN q
      PROVE  r[i].to = q[i].to /\ r[i].type = q[i].type /\ r[i].data = q[i].data
  <2>1. r[i] = q[i] \/ r[i] = [q[i] EXCEPT !.tried = TRUE]
    OBVIOUS
  <2> QED
    BY <1>2, <2>1 DEF Nodes
<1>6. DOMAIN r = DOMAIN q
  OBVIOUS
<1> HIDE DEF r
<1>7. ASSUME NEW l \in Links, NEW k \in 1 .. sent[l], Listed(l, k) PROVE Listed(l, k)'
  <2>1. l[1] \in Endpoints
    BY LinkShape
  <2>2. CASE l[1] = e
    <3>1. sendList'[l[1]] = r
      BY <1>4, <2>1, <2>2 DEF SocketInv, ListsSound
    <3> QED
      BY <1>5, <1>6, <1>7, <2>2, <3>1 DEF Listed
  <2>3. CASE l[1] # e
    <3>1. sendList'[l[1]] = sendList[l[1]]
      BY <1>4, <2>1, <2>3 DEF SocketInv, ListsSound
    <3> QED
      BY <1>7, <3>1 DEF Listed
  <2> QED
    BY <2>2, <2>3
<1>8. \A l \in Links : \A k \in Nat : Arrived(l, k) => Arrived(l, k)'
  BY ArrivedSame DEF connVars
<1>9. sent' = sent
  BY DEF connVars
<1> QED
  BY <1>3, <1>7, <1>8, <1>9, StepRetains

\* Connect clears the send list of a client that has sent nothing yet.
LEMMA RetainClear ==
  ASSUME SocketInv, RetentionInv, NEW c \in Clients, phase[c] = "waiting",
         sendList' = [sendList EXCEPT ![c] = <<>>],
         UNCHANGED <<recvList, delivered, sent>>,
         \A m \in net' : m \in net \/ m.seq = 0
  PROVE  RetentionInv'
<1>1. \A l \in Links : \A k \in Nat : Arrived(l, k) => Arrived(l, k)'
  BY ArrivedSame
<1>2. sent[<<c, Server>>] = 0
  BY DEF SocketInv, ClientNumbers
<1>3. ASSUME NEW l \in Links, NEW k \in 1 .. sent[l], Listed(l, k) PROVE Listed(l, k)'
  <2>1. l[1] # c
    <3>1. CASE l[1] = c
      <4>1. l = <<c, Server>>
        BY <3>1, LinkShape
      <4>2. k \in 1 .. 0
        BY <1>2, <4>1
      <4> QED
        BY <4>2
    <3> QED
      BY <3>1
  <2>2. sendList'[l[1]] = sendList[l[1]]
    BY <2>1, LinkShape DEF SocketInv, ListsSound
  <2> QED
    BY <1>3, <2>2 DEF Listed
<1> QED
  BY <1>1, <1>3, StepRetains

\* RecvThreadProc takes off the first node with the acknowledged number.  Where only
\* one peer is served, the chunk under that number has arrived.
LEMMA RetainAck ==
  ASSUME SocketInv, RetentionInv, NEW e \in Endpoints, NEW m \in net, RecvAck(e, m)
  PROVE  RetentionInv'
<1>1. PICK i \in DOMAIN sendList[e] :
        /\ Acknowledged(sendList[e], m.seq, i)
        /\ sendList' = [sendList EXCEPT ![e] = RemoveAt(sendList[e], i)]
  BY DEF RecvAck
<1> DEFINE q == sendList[e]
           r == RemoveAt(q, i)
<1>2. /\ Sound(sent, m.from, e, m) /\ <<e, m.from>> \in Links /\ m.from \in Endpoints
      /\ m.seq \in Nat /\ m.type = "ACK" /\ m.to = e
  BY PacketShape DEF RecvAck, Receives
<1>3. q \in Seq(SoundNodes(sent, e)) /\ q \in Seq(Nodes) /\ DOMAIN q = 1 .. Len(q)
  BY LenProperties DEF SocketInv, ListsSound
<1>4. q[i] \in Nodes /\ Sound(sent, e, q[i].to, q[i]) /\ q[i].seq = m.seq
  BY <1>1, <1>3, ElementOfSeq DEF SoundNodes, Acknowledged
<1>5. UNCHANGED <<recvList, delivered, sent, net>>
  BY DEF RecvAck, connVars
<1>6. \A l \in Links : \A k \in Nat : Arrived(l, k) => Arrived(l, k)'
  BY <1>5, ArrivedSame
<1>7. ASSUME NEW l \in Links, OnlyPeer(l), NEW k \in 1 .. sent[l], Listed(l, k)
      PROVE  Arrived(l, k)' \/ Listed(l, k)'
  <2>1. l[1] \in Endpoints /\ l = <<l[1], l[2]>> /\ k \in Nat
    BY LinkShape DEF SocketInv, Typed
  <2>2. CASE l[1] = e
    <3>1. PICK j \in DOMAIN q : q[j].to = l[2] /\ q[j].type = "DATA" /\ q[j].data = k
      BY <1>7, <2>2 DEF Listed
    <3>2. sendList'[l[1]] = r
      BY <1>1, <2>1, <2>2 DEF SocketInv, ListsSound
    <3>3. CASE j = i
      <4>1. m.seq = k /\ k > 0
        BY <1>4, <2>1, <3>1, <3>3 DEF Sound
      <4>2. l = <<e, m.from>>
        BY <1>2, <1>7, <2>1, <2>2 DEF OnlyPeer
      <4>3. Arrived(l, k)
        BY <1>2, <4>1, <4>2 DEF RetentionInv, AcksHonest
      <4> QED
        BY <1>6, <2>1, <4>3
    <3>4. CASE j # i
      <4>1. PICK n \in DOMAIN r : r[n] = q[j]
        <5>1. i \in 1 .. Len(q) /\ j \in 1 .. Len(q)
          BY <1>3
        <5> HIDE DEF q
        <5> QED
          BY <1>3, <3>4, <5>1, RemoveAtKeeps
      <4> HIDE DEF r
      <4> QED
        BY <3>1, <3>2, <4>1 DEF Listed
    <3> QED
      BY <3>3, <3>4
  <2>3. CASE l[1] # e
    <3>1. sendList'[l[1]] = sendList[l[1]]
      BY <1>1, <2>1, <2>3 DEF SocketInv, ListsSound
    <3> QED
      BY <1>7, <3>1 DEF Listed
  <2> QED
    BY <2>2, <2>3
<1> QED
  BY <1>5, <1>6, <1>7, StepRetains

\* Send lists every chunk it numbers.
LEMMA RetainSend ==
  ASSUME SocketInv, RetentionInv, NEW l \in Links, NEW n \in 1 .. (MaxSent(l) - sent[l]),
         Send(l, n)
  PROVE  RetentionInv'
<1> DEFINE e == l[1]
           q == [i \in 1 .. n |->
                   SendListNode(l[2], "DATA", nextSend[l] + i - 1, sent[l] + i, FALSE)]
<1>1. /\ l = <<e, l[2]>> /\ e \in Endpoints /\ l[2] \in Endpoints
      /\ n \in Nat /\ n >= 1 /\ sent[l] \in Nat /\ nextSend[l] \in Nat
  BY SocketAssumption, LinkShape DEF SocketInv, Typed, MaxSent
<1>2. nextSend[l] = sent[l] + 1
  BY SenderNumbers DEF Send
<1>3. /\ sent'[l] = sent[l] + n
      /\ \A k \in Links : k # l => sent'[k] = sent[k]
  BY DEF SocketInv, Typed, Send
<1>4. sendList' = [sendList EXCEPT ![e] = sendList[e] \o q] /\ sendList[e] \in Seq(Nodes)
  BY <1>1 DEF Send, SocketInv, ListsSound
<1>5. ASSUME NEW i \in 1 .. n
      PROVE  /\ q[i] \in Nodes /\ q[i].to = l[2] /\ q[i].type = "DATA" /\ q[i].data = sent[l] + i
  <2>1. nextSend[l] + i - 1 = sent[l] + i /\ sent[l] + i \in Nat
    BY <1>1, <1>2
  <2>2. q[i] = SendListNode(l[2], "DATA", sent[l] + i, sent[l] + i, FALSE)
    BY <2>1
  <2> QED
    BY <1>1, <2>1, <2>2 DEF Nodes, SendListNode, Types
<1>6. q \in Seq(Nodes) /\ Len(q) = n
  <2>1. q \in [1 .. n -> Nodes]
    BY <1>5
  <2> HIDE DEF q
  <2> QED
    BY <1>1, <2>1, FunctionIsSeq
<1> HIDE DEF q
<1>7. \A k \in Links : \A j \in Nat : Listed(k, j) => Listed(k, j)'
  BY <1>1, <1>4, <1>6, ListedBehind
<1>8. UNCHANGED <<delivered, recvList, net>>
  BY DEF Send
<1>9. \A k \in Links : \A j \in Nat : Arrived(k, j) => Arrived(k, j)'
  BY <1>8, ArrivedSame
<1>10. ASSUME NEW j \in sent[l] + 1 .. sent[l] + n PROVE Listed(l, j)'
  <2> DEFINE i == j - sent[l]
             z == Len(sendList[e]) + i
  <2>1. i \in 1 .. n /\ sent[l] + i = j
    BY <1>1
  <2>2. i \in 1 .. Len(q)
    BY <1>6, <2>1
  <2> HIDE DEF i
  <2>3. z \in DOMAIN (sendList[e] \o q) /\ (sendList[e] \o q)[z] = q[i]
    <3>1. sendList[e] \in Seq(Nodes) /\ q \in Seq(Nodes)
      BY <1>4, <1>6
    <3>2. ASSUME NEW a \in Seq(Nodes), NEW b \in Seq(Nodes), NEW h \in 1 .. Len(b)
          PROVE  Len(a) + h \in DOMAIN (a \o b) /\ (a \o b)[Len(a) + h] = b[h]
      BY ConcatSecond
    <3> QED
      BY <2>2, <3>1, <3>2, Zenon
  <2>5. sendList'[l[1]] = sendList[e] \o q
    BY <1>1, <1>4 DEF SocketInv, ListsSound
  <2>6. q[i].to = l[2] /\ q[i].type = "DATA" /\ q[i].data = j
    BY <1>5, <2>1
  <2> HIDE DEF z
  <2> QED
    BY <2>3, <2>5, <2>6 DEF Listed
<1>11. Kept'
  <2> SUFFICES ASSUME NEW k \in Links, OnlyPeer(k), NEW j \in 1 .. sent'[k]
               PROVE  Arrived(k, j)' \/ Listed(k, j)'
    BY DEF Kept, OnlyPeer
  <2>1. CASE j <= sent[k] /\ j \in Nat
    <3>1. j \in 1 .. sent[k]
      BY <2>1 DEF SocketInv, Typed
    <3>2. Arrived(k, j) \/ Listed(k, j)
      BY <3>1 DEF RetentionInv, Kept
    <3> QED
      BY <1>7, <1>9, <2>1, <3>2
  <2>2. CASE ~ (j <= sent[k] /\ j \in Nat)
    <3>1. k = l
      BY <1>3, <2>2 DEF SocketInv, Typed
    <3>2. j \in sent[l] + 1 .. sent[l] + n
      BY <1>1, <1>3, <2>2, <3>1
    <3> QED
      BY <1>10, <3>1, <3>2
  <2> QED
    BY <2>1, <2>2
<1>12. AcksHonest'
  <2> SUFFICES ASSUME NEW m \in net, m.type = "ACK", m.seq > 0
               PROVE  Arrived(<<m.to, m.from>>, m.seq)'
    BY <1>8 DEF AcksHonest
  <2>1. m \in Packets /\ Sound(sent, m.from, m.to, m)
    BY DEF SocketInv, NetSound, SoundPackets
  <2>2. <<m.to, m.from>> \in Links /\ m.seq \in Nat
    BY <2>1, LinkShape DEF Sound, Packets
  <2>3. Arrived(<<m.to, m.from>>, m.seq)
    BY DEF RetentionInv, AcksHonest
  <2> QED
    BY <1>9, <2>2, <2>3
<1> QED
  BY <1>11, <1>12 DEF RetentionInv

\* Every step of client, server and network keeps what has not arrived.
LEMMA RetentionStep ==
  ~ LateEstablish /\ SocketInv /\ RetentionInv /\ [Next]_vars => RetentionInv'
<1> SUFFICES ASSUME ~ LateEstablish, SocketInv, RetentionInv, [Next]_vars PROVE RetentionInv'
  OBVIOUS
<1>1. ASSUME UNCHANGED <<sendList, connVars>>,
             \A m \in net' : m \in net \/ m.type # "ACK" \/ m.seq = 0
      PROVE  RetentionInv'
  <2>1. UNCHANGED <<delivered, recvList, sent>>
    BY <1>1 DEF connVars
  <2> QED
    BY <1>1, <2>1, ArrivedSame, ListedSame, StepRetains
<1>2. CASE Listen \/ UNCHANGED vars
  BY <1>1, <1>2 DEF Listen, vars, connVars
<1>3. ASSUME NEW e \in Endpoints, OpenFails(e) \/ RecvFails(e) PROVE RetentionInv'
  BY <1>1, <1>3 DEF OpenFails, RecvFails
<1>4. ASSUME NEW c \in Clients, ConnectSend(c) PROVE RetentionInv'
  <2>1. SendListNode(Server, "ESTABLISH_1", 0, 0, TRUE) \in Nodes
    BY LinkShape DEF SendListNode, Nodes, Types
  <2>2. \A l \in Links : \A k \in Nat : Listed(l, k) => Listed(l, k)'
    BY <1>4, <2>1, ListedAppend, LinkShape DEF ConnectSend
  <2>3. \A m \in net' : m \in net \/ m.type # "ACK"
    BY <1>4 DEF ConnectSend, Packet
  <2>4. UNCHANGED <<delivered, recvList, sent>>
    BY <1>4 DEF ConnectSend
  <2>5. \A l \in Links : \A k \in 1 .. sent[l] : k \in Nat
    BY DEF SocketInv, Typed
  <2> QED
    BY <2>2, <2>3, <2>4, <2>5, ArrivedSame, StepRetains
<1>5. ASSUME NEW c \in Clients, ConnectSendFails(c) \/ ConnectRecvFails(c) PROVE RetentionInv'
  <2>1. UNCHANGED <<sendList, delivered, recvList, sent, net>>
    BY <1>5 DEF ConnectSendFails, ConnectRecvFails, connVars
  <2> QED
    BY <2>1, ArrivedSame, ListedSame, StepRetains
<1>6. ASSUME NEW c \in Clients, NEW m \in net, ConnectRecv(c, m) \/ ConnectAckFails(c, m)
      PROVE  RetentionInv'
  <2>1. phase[c] = "waiting" /\ Answers(c, m)
    BY <1>6 DEF ConnectRecv, ConnectAckFails
  <2>2. m.seq = 0
    BY <2>1, AnswerIsHandshake
  <2>3. \A x \in net' : x \in net \/ x.seq = 0
    BY <1>6, <2>2 DEF ConnectRecv, ConnectAckFails, Packet
  <2> QED
    BY <1>6, <2>1, <2>3, RetainClear DEF ConnectRecv, ConnectAckFails
<1>7. ASSUME NEW l \in Links, NEW n \in 1 .. (MaxSent(l) - sent[l]), Send(l, n)
      PROVE  RetentionInv'
  BY <1>7, RetainSend
<1>8. ASSUME NEW e \in Endpoints, NEW expired \in SUBSET Tried(e), SendPass(e, expired)
      PROVE  RetentionInv'
  BY <1>8, RetainTransmit DEF SendPass, Due
<1>9. ASSUME NEW e \in Endpoints, NEW expired \in SUBSET Tried(e),
             NEW i \in DOMAIN sendList[e], SendPassFails(e, expired, i)
      PROVE  RetentionInv'
  <2>1. {j \in Due(e, expired) : j < i} \subseteq DOMAIN sendList[e]
    BY DEF Due
  <2> QED
    BY <1>9, <2>1, RetainTransmit DEF SendPassFails
<1>10. ASSUME NEW e \in Endpoints, NEW m \in net, RecvEstablish1(e, m) PROVE RetentionInv'
  <2>1. m.from \in Endpoints
    BY <1>10, PacketShape DEF RecvEstablish1, Receives
  <2>2. SendListNode(m.from, "ESTABLISH_2", 0, 0, FALSE) \in Nodes
    BY <2>1 DEF SendListNode, Nodes, Types
  <2>3. UNCHANGED <<delivered, recvList, sent, net>>
    BY <1>10 DEF RecvEstablish1
  <2>4. \A l \in Links : \A k \in 1 .. sent[l] : k \in Nat
    BY DEF SocketInv, Typed
  <2>5. CASE sendList' = sendList
    BY <2>3, <2>5, ArrivedSame, ListedSame, StepRetains
  <2>6. CASE sendList' = [sendList EXCEPT
                            ![e] = Append(sendList[e], SendListNode(m.from, "ESTABLISH_2", 0, 0, FALSE))]
    <3>1. \A l \in Links : \A k \in Nat : Listed(l, k) => Listed(l, k)'
      BY <2>2, <2>6, ListedAppend
    <3> QED
      BY <2>3, <2>4, <3>1, ArrivedSame, StepRetains
  <2> QED
    BY <1>10, <2>5, <2>6 DEF RecvEstablish1
<1>11. ASSUME NEW e \in Endpoints, NEW m \in net, RecvEstablish2(e, m) PROVE RetentionInv'
  <2>1. m.seq = 0
    BY <1>11, PacketShape DEF RecvEstablish2, Receives, Sound
  <2> QED
    BY <1>1, <1>11, <2>1 DEF RecvEstablish2, Packet
<1>12. ASSUME NEW e \in Endpoints, NEW m \in net, RecvNext(e, m) \/ RecvAhead(e, m) \/ RecvOld(e, m)
       PROVE  RetentionInv'
  <2>1. AckData(e, m) /\ sendList' = sendList /\ sent' = sent
    BY <1>12 DEF RecvNext, RecvAhead, RecvOld, connVars
  <2>2. Arrived(<<m.from, e>>, m.seq)'
    BY <1>12, ArrivedNext, ArrivedAhead, ArrivedOld
  <2>3. \A x \in net' : x \in net \/ Arrived(<<x.to, x.from>>, x.seq)'
    BY <2>1, <2>2 DEF AckData, Packet
  <2>4. \A l \in Links : \A k \in Nat : Arrived(l, k) => Arrived(l, k)'
    BY <1>12, ArrivedNext, ArrivedAhead, ArrivedSame DEF RecvOld, connVars
  <2> QED
    BY <2>1, <2>3, <2>4, ListedSame, StepRetains
<1>13. ASSUME NEW e \in Endpoints, NEW m \in net, RecvAck(e, m) PROVE RetentionInv'
  BY <1>13, RetainAck
<1>14. ASSUME NEW e \in Endpoints, NEW m \in net, RecvAckBlocks(e, m) \/ RecvReplyFails(e, m)
       PROVE  RetentionInv'
  BY <1>1, <1>14 DEF RecvAckBlocks, RecvReplyFails
<1>15. ASSUME NEW m \in net, Lose(m) PROVE RetentionInv'
  BY <1>1, <1>15 DEF Lose
<1> QED
  BY <1>2, <1>3, <1>4, <1>5, <1>6, <1>7, <1>8, <1>9, <1>10, <1>11, <1>12, <1>13, <1>14, <1>15
  DEF Next, RecvThreadProc

\* A data packet is acknowledged only when it is safe, and nothing else is unlisted on a
\* link whose owner has no other peer.
THEOREM RetentionInvariant == ASSUME ~ LateEstablish PROVE Spec => [](SocketInv /\ RetentionInv)
<1>1. Init => RetentionInv
  BY LinkShape DEF Init, RetentionInv, AcksHonest, Kept
<1>2. SocketInv /\ RetentionInv /\ [Next]_vars => RetentionInv'
  BY RetentionStep
<1> QED
  BY <1>1, <1>2, SocketInvariant, PTL DEF Spec

\* An acknowledgement never unlists a chunk of a client that the server has not
\* received, however many clients there are.
THEOREM SocketRequestsRetained == ASSUME ~ LateEstablish PROVE Spec => []RequestsRetained
<1>1. SocketInv /\ RetentionInv => RequestsRetained
  <2> SUFFICES ASSUME RetentionInv, NEW c \in Clients, NEW k \in 1 .. sent[<<c, Server>>]
               PROVE  Retained(<<c, Server>>, k)
    BY DEF RequestsRetained
  <2>1. <<c, Server>> \in Links /\ OnlyPeer(<<c, Server>>)
    BY LinkShape DEF OnlyPeer
  <2> QED
    BY <2>1 DEF RetentionInv, Kept, Retained, Arrived, Listed
<1> QED
  BY <1>1, RetentionInvariant, PTL

\* The answers of a server with a single client are retained as well; with a second
\* client they are not, since acknowledgements of both meet in one send list.
THEOREM SocketRepliesRetained ==
  ASSUME ~ LateEstablish, \A c, d \in Clients : c = d
  PROVE  Spec => []RepliesRetained
<1>1. SocketInv /\ RetentionInv => RepliesRetained
  <2> SUFFICES ASSUME RetentionInv, NEW c \in Clients, NEW k \in 1 .. sent[<<Server, c>>]
               PROVE  Retained(<<Server, c>>, k)
    BY DEF RepliesRetained
  <2>1. <<Server, c>> \in Links /\ OnlyPeer(<<Server, c>>)
    BY LinkShape DEF OnlyPeer
  <2> QED
    BY <2>1 DEF RetentionInv, Kept, Retained, Arrived, Listed
<1> QED
  BY <1>1, RetentionInvariant, PTL

-----------------------------------------------------------------------------
(* The receive lists are sorted, and drained up to a gap or a duplicate. *)

\* Places of a list before and behind the one where an entry is inserted.
LEMMA AroundPlace ==
  ASSUME NEW N \in Nat, NEW n \in 1 .. N + 1, NEW i \in 1 .. N + 1
  PROVE  /\ i < n => i \in 1 .. n - 1 /\ i \in 1 .. N
         /\ i > n => i \in n + 1 .. N + 1 /\ i - 1 \in n .. N /\ i - 1 \in 1 .. N
OBVIOUS

\* A packet inserted before the first greater number keeps a list sorted.
LEMMA InsertKeepsSorted ==
  ASSUME NEW q \in Seq([seq : Nat, data : Nat]),
         \A i, j \in DOMAIN q : i <= j => q[i].seq <= q[j].seq,
         NEW x \in [seq : Nat, data : Nat], NEW n \in 1 .. Len(q) + 1, InsertPos(q, x.seq, n)
  PROVE  \A i, j \in DOMAIN InsertAt(q, n, x) :
           i <= j => InsertAt(q, n, x)[i].seq <= InsertAt(q, n, x)[j].seq
<1> DEFINE T == [seq : Nat, data : Nat]
           r == InsertAt(q, n, x)
<1>1. Len(q) \in Nat /\ DOMAIN q = 1 .. Len(q) /\ \A i \in 1 .. Len(q) : q[i].seq \in Nat
  <2>1. \A i \in 1 .. Len(q) : q[i] \in T
    BY ElementOfSeq
  <2> QED
    BY <2>1, LenProperties
<1>2. x.seq \in Nat
  OBVIOUS
<1>3. /\ DOMAIN r = 1 .. Len(q) + 1
      /\ \A i \in 1 .. n - 1 : r[i] = q[i]
      /\ r[n] = x
      /\ \A i \in n + 1 .. Len(q) + 1 : r[i] = q[i - 1]
  <2>1. q \in Seq(T) /\ x \in T
    OBVIOUS
  <2> HIDE DEF T
  <2> QED
    BY <2>1, InsertAtEntries
<1> HIDE DEF r
<1>4. \A i \in 1 .. n - 1 : q[i].seq <= x.seq
  BY DEF InsertPos
<1>5. \A i \in n .. Len(q) : x.seq < q[i].seq
  <2> SUFFICES ASSUME NEW i \in n .. Len(q) PROVE x.seq < q[i].seq
    OBVIOUS
  <2>1. n \in 1 .. Len(q) /\ i \in 1 .. Len(q) /\ n <= i
    BY <1>1
  <2>2. x.seq < q[n].seq
    BY <1>1, <1>2, <2>1 DEF InsertPos
  <2>3. q[n].seq <= q[i].seq /\ q[n].seq \in Nat /\ q[i].seq \in Nat
    BY <1>1, <2>1
  <2>4. \A a, b, c \in Nat : a < b /\ b <= c => a < c
    OBVIOUS
  <2> QED
    BY <1>2, <2>2, <2>3, <2>4, Zenon
<1> SUFFICES ASSUME NEW i \in 1 .. Len(q) + 1, NEW j \in 1 .. Len(q) + 1, i <= j
             PROVE  r[i].seq <= r[j].seq
  BY <1>3 DEF r
<1>6. CASE j < n
  <2>1. i \in 1 .. n - 1 /\ j \in 1 .. n - 1 /\ i \in DOMAIN q /\ j \in DOMAIN q
    <3>1. \A a, b, c \in Nat : a <= b /\ b < c => a < c
      OBVIOUS
    <3>2. i \in Nat /\ j \in Nat /\ n \in Nat
      BY <1>1
    <3>3. i < n
      BY <1>6, <3>1, <3>2
    <3> QED
      BY <1>1, <1>6, <3>3, AroundPlace
  <2> QED
    BY <1>3, <2>1
<1>7. CASE j = n
  <2>1. CASE i = n
    BY <1>2, <1>3, <1>7, <2>1
  <2>2. CASE i < n
    <3>1. i \in 1 .. n - 1
      BY <1>1, <2>2
    <3> QED
      BY <1>3, <1>4, <1>7, <3>1
  <2> QED
    BY <1>1, <1>7, <2>1, <2>2
<1>8. CASE j > n
  <2>1. j \in n + 1 .. Len(q) + 1 /\ j - 1 \in n .. Len(q) /\ j - 1 \in DOMAIN q
    BY <1>1, <1>8, AroundPlace
  <2>2. r[j] = q[j - 1] /\ x.seq < q[j - 1].seq /\ q[j - 1].seq \in Nat
    BY <1>1, <1>3, <1>5, <2>1
  <2>3. CASE i < n
    <3>1. i \in 1 .. n - 1 /\ i \in DOMAIN q
      BY <1>1, <2>3
    <3>2. r[i].seq <= x.seq /\ r[i].seq \in Nat
      BY <1>1, <1>3, <1>4, <3>1
    <3>3. \A a, b, c \in Nat : a <= b /\ b < c => a <= c
      OBVIOUS
    <3> QED
      BY <1>2, <2>2, <3>2, <3>3, Zenon
  <2>4. CASE i = n
    <3>1. r[i].seq < r[j].seq /\ r[i].seq \in Nat /\ r[j].seq \in Nat
      BY <1>2, <1>3, <2>2, <2>4
    <3> QED
      BY <3>1
  <2>5. CASE i > n
    <3>1. i \in n + 1 .. Len(q) + 1 /\ i - 1 \in DOMAIN q /\ i - 1 <= j - 1
      BY <1>1, <2>5
    <3>2. r[i] = q[i - 1]
      BY <1>3, <3>1
    <3> QED
      BY <2>1, <2>2, <3>1, <3>2
  <2> QED
    BY <1>1, <2>3, <2>4, <2>5
<1> QED
  BY <1>1, <1>6, <1>7, <1>8

\* A list that keeps its numbers and its expected one is as drained as before.
LEMMA DrainSame ==
  ASSUME SocketInv, DrainInv, NEW l \in Links, recvList'[l] = recvList[l],
         nextRecv'[l] = nextRecv[l] \/ recvList[l] = <<>>
  PROVE  /\ \A i, j \in DOMAIN recvList'[l] : i <= j => recvList'[l][i].seq <= recvList'[l][j].seq
         /\ Stranded(l)' => StaleHead(l)'
<1>1. CASE recvList[l] = <<>>
  BY <1>1 DEF Stranded
<1>2. CASE nextRecv'[l] = nextRecv[l]
  BY <1>2 DEF DrainInv, ListsSorted, StrandedOnlyBehindDuplicate, Stranded, StaleHead
<1> QED
  BY <1>1, <1>2

\* The same for the link that a step changes, all others being left alone.
LEMMA DrainOne ==
  ASSUME SocketInv, DrainInv, NothingEarly',
         NEW p \in Links,
         \A l \in Links : l # p => recvList'[l] = recvList[l] /\ nextRecv'[l] = nextRecv[l],
         \A i, j \in DOMAIN recvList'[p] : i <= j => recvList'[p][i].seq <= recvList'[p][j].seq,
         Stranded(p)' => StaleHead(p)'
  PROVE  DrainInv'
<1>1. ASSUME NEW l \in Links
      PROVE  /\ \A i, j \in DOMAIN recvList'[l] : i <= j => recvList'[l][i].seq <= recvList'[l][j].seq
             /\ Stranded(l)' => StaleHead(l)'
  <2>1. CASE l = p
    BY <2>1 DEF Stranded, StaleHead
  <2>2. CASE l # p
    BY <2>2, DrainSame
  <2> QED
    BY <2>1, <2>2
<1>2. ListsSorted'
  BY <1>1 DEF ListsSorted
<1>3. StrandedOnlyBehindDuplicate'
  BY <1>1 DEF StrandedOnlyBehindDuplicate
<1> QED
  BY <1>2, <1>3 DEF DrainInv

\* No receive list and no expected number changes.
LEMMA DrainQuiet ==
  ASSUME SocketInv, DrainInv, NothingEarly', UNCHANGED <<recvList, nextRecv>>
  PROVE  DrainInv'
<1>1. ListsSorted'
  BY DEF DrainInv, ListsSorted
<1>2. StrandedOnlyBehindDuplicate'
  BY DEF DrainInv, StrandedOnlyBehindDuplicate, Stranded, StaleHead
<1> QED
  BY <1>1, <1>2 DEF DrainInv

\* The expected packet writes out the list up to a gap or a duplicate.
LEMMA DrainNext ==
  ASSUME SocketInv, DrainInv, NothingEarly', NEW e \in Endpoints, NEW m \in net, RecvNext(e, m)
  PROVE  DrainInv'
<1> DEFINE p == <<e, m.from>>
           q == recvList[p]
<1>1. p \in Links /\ nextRecv[p] = Len(delivered[p]) + 1
  BY NextDelivers
<1>2. PICK n \in 0 .. Len(q) :
        /\ RunAtHead(q, nextRecv[p] + 1, n)
        /\ nextRecv' = [nextRecv EXCEPT ![p] = nextRecv[p] + 1 + n]
        /\ recvList' = [recvList EXCEPT ![p] = SubSeq(q, n + 1, Len(q))]
  BY DEF RecvNext
<1>3. /\ q \in Seq(SoundEntries(sent, p)) /\ Len(q) \in Nat /\ DOMAIN q = 1 .. Len(q)
      /\ \A i \in 1 .. Len(q) : q[i] \in SoundEntries(sent, p) /\ q[i].seq \in Nat
  BY <1>1, EntriesShape
<1>4. nextRecv[p] \in Nat /\ n \in Nat /\ n <= Len(q)
  BY <1>1, <1>3 DEF SocketInv, Typed
<1>5. \A i, j \in DOMAIN q : i <= j => q[i].seq <= q[j].seq
  BY <1>1 DEF DrainInv, ListsSorted
<1> DEFINE r == SubSeq(q, n + 1, Len(q))
           b == nextRecv[p] + 1 + n
<1>6. /\ recvList'[p] = r /\ nextRecv'[p] = b
      /\ \A l \in Links : l # p => recvList'[l] = recvList[l] /\ nextRecv'[l] = nextRecv[l]
  BY <1>1, <1>2 DEF SocketInv, Typed, EntriesSound
<1>7. b > 0 /\ b \in Nat
  <2> HIDE DEF p
  <2> QED
    BY <1>4
<1>8. n < Len(q) => q[n + 1].seq # b
  BY <1>2 DEF RunAtHead
<1> HIDE DEF b, q
<1>9. r \in Seq(SoundEntries(sent, p)) /\ DOMAIN r = 1 .. Len(q) - n /\ \A i \in 1 .. Len(q) - n : r[i] = q[n + i]
  <2>1. \A i \in n + 1 .. Len(q) : q[i] \in SoundEntries(sent, p)
    <3>1. \A i \in n + 1 .. Len(q) : i \in 1 .. Len(q)
      BY <1>3, <1>4
    <3> QED
      BY <1>3, <3>1
  <2>2. n + 1 \in Int /\ Len(q) \in Int
    BY <1>3, <1>4
  <2>3. /\ r \in Seq(SoundEntries(sent, p))
        /\ Len(r) = IF n + 1 <= Len(q) THEN Len(q) - (n + 1) + 1 ELSE 0
        /\ \A i \in 1 .. Len(q) - (n + 1) + 1 : r[i] = q[n + 1 + i - 1]
    BY <2>1, <2>2, SubSeqProperties
  <2>4. Len(r) = Len(q) - n
    <3> HIDE DEF r
    <3>1. CASE n + 1 <= Len(q)
      BY <1>3, <1>4, <2>3, <3>1
    <3>2. CASE ~ (n + 1 <= Len(q))
      <4>1. Len(r) = 0
        BY <2>3, <3>2
      <4>0. Len(q) \in Nat /\ n \in Nat /\ n <= Len(q)
        BY <1>3, <1>4
      <4>2. Len(q) - n = 0
        BY <4>0, <3>2
      <4> QED
        BY <4>1, <4>2
    <3> QED
      BY <3>1, <3>2
  <2>5. DOMAIN r = 1 .. Len(r)
    BY <2>3, LenProperties
  <2>6. ASSUME NEW i \in 1 .. Len(q) - n PROVE r[i] = q[n + i]
    <3>1. i \in 1 .. Len(q) - (n + 1) + 1 /\ n + 1 + i - 1 = n + i
      BY <1>3, <1>4
    <3> QED
      BY <2>3, <3>1
  <2> QED
    BY <2>3, <2>4, <2>5, <2>6
<1> HIDE DEF r
<1>10. ASSUME NEW i \in DOMAIN r, NEW j \in DOMAIN r, i <= j PROVE r[i].seq <= r[j].seq
  <2>1. n + i \in DOMAIN q /\ n + j \in DOMAIN q /\ n + i <= n + j
    BY <1>3, <1>4, <1>9, <1>10, SMTT(20)
  <2> QED
    BY <1>5, <1>9, <2>1
<1>11. ASSUME NEW j \in DOMAIN r, r[j].seq = b PROVE r # <<>> /\ r[1].seq < b
  <2>1. 1 \in DOMAIN r /\ 1 <= j /\ n < Len(q) /\ n + 1 \in 1 .. Len(q) /\ 1 \in 1 .. Len(q) - n
    BY <1>3, <1>4, <1>9
  <2>2. r[1] = q[n + 1] /\ r[1].seq # b /\ r[1].seq \in Nat
    BY <1>3, <1>8, <1>9, <2>1
  <2>3. r[1].seq <= r[j].seq
    BY <1>10, <2>1
  <2>4. r # <<>>
    BY <2>1
  <2> QED
    BY <1>7, <1>11, <2>2, <2>3, <2>4
<1>12. Stranded(p)' => StaleHead(p)'
  BY <1>6, <1>11 DEF Stranded, StaleHead
<1> HIDE DEF p
<1> QED
  BY <1>1, <1>6, <1>7, <1>10, <1>12, DrainOne

\* A packet ahead is inserted behind a duplicate that lies at the head.
LEMMA DrainAhead ==
  ASSUME SocketInv, DrainInv, NothingEarly', NEW e \in Endpoints, NEW m \in net, RecvAhead(e, m)
  PROVE  DrainInv'
<1> DEFINE p == <<e, m.from>>
           q == recvList[p]
           x == [seq |-> m.seq, data |-> m.data]
<1>1. /\ Sound(sent, m.from, e, m) /\ p \in Links /\ m.seq \in Nat /\ m.data \in Nat
      /\ nextRecv[p] \in Nat /\ m.seq > nextRecv[p]
  BY PacketShape DEF RecvAhead, Receives, SocketInv, Typed
<1>2. PICK n \in 1 .. Len(q) + 1 :
        /\ InsertPos(q, m.seq, n)
        /\ recvList' = [recvList EXCEPT ![p] = InsertAt(q, n, x)]
  BY DEF RecvAhead
<1>3. /\ q \in Seq([seq : Nat, data : Nat]) /\ Len(q) \in Nat /\ DOMAIN q = 1 .. Len(q)
      /\ \A i \in 1 .. Len(q) : q[i].seq \in Nat
  BY <1>1, EntriesShape
<1>4. x \in [seq : Nat, data : Nat] /\ x.seq = m.seq
  BY <1>1
<1>5. \A i, j \in DOMAIN q : i <= j => q[i].seq <= q[j].seq
  BY <1>1 DEF DrainInv, ListsSorted
<1> DEFINE r == InsertAt(q, n, x)
<1>6. /\ recvList'[p] = r /\ nextRecv' = nextRecv
      /\ \A l \in Links : l # p => recvList'[l] = recvList[l]
  BY <1>1, <1>2 DEF SocketInv, EntriesSound, RecvAhead
<1> HIDE DEF x, q
<1>7. \A i, j \in DOMAIN r : i <= j => r[i].seq <= r[j].seq
  BY <1>2, <1>3, <1>4, <1>5, InsertKeepsSorted
<1>8. /\ DOMAIN r = 1 .. Len(q) + 1
      /\ \A i \in 1 .. n - 1 : r[i] = q[i]
      /\ r[n] = x
      /\ \A i \in n + 1 .. Len(q) + 1 : r[i] = q[i - 1]
  <2> DEFINE T == [seq : Nat, data : Nat]
  <2>1. q \in Seq(T) /\ x \in T
    BY <1>3, <1>4
  <2> HIDE DEF T
  <2> QED
    BY <2>1, InsertAtEntries, SMTT(30)
<1> HIDE DEF r
<1>10. ASSUME NEW j \in DOMAIN r, r[j].seq = nextRecv[p]
       PROVE  r # <<>> /\ r[1].seq < nextRecv[p]
  <2>1. j # n
    BY <1>1, <1>4, <1>8, <1>10
  <2>2. \E i \in DOMAIN q : q[i].seq = nextRecv[p]
    <3>1. CASE j < n
      <4>1. j \in 1 .. n - 1 /\ j \in DOMAIN q
        BY <1>3, <1>8, <3>1
      <4> QED
        BY <1>8, <1>10, <4>1
    <3>2. CASE j > n
      <4>1. j \in n + 1 .. Len(q) + 1 /\ j - 1 \in DOMAIN q
        BY <1>3, <1>8, <3>2
      <4> QED
        BY <1>8, <1>10, <4>1
    <3>3. j \in Nat /\ n \in Nat
      BY <1>3, <1>8
    <3> QED
      BY <2>1, <3>1, <3>2, <3>3
  <2>3. q # <<>> /\ q[1].seq < nextRecv[p]
    BY <1>1, <2>2 DEF q, DrainInv, StrandedOnlyBehindDuplicate, Stranded, StaleHead
  <2>4. 1 \in 1 .. Len(q)
    BY <1>3, <2>2
  <2>5. n # 1
    <3>1. CASE n = 1
      <4>1. q[1].seq > m.seq
        BY <1>2, <1>3, <2>4, <3>1 DEF InsertPos
      <4>2. q[1].seq \in Nat
        BY <1>3, <2>4
      <4>3. nextRecv[p] \in Nat /\ m.seq \in Nat /\ m.seq > nextRecv[p]
        BY <1>1
      <4>4. \A a, b, d \in Nat : a > b /\ b > d => ~ (a < d)
        OBVIOUS
      <4> QED
        BY <2>3, <4>1, <4>2, <4>3, <4>4
    <3> QED
      BY <3>1
  <2>6. 1 \in 1 .. n - 1 /\ 1 \in DOMAIN r
    BY <1>3, <1>8, <2>5
  <2>7. r[1] = q[1] /\ r # <<>>
    BY <1>8, <2>6
  <2> QED
    BY <2>3, <2>7
<1>11. Stranded(p)' => StaleHead(p)'
  BY <1>6, <1>10 DEF Stranded, StaleHead
<1> HIDE DEF p
<1> QED
  BY <1>1, <1>6, <1>7, <1>11, DrainOne

\* An answered Connect: the client has received nothing yet.
LEMMA DrainConnect ==
  ASSUME SocketInv, DrainInv, NEW c \in Clients, NEW m \in net,
         phase[c] = "waiting", Answers(c, m),
         nextRecv' = [nextRecv EXCEPT ![<<c, Server>>] = AfterHandshake(m)],
         recvList' = recvList,
         \A d \in Clients \ {c} : phase'[d] = phase[d]
  PROVE  DrainInv'
<1> DEFINE p == <<c, Server>>
<1> USE LinkShape
<1>1. p \in Links
  OBVIOUS
<1>2. \A l \in Links : l # p => nextRecv'[l] = nextRecv[l]
  BY <1>1 DEF SocketInv, Typed
<1>3. recvList[p] = <<>>
  BY DEF DrainInv, NothingEarly
<1>4. NothingEarly'
  BY <1>3 DEF DrainInv, NothingEarly
<1>5. Stranded(p)' => StaleHead(p)'
  BY <1>3 DEF Stranded
<1> HIDE DEF p
<1> QED
  BY <1>1, <1>2, <1>3, <1>4, <1>5, DrainOne

\* An ESTABLISH_1 in time: whatever lies in the receive list came after an earlier
\* copy, and the expected number is the same again.
LEMMA DrainEstablish1 ==
  ASSUME SocketInv, DrainInv, ~ LateEstablish, NEW e \in Endpoints, NEW m \in net,
         RecvEstablish1(e, m)
  PROVE  DrainInv'
<1> DEFINE p == <<e, m.from>>
<1> USE LinkShape
<1>1. /\ Sound(sent, m.from, e, m) /\ p \in Links /\ m.from \in Endpoints /\ m.seq \in Nat
  BY PacketShape DEF RecvEstablish1, Receives
<1>2. e = Server /\ m.seq = 0 /\ m.from \in Clients
  BY <1>1 DEF Sound, RecvEstablish1, Receives
<1>3. delivered[p] = <<>> /\ (recvList[p] # <<>> => nextRecv[p] > 0)
  BY DEF RecvEstablish1, Timely, Receives
<1>4. nextRecv'[p] = 1 /\ \A l \in Links : l # p => nextRecv'[l] = nextRecv[l]
  <2>1. nextRecv' = [nextRecv EXCEPT ![p] = AfterHandshake(m)] /\ nextRecv \in [Links -> Nat]
    BY DEF RecvEstablish1, SocketInv, Typed
  <2>2. AfterHandshake(m) = 1
    BY <1>2 DEF AfterHandshake
  <2> HIDE DEF p
  <2> QED
    BY <1>1, <2>1, <2>2
<1>5. nextRecv[p] = 1 \/ nextRecv[p] = 0
  BY <1>1, <1>3 DEF SocketInv, Numbered
<1>6. nextRecv'[p] = nextRecv[p] \/ recvList[p] = <<>>
  BY <1>3, <1>4, <1>5
<1>7. recvList' = recvList /\ phase' = phase
  BY DEF RecvEstablish1
<1>8. NothingEarly'
  BY <1>7 DEF DrainInv, NothingEarly
<1>9. /\ \A i, j \in DOMAIN recvList'[p] : i <= j => recvList'[p][i].seq <= recvList'[p][j].seq
      /\ Stranded(p)' => StaleHead(p)'
  <2> HIDE DEF p
  <2> QED
    BY <1>1, <1>6, <1>7, DrainSame
<1> HIDE DEF p
<1> QED
  BY <1>1, <1>4, <1>7, <1>8, <1>9, DrainOne

\* A client whose receive thread runs is open.
LEMMA ReceivesOpen ==
  ASSUME SocketInv, NEW c \in Clients, receiver[c] = "run" PROVE phase[c] = "open"
  BY DEF SocketInv, ClientNumbers

\* A data packet goes to the receive list of an endpoint whose thread runs.
LEMMA NothingEarlyData ==
  ASSUME SocketInv, NothingEarly, NEW e \in Endpoints, NEW m \in net,
         RecvNext(e, m) \/ RecvAhead(e, m) \/ RecvOld(e, m)
  PROVE  NothingEarly'
<1> DEFINE p == <<e, m.from>>
<1> USE LinkShape
<1>1. p \in Links /\ receiver[e] = "run" /\ phase' = phase
  BY PacketShape DEF RecvNext, RecvAhead, RecvOld, Receives, threadVars
<1>2. \A l \in Links : l # p => recvList'[l] = recvList[l]
  BY DEF RecvNext, RecvAhead, RecvOld, connVars, SocketInv, EntriesSound
<1>3. \A c \in Clients : phase[c] # "open" => p # <<c, Server>>
  BY <1>1, ReceivesOpen
<1> QED
  BY <1>1, <1>2, <1>3 DEF NothingEarly

\* Every step keeps the receive lists sorted and drained.
LEMMA DrainStep ==
  ~ LateEstablish /\ SocketInv /\ DrainInv /\ [Next]_vars => DrainInv'
<1> SUFFICES ASSUME ~ LateEstablish, SocketInv, DrainInv, [Next]_vars PROVE DrainInv'
  OBVIOUS
<1> USE LinkShape
<1>1. ASSUME UNCHANGED <<recvList, nextRecv>>,
             \A c \in Clients : phase'[c] # "open" => phase[c] # "open"
      PROVE  DrainInv'
  <2>1. NothingEarly'
    BY <1>1 DEF DrainInv, NothingEarly
  <2> QED
    BY <1>1, <2>1, DrainQuiet
<1>2. CASE Listen \/ UNCHANGED vars
  BY <1>1, <1>2 DEF Listen, vars, connVars, SocketInv, Typed
<1>3. ASSUME NEW e \in Endpoints, OpenFails(e) \/ RecvFails(e) PROVE DrainInv'
  BY <1>1, <1>3 DEF OpenFails, RecvFails, connVars, SocketInv, Typed
<1>4. ASSUME NEW c \in Clients, ConnectSend(c) \/ ConnectSendFails(c) \/ ConnectRecvFails(c)
      PROVE  DrainInv'
  <2>1. UNCHANGED <<recvList, nextRecv>>
    BY <1>4 DEF ConnectSend, ConnectSendFails, ConnectRecvFails, connVars
  <2>2. phase[c] \in {"closed", "waiting"} /\ \A d \in Clients \ {c} : phase'[d] = phase[d]
    BY <1>4 DEF ConnectSend, ConnectSendFails, ConnectRecvFails, SocketInv, Typed
  <2> QED
    BY <1>1, <2>1, <2>2
<1>5. ASSUME NEW c \in Clients, NEW m \in net, ConnectRecv(c, m) \/ ConnectAckFails(c, m)
      PROVE  DrainInv'
  <2>1. \A d \in Clients \ {c} : phase'[d] = phase[d]
    BY <1>5 DEF ConnectRecv, ConnectAckFails, SocketInv, Typed
  <2> QED
    BY <1>5, <2>1, DrainConnect DEF ConnectRecv, ConnectAckFails
<1>6. ASSUME NEW l \in Links, NEW n \in 1 .. (MaxSent(l) - sent[l]), Send(l, n)
      PROVE  DrainInv'
  BY <1>1, <1>6 DEF Send, threadVars
<1>7. ASSUME NEW e \in Endpoints, NEW expired \in SUBSET Tried(e), SendPass(e, expired)
      PROVE  DrainInv'
  BY <1>1, <1>7 DEF SendPass, threadVars, connVars
<1>8. ASSUME NEW e \in Endpoints, NEW expired \in SUBSET Tried(e),
             NEW i \in DOMAIN sendList[e], SendPassFails(e, expired, i)
      PROVE  DrainInv'
  BY <1>1, <1>8 DEF SendPassFails, connVars
<1>9. ASSUME NEW e \in Endpoints, NEW m \in net, RecvEstablish1(e, m) PROVE DrainInv'
  BY <1>9, DrainEstablish1
<1>10. ASSUME NEW e \in Endpoints, NEW m \in net, RecvNext(e, m) \/ RecvAhead(e, m) \/ RecvOld(e, m)
       PROVE  DrainInv'
  <2>1. NothingEarly'
    BY <1>10, NothingEarlyData DEF DrainInv
  <2> QED
    BY <1>10, <2>1, DrainNext, DrainAhead, DrainQuiet DEF RecvOld, connVars
<1>11. ASSUME NEW e \in Endpoints, NEW m \in net,
              RecvEstablish2(e, m) \/ RecvAck(e, m) \/ RecvAckBlocks(e, m) \/ RecvReplyFails(e, m)
       PROVE  DrainInv'
  BY <1>1, <1>11 DEF RecvEstablish2, RecvAck, RecvAckBlocks, RecvReplyFails, threadVars, connVars
<1>12. ASSUME NEW m \in net, Lose(m) PROVE DrainInv'
  BY <1>1, <1>12 DEF Lose, threadVars, connVars
<1> QED
  BY <1>2, <1>3, <1>4, <1>5, <1>6, <1>7, <1>8, <1>9, <1>10, <1>11, <1>12
  DEF Next, RecvThreadProc

\* RecvThreadProc leaves the expected packet lying in the receive list only when a
\* duplicate of a packet already written lies at the head of it.
THEOREM SocketStrandedOnlyBehindDuplicate ==
  ASSUME ~ LateEstablish PROVE Spec => []StrandedOnlyBehindDuplicate
<1>1. Init => DrainInv
  <2> SUFFICES ASSUME Init PROVE DrainInv
    OBVIOUS
  <2>1. NothingEarly
    BY LinkShape DEF Init, NothingEarly
  <2>2. ListsSorted
    BY DEF Init, ListsSorted
  <2>3. StrandedOnlyBehindDuplicate
    BY DEF Init, StrandedOnlyBehindDuplicate, Stranded
  <2> QED
    BY <2>1, <2>2, <2>3 DEF DrainInv
<1>2. SocketInv /\ DrainInv /\ [Next]_vars => DrainInv'
  BY DrainStep
<1>3. DrainInv => StrandedOnlyBehindDuplicate
  BY DEF DrainInv
<1> QED
  BY <1>1, <1>2, <1>3, SocketInvariant, PTL DEF Spec
=============================================================================
