----------------------------- MODULE AnswerStream -----------------------------
(***************************************************************************)
(* The framing of answers.  The server passes an answer to                 *)
(* CTcpSocket::Send in pieces: the count of an INSERT, DELETE or UPDATE,   *)
(* or the length of the column names, the names, the length of the records *)
(* and the records.  The transport carries the packets in order (module    *)
(* FifoStream); at the client the receive thread pushes their bytes one by *)
(* one to the stream from which a handler of the dialog reads with         *)
(* CTcpSocket::Recv.                                                       *)
(*                                                                         *)
(* Recv looks at the size of the stream without its lock and returns what  *)
(* there is, up to the length wanted; no caller looks at what it returns.  *)
(* When it looks, any number of the bytes under way may have arrived.      *)
(***************************************************************************)
EXTENDS Integers, SequencesExt

CONSTANTS
  Clients,
  Header,    \* sizeof(int)
  DataLen,   \* DATA_LEN, bytes of data in a packet
  Misread    \* what bytes that are not one length may decode to

ASSUME StreamAssumption ==
  /\ Header \in Nat \ {0}
  /\ DataLen \in Nat \ {0}
  /\ Misread \subseteq Int

VARIABLES
  coming,   \* bytes passed to Send and not yet read; the first of them are in m_byteStream
  handler,  \* where the client's handler is
  nBytes,   \* nBytes of ShowList, 0 between two handlers
  got,      \* history: the bytes the handler has read, until one Recv falls short
  short     \* history: a Recv of the client has returned less than it was asked for

streamVars == <<coming, handler, nBytes, got, short>>

\* A piece of an answer: what it is, of which statement, its value or its length.
Piece(part, of, n) == [part |-> part, of |-> of, n |-> n]

\* Its bytes: an int has Header of them, a text as many as it is long.
Bytes(p) ==
  [i \in 1 .. (IF p.part \in {"fields", "records"} THEN p.n ELSE Header) |-> <<p, i>>]

HandlerPc == {"idle", "count", "flen", "fields", "rlen", "records", "crashed"}

StreamTypeOK ==
  /\ DOMAIN coming = Clients
  /\ handler \in [Clients -> HandlerPc]
  /\ nBytes \in [Clients -> Int]
  /\ short \in [Clients -> BOOLEAN]

StreamInit ==
  /\ coming = [c \in Clients |-> <<>>]
  /\ handler = [c \in Clients |-> "idle"]
  /\ nBytes = [c \in Clients |-> 0]
  /\ got = [c \in Clients |-> <<>>]
  /\ short = [c \in Clients |-> FALSE]

-----------------------------------------------------------------------------
(* CTcpSocket::Send and the transport. *)

\* Full packets and one with the remainder, if there is one.
Packets(bytes) ==
  LET full == Len(bytes) \div DataLen
  IN  [i \in 1 .. full |-> SubSeq(bytes, (i - 1) * DataLen + 1, i * DataLen)] \o
      IF Len(bytes) % DataLen # 0 THEN <<SubSeq(bytes, full * DataLen + 1, Len(bytes))>> ELSE <<>>

\* Pieces are passed to Send one after the other.
SendPieces(c, pieces) ==
  coming' = [coming EXCEPT ![c] =
    @ \o FlattenSeq([i \in DOMAIN pieces |-> FlattenSeq(Packets(Bytes(pieces[i])))])]

-----------------------------------------------------------------------------
(* The handler: ShowList for a SELECT, one Recv of the count for the others. *)

\* The handler has sent its statement.
AwaitAnswer(c, isSelect) ==
  /\ handler[c] = "idle"
  /\ handler' = [handler EXCEPT ![c] = IF isSelect THEN "flen" ELSE "count"]
  /\ got' = [got EXCEPT ![c] = <<>>]
  /\ UNCHANGED <<coming, nBytes, short>>

\* How many bytes Recv returns when want, not negative, are asked for.
Returned(c, want) ==
  {Min({size, want}) : size \in 1 .. Len(coming[c])}

\* Mutant: the bytes are copied with Peek and stay in the stream.
RecvPeeks(c, want, n) ==
  /\ short' = [short EXCEPT ![c] = @ \/ n < want]
  /\ got' = [got EXCEPT ![c] = IF short'[c] THEN <<>> ELSE @ \o SubSeq(coming[c], 1, n)]
  /\ UNCHANGED coming

\* Recv returns the next n bytes.
Recv(c, want, n) ==
  /\ coming' = [coming EXCEPT ![c] = SubSeq(@, n + 1, Len(@))]
  /\ short' = [short EXCEPT ![c] = @ \/ n < want]
  /\ got' = [got EXCEPT ![c] = IF short'[c] THEN <<>> ELSE @ \o SubSeq(coming[c], 1, n)]

\* What an int may be when its first n bytes are read.
Decoded(c, n) ==
  LET p == coming[c][1][1]
  IN  IF p.part \in {"count", "flen", "rlen"} /\ SubSeq(coming[c], 1, n) = Bytes(p)
      THEN {p.n} ELSE Misread

\* nSuccess of the handlers of Insert, Delete and Update.
RecvCount(c) ==
  /\ handler[c] = "count"
  /\ \E n \in Returned(c, Header) : Recv(c, Header, n)
  /\ handler' = [handler EXCEPT ![c] = "idle"]
  /\ UNCHANGED nBytes

RecvFieldsLen(c) ==
  /\ handler[c] = "flen"
  /\ \E n \in Returned(c, Header) :
       /\ Recv(c, Header, n)
       /\ \E v \in Decoded(c, n) : nBytes' = [nBytes EXCEPT ![c] = v]
  /\ handler' = [handler EXCEPT ![c] = "fields"]

RecvFields(c) ==
  /\ handler[c] = "fields"
  /\ nBytes[c] >= 0
  /\ \E n \in Returned(c, nBytes[c]) : Recv(c, nBytes[c], n)
  /\ handler' = [handler EXCEPT ![c] = "rlen"]
  /\ UNCHANGED nBytes

\* Mutant: no early return, the empty text is waited for.
AfterRecordsLenAlways(n) == "records"

\* 0 bytes of records have no packet to wait for.
AfterRecordsLen(n) == IF n = 0 THEN "idle" ELSE "records"

RecvRecordsLen(c) ==
  /\ handler[c] = "rlen"
  /\ \E n \in Returned(c, Header) :
       /\ Recv(c, Header, n)
       /\ \E v \in Decoded(c, n) :
            /\ nBytes' = [nBytes EXCEPT ![c] = v]
            /\ handler' = [handler EXCEPT ![c] = AfterRecordsLen(v)]

RecvRecords(c) ==
  /\ handler[c] = "records"
  /\ nBytes[c] >= 0
  /\ \E n \in Returned(c, nBytes[c]) : Recv(c, nBytes[c], n)
  /\ handler' = [handler EXCEPT ![c] = "idle"]
  /\ nBytes' = [nBytes EXCEPT ![c] = 0]

\* Recv of a negative length: a memcpy of nearly 2^32 bytes.
RecvNegative(c) ==
  /\ handler[c] \in {"fields", "records"}
  /\ coming[c] # <<>>
  /\ nBytes[c] < 0
  /\ handler' = [handler EXCEPT ![c] = "crashed"]
  /\ UNCHANGED <<coming, nBytes, got, short>>

ClientStep(c) ==
  \/ RecvCount(c)
  \/ RecvFieldsLen(c)
  \/ RecvFields(c)
  \/ RecvRecordsLen(c)
  \/ RecvRecords(c)
  \/ RecvNegative(c)
=============================================================================
