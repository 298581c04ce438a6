-------------------------- MODULE SchoolStreamProofs --------------------------
(***************************************************************************)
(* The answers on their way from the threads of the pool to the handlers   *)
(* of the dialogs.                                                         *)
(***************************************************************************)
EXTENDS SchoolSystemProofs

-----------------------------------------------------------------------------
(* Types. *)

PieceSet ==
  [part : {"count", "flen", "fields", "rlen", "records"},
   of : Statements \cup {NoStatement}, n : Int]

ByteSet == PieceSet \X Nat

StreamTypes ==
  /\ StreamTypeOK
  /\ coming \in [Clients -> Seq(ByteSet)]
  /\ got \in [Clients -> Seq(ByteSet)]
  /\ asked \in [Clients -> Statements \cup {NoStatement}]

\* The bytes of a piece.
LEMMA BytesType ==
  ASSUME NEW p \in PieceSet, Sized(p)
  PROVE  Bytes(p) \in Seq(ByteSet)
<1>1. Bytes(p) \in Seq({p} \X Nat)
  BY BytesShape
<1>2. {p} \X Nat \subseteq ByteSet
  BY DEF ByteSet
<1> QED
  BY <1>1, <1>2

\* The pieces of the answers.
CountBytes(k, n) == Bytes(Piece("count", k, n))
FlenBytes(k) == Bytes(Piece("flen", k, FieldsLen))
FieldsBytes(k) == Bytes(Piece("fields", k, FieldsLen))
RlenBytes(k, n) == Bytes(Piece("rlen", k, n * RowLen))
RecordsBytes(k, n) == Bytes(Piece("records", k, n * RowLen))

\* Their types and lengths.
LEMMA PieceBytes ==
  ASSUME NEW k \in Statements \cup {NoStatement}
  PROVE  /\ \A n \in Int : CountBytes(k, n) \in Seq(ByteSet) /\ Len(CountBytes(k, n)) = Header
         /\ FlenBytes(k) \in Seq(ByteSet) /\ Len(FlenBytes(k)) = Header
         /\ FieldsBytes(k) \in Seq(ByteSet) /\ Len(FieldsBytes(k)) = FieldsLen
         /\ \A n \in Nat : RlenBytes(k, n) \in Seq(ByteSet) /\ Len(RlenBytes(k, n)) = Header
         /\ \A n \in Nat : /\ RecordsBytes(k, n) \in Seq(ByteSet)
                           /\ Len(RecordsBytes(k, n)) = n * RowLen
<1>1. FieldsLen \in Nat /\ RowLen \in Nat
  BY SystemAssumption
<1>2. ASSUME NEW part \in {"count", "flen", "fields", "rlen", "records"}, NEW n \in Int,
             part \in {"fields", "records"} => n \in Nat
      PROVE  /\ Bytes(Piece(part, k, n)) \in Seq(ByteSet)
             /\ Len(Bytes(Piece(part, k, n))) = IF part \in {"fields", "records"} THEN n ELSE Header
  <2> DEFINE p == Piece(part, k, n)
  <2>1. p \in PieceSet /\ p.part = part /\ p.n = n
    BY DEF Piece, PieceSet
  <2> HIDE DEF p
  <2>2. Sized(p) /\ Size(p) = IF part \in {"fields", "records"} THEN n ELSE Header
    BY <1>2, <2>1 DEF Sized, Size
  <2>3. Bytes(p) \in Seq(ByteSet) /\ Len(Bytes(p)) = Size(p)
    BY <2>1, <2>2, BytesType, BytesShape
  <2> QED
    BY <2>2, <2>3 DEF p
<1>3. \A n \in Int : CountBytes(k, n) \in Seq(ByteSet) /\ Len(CountBytes(k, n)) = Header
  BY <1>2 DEF CountBytes
<1>4. FlenBytes(k) \in Seq(ByteSet) /\ Len(FlenBytes(k)) = Header
  BY <1>1, <1>2 DEF FlenBytes
<1>5. FieldsBytes(k) \in Seq(ByteSet) /\ Len(FieldsBytes(k)) = FieldsLen
  BY <1>1, <1>2 DEF FieldsBytes
<1>6. ASSUME NEW n \in Nat
      PROVE  /\ RlenBytes(k, n) \in Seq(ByteSet) /\ Len(RlenBytes(k, n)) = Header
             /\ RecordsBytes(k, n) \in Seq(ByteSet) /\ Len(RecordsBytes(k, n)) = n * RowLen
  <2> DEFINE m == n * RowLen
  <2>1. m \in Nat
    BY <1>1
  <2> HIDE DEF m
  <2>2. /\ Bytes(Piece("rlen", k, m)) \in Seq(ByteSet) /\ Len(Bytes(Piece("rlen", k, m))) = Header
        /\ Bytes(Piece("records", k, m)) \in Seq(ByteSet) /\ Len(Bytes(Piece("records", k, m))) = m
    BY <1>2, <2>1
  <2> QED
    BY <2>2 DEF RlenBytes, RecordsBytes, m
<1> QED
  BY <1>3, <1>4, <1>5, <1>6

\* The bytes each step of Execute passes to Send.
LEMMA Sends ==
  ASSUME NEW k \in Statements \cup {NoStatement}, NEW c
  PROVE  /\ \A n \in Int :
              SendPieces(c, CountPieces(k, n)) =>
                coming' = [coming EXCEPT ![c] = coming[c] \o CountBytes(k, n)]
         /\ SendPieces(c, FieldPieces(k)) =>
              coming' = [coming EXCEPT ![c] = coming[c] \o (FlenBytes(k) \o FieldsBytes(k))]
         /\ \A n \in Nat :
              SendPieces(c, RecordPieces(k, n)) =>
                coming' = [coming EXCEPT ![c] = coming[c] \o (RlenBytes(k, n) \o RecordsBytes(k, n))]
<1>1. FieldsLen \in Nat /\ RowLen \in Nat
  BY SystemAssumption
<1>2. ASSUME NEW n \in Int, SendPieces(c, CountPieces(k, n))
      PROVE  coming' = [coming EXCEPT ![c] = coming[c] \o CountBytes(k, n)]
  <2> DEFINE p == Piece("count", k, n)
  <2>1. Sized(p)
    BY DEF Sized, Piece
  <2>2. FlattenSeq([i \in DOMAIN <<p>> |-> FlattenSeq(Packets(Bytes(<<p>>[i])))]) = Bytes(p)
    <3> HIDE DEF p
    <3> QED
      BY <2>1, SendOne
  <2>3. CountPieces(k, n) = <<p>> /\ CountBytes(k, n) = Bytes(p)
    BY DEF CountPieces, CountBytes
  <2> HIDE DEF p
  <2> QED
    BY <1>2, <2>2, <2>3 DEF SendPieces
<1>3. ASSUME SendPieces(c, FieldPieces(k))
      PROVE  coming' = [coming EXCEPT ![c] = coming[c] \o (FlenBytes(k) \o FieldsBytes(k))]
  <2> DEFINE p == Piece("flen", k, FieldsLen)
             q == Piece("fields", k, FieldsLen)
  <2>1. Sized(p) /\ Sized(q)
    BY <1>1 DEF Sized, Piece
  <2>2. FlattenSeq([i \in DOMAIN <<p, q>> |-> FlattenSeq(Packets(Bytes(<<p, q>>[i])))])
          = Bytes(p) \o Bytes(q)
    <3> HIDE DEF p, q
    <3> QED
      BY <2>1, SendTwo
  <2>3. FieldPieces(k) = <<p, q>> /\ FlenBytes(k) = Bytes(p) /\ FieldsBytes(k) = Bytes(q)
    BY DEF FieldPieces, FlenBytes, FieldsBytes
  <2> HIDE DEF p, q
  <2> QED
    BY <1>3, <2>2, <2>3 DEF SendPieces
<1>4. ASSUME NEW n \in Nat, SendPieces(c, RecordPieces(k, n))
      PROVE  coming' = [coming EXCEPT ![c] = coming[c] \o (RlenBytes(k, n) \o RecordsBytes(k, n))]
  <2> DEFINE p == Piece("rlen", k, n * RowLen)
             q == Piece("records", k, n * RowLen)
  <2>1. Sized(p) /\ Sized(q)
    BY <1>1 DEF Sized, Piece
  <2>2. FlattenSeq([i \in DOMAIN <<p, q>> |-> FlattenSeq(Packets(Bytes(<<p, q>>[i])))])
          = Bytes(p) \o Bytes(q)
    <3> HIDE DEF p, q
    <3> QED
      BY <2>1, SendTwo
  <2>3. RecordPieces(k, n) = <<p, q>> /\ RlenBytes(k, n) = Bytes(p) /\ RecordsBytes(k, n) = Bytes(q)
    BY DEF RecordPieces, RlenBytes, RecordsBytes
  <2> HIDE DEF p, q
  <2> QED
    BY <1>4, <2>2, <2>3 DEF SendPieces
<1> QED
  BY <1>2, <1>3, <1>4

\* What Recv does to the stream: it takes n bytes, and when it is not short it has taken
\* all that was wanted.
Reads(c, want, n) ==
  /\ n \in Nat /\ n <= Len(coming[c])
  /\ coming' \in [Clients -> Seq(ByteSet)]
  /\ got' \in [Clients -> Seq(ByteSet)]
  /\ short' \in [Clients -> BOOLEAN]
  /\ coming'[c] = SubSeq(coming[c], n + 1, Len(coming[c]))
  /\ ~ short'[c] => ~ short[c] /\ n = want /\ got'[c] = got[c] \o SubSeq(coming[c], 1, n)
  /\ \A d \in Clients : d # c => coming'[d] = coming[d] /\ got'[d] = got[d] /\ short'[d] = short[d]

\* Recv reads.
LEMMA RecvReads ==
  ASSUME StreamTypes, NEW c \in Clients, NEW want \in Nat, NEW n \in Returned(c, want),
         Recv(c, want, n)
  PROVE  Reads(c, want, n)
<1> DEFINE s == coming[c]
<1>1. s \in Seq(ByteSet) /\ Len(s) \in Nat /\ got[c] \in Seq(ByteSet) /\ short[c] \in BOOLEAN
  BY DEF StreamTypes, StreamTypeOK
<1>2. PICK size \in 1 .. Len(s) : n = Min({size, want})
  BY DEF Returned
<1>3. n \in {size, want} /\ n <= size /\ n <= want
  <2>1. size \in Nat
    OBVIOUS
  <2>2. \E x \in {size, want} : \A y \in {size, want} : x <= y
    <3>1. CASE size <= want
      BY <2>1, <3>1
    <3>2. CASE ~ (size <= want)
      BY <2>1, <3>2
    <3> QED
      BY <3>1, <3>2
  <2>3. n \in {size, want} /\ \A y \in {size, want} : n <= y
    BY <1>2, <2>2 DEF Min
  <2> QED
    BY <2>3
<1>4. n \in Nat /\ n <= Len(s) /\ (~ (n < want) => n = want)
  <2>1. size \in Nat /\ size <= Len(s)
    BY <1>1
  <2> QED
    BY <1>1, <1>3, <2>1
<1>5. SubSeq(s, n + 1, Len(s)) \in Seq(ByteSet) /\ SubSeq(s, 1, n) \in Seq(ByteSet)
  BY <1>1, <1>4
<1>6. /\ coming' = [coming EXCEPT ![c] = SubSeq(s, n + 1, Len(s))]
      /\ short' = [short EXCEPT ![c] = short[c] \/ n < want]
      /\ got' = [got EXCEPT ![c] = IF short'[c] THEN <<>> ELSE got[c] \o SubSeq(s, 1, n)]
  BY DEF Recv
<1>7. /\ coming' \in [Clients -> Seq(ByteSet)] /\ coming'[c] = SubSeq(s, n + 1, Len(s))
      /\ \A d \in Clients : d # c => coming'[d] = coming[d]
  BY <1>5, <1>6 DEF StreamTypes
<1>8. /\ short' \in [Clients -> BOOLEAN] /\ (short'[c] <=> (short[c] \/ n < want))
      /\ \A d \in Clients : d # c => short'[d] = short[d]
  <2>1. (short[c] \/ n < want) \in BOOLEAN
    OBVIOUS
  <2> QED
    BY <1>6, <2>1, Zenon DEF StreamTypes, StreamTypeOK
<1> DEFINE g == IF short'[c] THEN <<>> ELSE got[c] \o SubSeq(s, 1, n)
<1>9. g \in Seq(ByteSet)
  <2>1. got[c] \o SubSeq(s, 1, n) \in Seq(ByteSet)
    BY <1>1, <1>5, ConcatProperties
  <2> QED
    BY <2>1, EmptySeq
<1>10. /\ got' \in [Clients -> Seq(ByteSet)] /\ got'[c] = g
       /\ \A d \in Clients : d # c => got'[d] = got[d]
  <2>1. got' = [got EXCEPT ![c] = g]
    BY <1>6
  <2> HIDE DEF g
  <2> QED
    BY <1>9, <2>1 DEF StreamTypes
<1>11. ~ short'[c] => ~ short[c] /\ n = want /\ got'[c] = got[c] \o SubSeq(s, 1, n)
  BY <1>4, <1>8, <1>10
<1> QED
  BY <1>4, <1>7, <1>8, <1>10, <1>11 DEF Reads

\* Recv finds something to read, and an int is decoded from it.
LEMMA DecodedType ==
  ASSUME StreamTypes, NEW c \in Clients, NEW want, NEW n \in Returned(c, want), NEW v \in Decoded(c, n)
  PROVE  v \in Int
<1>1. coming[c] \in Seq(ByteSet)
  BY DEF StreamTypes
<1>2. 1 \in 1 .. Len(coming[c])
  <2>1. Len(coming[c]) \in Nat
    BY <1>1
  <2>2. PICK size \in 1 .. Len(coming[c]) : n = Min({size, want})
    BY DEF Returned
  <2> QED
    BY <2>1, <2>2
<1>3. coming[c][1] \in ByteSet
  BY <1>1, <1>2
<1>4. coming[c][1][1] \in PieceSet
  BY <1>3 DEF ByteSet
<1>5. coming[c][1][1].n \in Int
  BY <1>4 DEF PieceSet
<1> QED
  BY <1>5, StreamAssumption DEF Decoded

\* A step of a handler keeps the types.
LEMMA ReceiveTypes ==
  ASSUME StreamTypes, NEW c \in Clients, Receive(c)
  PROVE  StreamTypes'
<1>1. /\ handler \in [Clients -> HandlerPc] /\ nBytes \in [Clients -> Int]
      /\ asked \in [Clients -> Statements \cup {NoStatement}]
  BY DEF StreamTypes, StreamTypeOK
<1>2. asked' = asked
  BY DEF Receive
<1>3. ASSUME NEW want \in Nat, NEW n \in Returned(c, want), Recv(c, want, n),
             NEW h \in HandlerPc, handler' = [handler EXCEPT ![c] = h],
             nBytes' = nBytes \/ \E v \in Int : nBytes' = [nBytes EXCEPT ![c] = v]
      PROVE  StreamTypes'
  <2>1. Reads(c, want, n)
    BY <1>3, RecvReads
  <2>2. handler' \in [Clients -> HandlerPc] /\ nBytes' \in [Clients -> Int]
    BY <1>1, <1>3
  <2>3. DOMAIN coming' = Clients
    BY <2>1 DEF Reads
  <2> QED
    BY <1>1, <1>2, <2>1, <2>2, <2>3 DEF StreamTypes, StreamTypeOK, Reads
<1>4. Header \in Nat
  BY StreamAssumption
<1>5. CASE RecvCount(c)
  BY <1>3, <1>4, <1>5 DEF RecvCount, HandlerPc
<1>6. CASE RecvFieldsLen(c)
  <2>1. PICK n \in Returned(c, Header) :
          /\ Recv(c, Header, n)
          /\ \E v \in Decoded(c, n) : nBytes' = [nBytes EXCEPT ![c] = v]
    BY <1>6 DEF RecvFieldsLen
  <2>2. \E v \in Int : nBytes' = [nBytes EXCEPT ![c] = v]
    BY <2>1, DecodedType
  <2>3. "fields" \in HandlerPc /\ handler' = [handler EXCEPT ![c] = "fields"]
    BY <1>6 DEF RecvFieldsLen, HandlerPc
  <2> QED
    BY <1>3, <1>4, <2>1, <2>2, <2>3
<1>7. CASE RecvFields(c)
  <2>1. nBytes[c] \in Nat /\ "rlen" \in HandlerPc
    BY <1>1, <1>7 DEF RecvFields, HandlerPc
  <2> QED
    BY <1>3, <1>7, <2>1 DEF RecvFields
<1>8. CASE RecvRecordsLen(c)
  <2>1. PICK n \in Returned(c, Header) :
          /\ Recv(c, Header, n)
          /\ \E v \in Decoded(c, n) :
               /\ nBytes' = [nBytes EXCEPT ![c] = v]
               /\ handler' = [handler EXCEPT ![c] = AfterRecordsLen(v)]
    BY <1>8 DEF RecvRecordsLen
  <2>2. PICK v \in Decoded(c, n) : /\ nBytes' = [nBytes EXCEPT ![c] = v]
                                   /\ handler' = [handler EXCEPT ![c] = AfterRecordsLen(v)]
    BY <2>1
  <2>3. v \in Int /\ AfterRecordsLen(v) \in HandlerPc
    BY <2>2, DecodedType DEF AfterRecordsLen, HandlerPc
  <2> QED
    BY <1>3, <1>4, <2>1, <2>2, <2>3
<1>9. CASE RecvRecords(c)
  <2>1. nBytes[c] \in Nat /\ "idle" \in HandlerPc /\ 0 \in Int
    BY <1>1, <1>9 DEF RecvRecords, HandlerPc
  <2> QED
    BY <1>3, <1>9, <2>1 DEF RecvRecords
<1>10. CASE RecvNegative(c)
  <2>1. handler' = [handler EXCEPT ![c] = "crashed"] /\ UNCHANGED <<coming, nBytes, got, short>>
    BY <1>10 DEF RecvNegative
  <2>2. handler' \in [Clients -> HandlerPc]
    BY <1>1, <2>1 DEF HandlerPc
  <2> QED
    BY <1>2, <2>1, <2>2 DEF StreamTypes, StreamTypeOK
<1> QED
  BY <1>5, <1>6, <1>7, <1>8, <1>9, <1>10 DEF Receive, ClientStep

\* A thread adds bytes to the stream of client c.
Adds(c, b) ==
  /\ b \in Seq(ByteSet)
  /\ coming' = [coming EXCEPT ![c] = coming[c] \o b]
  /\ UNCHANGED <<handler, nBytes, got, short, asked>>

\* Which keeps the types.
LEMMA AddsTypes ==
  ASSUME StreamTypes, NEW c \in Clients, NEW b, Adds(c, b)
  PROVE  StreamTypes'
<1>1. coming[c] \o b \in Seq(ByteSet)
  BY ConcatProperties DEF StreamTypes, Adds
<1>2. coming' \in [Clients -> Seq(ByteSet)] /\ DOMAIN coming' = Clients
  BY <1>1 DEF StreamTypes, Adds
<1> QED
  BY <1>2 DEF StreamTypes, StreamTypeOK, Adds

\* What Execute adds.
LEMMA AnswerAdds ==
  ASSUME SqlInv, NEW w \in Workers
  PROVE  /\ AnswerCount(w) => Adds(Client[task[w]], CountBytes(nRet[w].of, nRet[w].n))
         /\ AnswerFields(w) => Adds(Client[task[w]], FlenBytes(res[w]) \o FieldsBytes(res[w]))
         /\ AnswerRecords(w) =>
              Adds(Client[task[w]], RlenBytes(res[w], fetched[w]) \o RecordsBytes(res[w], fetched[w]))
         /\ pc[w] # "idle" => task[w] \in Statements /\ Client[task[w]] \in Clients
<1>1. SqlTypes /\ WorkerFits(w)
  BY DEF SqlInv
<1>2. /\ nRet[w].of \in Statements \cup {NoStatement} /\ nRet[w].n \in Int
      /\ res[w] \in Statements \cup {NoStatement} /\ fetched[w] \in Nat
  BY <1>1, SqlAssumption DEF SqlTypes, SqlTypeOK, Counts
<1>3. pc[w] # "idle" => task[w] \in Statements /\ Client[task[w]] \in Clients
  BY <1>1, SystemAssumption DEF SqlTypes, SqlTypeOK, WorkerFits
<1>4. ASSUME AnswerCount(w) PROVE Adds(Client[task[w]], CountBytes(nRet[w].of, nRet[w].n))
  <2>1. SendPieces(Client[task[w]], CountPieces(nRet[w].of, nRet[w].n)) /\
        UNCHANGED <<handler, nBytes, got, short, asked>>
    BY <1>4 DEF AnswerCount, SendsTo
  <2> DEFINE c == Client[task[w]]
             k == nRet[w].of
             n == nRet[w].n
  <2> HIDE DEF c, k, n
  <2>2. k \in Statements \cup {NoStatement} /\ n \in Int
    BY <1>2 DEF k, n
  <2>3. CountBytes(k, n) \in Seq(ByteSet)
    BY <2>2, PieceBytes
  <2>4. SendPieces(c, CountPieces(k, n))
    BY <2>1 DEF c, k, n
  <2>5. coming' = [coming EXCEPT ![c] = coming[c] \o CountBytes(k, n)]
    BY <2>2, <2>4, Sends, ZenonT(40)
  <2>6. Adds(c, CountBytes(k, n))
    BY <2>1, <2>3, <2>5 DEF Adds
  <2> QED
    BY <2>6 DEF c, k, n
<1>5. ASSUME AnswerFields(w) PROVE Adds(Client[task[w]], FlenBytes(res[w]) \o FieldsBytes(res[w]))
  <2>1. SendPieces(Client[task[w]], FieldPieces(res[w])) /\
        UNCHANGED <<handler, nBytes, got, short, asked>>
    BY <1>5 DEF AnswerFields, SendsTo
  <2> DEFINE c == Client[task[w]]
             k == res[w]
  <2> HIDE DEF c, k
  <2>2. k \in Statements \cup {NoStatement}
    BY <1>2 DEF k
  <2>3. FlenBytes(k) \o FieldsBytes(k) \in Seq(ByteSet)
    BY <2>2, PieceBytes, ConcatProperties
  <2>4. SendPieces(c, FieldPieces(k))
    BY <2>1 DEF c, k
  <2>5. coming' = [coming EXCEPT ![c] = coming[c] \o (FlenBytes(k) \o FieldsBytes(k))]
    BY <2>2, <2>4, Sends
  <2>6. Adds(c, FlenBytes(k) \o FieldsBytes(k))
    BY <2>1, <2>3, <2>5 DEF Adds
  <2> QED
    BY <2>6 DEF c, k
<1>6. ASSUME AnswerRecords(w)
      PROVE  Adds(Client[task[w]], RlenBytes(res[w], fetched[w]) \o RecordsBytes(res[w], fetched[w]))
  <2>1. SendPieces(Client[task[w]], RecordPieces(res[w], fetched[w])) /\
        UNCHANGED <<handler, nBytes, got, short, asked>>
    BY <1>6 DEF AnswerRecords, SendsTo
  <2> DEFINE c == Client[task[w]]
             k == res[w]
             n == fetched[w]
  <2> HIDE DEF c, k, n
  <2>2. k \in Statements \cup {NoStatement} /\ n \in Nat
    BY <1>2 DEF k, n
  <2>3. RlenBytes(k, n) \o RecordsBytes(k, n) \in Seq(ByteSet)
    BY <2>2, PieceBytes, ConcatProperties
  <2>4. SendPieces(c, RecordPieces(k, n))
    BY <2>1 DEF c, k, n
  <2>5. coming' = [coming EXCEPT ![c] = coming[c] \o (RlenBytes(k, n) \o RecordsBytes(k, n))]
    BY <2>2, <2>4, Sends
  <2>6. Adds(c, RlenBytes(k, n) \o RecordsBytes(k, n))
    BY <2>1, <2>3, <2>5 DEF Adds
  <2> QED
    BY <2>6 DEF c, k, n
<1> QED
  BY <1>3, <1>4, <1>5, <1>6

\* A handler sends its statement.
LEMMA SendSqlTypes ==
  ASSUME StreamTypes, NEW c \in Clients, NEW k \in Statements, SendSql(c, k)
  PROVE  StreamTypes'
<1>1. /\ handler' = [handler EXCEPT ![c] = IF k \in Selects THEN "flen" ELSE "count"]
      /\ got' = [got EXCEPT ![c] = <<>>] /\ asked' = [asked EXCEPT ![c] = k]
      /\ UNCHANGED <<coming, nBytes, short>>
  BY DEF SendSql, AwaitAnswer
<1>2. handler' \in [Clients -> HandlerPc]
  BY <1>1 DEF StreamTypes, StreamTypeOK, HandlerPc
<1>3. got' \in [Clients -> Seq(ByteSet)]
  BY <1>1, EmptySeq DEF StreamTypes
<1>4. asked' \in [Clients -> Statements \cup {NoStatement}]
  BY <1>1 DEF StreamTypes
<1> QED
  BY <1>1, <1>2, <1>3, <1>4 DEF StreamTypes, StreamTypeOK

\* Every step keeps the types.
LEMMA TypesKeep ==
  ASSUME SqlInv, StreamTypes, [Next]_vars
  PROVE  StreamTypes'
<1>1. CASE UNCHANGED <<streamVars, asked>>
  BY <1>1 DEF StreamTypes, StreamTypeOK, streamVars
<1>2. ASSUME NEW c \in Clients, NEW k \in Statements, SendSql(c, k) PROVE StreamTypes'
  BY <1>2, SendSqlTypes
<1>3. ASSUME NEW c \in Clients, Receive(c) PROVE StreamTypes'
  BY <1>3, ReceiveTypes
<1>4. ASSUME NEW w \in Workers, AnswerCount(w) \/ AnswerFields(w) \/ AnswerRecords(w) PROVE StreamTypes'
  <2>1. pc[w] # "idle"
    BY <1>4 DEF AnswerCount, AnswerFields, AnswerRecords, SendCount, SendFields, SendRecords, At
  <2>2. Client[task[w]] \in Clients /\ \E b : Adds(Client[task[w]], b)
    BY <1>4, <2>1, AnswerAdds
  <2> QED
    BY <2>2, AddsTypes
<1> QED
  BY <1>1, <1>2, <1>3, <1>4 DEF Next, vars, Boot, Start, Dispatched, Execute, Query

\* Nothing has been sent.
LEMMA TypesInit ==
  ASSUME Init
  PROVE  StreamTypes
<1>1. /\ coming = [c \in Clients |-> <<>>] /\ handler = [c \in Clients |-> "idle"]
      /\ nBytes = [c \in Clients |-> 0] /\ got = [c \in Clients |-> <<>>]
      /\ short = [c \in Clients |-> FALSE] /\ asked = [c \in Clients |-> NoStatement]
  BY DEF Init, StreamInit
<1>2. short \in [Clients -> BOOLEAN]
  BY <1>1, Zenon
<1>3. /\ coming \in [Clients -> Seq(ByteSet)] /\ got \in [Clients -> Seq(ByteSet)]
      /\ DOMAIN coming = Clients
  BY <1>1, EmptySeq
<1>4. /\ handler \in [Clients -> HandlerPc] /\ nBytes \in [Clients -> Int]
      /\ asked \in [Clients -> Statements \cup {NoStatement}]
  BY <1>1 DEF HandlerPc
<1> QED
  BY <1>2, <1>3, <1>4 DEF StreamTypes, StreamTypeOK

\* The types are kept.
LEMMA TypesInvariant == Spec => []StreamTypes
<1>1. SqlInv /\ StreamTypes /\ [Next]_vars => StreamTypes'
  BY TypesKeep
<1>2. HandleInv => SqlInv
  BY DEF HandleInv, HandleFits
<1> QED
  BY <1>1, <1>2, TypesInit, HandleInvariant, PTL DEF Spec

\* Every component of the system keeps its type, and no two threads of the pool execute
\* for one client: Select offers it again only after the task's UnSelect (CServer.cpp:176).
THEOREM SystemTypeCorrect == Spec => []TypeOK
<1>1. StartInv /\ HandleInv /\ StreamTypes => TypeOK
  BY DEF StartInv, HandleInv, HandleFits, Pending, SqlInv, SqlTypes, OneEach, StreamTypes, TypeOK
<1> QED
  BY <1>1, StartInvariant, HandleInvariant, TypesInvariant, PTL
-----------------------------------------------------------------------------
(* As long as no two queries have met on the handle, and for a client all of whose *)
(* Recvs have returned what they were asked for.                                   *)

\* The parts of the answer to a SELECT.
FieldPart(k) == FlenBytes(k) \o FieldsBytes(k)
RecordPart(k, n) == RlenBytes(k, n) \o RecordsBytes(k, n)

\* How far Execute is with the answer to statement k.
Answered(k) == answer[k] # NoAnswer
Fielded(k) == \E w \in Workers : task[w] = k /\ pc[w] \in {"fetch", "records"}

\* The bytes of it that Execute has passed to Send.
Sent(k) ==
  IF Answered(k) THEN OwnBytes(k)
  ELSE IF Fielded(k) THEN FieldPart(k) ELSE <<>>

\* Where a handler is tells what it has read of the answer to its statement k.
HandlerFits(c, k) ==
  /\ handler[c] # "crashed"
  /\ handler[c] = "count" => k \notin Selects /\ got[c] = <<>>
  /\ handler[c] = "flen" => k \in Selects /\ got[c] = <<>>
  /\ handler[c] \in {"fields", "rlen", "records"} => k \in Selects /\ (Answered(k) \/ Fielded(k))
  /\ handler[c] = "fields" =>
       \/ reply[k].kind = "rows" /\ nBytes[c] = FieldsLen /\ got[c] = FlenBytes(k)
       \/ reply[k].kind = "error" /\ nBytes[c] < 0 /\ Answered(k) /\ got[c] = OwnBytes(k)
  /\ handler[c] = "rlen" => reply[k].kind = "rows" /\ got[c] = FieldPart(k)
  /\ handler[c] = "records" =>
       /\ reply[k].kind = "rows" /\ got[c] = FieldPart(k) \o RlenBytes(k, reply[k].n)
       /\ nBytes[c] = reply[k].n * RowLen /\ nBytes[c] # 0
  /\ handler[c] = "idle" => Answered(k) /\ got[c] = OwnBytes(k)

\* What a client has read and what it has yet to read is what has been sent to it.
Waits(c, k) == Client[k] = c /\ got[c] \o coming[c] = Sent(k) /\ HandlerFits(c, k)

ClientFits(c) ==
  \/ asked[c] = NoStatement /\ handler[c] = "idle" /\ coming[c] = <<>>
  \/ \E k \in Statements : asked[c] = k /\ Waits(c, k)

\* A thread that has not answered executes what its client waits for.
AskedFor(w) ==
  pc[w] \notin {"idle", "unselect"} /\ ~ short[Client[task[w]]] => asked[Client[task[w]]] = task[w]

StreamFits ==
  /\ \A c \in Clients : ~ short[c] => ClientFits(c)
  /\ \A w \in Workers : AskedFor(w)

\* The bytes of a reply.
LEMMA OwnBytesShape ==
  ASSUME NEW k \in Statements, reply[k] \in Replies(k)
  PROVE  /\ reply[k].kind = "rows" => reply[k].n \in Nat /\ OwnBytes(k) = FieldPart(k) \o RecordPart(k, reply[k].n)
         /\ reply[k].kind = "error" => OwnBytes(k) = CountBytes(NoStatement, -1)
         /\ reply[k].kind = "ok" => reply[k].n \in Int /\ OwnBytes(k) = CountBytes(k, reply[k].n)
<1> DEFINE r == reply[k]
<1>1. /\ r.kind = "error" => r.n = -1
      /\ r.kind = "rows" => r.n \in Nat
      /\ r.n \in Int
  <2>1. MaxRows \in Nat
    BY SqlAssumption
  <2> QED
    BY <2>1, RepliesShape
<1>2. ASSUME NEW p PROVE FlattenSeq([i \in DOMAIN <<p>> |-> Bytes(<<p>>[i])]) = Bytes(p)
  <2>1. [i \in DOMAIN <<p>> |-> Bytes(<<p>>[i])] = <<Bytes(p)>>
    <3> DEFINE F(x) == Bytes(x)
    <3> HIDE DEF F
    <3>1. [i \in DOMAIN <<p>> |-> F(<<p>>[i])] = <<F(p)>>
      OBVIOUS
    <3> QED
      BY <3>1 DEF F
  <2> QED
    BY <2>1, FlattenShort
<1>3. CASE r.kind = "rows"
  <2> DEFINE n == r.n
             p == Piece("flen", k, FieldsLen)
             q == Piece("fields", k, FieldsLen)
             u == Piece("rlen", k, n * RowLen)
             v == Piece("records", k, n * RowLen)
  <2>1. FieldPieces(k) = <<p, q>> /\ RecordPieces(k, n) = <<u, v>>
    BY DEF FieldPieces, RecordPieces
  <2>2. OwnBytes(k) = LET pieces == FieldPieces(k) \o RecordPieces(k, n)
                      IN  FlattenSeq([i \in DOMAIN pieces |-> Bytes(pieces[i])])
    BY <1>3 DEF OwnBytes
  <2>3. /\ FieldPart(k) = Bytes(p) \o Bytes(q) /\ RecordPart(k, n) = Bytes(u) \o Bytes(v)
        /\ Bytes(p) \in Seq(ByteSet) /\ Bytes(q) \in Seq(ByteSet)
        /\ Bytes(u) \in Seq(ByteSet) /\ Bytes(v) \in Seq(ByteSet)
    <3>1. n \in Nat
      BY <1>1, <1>3
    <3>2. /\ FlenBytes(k) \in Seq(ByteSet) /\ FieldsBytes(k) \in Seq(ByteSet)
          /\ RlenBytes(k, n) \in Seq(ByteSet) /\ RecordsBytes(k, n) \in Seq(ByteSet)
      <4> HIDE DEF n
      <4> QED
        BY <3>1, PieceBytes
    <3> QED
      BY <3>2 DEF FieldPart, RecordPart, FlenBytes, FieldsBytes, RlenBytes, RecordsBytes
  <2> HIDE DEF p, q, u, v
  <2>4. FlattenSeq([i \in DOMAIN (<<p, q>> \o <<u, v>>) |-> Bytes((<<p, q>> \o <<u, v>>)[i])])
          = Cat(Cat(Bytes(p), Bytes(q)), Cat(Bytes(u), Bytes(v)))
    BY <2>3, FlattenFour
  <2>5. OwnBytes(k) = Cat(FieldPart(k), RecordPart(k, n))
    BY <2>1, <2>2, <2>3, <2>4 DEF Cat
  <2> QED
    BY <1>1, <1>3, <2>5 DEF Cat
<1>4. CASE r.kind = "error"
  <2> DEFINE p == Piece("count", NoStatement, -1)
  <2>1. OwnBytes(k) = LET pieces == <<p>> IN FlattenSeq([i \in DOMAIN pieces |-> Bytes(pieces[i])])
    BY <1>1, <1>4 DEF OwnBytes, CountPieces
  <2>2. CountBytes(NoStatement, -1) = Bytes(p)
    BY DEF CountBytes
  <2> HIDE DEF p
  <2> QED
    BY <1>2, <1>4, <2>1, <2>2
<1>5. CASE r.kind = "ok"
  <2> DEFINE p == Piece("count", k, r.n)
  <2>1. OwnBytes(k) = LET pieces == <<p>> IN FlattenSeq([i \in DOMAIN pieces |-> Bytes(pieces[i])])
    BY <1>5 DEF OwnBytes, CountPieces
  <2>2. CountBytes(k, r.n) = Bytes(p)
    BY DEF CountBytes
  <2> HIDE DEF p
  <2> QED
    BY <1>1, <1>2, <1>5, <2>1, <2>2
<1> QED
  BY <1>3, <1>4, <1>5

\* What follows the bytes that have been read.
LEMMA Cancel ==
  ASSUME NEW a \in Seq(ByteSet), NEW b \in Seq(ByteSet), NEW d \in Seq(ByteSet), a \o b = a \o d
  PROVE  b = d
<1>1. SubSeq(a \o b, Len(a) + 1, Len(a \o b)) = b
  BY TakePiece
<1>2. SubSeq(a \o d, Len(a) + 1, Len(a \o d)) = d
  BY TakePiece
<1> QED
  BY <1>1, <1>2

\* A Recv that is not short reads a piece, and the rest remains.
LEMMA ReadPiece ==
  ASSUME StreamTypes, NEW c \in Clients, NEW x \in Seq(ByteSet), NEW y \in Seq(ByteSet), NEW n,
         coming[c] = x \o y, Reads(c, Len(x), n), ~ short'[c]
  PROVE  /\ ~ short[c] /\ n = Len(x)
         /\ got'[c] = got[c] \o x /\ coming'[c] = y
         /\ got'[c] \o coming'[c] = got[c] \o coming[c]
<1>1. /\ ~ short[c] /\ n = Len(x) /\ got'[c] = got[c] \o SubSeq(coming[c], 1, n)
      /\ coming'[c] = SubSeq(coming[c], n + 1, Len(coming[c]))
  BY DEF Reads
<1>2. got'[c] = got[c] \o x /\ coming'[c] = y
  <2>1. SubSeq(x \o y, 1, Len(x)) = x /\ SubSeq(x \o y, Len(x) + 1, Len(x \o y)) = y
    BY TakePiece
  <2> QED
    BY <1>1, <2>1
<1>3. got[c] \in Seq(ByteSet)
  BY DEF StreamTypes
<1>4. (got[c] \o x) \o y = got[c] \o (x \o y)
  <2>1. \A g \in Seq(ByteSet) : Cat(Cat(g, x), y) = Cat(g, Cat(x, y))
    <3>1. TAKE g \in Seq(ByteSet)
    <3> QED
      BY CatAssociative
  <2> QED
    BY <1>3, <2>1 DEF Cat
<1> QED
  BY <1>1, <1>2, <1>4

\* The bytes of the answer that have been sent.
LEMMA SentShape ==
  ASSUME SqlInv, Unmixed, NEW k \in Statements
  PROVE  /\ Answered(k) \/ Fielded(k) => reply[k] \in Replies(k)
         /\ Fielded(k) => ~ Answered(k) /\ reply[k].kind = "rows" /\ k \in Selects /\ Sent(k) = FieldPart(k)
         /\ Answered(k) => reply[k].kind \in {"error", "ok", "rows"} /\ Sent(k) = OwnBytes(k)
         /\ Answered(k) /\ reply[k].kind = "rows" =>
              k \in Selects /\ reply[k].n \in Nat /\ Sent(k) = FieldPart(k) \o RecordPart(k, reply[k].n)
         /\ Answered(k) /\ reply[k].kind = "error" => Sent(k) = CountBytes(NoStatement, -1)
         /\ Answered(k) /\ reply[k].kind = "ok" =>
              k \notin Selects /\ reply[k].n \in Int /\ Sent(k) = CountBytes(k, reply[k].n)
         /\ ~ Answered(k) /\ ~ Fielded(k) => Sent(k) = <<>>
<1>1. Answered(k) => reply[k] \in Replies(k)
  BY DEF Unmixed, AnswersOwn, Answered
<1>2. Fielded(k) => ~ Answered(k) /\ reply[k].kind = "rows" /\ reply[k] \in Replies(k)
  <2>1. SUFFICES ASSUME NEW w \in Workers, task[w] = k, pc[w] \in {"fetch", "records"}
                 PROVE  ~ Answered(k) /\ reply[k].kind = "rows" /\ reply[k] \in Replies(k)
    BY DEF Fielded
  <2>2. WorkerFits(w) /\ WorkerOwns(w)
    BY DEF SqlInv, Unmixed
  <2>3. ~ Answered(k)
    BY <2>1, <2>2 DEF WorkerFits, Answered
  <2>4. reply[k] \in Replies(k)
    BY <2>1, <2>2 DEF WorkerOwns
  <2>5. reply[k].kind = "rows"
    BY <2>1, <2>2 DEF WorkerOwns, WorkerFits, Holds
  <2> QED
    BY <2>3, <2>4, <2>5
<1>3. reply[k] \in Replies(k) =>
        /\ reply[k].kind \in {"error", "ok", "rows"}
        /\ reply[k].kind = "ok" => k \notin Selects
        /\ reply[k].kind = "rows" => k \in Selects
  BY RepliesShape
<1>4. Answered(k) => Sent(k) = OwnBytes(k)
  BY DEF Sent
<1>5. Fielded(k) => Sent(k) = FieldPart(k)
  BY <1>2 DEF Sent
<1>6. ~ Answered(k) /\ ~ Fielded(k) => Sent(k) = <<>>
  BY DEF Sent
<1>7. reply[k] \in Replies(k) =>
        /\ reply[k].kind = "rows" =>
             reply[k].n \in Nat /\ OwnBytes(k) = FieldPart(k) \o RecordPart(k, reply[k].n)
        /\ reply[k].kind = "error" => OwnBytes(k) = CountBytes(NoStatement, -1)
        /\ reply[k].kind = "ok" => reply[k].n \in Int /\ OwnBytes(k) = CountBytes(k, reply[k].n)
  BY OwnBytesShape
<1> QED
  BY <1>1, <1>2, <1>3, <1>4, <1>5, <1>6, <1>7

\* A step that sends nothing of the answer to k.
SameFor(k) ==
  /\ answer'[k] = answer[k]
  /\ Fielded(k)' <=> Fielded(k)
  /\ Answered(k) \/ Fielded(k) => reply'[k] = reply[k]

SameClient(c) ==
  /\ asked'[c] = asked[c] /\ coming'[c] = coming[c] /\ handler'[c] = handler[c]
  /\ nBytes'[c] = nBytes[c] /\ got'[c] = got[c]

\* What has been sent stays.
LEMMA SameSent ==
  ASSUME NEW k, SameFor(k)
  PROVE  /\ Answered(k)' <=> Answered(k)
         /\ Fielded(k)' <=> Fielded(k)
         /\ Answered(k) => OwnBytes(k)' = OwnBytes(k)
         /\ Sent(k)' = Sent(k)
<1>1. Answered(k)' <=> Answered(k)
  BY DEF SameFor, Answered
<1>2. Fielded(k)' <=> Fielded(k)
  BY DEF SameFor
<1>3. Answered(k) => OwnBytes(k)' = OwnBytes(k)
  <2>1. Answered(k) => reply'[k] = reply[k]
    BY DEF SameFor
  <2> QED
    BY <2>1 DEF OwnBytes
<1>4. FieldPart(k)' = FieldPart(k)
  BY DEF FieldPart, FlenBytes, FieldsBytes
<1>5. Sent(k)' = IF Answered(k)' THEN OwnBytes(k)' ELSE IF Fielded(k)' THEN FieldPart(k)' ELSE <<>>
  BY DEF Sent
<1>6. Sent(k)' = Sent(k)
  <2>1. CASE Answered(k)
    BY <1>1, <1>3, <1>5, <2>1 DEF Sent
  <2>2. CASE ~ Answered(k)
    BY <1>1, <1>2, <1>4, <1>5, <2>2 DEF Sent
  <2> QED
    BY <2>1, <2>2
<1> QED
  BY <1>1, <1>2, <1>3, <1>6

\* A client that such a step leaves alone.
LEMMA SameFits ==
  ASSUME NEW c \in Clients, SameClient(c), \A k \in Statements : asked[c] = k => SameFor(k), ClientFits(c)
  PROVE  ClientFits(c)'
<1>1. CASE asked[c] = NoStatement /\ handler[c] = "idle" /\ coming[c] = <<>>
  BY <1>1 DEF ClientFits, SameClient
<1>2. ASSUME NEW k \in Statements, asked[c] = k, Waits(c, k)
      PROVE  ClientFits(c)'
  <2>1. /\ Answered(k)' <=> Answered(k)
        /\ Fielded(k)' <=> Fielded(k)
        /\ Answered(k) => OwnBytes(k)' = OwnBytes(k)
        /\ Sent(k)' = Sent(k)
    BY <1>2, SameSent
  <2>2. Answered(k) \/ Fielded(k) => reply'[k] = reply[k]
    BY <1>2 DEF SameFor
  <2>3. \A n : /\ FieldPart(k)' = FieldPart(k) /\ FlenBytes(k)' = FlenBytes(k)
               /\ RlenBytes(k, n)' = RlenBytes(k, n)
    BY DEF FieldPart, FlenBytes, FieldsBytes, RlenBytes
  <2>4. HandlerFits(c, k)'
    <3>1. HandlerFits(c, k)
      BY <1>2 DEF Waits
    <3>2. handler'[c] = handler[c] /\ nBytes'[c] = nBytes[c] /\ got'[c] = got[c]
      BY DEF SameClient
    <3> QED
      BY <2>1, <2>2, <2>3, <3>1, <3>2 DEF HandlerFits
  <2>5. Waits(c, k)'
    BY <1>2, <2>1, <2>4 DEF Waits, SameClient
  <2> QED
    BY <1>2, <2>5 DEF ClientFits, SameClient
<1> QED
  BY <1>1, <1>2 DEF ClientFits

\* A step of thread w that sends nothing of the answer to k.
LEMMA WorkerSame ==
  ASSUME SqlInv, NEW w \in Workers, NEW k \in Statements, OnlyWorker(w), answer'[k] = answer[k],
         (task'[w] = k /\ pc'[w] \in {"fetch", "records"}) <=> (task[w] = k /\ pc[w] \in {"fetch", "records"}),
         reply'[k] = reply[k] \/ (task[w] = k /\ pc[w] = "query")
  PROVE  SameFor(k)
<1>1. Fielded(k)' <=> Fielded(k)
  <2>1. \A v \in Workers : v # w => task'[v] = task[v] /\ pc'[v] = pc[v]
    BY DEF OnlyWorker
  <2>2. ASSUME NEW v \in Workers
        PROVE  (task'[v] = k /\ pc'[v] \in {"fetch", "records"}) <=> (task[v] = k /\ pc[v] \in {"fetch", "records"})
    <3>1. CASE v = w
      BY <3>1
    <3>2. CASE v # w
      BY <2>1, <3>2
    <3> QED
      BY <3>1, <3>2
  <2> QED
    BY <2>2 DEF Fielded
<1>2. ASSUME task[w] = k, pc[w] = "query" PROVE ~ Answered(k) /\ ~ Fielded(k)
  <2>1. WorkerFits(w) /\ k # NoStatement
    BY SqlAssumption DEF SqlInv
  <2>2. ~ Answered(k)
    BY <1>2, <2>1 DEF WorkerFits, Answered
  <2>3. \A v \in Workers : v # w => task[v] # k
    BY <1>2, <2>1, TasksDiffer
  <2> QED
    BY <1>2, <2>2, <2>3 DEF Fielded
<1> QED
  BY <1>1, <1>2 DEF SameFor

\* The steps of Execute that send nothing.
LEMMA QuerySame ==
  ASSUME SqlInv, NEW w \in Workers, Query(w)
  PROVE  /\ \A k \in Statements : SameFor(k)
         /\ \A v \in Workers : AskedFor(v) => AskedFor(v)'
<1>1. SqlTypeOK /\ DOMAIN reply = Statements
  BY DEF SqlInv, SqlTypes
<1>2. UNCHANGED <<streamVars, asked>>
  BY DEF Query
<1>3. ASSUME OnlyWorker(w), answer' = answer,
             \/ task' = task /\ (pc'[w] \in {"fetch", "records"} <=> pc[w] \in {"fetch", "records"})
             \/ task'[w] = NoStatement /\ pc[w] = "unselect" /\ pc'[w] = "idle",
             pc'[w] \notin {"idle", "unselect"} => task' = task /\ pc[w] \notin {"idle", "unselect"},
             \/ reply' = reply
             \/ pc[w] = "query" /\ \E r : reply' = [reply EXCEPT ![task[w]] = r]
      PROVE  /\ \A k \in Statements : SameFor(k)
             /\ \A v \in Workers : AskedFor(v) => AskedFor(v)'
  <2>1. ASSUME NEW k \in Statements PROVE SameFor(k)
    <3>1. answer'[k] = answer[k]
      BY <1>3
    <3>2. (task'[w] = k /\ pc'[w] \in {"fetch", "records"}) <=> (task[w] = k /\ pc[w] \in {"fetch", "records"})
      BY <1>3, SqlAssumption
    <3>3. reply'[k] = reply[k] \/ (task[w] = k /\ pc[w] = "query")
      BY <1>1, <1>3
    <3> QED
      BY <1>3, <3>1, <3>2, <3>3, WorkerSame
  <2>2. ASSUME NEW v \in Workers, AskedFor(v) PROVE AskedFor(v)'
    <3>1. short' = short /\ asked' = asked
      BY <1>2 DEF streamVars
    <3>2. pc'[v] \notin {"idle", "unselect"} => pc[v] \notin {"idle", "unselect"} /\ task'[v] = task[v]
      BY <1>3 DEF OnlyWorker
    <3> QED
      BY <2>2, <3>1, <3>2 DEF AskedFor
  <2> QED
    BY <2>1, <2>2
<1>4. CASE QueryRefused(w) \/ QueryLost(w)
  <2>1. /\ pc[w] \in {"query", "read"} /\ pc' = [pc EXCEPT ![w] = "answer"]
        /\ nRet' = [nRet EXCEPT ![w] = NoCount]
        /\ UNCHANGED <<task, res, fetched, answer, reply>>
    BY <1>4 DEF QueryRefused, QueryLost, QueryFails
  <2>2. pc'[w] = "answer" /\ OnlyWorker(w)
    BY <1>1, <2>1 DEF SqlTypeOK, OnlyWorker, SqlInv, SqlTypes
  <2> QED
    BY <1>3, <2>1, <2>2
<1>5. CASE QuerySend(w)
  <2>1. /\ pc[w] = "query" /\ pc' = [pc EXCEPT ![w] = "read"]
        /\ \E r : reply' = [reply EXCEPT ![task[w]] = r]
        /\ UNCHANGED <<task, nRet, res, fetched, answer>>
    BY <1>5 DEF QuerySend, At
  <2>2. pc'[w] = "read" /\ OnlyWorker(w)
    BY <1>1, <2>1 DEF SqlTypeOK, OnlyWorker
  <2> QED
    BY <1>3, <2>1, <2>2
<1>6. CASE QueryRead(w)
  <2>1. /\ pc[w] = "read" /\ \E x \in {"answer", "use"} : pc' = [pc EXCEPT ![w] = x]
        /\ nRet' = [nRet EXCEPT ![w] = NoCount] \/ nRet' = nRet
        /\ UNCHANGED <<task, res, fetched, answer, reply>>
    BY <1>6 DEF QueryRead, QueryFails, At
  <2>2. pc'[w] \in {"answer", "use"} /\ OnlyWorker(w)
    BY <1>1, <2>1 DEF SqlTypeOK, OnlyWorker, SqlInv, SqlTypes
  <2> QED
    BY <1>3, <2>1, <2>2
<1>7. CASE UseResult(w) \/ AffectedRows(w)
  <2>1. /\ pc[w] \in {"use", "affected"} /\ \E x \in {"affected", "answer"} : pc' = [pc EXCEPT ![w] = x]
        /\ nRet' = [nRet EXCEPT ![w] = affected] \/ nRet' = nRet
        /\ res' = [res EXCEPT ![w] = fields] \/ res' = res
        /\ UNCHANGED <<task, fetched, answer, reply>>
    BY <1>7 DEF UseResult, AffectedRows, At
  <2>2. pc'[w] \in {"affected", "answer"} /\ OnlyWorker(w)
    BY <1>1, <2>1 DEF SqlTypeOK, OnlyWorker, SqlInv, SqlTypes
  <2> QED
    BY <1>3, <2>1, <2>2
<1>8. CASE FetchRow(w) \/ FetchEnd(w)
  <2>1. /\ pc[w] = "fetch" /\ (pc' = pc \/ pc' = [pc EXCEPT ![w] = "records"])
        /\ fetched' = [fetched EXCEPT ![w] = fetched[w] + 1] \/ fetched' = fetched
        /\ UNCHANGED <<task, nRet, res, answer, reply>>
    BY <1>8 DEF FetchRow, FetchEnd, At
  <2>2. pc'[w] \in {"fetch", "records"} /\ OnlyWorker(w)
    BY <1>1, <2>1 DEF SqlTypeOK, OnlyWorker, SqlInv, SqlTypes
  <2> QED
    BY <1>3, <2>1, <2>2
<1>9. CASE EndExecute(w)
  <2>1. /\ pc[w] = "unselect" /\ pc' = [pc EXCEPT ![w] = "idle"]
        /\ task' = [task EXCEPT ![w] = NoStatement]
        /\ nRet' = [nRet EXCEPT ![w] = NoCount] /\ fetched' = [fetched EXCEPT ![w] = 0]
        /\ UNCHANGED <<res, answer, reply>>
    BY <1>9 DEF EndExecute, At
  <2>2. pc'[w] = "idle" /\ task'[w] = NoStatement /\ OnlyWorker(w)
    BY <1>1, <2>1 DEF SqlTypeOK, OnlyWorker, SqlInv, SqlTypes
  <2> QED
    BY <1>3, <2>1, <2>2
<1> QED
  BY <1>4, <1>5, <1>6, <1>7, <1>8, <1>9 DEF Query

\* Execute begins.
LEMMA StartSame ==
  ASSUME SqlInv, NEW w \in Workers, NEW j \in Statements, Start(w, j),
         ~ short[Client[j]] => asked[Client[j]] = j
  PROVE  /\ \A k \in Statements : SameFor(k)
         /\ \A v \in Workers : AskedFor(v) => AskedFor(v)'
<1>1. SqlTypeOK
  BY DEF SqlInv, SqlTypes
<1>2. /\ pc[w] = "idle" /\ pc' = [pc EXCEPT ![w] = "query"] /\ task' = [task EXCEPT ![w] = j]
      /\ UNCHANGED <<nRet, res, fetched, reply, answer, short, asked>>
  BY DEF Start, Dispatched, StartExecute, At, streamVars
<1>3. pc'[w] = "query" /\ task'[w] = j /\ OnlyWorker(w)
  BY <1>1, <1>2 DEF SqlTypeOK, OnlyWorker
<1>4. ASSUME NEW k \in Statements PROVE SameFor(k)
  BY <1>2, <1>3, WorkerSame
<1>5. ASSUME NEW v \in Workers, AskedFor(v) PROVE AskedFor(v)'
  <2>1. CASE v = w
    BY <1>2, <1>3, <2>1 DEF AskedFor
  <2>2. CASE v # w
    BY <1>2, <1>3, <1>5, <2>2 DEF AskedFor, OnlyWorker
  <2> QED
    BY <2>1, <2>2
<1> QED
  BY <1>4, <1>5

\* A thread sends a part of its answer.
LEMMA AnswerSame ==
  ASSUME SqlInv, NEW w \in Workers, AnswerCount(w) \/ AnswerFields(w) \/ AnswerRecords(w)
  PROVE  /\ \A k \in Statements : k # task[w] => SameFor(k)
         /\ \A v \in Workers : AskedFor(v) => AskedFor(v)'
         /\ pc[w] \in {"answer", "records"} /\ task' = task /\ reply' = reply /\ OnlyWorker(w)
<1>1. SqlTypeOK /\ DOMAIN answer = Statements
  BY DEF SqlInv, SqlTypes
<1>2. /\ pc[w] \in {"answer", "records"}
      /\ \E x \in {"unselect", "fetch"} : pc' = [pc EXCEPT ![w] = x]
      /\ answer' = answer \/ \E a : answer' = [answer EXCEPT ![task[w]] = a]
      /\ res' = res \/ res' = [res EXCEPT ![w] = NoStatement]
      /\ UNCHANGED <<task, nRet, fetched, reply, short, asked>>
  BY DEF AnswerCount, AnswerFields, AnswerRecords, SendCount, SendFields, SendRecords, At, SendsTo
<1>3. OnlyWorker(w)
  BY <1>1, <1>2 DEF SqlTypeOK, OnlyWorker
<1>4. ASSUME NEW k \in Statements, k # task[w] PROVE SameFor(k)
  <2>1. answer'[k] = answer[k] /\ reply'[k] = reply[k] /\ task'[w] # k
    BY <1>1, <1>2, <1>4
  <2> QED
    BY <1>3, <1>4, <2>1, WorkerSame
<1>5. ASSUME NEW v \in Workers, AskedFor(v) PROVE AskedFor(v)'
  <2>1. pc'[v] \notin {"idle", "unselect"} => pc[v] \notin {"idle", "unselect"}
    BY <1>1, <1>2 DEF SqlTypeOK
  <2> QED
    BY <1>2, <1>5, <2>1 DEF AskedFor
<1> QED
  BY <1>2, <1>3, <1>4, <1>5

\* What a thread adds to the stream of its client is the next part of the answer.
LEMMA SentGrows ==
  ASSUME SqlInv, Unmixed, NEW w \in Workers, NEW k \in Statements, task[w] = k,
         AnswerCount(w) \/ AnswerFields(w) \/ AnswerRecords(w)
  PROVE  /\ \E b : Adds(Client[k], b) /\ Sent(k)' = Cat(Sent(k), b)
         /\ ~ Answered(k)
         /\ Answered(k)' \/ Fielded(k)'
<1>1. SqlTypeOK /\ DOMAIN answer = Statements /\ WorkerFits(w) /\ WorkerOwns(w)
  BY DEF SqlInv, SqlTypes, Unmixed
<1>2. /\ pc[w] \in {"answer", "records"} /\ task' = task /\ reply' = reply /\ OnlyWorker(w)
  BY AnswerSame
<1>3. ~ Answered(k) /\ reply[k] \in Replies(k) /\ k # NoStatement
  BY <1>1, <1>2, SqlAssumption DEF WorkerFits, WorkerOwns, Answered
<1>4. \A v \in Workers : v # w => task[v] # k
  BY <1>3, TasksDiffer
<1>5. OwnBytes(k)' = OwnBytes(k) /\ FieldPart(k)' = FieldPart(k)
  BY <1>2 DEF OwnBytes, FieldPart, FlenBytes, FieldsBytes
<1>6. Sent(k)' = IF Answered(k)' THEN OwnBytes(k) ELSE IF Fielded(k)' THEN FieldPart(k) ELSE <<>>
  BY <1>5 DEF Sent
<1>7. ASSUME pc[w] = "answer" PROVE Sent(k) = <<>>
  BY <1>3, <1>4, <1>7 DEF Sent, Fielded
<1>8. CASE AnswerCount(w)
  <2>1. /\ pc[w] = "answer" /\ res[w] = NoStatement
        /\ answer' = [answer EXCEPT ![k] = [kind |-> "count", of |-> nRet[w].of, n |-> nRet[w].n]]
    BY <1>8 DEF AnswerCount, SendCount, At
  <2>2. Answered(k)'
    <3>1. answer'[k].kind = "count"
      BY <1>1, <2>1
    <3> QED
      BY <3>1 DEF Answered, NoAnswer
  <2>3. /\ reply[k].kind \in {"ok", "error"}
        /\ nRet[w] = Count(IF reply[k].kind = "error" THEN NoStatement ELSE k, reply[k].n)
    BY <1>1, <2>1 DEF WorkerOwns
  <2> DEFINE b == CountBytes(nRet[w].of, nRet[w].n)
  <2>4. Adds(Client[k], b)
    BY <1>8, AnswerAdds
  <2>5. OwnBytes(k) = b
    <3>1. CASE reply[k].kind = "error"
      <4>1. nRet[w].of = NoStatement /\ nRet[w].n = -1
        BY <1>3, <2>3, <3>1, RepliesShape DEF Count
      <4> QED
        BY <1>3, <3>1, <4>1, OwnBytesShape
    <3>2. CASE reply[k].kind = "ok"
      <4>1. nRet[w].of = k /\ nRet[w].n = reply[k].n
        BY <2>3, <3>2 DEF Count
      <4> QED
        BY <1>3, <3>2, <4>1, OwnBytesShape
    <3> QED
      BY <2>3, <3>1, <3>2
  <2> HIDE DEF b
  <2>6. b \in Seq(ByteSet)
    BY <2>4 DEF Adds
  <2>7. Sent(k)' = Cat(Sent(k), b)
    <3>1. <<>> \o b = b
      BY <2>6, ConcatEmptySeq
    <3> QED
      BY <1>6, <1>7, <2>1, <2>2, <2>5, <3>1 DEF Cat
  <2> QED
    BY <1>3, <2>2, <2>4, <2>7
<1>9. CASE AnswerFields(w)
  <2>1. /\ pc[w] = "answer" /\ res[w] # NoStatement /\ answer' = answer
        /\ pc' = [pc EXCEPT ![w] = "fetch"]
    BY <1>9 DEF AnswerFields, SendFields, At
  <2>2. res[w] = k
    BY <1>1, <2>1 DEF WorkerOwns, Holds
  <2>3. ~ Answered(k)' /\ Fielded(k)'
    <3>1. pc'[w] = "fetch" /\ task'[w] = k
      BY <1>1, <1>2, <2>1 DEF SqlTypeOK
    <3> QED
      BY <1>3, <2>1, <3>1 DEF Answered, Fielded
  <2> DEFINE b == FieldPart(k)
  <2>4. Adds(Client[k], b)
    BY <1>9, <2>2, AnswerAdds DEF FieldPart
  <2> HIDE DEF b
  <2>5. b \in Seq(ByteSet)
    BY <2>4 DEF Adds
  <2>6. Sent(k)' = Cat(Sent(k), b)
    <3>1. <<>> \o b = b
      BY <2>5, ConcatEmptySeq
    <3> QED
      BY <1>6, <1>7, <2>1, <2>3, <3>1 DEF Cat, b
  <2> QED
    BY <1>3, <2>3, <2>4, <2>6
<1>10. CASE AnswerRecords(w)
  <2>1. /\ pc[w] = "records"
        /\ answer' = [answer EXCEPT ![k] = [kind |-> "rows", of |-> res[w], n |-> fetched[w]]]
    BY <1>10 DEF AnswerRecords, SendRecords, At
  <2>2. Answered(k)'
    <3>1. answer'[k].kind = "rows"
      BY <1>1, <2>1
    <3> QED
      BY <3>1 DEF Answered, NoAnswer
  <2>3. res[w] = k /\ reply[k].kind = "rows" /\ fetched[w] = reply[k].n
    BY <1>1, <2>1 DEF WorkerOwns
  <2>4. Fielded(k)
    BY <2>1 DEF Fielded
  <2> DEFINE b == RecordPart(k, reply[k].n)
  <2>5. Adds(Client[k], b)
    BY <1>10, <2>3, AnswerAdds DEF RecordPart
  <2>6. OwnBytes(k) = Cat(FieldPart(k), b)
    BY <1>3, <2>3, OwnBytesShape DEF Cat
  <2> HIDE DEF b
  <2>7. Sent(k)' = Cat(Sent(k), b)
    <3>1. Sent(k) = FieldPart(k)
      BY <1>3, <2>4 DEF Sent
    <3> QED
      BY <1>6, <2>2, <2>6, <3>1
  <2> QED
    BY <1>3, <2>2, <2>5, <2>7
<1> QED
  BY <1>8, <1>9, <1>10

\* The client of the thread.
LEMMA AnswerWaits ==
  ASSUME StreamTypes, SqlInv, Unmixed, NEW w \in Workers, NEW k \in Statements, task[w] = k,
         NEW c \in Clients, Waits(c, k), AnswerCount(w) \/ AnswerFields(w) \/ AnswerRecords(w)
  PROVE  Waits(c, k)'
<1>1. PICK b : Adds(Client[k], b) /\ Sent(k)' = Cat(Sent(k), b)
  BY SentGrows
<1>2. ~ Answered(k) /\ (Answered(k)' \/ Fielded(k)')
  BY SentGrows
<1>3. Client[k] = c /\ got[c] \o coming[c] = Sent(k) /\ HandlerFits(c, k)
  BY DEF Waits
<1>4. /\ b \in Seq(ByteSet) /\ coming'[c] = coming[c] \o b
      /\ handler' = handler /\ nBytes' = nBytes /\ got' = got
  BY <1>1, <1>3 DEF Adds, StreamTypes
<1>5. got[c] \in Seq(ByteSet) /\ coming[c] \in Seq(ByteSet)
  BY DEF StreamTypes
<1>6. got'[c] \o coming'[c] = Sent(k)'
  <2> DEFINE g == got[c]
             s == coming[c]
  <2>1. Cat(Cat(g, s), b) = Cat(g, Cat(s, b))
    <3>1. g \in Seq(ByteSet) /\ s \in Seq(ByteSet)
      BY <1>5
    <3> HIDE DEF g, s
    <3> QED
      BY <1>4, <3>1, CatAssociative
  <2>2. Cat(g, s) = Sent(k) /\ coming'[c] = Cat(s, b) /\ got'[c] = g
    BY <1>3, <1>4 DEF Cat
  <2>3. Cat(got'[c], coming'[c]) = Sent(k)'
    BY <1>1, <2>1, <2>2
  <2> QED
    BY <2>3 DEF Cat
<1>7. HandlerFits(c, k)'
  <2>1. reply' = reply
    BY AnswerSame
  <2>2. \A n : /\ FieldPart(k)' = FieldPart(k) /\ FlenBytes(k)' = FlenBytes(k)
               /\ RlenBytes(k, n)' = RlenBytes(k, n)
    BY DEF FieldPart, FlenBytes, FieldsBytes, RlenBytes
  <2>3. handler'[c] = handler[c] /\ nBytes'[c] = nBytes[c] /\ got'[c] = got[c]
    BY <1>4
  <2> QED
    BY <1>2, <1>3, <2>1, <2>2, <2>3 DEF HandlerFits
<1> QED
  BY <1>3, <1>6, <1>7 DEF Waits

\* A thread sends a part of its answer.
LEMMA AnswerFits ==
  ASSUME StreamTypes, SqlInv, Unmixed, StreamFits, NEW w \in Workers,
         AnswerCount(w) \/ AnswerFields(w) \/ AnswerRecords(w)
  PROVE  StreamFits'
<1>1. \A v \in Workers : AskedFor(v)'
  BY AnswerSame DEF StreamFits
<1>2. pc[w] \in {"answer", "records"}
  BY AnswerSame
<1>3. PICK k \in Statements : task[w] = k
  BY <1>2, AnswerAdds
<1>4. PICK c \in Clients : Client[k] = c
  BY SystemAssumption
<1>5. PICK b : Adds(c, b)
  BY <1>3, <1>4, SentGrows
<1>6. /\ handler' = handler /\ nBytes' = nBytes /\ got' = got /\ short' = short /\ asked' = asked
      /\ \A d \in Clients : d # c => coming'[d] = coming[d]
  BY <1>5 DEF Adds, StreamTypes
<1>7. ASSUME NEW d \in Clients, ~ short'[d] PROVE ClientFits(d)'
  <2>1. ~ short[d] /\ ClientFits(d)
    BY <1>6, <1>7 DEF StreamFits
  <2>2. CASE d = c
    <3>1. asked[c] = k
      BY <1>2, <1>3, <1>4, <2>1, <2>2 DEF StreamFits, AskedFor
    <3>2. Waits(c, k)
      BY <2>1, <2>2, <3>1, SqlAssumption DEF ClientFits
    <3>3. Waits(c, k)'
      BY <1>3, <3>2, AnswerWaits
    <3> QED
      BY <1>6, <2>2, <3>1, <3>3 DEF ClientFits
  <2>3. CASE d # c
    <3>1. SameClient(d)
      BY <1>6, <2>3 DEF SameClient
    <3>2. ASSUME NEW j \in Statements, asked[d] = j PROVE SameFor(j)
      <4>1. Client[j] = d
        BY <2>1, <3>2, SqlAssumption DEF ClientFits, Waits
      <4> QED
        BY <1>3, <1>4, <2>3, <4>1, AnswerSame
    <3> QED
      BY <2>1, <3>1, <3>2, SameFits
  <2> QED
    BY <2>2, <2>3
<1> QED
  BY <1>1, <1>7 DEF StreamFits

\* A handler that has returned has left nothing in the stream.
LEMMA IdleEmpty ==
  ASSUME StreamTypes, NEW c \in Clients, ClientFits(c), handler[c] = "idle"
  PROVE  /\ coming[c] = <<>>
         /\ \A j \in Statements : asked[c] = j => Answered(j) /\ got[c] = OwnBytes(j)
<1>1. CASE asked[c] = NoStatement /\ coming[c] = <<>>
  BY <1>1, SqlAssumption
<1>2. ASSUME NEW k \in Statements, asked[c] = k, Waits(c, k)
      PROVE  /\ coming[c] = <<>>
             /\ \A j \in Statements : asked[c] = j => Answered(j) /\ got[c] = OwnBytes(j)
  <2> DEFINE g == got[c]
             s == coming[c]
             e == <<>>
  <2>1. /\ Answered(k) /\ g = OwnBytes(k) /\ g \o s = Sent(k)
    BY <1>2 DEF Waits, HandlerFits
  <2>2. g \o s = g
    BY <2>1 DEF Sent
  <2>3. g \in Seq(ByteSet) /\ s \in Seq(ByteSet) /\ e \in Seq(ByteSet)
    BY EmptySeq DEF StreamTypes
  <2>4. s = e
    <3> HIDE DEF g, s
    <3>1. g \o e = g
      BY <2>3, ConcatEmptySeq
    <3> HIDE DEF e
    <3> QED
      BY <2>2, <2>3, <3>1, Cancel
  <2> QED
    BY <1>2, <2>1, <2>4
<1> QED
  BY <1>1, <1>2 DEF ClientFits

\* A handler sends its statement.
LEMMA SendSqlFits ==
  ASSUME StreamTypes, SqlInv, Unmixed, StreamFits, NEW c \in Clients, NEW k \in Statements, SendSql(c, k)
  PROVE  StreamFits'
<1>1. /\ handler[c] = "idle" /\ Client[k] = c /\ ~ Taken(k)
      /\ handler' = [handler EXCEPT ![c] = IF k \in Selects THEN "flen" ELSE "count"]
      /\ got' = [got EXCEPT ![c] = <<>>] /\ asked' = [asked EXCEPT ![c] = k]
      /\ UNCHANGED <<coming, nBytes, short>>
      /\ UNCHANGED <<pc, task, reply, answer>>
  BY DEF SendSql, AwaitAnswer, sqlVars, workerVars
<1>2. /\ handler'[c] = (IF k \in Selects THEN "flen" ELSE "count") /\ got'[c] = <<>> /\ asked'[c] = k
      /\ \A d \in Clients : d # c => handler'[d] = handler[d] /\ got'[d] = got[d] /\ asked'[d] = asked[d]
  BY <1>1 DEF StreamTypes, StreamTypeOK
<1>3. ASSUME NEW j PROVE SameFor(j)
  BY <1>1 DEF SameFor, Fielded
<1>4. ~ short[c] => coming[c] = <<>> /\ \A j \in Statements : asked[c] = j => Answered(j)
  BY <1>1, IdleEmpty DEF StreamFits
<1>5. ASSUME NEW d \in Clients, ~ short'[d] PROVE ClientFits(d)'
  <2>1. ~ short[d] /\ ClientFits(d)
    BY <1>1, <1>5 DEF StreamFits
  <2>2. CASE d = c
    <3>1. Sent(k)' = <<>>
      <4>1. Sent(k)' = Sent(k)
        BY <1>3, SameSent
      <4>2. Sent(k) = <<>>
        BY <1>1 DEF Taken, Sent, Answered, Fielded
      <4> QED
        BY <4>1, <4>2
    <3>2. coming'[c] = <<>>
      BY <1>1, <1>4, <2>1, <2>2
    <3>3. got'[c] \o coming'[c] = <<>>
      <4>1. <<>> \o <<>> = <<>>
        BY ConcatEmptySeq, EmptySeq
      <4> QED
        BY <1>2, <3>2, <4>1
    <3>4. HandlerFits(c, k)'
      BY <1>2 DEF HandlerFits
    <3>5. Waits(c, k)'
      BY <1>1, <3>1, <3>3, <3>4 DEF Waits
    <3> QED
      BY <1>2, <2>2, <3>5 DEF ClientFits
  <2>3. CASE d # c
    <3>1. SameClient(d)
      BY <1>1, <1>2, <2>3 DEF SameClient
    <3> QED
      BY <1>3, <2>1, <3>1, SameFits
  <2> QED
    BY <2>2, <2>3
<1>6. ASSUME NEW v \in Workers PROVE AskedFor(v)'
  <2>1. SUFFICES ASSUME pc[v] \notin {"idle", "unselect"}, ~ short[Client[task[v]]]
                 PROVE  asked'[Client[task[v]]] = task[v]
    BY <1>1 DEF AskedFor
  <2>2. PICK j \in Statements : task[v] = j
    BY <2>1, AnswerAdds
  <2>3. PICK d \in Clients : Client[j] = d
    BY SystemAssumption
  <2>4. asked[d] = j /\ ~ short[d]
    BY <2>1, <2>2, <2>3 DEF StreamFits, AskedFor
  <2>5. ~ Answered(j)
    BY <2>1, <2>2 DEF SqlInv, WorkerFits, Answered
  <2>6. d # c
    BY <1>4, <2>4, <2>5
  <2> QED
    BY <1>2, <2>2, <2>3, <2>4, <2>6
<1> QED
  BY <1>5, <1>6 DEF StreamFits

\* The request in a client's stream is the one that its handler waits for.
Awaited ==
  \A c \in Clients : ~ short[c] => \A i \in DOMAIN unread[c] : unread[c][i] = asked[c]

\* When a handler has returned its request has been taken from the stream.
LEMMA IdleTaken ==
  ASSUME StreamTypes, StreamFits, Pending, Awaited, NEW c \in Clients, handler[c] = "idle", ~ short[c]
  PROVE  unread[c] = <<>>
<1>1. unread[c] \in Seq(Statements)
  BY DEF Pending
<1>2. ASSUME NEW i \in DOMAIN unread[c] PROVE FALSE
  <2>1. unread[c][i] \in Statements /\ unread[c][i] = asked[c] /\ ~ Begun(task, answer, unread[c][i])
    BY <1>1 DEF Pending, Awaited
  <2>2. ClientFits(c)
    BY DEF StreamFits
  <2>3. Answered(unread[c][i])
    BY <2>1, <2>2, IdleEmpty
  <2> QED
    BY <2>1, <2>3 DEF Answered, Begun
<1>3. ~ (1 \in DOMAIN unread[c])
  BY <1>2
<1> QED
  BY <1>1, <1>3

\* A handler sends the only request of its stream.
LEMMA SendSqlAwaited ==
  ASSUME StreamTypes, StreamFits, Pending, Awaited, NEW c \in Clients, NEW k \in Statements, SendSql(c, k)
  PROVE  Awaited'
<1>1. /\ handler[c] = "idle" /\ short' = short /\ asked' = [asked EXCEPT ![c] = k]
      /\ unread' = [unread EXCEPT ![c] = Append(unread[c], k)]
  BY DEF SendSql, AwaitAnswer
<1>2. asked'[c] = k /\ \A d \in Clients : d # c => asked'[d] = asked[d]
  BY <1>1 DEF StreamTypes
<1>3. unread'[c] = Append(unread[c], k) /\ \A d \in Clients : d # c => unread'[d] = unread[d]
  BY <1>1 DEF Pending
<1>4. ASSUME ~ short[c] PROVE unread'[c] = <<k>>
  <2>1. unread[c] = <<>>
    BY <1>1, <1>4, IdleTaken
  <2> QED
    BY <1>3, <2>1
<1>5. DOMAIN <<k>> = {1} /\ <<k>>[1] = k
  OBVIOUS
<1>6. ASSUME NEW d \in Clients, ~ short'[d], NEW i \in DOMAIN unread'[d] PROVE unread'[d][i] = asked'[d]
  <2>1. CASE d = c
    BY <1>1, <1>2, <1>4, <1>5, <1>6, <2>1
  <2>2. CASE d # c
    BY <1>1, <1>2, <1>3, <1>6, <2>2 DEF Awaited
  <2> QED
    BY <2>1, <2>2
<1> QED
  BY <1>6 DEF Awaited

\* The main loop takes the request that is waited for.
LEMMA StartAwaited ==
  ASSUME Pending, Awaited, NEW w \in Workers, NEW k \in Statements, Start(w, k)
  PROVE  Awaited' /\ (~ short[Client[k]] => asked[Client[k]] = k)
<1> DEFINE c == Client[k]
           u == unread[c]
<1>1. c \in Clients
  BY SystemAssumption
<1>2. /\ u # <<>> /\ Head(u) = k /\ unread' = [unread EXCEPT ![c] = Tail(u)]
      /\ short' = short /\ asked' = asked
  BY DEF Start, Dispatched, streamVars
<1>3. u \in Seq(Statements) /\ unread'[c] = Tail(u) /\ \A d \in Clients : d # c => unread'[d] = unread[d]
  BY <1>1, <1>2 DEF Pending
<1>4. ~ short[c] => \A i \in DOMAIN u : u[i] = asked[c]
  BY <1>1 DEF Awaited
<1> HIDE DEF u
<1>5. 1 \in DOMAIN u /\ u[1] = k /\ \A i \in DOMAIN Tail(u) : i + 1 \in DOMAIN u /\ Tail(u)[i] = u[i + 1]
  BY <1>2, <1>3
<1>6. ASSUME NEW d \in Clients, ~ short'[d], NEW i \in DOMAIN unread'[d] PROVE unread'[d][i] = asked'[d]
  <2>1. CASE d = c
    BY <1>2, <1>3, <1>4, <1>5, <1>6, <2>1
  <2>2. CASE d # c
    BY <1>2, <1>3, <1>6, <2>2 DEF Awaited
  <2> QED
    BY <2>1, <2>2
<1> QED
  BY <1>4, <1>5, <1>6 DEF Awaited

\* The other steps leave the requests alone.
LEMMA OtherAwaited ==
  ASSUME Awaited, UNCHANGED <<unread, asked>>, \A c \in Clients : short[c] => short'[c]
  PROVE  Awaited'
BY DEF Awaited

\* A step that leaves the streams alone.
LEMMA QuietFits ==
  ASSUME StreamFits, UNCHANGED <<streamVars, asked>>, \A k \in Statements : SameFor(k),
         \A v \in Workers : AskedFor(v) => AskedFor(v)'
  PROVE  StreamFits'
<1>1. UNCHANGED <<coming, handler, nBytes, got, short, asked>>
  BY DEF streamVars
<1>2. ASSUME NEW d \in Clients, ~ short'[d] PROVE ClientFits(d)'
  <2>1. ClientFits(d) /\ SameClient(d)
    BY <1>1, <1>2 DEF StreamFits, SameClient
  <2> QED
    BY <2>1, SameFits
<1> QED
  BY <1>2 DEF StreamFits

\* The algebra of concatenation.
LEMMA CatFacts ==
  ASSUME NEW a \in Seq(ByteSet), NEW b \in Seq(ByteSet), NEW d \in Seq(ByteSet)
  PROVE  /\ Cat(a, <<>>) = a /\ Cat(<<>>, a) = a
         /\ Cat(a, b) \in Seq(ByteSet)
         /\ Cat(Cat(a, b), d) = Cat(a, Cat(b, d))
         /\ Cat(a, b) = Cat(a, d) => b = d
         /\ Len(Cat(a, b)) = Len(a) + Len(b)
         /\ a # <<>> <=> Len(a) > 0
<1>1. Cat(a, <<>>) = a /\ Cat(<<>>, a) = a
  BY ConcatEmptySeq DEF Cat
<1>2. Cat(Cat(a, b), d) = Cat(a, Cat(b, d)) /\ Cat(a, b) \in Seq(ByteSet)
  BY CatAssociative
<1>3. Cat(a, b) = Cat(a, d) => b = d
  BY Cancel DEF Cat
<1>4. Len(Cat(a, b)) = Len(a) + Len(b)
  BY TakePiece DEF Cat
<1>5. a # <<>> <=> Len(a) > 0
  BY EmptySeq
<1> QED
  BY <1>1, <1>2, <1>3, <1>4, <1>5

\* What a handler has yet to read.
LEMMA Ahead ==
  ASSUME StreamTypes, SqlInv, Unmixed, NEW c \in Clients, NEW k \in Statements, Waits(c, k)
  PROVE  /\ handler[c] \in {"count", "flen"} => coming[c] = Sent(k)
         /\ handler[c] = "fields" /\ reply[k].kind = "rows" =>
              \E y \in Seq(ByteSet) : coming[c] = Cat(FieldsBytes(k), y)
         /\ handler[c] = "fields" /\ reply[k].kind = "error" => coming[c] = <<>>
         /\ handler[c] = "rlen" =>
              /\ Answered(k) => coming[c] = RecordPart(k, reply[k].n)
              /\ ~ Answered(k) => coming[c] = <<>>
         /\ handler[c] = "records" => Answered(k) /\ coming[c] = RecordsBytes(k, reply[k].n)
<1> DEFINE g == got[c]
           s == coming[c]
           n == reply[k].n
           U == FlenBytes(k)
           F == FieldsBytes(k)
           R == RlenBytes(k, n)
           D == RecordsBytes(k, n)
           e == <<>>
<1>1. g \in Seq(ByteSet) /\ s \in Seq(ByteSet) /\ e \in Seq(ByteSet)
  BY EmptySeq DEF StreamTypes
<1>2. U \in Seq(ByteSet) /\ F \in Seq(ByteSet)
  BY PieceBytes
<1>3. Cat(g, s) = Sent(k) /\ HandlerFits(c, k)
  BY DEF Waits, Cat
<1>4. FieldPart(k) = Cat(U, F) /\ RecordPart(k, n) = Cat(R, D)
  BY DEF FieldPart, RecordPart, Cat
<1>5. /\ Fielded(k) => ~ Answered(k) /\ reply[k].kind = "rows" /\ Sent(k) = Cat(U, F)
      /\ Answered(k) => Sent(k) = OwnBytes(k)
      /\ Answered(k) /\ reply[k].kind = "rows" => n \in Nat /\ Sent(k) = Cat(Cat(U, F), Cat(R, D))
  BY <1>4, SentShape DEF Cat
<1>6. n \in Nat => R \in Seq(ByteSet) /\ D \in Seq(ByteSet) /\ Len(R) = Header
  <2> HIDE DEF n
  <2> QED
    BY PieceBytes
<1>7. Header \in Nat /\ Header > 0
  BY StreamAssumption
<1>8. Cat(g, e) = g /\ Cat(e, s) = s
  <2> HIDE DEF g, s
  <2> QED
    BY <1>1, CatFacts DEF e
<1>9. ASSUME handler[c] \in {"count", "flen"} PROVE s = Sent(k)
  BY <1>3, <1>8, <1>9 DEF HandlerFits
<1>10. ASSUME handler[c] = "fields", reply[k].kind = "rows"
       PROVE  \E y \in Seq(ByteSet) : s = Cat(F, y)
  <2>1. g = U /\ (Answered(k) \/ Fielded(k))
    BY <1>3, <1>10 DEF HandlerFits
  <2> HIDE DEF g, s, n, U, F, R, D, e
  <2>2. CASE Fielded(k)
    <3>1. Cat(U, s) = Cat(U, F)
      BY <1>3, <1>5, <2>1, <2>2
    <3>2. s = F
      BY <1>1, <1>2, <3>1, CatFacts
    <3>3. F = Cat(F, e)
      BY <1>2, CatFacts DEF e
    <3> QED
      BY <1>1, <3>2, <3>3
  <2>3. CASE Answered(k)
    <3>1. R \in Seq(ByteSet) /\ D \in Seq(ByteSet) /\ Cat(U, s) = Cat(Cat(U, F), Cat(R, D))
      BY <1>3, <1>5, <1>6, <1>10, <2>1, <2>3
    <3> DEFINE y == Cat(R, D)
    <3>2. y \in Seq(ByteSet)
      BY <3>1, CatFacts
    <3>3. Cat(U, s) = Cat(Cat(U, F), y)
      BY <3>1
    <3> HIDE DEF y
    <3>4. Cat(Cat(U, F), y) = Cat(U, Cat(F, y)) /\ Cat(F, y) \in Seq(ByteSet)
      BY <1>2, <3>2, CatFacts
    <3>5. s = Cat(F, y)
      <4> DEFINE z == Cat(F, y)
      <4>1. Cat(U, s) = Cat(U, z) /\ z \in Seq(ByteSet)
        BY <3>3, <3>4
      <4> HIDE DEF z
      <4>2. s = z
        BY <1>1, <1>2, <4>1, CatFacts
      <4> QED
        BY <4>2 DEF z
    <3> QED
      BY <3>2, <3>5
  <2> QED
    BY <2>1, <2>2, <2>3
<1>11. ASSUME handler[c] = "fields", reply[k].kind = "error" PROVE s = e
  <2>1. Cat(g, s) = g
    BY <1>3, <1>5, <1>11 DEF HandlerFits
  <2> HIDE DEF g, s, e
  <2> QED
    BY <1>1, <1>8, <2>1, CatFacts
<1>12. ASSUME handler[c] = "rlen"
       PROVE  (Answered(k) => s = Cat(R, D)) /\ (~ Answered(k) => s = e)
  <2>1. g = Cat(U, F) /\ (Answered(k) \/ Fielded(k)) /\ reply[k].kind = "rows"
    BY <1>3, <1>4, <1>12 DEF HandlerFits
  <2> HIDE DEF g, s, n, U, F, R, D, e
  <2>2. ASSUME Answered(k) PROVE s = Cat(R, D)
    <3> DEFINE y == Cat(R, D)
    <3>1. Cat(g, s) = Cat(g, y) /\ R \in Seq(ByteSet) /\ D \in Seq(ByteSet)
      BY <1>3, <1>5, <1>6, <2>1, <2>2
    <3>2. y \in Seq(ByteSet)
      BY <3>1, CatFacts
    <3> HIDE DEF y
    <3>3. s = y
      BY <1>1, <3>1, <3>2, CatFacts
    <3> QED
      BY <3>3 DEF y
  <2>3. ASSUME ~ Answered(k) PROVE s = e
    <3>1. Cat(g, s) = Cat(g, e)
      BY <1>3, <1>5, <1>8, <2>1, <2>3
    <3> QED
      BY <1>1, <3>1, CatFacts
  <2> QED
    BY <2>2, <2>3
<1>13. ASSUME handler[c] = "records" PROVE Answered(k) /\ s = D
  <2>1. g = Cat(Cat(U, F), R) /\ (Answered(k) \/ Fielded(k)) /\ reply[k].kind = "rows"
    BY <1>3, <1>4, <1>13 DEF HandlerFits, Cat
  <2>2. n \in Nat
    <3>1. reply[k] \in Replies(k)
      BY <2>1, SentShape
    <3> QED
      BY <2>1, <3>1, OwnBytesShape
  <2> HIDE DEF g, s, n, U, F, R, D, e
  <2>3. R \in Seq(ByteSet) /\ D \in Seq(ByteSet) /\ Len(R) = Header
    BY <1>6, <2>2
  <2> DEFINE P == Cat(U, F)
  <2>4. P \in Seq(ByteSet)
    BY <1>2, CatFacts
  <2>5. /\ g = Cat(P, R)
        /\ Answered(k) => Sent(k) = Cat(P, Cat(R, D))
        /\ Fielded(k) => Sent(k) = P
    BY <1>5, <2>1
  <2> HIDE DEF P
  <2>6. Answered(k)
    <3>1. SUFFICES ASSUME Fielded(k) PROVE FALSE
      BY <2>1
    <3>2. Cat(Cat(P, R), s) = P
      BY <1>3, <2>5, <3>1
    <3>3. Cat(Cat(P, R), s) = Cat(P, Cat(R, s)) /\ Cat(R, s) \in Seq(ByteSet) /\ P = Cat(P, e)
      BY <1>1, <2>3, <2>4, CatFacts DEF e
    <3> DEFINE z == Cat(R, s)
    <3>4. Cat(P, z) = Cat(P, e) /\ z \in Seq(ByteSet)
      BY <3>2, <3>3
    <3>5. Len(z) = Len(R) + Len(s)
      BY <1>1, <2>3, CatFacts
    <3> HIDE DEF z
    <3>6. z = e
      BY <1>1, <2>4, <3>4, CatFacts
    <3>7. Len(z) = 0 /\ Len(s) \in Nat
      BY <1>1, <3>6, LenProperties DEF e
    <3>8. \A m \in Nat, h \in Nat : h > 0 => 0 # h + m
      OBVIOUS
    <3>9. 0 = Header + Len(s)
      BY <2>3, <3>5, <3>7
    <3> QED
      BY <1>7, <3>7, <3>8, <3>9
  <2>7. s = D
    <3>1. Cat(g, s) = Cat(P, Cat(R, D))
      BY <1>3, <2>5, <2>6
    <3>2. Cat(P, Cat(R, D)) = Cat(g, D)
      BY <2>3, <2>4, <2>5, CatFacts
    <3>3. Cat(g, s) = Cat(g, D)
      BY <3>1, <3>2
    <3> QED
      BY <1>1, <2>3, <3>3, CatFacts
  <2> QED
    BY <2>6, <2>7
<1> QED
  BY <1>4, <1>9, <1>10, <1>11, <1>12, <1>13

\* An int that is read whole is decoded to its value.
LEMMA DecodedPiece ==
  ASSUME NEW c \in Clients, NEW p, Sized(p), p.part \in {"count", "flen", "rlen"},
         Bytes(p) \in Seq(ByteSet), NEW y \in Seq(ByteSet), coming[c] = Cat(Bytes(p), y)
  PROVE  Len(Bytes(p)) = Header /\ Decoded(c, Header) = {p.n}
<1> DEFINE x == Bytes(p)
           s == coming[c]
<1>1. Header \in Nat /\ Header > 0
  BY StreamAssumption
<1>2. Len(x) = Header /\ x[1] = <<p, 1>>
  <2>1. Size(p) = Header
    BY DEF Size
  <2>2. Len(x) = Size(p) /\ \A i \in 1 .. Size(p) : x[i] = <<p, i>>
    BY BytesShape
  <2>3. 1 \in 1 .. Size(p)
    BY <1>1, <2>1
  <2> QED
    BY <2>1, <2>2, <2>3
<1>3. s = x \o y /\ x \in Seq(ByteSet)
  BY DEF Cat
<1> HIDE DEF x, s
<1>4. SubSeq(s, 1, Header) = x
  <2>1. SubSeq(x \o y, 1, Len(x)) = x
    BY <1>3, TakePiece
  <2> QED
    BY <1>2, <1>3, <2>1
<1>5. s[1] = x[1]
  <2>1. /\ Len(x) \in Nat /\ Len(y) \in Nat
        /\ \A i \in 1 .. Len(x) + Len(y) : (x \o y)[i] = IF i <= Len(x) THEN x[i] ELSE y[i - Len(x)]
    BY <1>3, ConcatProperties, LenProperties
  <2>2. 1 \in 1 .. Len(x) + Len(y) /\ 1 <= Len(x)
    <3>1. Len(y) \in Nat
      BY <2>1
    <3> QED
      BY <1>1, <1>2, <3>1
  <2>3. (x \o y)[1] = x[1]
    BY <2>1, <2>2
  <2> QED
    BY <1>3, <2>3
<1>6. coming[c][1][1] = p
  <2>1. s[1] = <<p, 1>>
    BY <1>2, <1>5
  <2>2. s[1][1] = p
    BY <2>1
  <2> QED
    BY <2>2 DEF s
<1>7. Decoded(c, Header) = {p.n}
  <2>1. SubSeq(coming[c], 1, Header) = Bytes(p)
    BY <1>4 DEF s, x
  <2> QED
    BY <1>6, <2>1 DEF Decoded
<1> QED
  BY <1>2, <1>7 DEF x

\* A Recv that is not short takes the next piece.
Takes(c, x, y) ==
  /\ got'[c] = Cat(got[c], x) /\ coming'[c] = y
  /\ Cat(got'[c], coming'[c]) = Cat(got[c], coming[c])

\* Which ReadPiece shows.
LEMMA RecvTakes ==
  ASSUME StreamTypes, NEW c \in Clients, NEW x \in Seq(ByteSet), NEW y \in Seq(ByteSet),
         coming[c] = Cat(x, y), NEW n \in Returned(c, Len(x)), Recv(c, Len(x), n), ~ short'[c]
  PROVE  n = Len(x) /\ Takes(c, x, y)
<1>1. Len(x) \in Nat
  OBVIOUS
<1>2. Reads(c, Len(x), n)
  BY <1>1, RecvReads
<1>3. coming[c] = x \o y
  BY DEF Cat
<1>4. /\ n = Len(x)
      /\ got'[c] = got[c] \o x /\ coming'[c] = y
      /\ got'[c] \o coming'[c] = got[c] \o coming[c]
  BY <1>2, <1>3, ReadPiece, ZenonT(40)
<1> QED
  BY <1>4 DEF Takes, Cat

\* The bytes add up.
LEMMA TakesWaits ==
  ASSUME NEW c \in Clients, NEW k \in Statements, Waits(c, k), SameFor(k), NEW x, NEW y, Takes(c, x, y),
         HandlerFits(c, k)'
  PROVE  Waits(c, k)'
<1>1. Sent(k)' = Sent(k)
  BY SameSent
<1>2. Client[k] = c /\ got[c] \o coming[c] = Sent(k)
  BY DEF Waits
<1>3. got'[c] \o coming'[c] = got[c] \o coming[c]
  BY DEF Takes, Cat
<1>4. got'[c] \o coming'[c] = Sent(k)'
  BY <1>1, <1>2, <1>3
<1> QED
  BY <1>2, <1>4 DEF Waits

\* Something is read.
LEMMA ReturnedSome ==
  ASSUME StreamTypes, NEW c \in Clients, NEW want, NEW n \in Returned(c, want)
  PROVE  coming[c] # <<>>
<1>1. PICK size \in 1 .. Len(coming[c]) : n = Min({size, want})
  BY DEF Returned
<1>2. Len(coming[c]) # 0
  <2>1. Len(coming[c]) \in Nat
    BY DEF StreamTypes
  <2> QED
    BY <2>1
<1> QED
  BY <1>2, EmptySeq

\* The -1 of a statement that MySQL refused.
LEMMA RefusedBytes ==
  CountBytes(NoStatement, -1) \in Seq(ByteSet) /\ Len(CountBytes(NoStatement, -1)) = Header
<1>1. NoStatement \in Statements \cup {NoStatement} /\ -1 \in Int
  OBVIOUS
<1>2. \A n \in Int : CountBytes(NoStatement, n) \in Seq(ByteSet) /\ Len(CountBytes(NoStatement, n)) = Header
  BY <1>1, PieceBytes
<1> QED
  BY <1>1, <1>2

\* The count.
LEMMA CountWaits ==
  ASSUME StreamTypes, SqlInv, Unmixed, NEW c \in Clients, NEW k \in Statements, Waits(c, k),
         SameFor(k), RecvCount(c), ~ short'[c]
  PROVE  Waits(c, k)'
<1>1. PICK n \in Returned(c, Header) : Recv(c, Header, n)
  BY DEF RecvCount
<1>2. handler[c] = "count" /\ handler'[c] = "idle" /\ k \notin Selects /\ got[c] = <<>>
  BY DEF RecvCount, StreamTypes, StreamTypeOK, Waits, HandlerFits
<1>3. coming[c] = Sent(k) /\ coming[c] # <<>>
  BY <1>1, <1>2, Ahead, ReturnedSome
<1>4. Answered(k) /\ Sent(k) = OwnBytes(k) /\ reply[k].kind \in {"ok", "error"}
  BY <1>2, <1>3, SentShape
<1> DEFINE x == OwnBytes(k)
<1>5. x \in Seq(ByteSet) /\ Len(x) = Header
  <2>1. \/ x = CountBytes(NoStatement, -1)
        \/ reply[k].n \in Int /\ x = CountBytes(k, reply[k].n)
    BY <1>4, SentShape
  <2>2. CountBytes(NoStatement, -1) \in Seq(ByteSet) /\ Len(CountBytes(NoStatement, -1)) = Header
    BY RefusedBytes
  <2>3. \A m \in Int : CountBytes(k, m) \in Seq(ByteSet) /\ Len(CountBytes(k, m)) = Header
    BY PieceBytes
  <2> HIDE DEF x
  <2> QED
    BY <2>1, <2>2, <2>3
<1> DEFINE e == <<>>
<1>6. x = Cat(x, e) /\ Cat(e, x) = x /\ e \in Seq(ByteSet)
  <2> HIDE DEF x
  <2> QED
    BY <1>5, CatFacts, EmptySeq
<1>7. Takes(c, x, e)
  <2> HIDE DEF x, e
  <2>1. coming[c] = Cat(x, e)
    BY <1>3, <1>4, <1>6 DEF x
  <2>2. n \in Returned(c, Len(x)) /\ Recv(c, Len(x), n)
    BY <1>1, <1>5
  <2> QED
    BY <1>5, <1>6, <2>1, <2>2, RecvTakes
<1>8. got'[c] = x
  BY <1>2, <1>6, <1>7 DEF Takes
<1>9. Answered(k)' /\ OwnBytes(k)' = OwnBytes(k)
  BY <1>4, SameSent
<1>10. HandlerFits(c, k)'
  BY <1>2, <1>8, <1>9 DEF HandlerFits
<1> HIDE DEF x, e
<1> QED
  BY <1>7, <1>10, TakesWaits

\* The length of the names of the columns.
LEMMA FieldsLenWaits ==
  ASSUME StreamTypes, SqlInv, Unmixed, NEW c \in Clients, NEW k \in Statements, Waits(c, k),
         SameFor(k), RecvFieldsLen(c), ~ short'[c]
  PROVE  Waits(c, k)'
<1>1. PICK n \in Returned(c, Header) :
        /\ Recv(c, Header, n)
        /\ \E v \in Decoded(c, n) : nBytes' = [nBytes EXCEPT ![c] = v]
  BY DEF RecvFieldsLen
<1>2. handler[c] = "flen" /\ handler'[c] = "fields" /\ k \in Selects /\ got[c] = <<>>
  BY DEF RecvFieldsLen, StreamTypes, StreamTypeOK, Waits, HandlerFits
<1>3. coming[c] = Sent(k) /\ coming[c] # <<>>
  BY <1>1, <1>2, Ahead, ReturnedSome
<1>4. /\ Answered(k) \/ Fielded(k)
      /\ (Answered(k) /\ reply[k].kind = "error") \/ reply[k].kind = "rows"
  BY <1>2, <1>3, SentShape
<1>5. /\ reply'[k] = reply[k] /\ (Answered(k)' <=> Answered(k)) /\ (Fielded(k)' <=> Fielded(k))
      /\ Answered(k) => OwnBytes(k)' = OwnBytes(k)
      /\ FlenBytes(k)' = FlenBytes(k)
  BY <1>4, SameSent DEF SameFor, FlenBytes
<1>6. ASSUME NEW p, Sized(p), p.part \in {"count", "flen", "rlen"}, NEW y \in Seq(ByteSet),
             Bytes(p) \in Seq(ByteSet), coming[c] = Cat(Bytes(p), y)
      PROVE  Takes(c, Bytes(p), y) /\ got'[c] = Bytes(p) /\ nBytes'[c] = p.n
  <2> DEFINE x == Bytes(p)
  <2>1. Len(x) = Header /\ Decoded(c, Header) = {p.n}
    BY <1>6, DecodedPiece
  <2>2. x \in Seq(ByteSet) /\ coming[c] = Cat(x, y)
    BY <1>6
  <2> HIDE DEF x
  <2>3. n \in Returned(c, Len(x)) /\ Recv(c, Len(x), n)
    BY <1>1, <2>1
  <2>4. n = Len(x) /\ Takes(c, x, y)
    BY <1>6, <2>2, <2>3, RecvTakes
  <2>5. Cat(<<>>, x) = x
    BY <2>2, CatFacts
  <2>6. got'[c] = x
    BY <1>2, <2>4, <2>5 DEF Takes
  <2>7. nBytes'[c] = p.n
    BY <1>1, <2>1, <2>4 DEF StreamTypes, StreamTypeOK
  <2> QED
    BY <2>4, <2>6, <2>7 DEF x
<1>7. CASE Answered(k) /\ reply[k].kind = "error"
  <2> DEFINE p == Piece("count", NoStatement, -1)
             e == <<>>
  <2>1. Sized(p) /\ p.part = "count" /\ p.n = -1
    BY DEF Sized, Piece
  <2>2. Bytes(p) = OwnBytes(k) /\ coming[c] = Bytes(p)
    BY <1>3, <1>7, SentShape DEF CountBytes
  <2>3. Bytes(p) \in Seq(ByteSet) /\ e \in Seq(ByteSet)
    BY RefusedBytes, EmptySeq DEF CountBytes
  <2> HIDE DEF p
  <2>4. Cat(Bytes(p), e) = Bytes(p)
    <3> DEFINE x == Bytes(p)
    <3>1. x \in Seq(ByteSet)
      BY <2>3
    <3> HIDE DEF x
    <3>2. Cat(x, <<>>) = x
      BY <3>1, CatFacts
    <3> QED
      BY <3>2 DEF x
  <2> HIDE DEF e
  <2>5. Takes(c, Bytes(p), e) /\ got'[c] = Bytes(p) /\ nBytes'[c] = p.n
    BY <1>6, <2>1, <2>2, <2>3, <2>4
  <2>6. nBytes'[c] < 0
    BY <2>1, <2>5
  <2>7. HandlerFits(c, k)'
    BY <1>2, <1>5, <1>7, <2>2, <2>5, <2>6 DEF HandlerFits
  <2> QED
    BY <2>5, <2>7, TakesWaits
<1>8. CASE reply[k].kind = "rows"
  <2> DEFINE p == Piece("flen", k, FieldsLen)
             u == Bytes(p)
  <2>1. Sized(p) /\ p.part = "flen" /\ p.n = FieldsLen
    BY DEF Sized, Piece
  <2>2. u = FlenBytes(k) /\ u \in Seq(ByteSet) /\ FieldsBytes(k) \in Seq(ByteSet)
    BY PieceBytes DEF FlenBytes
  <2>3. \E y \in Seq(ByteSet) : coming[c] = Cat(u, y)
    <3> DEFINE f == FieldsBytes(k)
               r == RecordPart(k, reply[k].n)
    <3>1. FieldPart(k) = Cat(u, f)
      BY <2>2 DEF FieldPart, Cat
    <3>2. CASE Fielded(k)
      BY <1>3, <2>2, <3>1, <3>2, SentShape
    <3>3. CASE Answered(k)
      <4>1. reply[k].n \in Nat /\ coming[c] = Cat(FieldPart(k), r)
        BY <1>3, <1>8, <3>3, SentShape DEF Cat
      <4>2. r \in Seq(ByteSet)
        <5> DEFINE m == reply[k].n
        <5>1. m \in Nat
          BY <4>1
        <5> HIDE DEF m
        <5>2. RlenBytes(k, m) \in Seq(ByteSet) /\ RecordsBytes(k, m) \in Seq(ByteSet)
          BY <5>1, PieceBytes
        <5>3. RecordPart(k, m) \in Seq(ByteSet)
          BY <5>2, ConcatProperties DEF RecordPart
        <5> QED
          BY <5>3 DEF m
      <4> HIDE DEF f, r, u
      <4>3. f \in Seq(ByteSet)
        BY <2>2 DEF f
      <4>4. Cat(Cat(u, f), r) = Cat(u, Cat(f, r)) /\ Cat(f, r) \in Seq(ByteSet)
        BY <2>2, <4>2, <4>3, CatFacts
      <4> QED
        BY <3>1, <4>1, <4>4
    <3> QED
      BY <1>4, <3>2, <3>3
  <2>4. PICK y \in Seq(ByteSet) : coming[c] = Cat(u, y)
    BY <2>3
  <2>5. Takes(c, u, y) /\ got'[c] = u /\ nBytes'[c] = p.n
    <3> HIDE DEF p
    <3> QED
      BY <1>6, <2>1, <2>2, <2>4
  <2>6. HandlerFits(c, k)'
    <3>1. got'[c] = FlenBytes(k) /\ nBytes'[c] = FieldsLen
      BY <2>1, <2>2, <2>5
    <3> QED
      BY <1>2, <1>4, <1>5, <1>8, <3>1 DEF HandlerFits
  <2> HIDE DEF u
  <2> QED
    BY <2>5, <2>6, TakesWaits
<1> QED
  BY <1>4, <1>7, <1>8

\* The names of the columns.
LEMMA FieldsWaits ==
  ASSUME StreamTypes, SqlInv, Unmixed, NEW c \in Clients, NEW k \in Statements, Waits(c, k),
         SameFor(k), RecvFields(c), ~ short'[c]
  PROVE  Waits(c, k)'
<1>1. PICK n \in Returned(c, nBytes[c]) : Recv(c, nBytes[c], n)
  BY DEF RecvFields
<1>2. handler[c] = "fields" /\ handler'[c] = "rlen" /\ nBytes[c] >= 0 /\ nBytes[c] \in Int
  BY DEF RecvFields, StreamTypes, StreamTypeOK
<1>3. /\ k \in Selects /\ (Answered(k) \/ Fielded(k))
      /\ reply[k].kind = "rows" /\ nBytes[c] = FieldsLen /\ got[c] = FlenBytes(k)
  <2>1. ~ (nBytes[c] < 0)
    BY <1>2
  <2> QED
    BY <1>2, <2>1 DEF Waits, HandlerFits
<1>4. /\ reply'[k] = reply[k] /\ (Answered(k)' <=> Answered(k)) /\ (Fielded(k)' <=> Fielded(k))
      /\ FieldPart(k)' = FieldPart(k)
  BY <1>3, SameSent DEF SameFor, FieldPart, FlenBytes, FieldsBytes
<1> DEFINE x == FieldsBytes(k)
<1>5. x \in Seq(ByteSet) /\ Len(x) = nBytes[c]
  BY <1>3, PieceBytes
<1>6. PICK y \in Seq(ByteSet) : coming[c] = Cat(x, y)
  BY <1>2, <1>3, Ahead
<1>7. Takes(c, x, y)
  <2> HIDE DEF x
  <2>1. n \in Returned(c, Len(x)) /\ Recv(c, Len(x), n)
    BY <1>1, <1>5
  <2> QED
    BY <1>5, <1>6, <2>1, RecvTakes
<1>8. got'[c] = FieldPart(k)
  BY <1>3, <1>7 DEF Takes, FieldPart, Cat
<1>9. HandlerFits(c, k)'
  BY <1>2, <1>3, <1>4, <1>8 DEF HandlerFits
<1> HIDE DEF x
<1> QED
  BY <1>7, <1>9, TakesWaits

\* The rows of a result that has been sent.
LEMMA RecordBytes ==
  ASSUME NEW k \in Statements, reply[k] \in Replies(k), reply[k].kind = "rows"
  PROVE  LET n == reply[k].n
         IN  /\ n \in Nat
             /\ RlenBytes(k, n) \in Seq(ByteSet) /\ Len(RlenBytes(k, n)) = Header
             /\ RecordsBytes(k, n) \in Seq(ByteSet) /\ Len(RecordsBytes(k, n)) = n * RowLen
             /\ n * RowLen \in Nat
             /\ FieldPart(k) \in Seq(ByteSet)
             /\ RecordPart(k, n) = Cat(RlenBytes(k, n), RecordsBytes(k, n))
             /\ OwnBytes(k) = Cat(FieldPart(k), RecordPart(k, n))
<1> DEFINE n == reply[k].n
<1>1. n \in Nat /\ OwnBytes(k) = Cat(FieldPart(k), RecordPart(k, n))
  BY OwnBytesShape DEF Cat
<1> HIDE DEF n
<1>2. /\ RlenBytes(k, n) \in Seq(ByteSet) /\ Len(RlenBytes(k, n)) = Header
      /\ RecordsBytes(k, n) \in Seq(ByteSet) /\ Len(RecordsBytes(k, n)) = n * RowLen
  BY <1>1, PieceBytes
<1>3. n * RowLen \in Nat
  BY <1>1, SystemAssumption
<1>4. FieldPart(k) \in Seq(ByteSet)
  BY PieceBytes, ConcatProperties DEF FieldPart
<1>5. RecordPart(k, n) = Cat(RlenBytes(k, n), RecordsBytes(k, n))
  BY DEF RecordPart, Cat
<1> QED
  BY <1>1, <1>2, <1>3, <1>4, <1>5 DEF n

\* The length of the rows.
LEMMA RecordsLenWaits ==
  ASSUME StreamTypes, SqlInv, Unmixed, NEW c \in Clients, NEW k \in Statements, Waits(c, k),
         SameFor(k), RecvRecordsLen(c), ~ short'[c]
  PROVE  Waits(c, k)'
<1>1. PICK m \in Returned(c, Header) :
        /\ Recv(c, Header, m)
        /\ \E v \in Decoded(c, m) :
             /\ nBytes' = [nBytes EXCEPT ![c] = v]
             /\ handler' = [handler EXCEPT ![c] = AfterRecordsLen(v)]
  BY DEF RecvRecordsLen
<1>2. /\ handler[c] = "rlen" /\ k \in Selects /\ reply[k].kind = "rows" /\ got[c] = FieldPart(k)
  BY DEF RecvRecordsLen, Waits, HandlerFits
<1>3. coming[c] # <<>>
  BY <1>1, ReturnedSome
<1>4. Answered(k) /\ coming[c] = RecordPart(k, reply[k].n)
  BY <1>2, <1>3, Ahead
<1>5. reply[k] \in Replies(k)
  BY <1>4, SentShape
<1>6. /\ reply'[k] = reply[k] /\ Answered(k)' /\ OwnBytes(k)' = OwnBytes(k)
      /\ \A n : FieldPart(k)' = FieldPart(k) /\ RlenBytes(k, n)' = RlenBytes(k, n)
  BY <1>4, SameSent DEF SameFor, FieldPart, FlenBytes, FieldsBytes, RlenBytes
<1> DEFINE n == reply[k].n
           p == Piece("rlen", k, n * RowLen)
           x == RlenBytes(k, n)
           y == RecordsBytes(k, n)
           f == FieldPart(k)
<1>7. /\ n \in Nat /\ n * RowLen \in Nat
      /\ x \in Seq(ByteSet) /\ Len(x) = Header
      /\ y \in Seq(ByteSet) /\ Len(y) = n * RowLen
      /\ f \in Seq(ByteSet)
      /\ RecordPart(k, n) = Cat(x, y)
      /\ OwnBytes(k) = Cat(f, Cat(x, y))
  <2> HIDE DEF n
  <2> QED
    BY <1>2, <1>5, RecordBytes DEF n
<1>8. Sized(p) /\ p.part = "rlen" /\ p.n = n * RowLen /\ x = Bytes(p)
  BY DEF Sized, Piece, RlenBytes
<1>9. coming[c] = Cat(x, y)
  BY <1>4, <1>7
<1> HIDE DEF n, x, y, f
<1>10. Takes(c, x, y) /\ m = Len(x)
  <2>1. m \in Returned(c, Len(x)) /\ Recv(c, Len(x), m)
    BY <1>1, <1>7
  <2> QED
    BY <1>7, <1>9, <2>1, RecvTakes
<1>11. Decoded(c, Header) = {n * RowLen}
  <2>1. Decoded(c, Header) = {p.n}
    <3> HIDE DEF p
    <3> QED
      BY <1>7, <1>8, <1>9, DecodedPiece
  <2> QED
    BY <1>8, <2>1
<1>12. nBytes'[c] = n * RowLen /\ handler'[c] = AfterRecordsLen(n * RowLen)
  BY <1>1, <1>7, <1>10, <1>11 DEF StreamTypes, StreamTypeOK
<1>13. got'[c] = Cat(f, x)
  BY <1>2, <1>10 DEF Takes, f
<1>14. HandlerFits(c, k)'
  <2> DEFINE l == n * RowLen
  <2>1. CASE l = 0
    <3>1. handler'[c] = "idle"
      BY <1>12, <2>1 DEF AfterRecordsLen
    <3>2. y = <<>>
      BY <1>7, <2>1, EmptySeq
    <3>3. Cat(x, y) = x
      BY <1>7, <3>2, CatFacts
    <3>4. got'[c] = OwnBytes(k)
      BY <1>7, <1>13, <3>3
    <3> QED
      BY <1>6, <3>1, <3>4 DEF HandlerFits
  <2>2. CASE l # 0
    <3>1. handler'[c] = "records"
      BY <1>12, <2>2 DEF AfterRecordsLen
    <3>2. nBytes'[c] = reply[k].n * RowLen /\ nBytes'[c] # 0
      BY <1>12, <2>2 DEF n
    <3>3. got'[c] = FieldPart(k) \o RlenBytes(k, reply[k].n)
      BY <1>13 DEF Cat, f, x, n
    <3> QED
      BY <1>2, <1>6, <3>1, <3>2, <3>3 DEF HandlerFits
  <2> QED
    BY <2>1, <2>2
<1> QED
  BY <1>10, <1>14, TakesWaits

\* The rows.
LEMMA RecordsWaits ==
  ASSUME StreamTypes, SqlInv, Unmixed, NEW c \in Clients, NEW k \in Statements, Waits(c, k),
         SameFor(k), RecvRecords(c), ~ short'[c]
  PROVE  Waits(c, k)'
<1>1. PICK m \in Returned(c, nBytes[c]) : Recv(c, nBytes[c], m)
  BY DEF RecvRecords
<1>2. /\ handler[c] = "records" /\ handler'[c] = "idle"
      /\ reply[k].kind = "rows" /\ got[c] = Cat(FieldPart(k), RlenBytes(k, reply[k].n))
      /\ nBytes[c] = reply[k].n * RowLen
  BY DEF RecvRecords, StreamTypes, StreamTypeOK, Waits, HandlerFits, Cat
<1>3. Answered(k) /\ coming[c] = RecordsBytes(k, reply[k].n)
  BY <1>2, Ahead
<1>4. reply[k] \in Replies(k)
  BY <1>3, SentShape
<1>5. Answered(k)' /\ OwnBytes(k)' = OwnBytes(k)
  BY <1>3, SameSent
<1> DEFINE n == reply[k].n
           r == RlenBytes(k, n)
           x == RecordsBytes(k, n)
           f == FieldPart(k)
           e == <<>>
<1>6. /\ r \in Seq(ByteSet) /\ x \in Seq(ByteSet) /\ Len(x) = nBytes[c]
      /\ f \in Seq(ByteSet)
      /\ OwnBytes(k) = Cat(f, Cat(r, x))
  <2> HIDE DEF n
  <2> QED
    BY <1>2, <1>4, RecordBytes DEF n
<1>7. got[c] = Cat(f, r) /\ coming[c] = x /\ e \in Seq(ByteSet)
  BY <1>2, <1>3, EmptySeq
<1> HIDE DEF n, r, x, f
<1>8. x = Cat(x, e) /\ Cat(Cat(f, r), x) = Cat(f, Cat(r, x))
  BY <1>6, CatFacts
<1> HIDE DEF e
<1>9. Takes(c, x, e)
  <2>1. m \in Returned(c, Len(x)) /\ Recv(c, Len(x), m)
    BY <1>1, <1>6
  <2>2. coming[c] = Cat(x, e)
    BY <1>7, <1>8
  <2> QED
    BY <1>6, <1>7, <2>1, <2>2, RecvTakes
<1>10. got'[c] = OwnBytes(k)
  BY <1>6, <1>7, <1>8, <1>9 DEF Takes
<1>11. HandlerFits(c, k)'
  BY <1>2, <1>5, <1>10 DEF HandlerFits
<1> QED
  BY <1>9, <1>11, TakesWaits

\* No length is negative when something has come behind it.
LEMMA NotNegative ==
  ASSUME StreamTypes, SqlInv, Unmixed, NEW c \in Clients, NEW k \in Statements, Waits(c, k)
  PROVE  ~ RecvNegative(c)
<1>1. SUFFICES ASSUME handler[c] \in {"fields", "records"}, coming[c] # <<>>, nBytes[c] < 0 PROVE FALSE
  BY DEF RecvNegative
<1>2. /\ handler[c] = "fields" => reply[k].kind = "error" \/ nBytes[c] = FieldsLen
      /\ handler[c] = "records" => reply[k].kind = "rows" /\ nBytes[c] = reply[k].n * RowLen
  BY DEF Waits, HandlerFits
<1>3. CASE handler[c] = "fields"
  <2>1. FieldsLen \in Nat
    BY SystemAssumption
  <2>2. ~ (FieldsLen < 0)
    BY <2>1
  <2> QED
    BY <1>1, <1>2, <1>3, <2>2, Ahead
<1>4. CASE handler[c] = "records"
  <2>1. Answered(k)
    BY <1>4, Ahead
  <2>2. reply[k] \in Replies(k)
    BY <2>1, SentShape
  <2>3. nBytes[c] \in Nat
    BY <1>2, <1>4, <2>2, RecordBytes
  <2> QED
    BY <1>1, <2>3
<1> QED
  BY <1>1, <1>3, <1>4

\* A handler reads.
LEMMA ReceiveFits ==
  ASSUME StreamTypes, StreamTypes', SqlInv, Unmixed, StreamFits, NEW c \in Clients, Receive(c)
  PROVE  StreamFits'
<1>1. UNCHANGED <<pc, task, reply, answer, asked>>
  BY DEF Receive, sqlVars, workerVars
<1>2. ASSUME NEW k PROVE SameFor(k)
  BY <1>1 DEF SameFor, Fielded
<1>3. ASSUME NEW d \in Clients, d # c PROVE SameClient(d) /\ short'[d] = short[d]
  <2>1. coming'[d] = coming[d] /\ got'[d] = got[d] /\ short'[d] = short[d]
    <3>1. (\E want, n : Recv(c, want, n)) \/ UNCHANGED <<coming, got, short>>
      BY DEF Receive, ClientStep, RecvCount, RecvFieldsLen, RecvFields, RecvRecordsLen, RecvRecords,
             RecvNegative
    <3> QED
      BY <1>3, <3>1 DEF Recv, StreamTypes, StreamTypeOK
  <2>2. handler'[d] = handler[d] /\ nBytes'[d] = nBytes[d]
    BY <1>3 DEF Receive, ClientStep, RecvCount, RecvFieldsLen, RecvFields, RecvRecordsLen, RecvRecords,
                RecvNegative, StreamTypes, StreamTypeOK
  <2> QED
    BY <1>1, <2>1, <2>2 DEF SameClient
<1>4. short[c] => short'[c]
  BY DEF Receive, ClientStep, RecvCount, RecvFieldsLen, RecvFields, RecvRecordsLen, RecvRecords,
         RecvNegative, Recv, StreamTypes, StreamTypeOK
<1>5. ASSUME NEW d \in Clients, ~ short'[d] PROVE ClientFits(d)'
  <2>1. ~ short[d] /\ ClientFits(d)
    BY <1>3, <1>4, <1>5 DEF StreamFits
  <2>2. CASE d # c
    BY <1>2, <1>3, <2>1, <2>2, SameFits
  <2>3. CASE d = c
    <3>1. handler[c] # "idle"
      BY DEF Receive, ClientStep, RecvCount, RecvFieldsLen, RecvFields, RecvRecordsLen, RecvRecords,
             RecvNegative
    <3>2. PICK k \in Statements : asked[c] = k /\ Waits(c, k)
      BY <2>1, <2>3, <3>1 DEF ClientFits
    <3>3. Waits(c, k)'
      BY <1>2, <1>5, <2>3, <3>2, CountWaits, FieldsLenWaits, FieldsWaits, RecordsLenWaits, RecordsWaits,
         NotNegative DEF Receive, ClientStep
    <3> QED
      BY <1>1, <2>3, <3>2, <3>3 DEF ClientFits
  <2> QED
    BY <2>2, <2>3
<1>6. ASSUME NEW v \in Workers PROVE AskedFor(v)'
  <2>1. SUFFICES ASSUME pc[v] \notin {"idle", "unselect"}, ~ short'[Client[task[v]]]
                 PROVE  asked[Client[task[v]]] = task[v]
    BY <1>1 DEF AskedFor
  <2>2. Client[task[v]] \in Clients
    BY <2>1, AnswerAdds
  <2>3. ~ short[Client[task[v]]]
    BY <1>3, <1>4, <2>1, <2>2
  <2> QED
    BY <2>1, <2>3 DEF StreamFits, AskedFor
<1> QED
  BY <1>5, <1>6 DEF StreamFits

-----------------------------------------------------------------------------
(* The invariant of the streams. *)

StreamInv == StreamTypes /\ (~ mixed => StreamFits /\ Awaited)

\* Two queries that have met on the handle have met.
LEMMA MixedStays ==
  ASSUME [Next]_vars
  PROVE  mixed => mixed'
BY DEF Next, vars, sqlVars, Boot, SendSql, Start, Dispatched, StartExecute, Execute, Query, QueryRefused, QuerySend,
  QueryRead, QueryLost, UseResult, AffectedRows, FetchRow, FetchEnd, EndExecute, BeginsQuery,
  AnswerCount, AnswerFields, AnswerRecords, SendCount, SendFields, SendRecords, Receive

\* Every step keeps the invariant.
LEMMA StreamKeeps ==
  ASSUME HandleInv, StreamInv, [Next]_vars
  PROVE  StreamInv'
<1>1. SqlInv /\ StreamTypes /\ Pending
  BY DEF HandleInv, HandleFits, StreamInv
<1>2. StreamTypes'
  BY <1>1, TypesKeep
<1>3. ASSUME ~ mixed' PROVE StreamFits' /\ Awaited'
  <2>1. Unmixed /\ StreamFits /\ Awaited
    BY <1>3, MixedStays DEF HandleInv, HandleFits, StreamInv
  <2>2. CASE UNCHANGED <<streamVars, asked, sqlVars, unread>>
    <3>1. UNCHANGED <<streamVars, asked>> /\ UNCHANGED <<pc, task, reply, answer, short, asked>>
      BY <2>2 DEF sqlVars, workerVars, streamVars
    <3>2. \A k \in Statements : SameFor(k)
      BY <3>1 DEF SameFor, Fielded
    <3>3. \A v \in Workers : AskedFor(v) => AskedFor(v)'
      BY <3>1 DEF AskedFor
    <3> QED
      BY <2>1, <2>2, <3>1, <3>2, <3>3, QuietFits, OtherAwaited
  <2>3. ASSUME NEW c \in Clients, NEW k \in Statements, SendSql(c, k) PROVE StreamFits' /\ Awaited'
    BY <1>1, <2>1, <2>3, SendSqlFits, SendSqlAwaited
  <2>4. ASSUME NEW w \in Workers, NEW k \in Statements, Start(w, k) PROVE StreamFits' /\ Awaited'
    <3>1. UNCHANGED <<streamVars, asked>>
      BY <2>4 DEF Start, Dispatched
    <3> QED
      BY <1>1, <2>1, <2>4, <3>1, StartAwaited, StartSame, QuietFits
  <2>5. ASSUME NEW w \in Workers, Query(w) PROVE StreamFits' /\ Awaited'
    <3>1. UNCHANGED <<streamVars, asked>> /\ UNCHANGED <<unread, asked, short>>
      BY <2>5 DEF Query, streamVars
    <3> QED
      BY <1>1, <2>1, <2>5, <3>1, QuerySame, QuietFits, OtherAwaited
  <2>6. ASSUME NEW w \in Workers, AnswerCount(w) \/ AnswerFields(w) \/ AnswerRecords(w) PROVE StreamFits' /\ Awaited'
    <3>1. UNCHANGED <<unread, asked, short>>
      BY <2>6 DEF AnswerCount, AnswerFields, AnswerRecords, SendsTo
    <3> QED
      BY <1>1, <2>1, <2>6, <3>1, AnswerFits, OtherAwaited
  <2>7. ASSUME NEW c \in Clients, Receive(c) PROVE StreamFits' /\ Awaited'
    <3>1. UNCHANGED <<unread, asked>>
      BY <2>7 DEF Receive
    <3>2. ASSUME NEW d \in Clients, short[d] PROVE short'[d]
      BY <1>1, <2>7, <3>2 DEF Receive, ClientStep, RecvCount, RecvFieldsLen, RecvFields, RecvRecordsLen,
        RecvRecords, RecvNegative, Recv, StreamTypes, StreamTypeOK
    <3> QED
      BY <1>1, <1>2, <2>1, <2>7, <3>1, <3>2, ReceiveFits, OtherAwaited
  <2> QED
    BY <2>2, <2>3, <2>4, <2>5, <2>6, <2>7 DEF Next, vars, Boot, Execute
<1> QED
  BY <1>2, <1>3 DEF StreamInv

\* Nobody has asked for anything.
LEMMA StreamStarts ==
  ASSUME Init
  PROVE  StreamInv
<1>1. /\ asked = [c \in Clients |-> NoStatement] /\ handler = [c \in Clients |-> "idle"]
      /\ coming = [c \in Clients |-> <<>>] /\ pc = [w \in Workers |-> "idle"]
  BY DEF Init, StreamInit, SqlInit
<1>2. \A c \in Clients : ClientFits(c)
  BY <1>1 DEF ClientFits
<1>3. \A w \in Workers : AskedFor(w)
  BY <1>1 DEF AskedFor
<1>4. Awaited
  BY DEF Init, Awaited
<1> QED
  BY <1>2, <1>3, <1>4, TypesInit DEF StreamInv, StreamFits

\* The invariant holds.
LEMMA StreamInvariant == Spec => []StreamInv
<1>1. HandleInv /\ StreamInv /\ [Next]_vars => StreamInv'
  BY StreamKeeps
<1> QED
  BY <1>1, StreamStarts, HandleInvariant, PTL DEF Spec

\* Server and client agree where an answer ends: a handler of the dialog that returns has
\* read the whole reply to its own statement, and nothing is left in the stream for the
\* next one, for all lengths of the answer and of the packets, all sizes the stream may
\* have when Recv looks at it, and all answers that came before.
THEOREM SystemInStep == Spec => []InStep
<1>1. HandleInv /\ StreamInv => InStep
  <2>1. SUFFICES ASSUME HandleInv, StreamInv, NEW c \in Clients, handler[c] = "idle",
                        asked[c] # NoStatement, ~ short[c], ~ mixed
                 PROVE  got[c] = OwnBytes(asked[c]) /\ coming[c] = <<>>
    BY DEF InStep
  <2>2. StreamTypes /\ ClientFits(c)
    BY <2>1 DEF StreamInv, StreamFits
  <2>3. PICK k \in Statements : asked[c] = k
    BY <2>1, <2>2 DEF StreamTypes
  <2>4. coming[c] = <<>> /\ got[c] = OwnBytes(k)
    BY <2>1, <2>2, <2>3, IdleEmpty
  <2> QED
    BY <2>3, <2>4
<1> QED
  BY <1>1, HandleInvariant, StreamInvariant, PTL

\* No handler waits for bytes nobody will send: one whose statement has been executed and
\* that has read all bytes of the answer has returned, after an empty result too.
THEOREM SystemNobodyWaitsForNothing == Spec => []NobodyWaitsForNothing
<1>1. HandleInv /\ StreamInv => NobodyWaitsForNothing
  <2>1. SUFFICES ASSUME HandleInv, StreamInv, NEW c \in Clients, handler[c] # "idle",
                        answer[asked[c]] # NoAnswer, coming[c] = <<>>, ~ short[c], ~ mixed
                 PROVE  asked[c] \in Selects /\ reply[asked[c]].kind = "error"
    BY DEF NobodyWaitsForNothing
  <2>2. StreamTypes /\ SqlInv /\ Unmixed /\ ClientFits(c)
    BY <2>1 DEF HandleInv, HandleFits, StreamInv, StreamFits
  <2>3. PICK k \in Statements : asked[c] = k /\ Waits(c, k)
    BY <2>1, <2>2 DEF ClientFits
  <2>4. Answered(k)
    BY <2>1, <2>3 DEF Answered
  <2>5. reply[k] \in Replies(k) /\ reply[k].kind \in {"error", "ok", "rows"}
    BY <2>2, <2>4, SentShape
  <2>6. HandlerFits(c, k) /\ handler[c] \in HandlerPc
    BY <2>2, <2>3 DEF Waits, StreamTypes, StreamTypeOK
  <2>7. Header \in Nat /\ Header > 0 /\ FieldsLen \in Nat /\ FieldsLen > 0
    BY StreamAssumption, SystemAssumption
  <2>8. ASSUME NEW x \in Seq(ByteSet), NEW y \in Seq(ByteSet), Len(x) > 0 PROVE Cat(x, y) # <<>> /\ x # <<>>
    <3>1. Len(Cat(x, y)) = Len(x) + Len(y) /\ Len(x) \in Nat /\ Len(y) \in Nat
      BY CatFacts, LenProperties
    <3>2. \A m \in Nat, l \in Nat : m > 0 => m + l # 0
      OBVIOUS
    <3>3. Len(Cat(x, y)) # 0
      BY <2>8, <3>1, <3>2
    <3>4. Len(<<>>) = 0
      OBVIOUS
    <3> QED
      BY <2>8, <3>3, <3>4
  <2>9. ASSUME reply[k].kind = "rows" PROVE OwnBytes(k) # <<>>
    <3> DEFINE u == FlenBytes(k)
               f == FieldsBytes(k)
               r == RecordPart(k, reply[k].n)
    <3>1. u \in Seq(ByteSet) /\ Len(u) > 0 /\ f \in Seq(ByteSet)
      BY <2>7, PieceBytes
    <3>2. r \in Seq(ByteSet)
      <4> DEFINE n == reply[k].n
                 a == RlenBytes(k, n)
                 b == RecordsBytes(k, n)
      <4>1. a \in Seq(ByteSet) /\ b \in Seq(ByteSet) /\ r = Cat(a, b)
        BY <2>5, <2>9, RecordBytes
      <4> HIDE DEF a, b, r
      <4> QED
        BY <4>1, CatFacts
    <3>3. OwnBytes(k) = Cat(Cat(u, f), r)
      BY <2>5, <2>9, OwnBytesShape DEF Cat, FieldPart
    <3> HIDE DEF u, f, r
    <3>4. Cat(Cat(u, f), r) = Cat(u, Cat(f, r)) /\ Cat(f, r) \in Seq(ByteSet)
      BY <3>1, <3>2, CatFacts
    <3> DEFINE z == Cat(f, r)
    <3>5. OwnBytes(k) = Cat(u, z) /\ z \in Seq(ByteSet)
      BY <3>3, <3>4
    <3> HIDE DEF z
    <3> QED
      BY <2>8, <3>1, <3>5
  <2>10. ASSUME reply[k].kind = "error" PROVE OwnBytes(k) # <<>>
    BY <2>5, <2>7, <2>8, <2>10, OwnBytesShape, RefusedBytes
  <2>11. ASSUME reply[k].kind = "ok" PROVE OwnBytes(k) # <<>>
    <3>1. reply[k].n \in Int /\ OwnBytes(k) = CountBytes(k, reply[k].n)
      BY <2>5, <2>11, OwnBytesShape
    <3>2. \A n \in Int : CountBytes(k, n) \in Seq(ByteSet) /\ Len(CountBytes(k, n)) = Header
      BY PieceBytes
    <3> QED
      BY <2>7, <2>8, <3>1, <3>2
  <2>12. Sent(k) # <<>>
    BY <2>4, <2>5, <2>9, <2>10, <2>11 DEF Sent
  <2>13. ~ (handler[c] \in {"count", "flen"})
    BY <2>1, <2>2, <2>3, <2>12, Ahead
  <2>14. CASE handler[c] = "fields"
    <3>1. reply[k].kind # "rows"
      <4>1. SUFFICES ASSUME reply[k].kind = "rows" PROVE FALSE
        OBVIOUS
      <4>2. PICK y \in Seq(ByteSet) : coming[c] = Cat(FieldsBytes(k), y)
        BY <2>2, <2>3, <2>14, <4>1, Ahead
      <4>3. FieldsBytes(k) \in Seq(ByteSet) /\ Len(FieldsBytes(k)) > 0
        BY <2>7, PieceBytes
      <4> QED
        BY <2>1, <2>8, <4>2, <4>3
    <3> QED
      BY <2>3, <2>6, <2>14, <3>1 DEF HandlerFits
  <2>15. ~ (handler[c] = "rlen")
    <3>1. SUFFICES ASSUME handler[c] = "rlen" PROVE FALSE
      OBVIOUS
    <3>2. reply[k].kind = "rows" /\ coming[c] = RecordPart(k, reply[k].n)
      BY <2>2, <2>3, <2>4, <2>6, <3>1, Ahead DEF HandlerFits
    <3> DEFINE a == RlenBytes(k, reply[k].n)
               b == RecordsBytes(k, reply[k].n)
    <3>3. a \in Seq(ByteSet) /\ b \in Seq(ByteSet) /\ Len(a) = Header /\ coming[c] = Cat(a, b)
      BY <2>5, <3>2, RecordBytes
    <3> HIDE DEF a, b
    <3> QED
      BY <2>1, <2>7, <2>8, <3>3
  <2>16. ~ (handler[c] = "records")
    <3>1. SUFFICES ASSUME handler[c] = "records" PROVE FALSE
      OBVIOUS
    <3>2. /\ reply[k].kind = "rows" /\ coming[c] = RecordsBytes(k, reply[k].n)
          /\ reply[k].n * RowLen # 0
      BY <2>2, <2>3, <2>6, <3>1, Ahead DEF HandlerFits
    <3>3. Len(coming[c]) # 0
      BY <2>5, <3>2, RecordBytes
    <3>4. Len(<<>>) = 0
      OBVIOUS
    <3> QED
      BY <2>1, <3>3, <3>4
  <2> QED
    BY <2>1, <2>6, <2>13, <2>14, <2>15, <2>16 DEF HandlerPc, HandlerFits
<1> QED
  BY <1>1, HandleInvariant, StreamInvariant, PTL
=============================================================================
