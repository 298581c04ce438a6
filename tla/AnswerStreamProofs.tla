-------------------------- MODULE AnswerStreamProofs --------------------------
(***************************************************************************)
(* Cutting an answer into packets and putting it together again loses      *)
(* nothing, whatever its length and the size of a packet.                  *)
(***************************************************************************)
EXTENDS AnswerStream, SequenceTheorems, WellFoundedInduction, TLAPS

\* A set of numbers that is not empty has a least one.
LEMMA LeastNumber ==
  ASSUME NEW T, T \subseteq Nat, T # {}
  PROVE  \E x \in T : \A y \in T : x <= y
<1>1. \E x \in T : \A y \in T : ~ (<<y, x>> \in OpToRel(<, Nat))
  BY NatLessThanWellFounded, WFMin
<1>2. PICK x \in T : \A y \in T : ~ (<<y, x>> \in OpToRel(<, Nat))
  BY <1>1
<1>3. \A y \in T : ~ (y < x)
  BY <1>2 DEF OpToRel
<1> QED
  BY <1>3

\* g[i] is the first i parts of s, one behind the other.
Flattens(g, s) == g = [i \in 1 .. Len(s) |-> IF i = 1 THEN s[i] ELSE g[i - 1] \o s[i]]

\* FlattenSeq puts the parts one behind the other: any function that does so gives it.
LEMMA FlattenIs ==
  ASSUME NEW s, Len(s) \in Nat, Len(s) # 0,
         NEW g, Flattens(g, s)
  PROVE  FlattenSeq(s) = g[Len(s)]
<1> DEFINE f == CHOOSE h : h = [i \in 1 .. Len(s) |-> IF i = 1 THEN s[i] ELSE h[i - 1] \o s[i]]
<1>1. f = [i \in 1 .. Len(s) |-> IF i = 1 THEN s[i] ELSE f[i - 1] \o s[i]]
  BY DEF Flattens
<1>2. FlattenSeq(s) = f[Len(s)]
  BY DEF FlattenSeq
<1> HIDE DEF f
<1>3. ASSUME NEW i \in 1 .. Len(s), f[i] # g[i] PROVE FALSE
  <2> DEFINE T == {n \in 1 .. Len(s) : f[n] # g[n]}
  <2>1. T \subseteq Nat /\ i \in T
    BY <1>3
  <2> HIDE DEF T
  <2>2. PICK x \in T : \A y \in T : x <= y
    BY <2>1, LeastNumber
  <2>3. x \in 1 .. Len(s) /\ f[x] # g[x]
    BY <2>2 DEF T
  <2>4. x # 1
    <3>1. f[1] = s[1]
      BY <1>1
    <3>2. g[1] = s[1]
      BY DEF Flattens
    <3> QED
      BY <2>3, <3>1, <3>2
  <2>5. x - 1 \in 1 .. Len(s) /\ ~ (x <= x - 1)
    BY <2>3, <2>4
  <2>6. f[x - 1] = g[x - 1]
    BY <2>2, <2>5 DEF T
  <2>7. f[x] = f[x - 1] \o s[x]
    BY <1>1, <2>3, <2>4
  <2>8. g[x] = g[x - 1] \o s[x]
    BY <2>3, <2>4 DEF Flattens
  <2> QED
    BY <2>3, <2>6, <2>7, <2>8
<1>4. Len(s) \in 1 .. Len(s)
  OBVIOUS
<1> QED
  BY <1>2, <1>3, <1>4

\* Concatenation as an operator: facts about nested ones are cited in this form.
Cat(a, b) == a \o b
CatFour(a, b, c, d) == Cat(Cat(Cat(a, b), c), d)

\* It is associative.
LEMMA CatAssociative ==
  ASSUME NEW A, NEW a \in Seq(A), NEW b \in Seq(A), NEW c \in Seq(A)
  PROVE  Cat(Cat(a, b), c) = Cat(a, Cat(b, c)) /\ Cat(a, b) \in Seq(A)
BY ConcatAssociative DEF Cat

\* Flattening no, one, two or four parts.
LEMMA FlattenShort ==
  ASSUME NEW a, NEW b
  PROVE  /\ FlattenSeq(<<>>) = <<>>
         /\ FlattenSeq(<<a>>) = a
         /\ FlattenSeq(<<a, b>>) = a \o b
<1>1. FlattenSeq(<<>>) = <<>>
  BY DEF FlattenSeq
<1>2. FlattenSeq(<<a>>) = a
  <2> DEFINE s == <<a>>
             g == [i \in 1 .. 1 |-> a]
  <2>1. Len(s) = 1 /\ s[1] = a
    OBVIOUS
  <2>2. Flattens(g, s)
    <3> HIDE DEF s
    <3>1. \A i \in 1 .. 1 : i = 1
      OBVIOUS
    <3> QED
      BY <2>1, <3>1, Zenon DEF Flattens
  <2>3. g[1] = a
    OBVIOUS
  <2> HIDE DEF s, g
  <2>4. Len(s) \in Nat /\ Len(s) # 0
    BY <2>1
  <2>5. FlattenSeq(s) = g[Len(s)]
    BY <2>2, <2>4, FlattenIs
  <2> QED
    BY <2>1, <2>3, <2>5 DEF s
<1>3. FlattenSeq(<<a, b>>) = a \o b
  <2> DEFINE s == <<a, b>>
             g == [i \in 1 .. 2 |-> IF i = 1 THEN a ELSE a \o b]
  <2>1. Len(s) = 2 /\ s[1] = a /\ s[2] = b
    OBVIOUS
  <2>2. Flattens(g, s)
    <3>1. \A i \in 1 .. 2 : i = 1 \/ i = 2
      OBVIOUS
    <3>2. g[1] = a
      OBVIOUS
    <3>3. ASSUME NEW i \in 1 .. 2
          PROVE  (IF i = 1 THEN a ELSE a \o b) = IF i = 1 THEN s[i] ELSE g[i - 1] \o s[i]
      <4> HIDE DEF s, g
      <4>0. i = 1 \/ i = 2
        BY <3>1
      <4>1. CASE i = 1
        BY <2>1, <4>1
      <4>2. CASE i = 2
        <5>1. i - 1 = 1 /\ i # 1
          BY <4>2
        <5>2. g[i - 1] = a /\ s[i] = b
          BY <2>1, <3>2, <4>2, <5>1
        <5> QED
          BY <5>1, <5>2
      <4> QED
        BY <4>0, <4>1, <4>2
    <3> DEFINE v(i) == IF i = 1 THEN s[i] ELSE g[i - 1] \o s[i]
               u(i) == IF i = 1 THEN a ELSE a \o b
    <3>4. \A i \in 1 .. 2 : u(i) = v(i)
      BY <3>3
    <3> HIDE DEF u, v
    <3>5. [i \in 1 .. 2 |-> u(i)] = [i \in 1 .. 2 |-> v(i)]
      BY <3>4
    <3> QED
      BY <2>1, <3>5 DEF u, v, Flattens
  <2>3. g[2] = a \o b
    OBVIOUS
  <2> HIDE DEF s, g
  <2>4. Len(s) \in Nat /\ Len(s) # 0
    BY <2>1
  <2>5. FlattenSeq(s) = g[Len(s)]
    BY <2>2, <2>4, FlattenIs
  <2> QED
    BY <2>1, <2>3, <2>5 DEF s
<1> QED
  BY <1>1, <1>2, <1>3

\* A sequence of four parts.
LEMMA FlattenParts ==
  ASSUME NEW a, NEW b, NEW c, NEW d
  PROVE  FlattenSeq(<<a, b, c, d>>) = CatFour(a, b, c, d)
<1>1. FlattenSeq(<<a, b, c, d>>) = ((a \o b) \o c) \o d
  <2> DEFINE s == <<a, b, c, d>>
             u(i) == IF i = 1 THEN a ELSE IF i = 2 THEN a \o b ELSE IF i = 3 THEN (a \o b) \o c
                     ELSE ((a \o b) \o c) \o d
             g == [i \in 1 .. 4 |-> u(i)]
  <2>1. Len(s) = 4 /\ s[1] = a /\ s[2] = b /\ s[3] = c /\ s[4] = d
    OBVIOUS
  <2>2. Flattens(g, s)
    <3>1. \A i \in 1 .. 4 : i = 1 \/ i = 2 \/ i = 3 \/ i = 4
      OBVIOUS
    <3>2. g[1] = a /\ g[2] = a \o b /\ g[3] = (a \o b) \o c
      OBVIOUS
    <3>3. u(1) = a /\ u(2) = a \o b /\ u(3) = (a \o b) \o c /\ u(4) = ((a \o b) \o c) \o d
      OBVIOUS
    <3>4. g = [i \in 1 .. 4 |-> u(i)]
      OBVIOUS
    <3> DEFINE v(i) == IF i = 1 THEN s[i] ELSE g[i - 1] \o s[i]
    <3> HIDE DEF s, g, u
    <3>5. v(1) = s[1] /\ v(2) = g[1] \o s[2] /\ v(3) = g[2] \o s[3] /\ v(4) = g[3] \o s[4]
      OBVIOUS
    <3> HIDE DEF v
    <3>6. \A i \in 1 .. 4 : u(i) = v(i)
      BY <2>1, <3>1, <3>2, <3>3, <3>5
    <3>7. g = [i \in 1 .. 4 |-> v(i)]
      BY <3>4, <3>6
    <3> QED
      BY <2>1, <3>7 DEF v, Flattens
  <2>3. g[4] = ((a \o b) \o c) \o d
    OBVIOUS
  <2> HIDE DEF s, g
  <2>4. Len(s) \in Nat /\ Len(s) # 0
    BY <2>1
  <2>5. FlattenSeq(s) = g[Len(s)]
    BY <2>2, <2>4, FlattenIs
  <2> QED
    BY <2>1, <2>3, <2>5 DEF s
<1> QED
  BY <1>1 DEF Cat, CatFour

\* Two stretches of a sequence that follow one another.
LEMMA JoinStretches ==
  ASSUME NEW A, NEW b \in Seq(A), NEW m \in Nat, NEW n \in Nat, m <= n, n <= Len(b)
  PROVE  SubSeq(b, 1, m) \o SubSeq(b, m + 1, n) = SubSeq(b, 1, n)
<1> DEFINE p == SubSeq(b, 1, m)
           q == SubSeq(b, m + 1, n)
           r == SubSeq(b, 1, n)
<1>1. p \in Seq(A) /\ Len(p) = m /\ \A i \in 1 .. m : p[i] = b[i]
  OBVIOUS
<1>2. q \in Seq(A) /\ Len(q) = n - m /\ \A i \in 1 .. n - m : q[i] = b[m + i]
  OBVIOUS
<1>3. r \in Seq(A) /\ Len(r) = n /\ \A i \in 1 .. n : r[i] = b[i]
  OBVIOUS
<1> DEFINE x == p \o q
<1> HIDE DEF p, q, r
<1>4. /\ x \in Seq(A) /\ Len(x) = Len(p) + Len(q)
      /\ \A i \in 1 .. Len(p) + Len(q) : x[i] = IF i <= Len(p) THEN p[i] ELSE q[i - Len(p)]
  BY <1>1, <1>2, ConcatProperties
<1> HIDE DEF x
<1>5. Len(x) = n
  BY <1>1, <1>2, <1>4
<1>6. ASSUME NEW i \in 1 .. n PROVE x[i] = r[i]
  <2>1. CASE i <= m
    <3>1. i \in 1 .. m /\ i \in 1 .. Len(p) + Len(q) /\ i <= Len(p)
      BY <1>1, <1>2, <2>1
    <3> QED
      BY <1>1, <1>3, <1>4, <3>1
  <2>2. CASE ~ (i <= m)
    <3>1. i - m \in 1 .. n - m /\ m + (i - m) = i
      BY <2>2
    <3>2. x[i] = q[i - m]
      BY <1>1, <1>2, <1>4, <2>2
    <3>3. q[i - m] = b[m + (i - m)]
      BY <1>2, <3>1
    <3> QED
      BY <1>3, <3>1, <3>2, <3>3
  <2> QED
    BY <2>1, <2>2
<1> QED
  BY <1>3, <1>4, <1>5, <1>6, SeqEqual DEF x, p, q, r

\* CTcpSocket::Send cuts a piece into full packets and a rest; put one behind the other
\* they are the piece.
THEOREM PacketsKeepBytes ==
  ASSUME NEW A, NEW b \in Seq(A)
  PROVE  FlattenSeq(Packets(b)) = b
<1> DEFINE L == Len(b)
           D == DataLen
           full == L \div D
           rem == L % D
           P == Packets(b)
           head == [i \in 1 .. full |-> SubSeq(b, (i - 1) * D + 1, i * D)]
           rest == SubSeq(b, full * D + 1, L)
<1>1. L \in Nat /\ D \in Nat /\ D # 0
  BY StreamAssumption
<1> HIDE DEF L, D
<1>2. full \in Nat /\ rem \in 0 .. D - 1 /\ L = full * D + rem
  BY <1>1
<1>3. P = head \o (IF rem # 0 THEN <<rest>> ELSE <<>>)
  BY DEF Packets, L, D
<1>4. L = Len(b)
  BY DEF L
<1> HIDE DEF P, full, rem
<1> DEFINE end(i) == IF i <= full THEN i * D ELSE L
           N == IF rem # 0 THEN full + 1 ELSE full
<1>5. N \in Nat /\ end(N) = L
  BY <1>1, <1>2
<1>6. ASSUME NEW i \in 1 .. N
      PROVE  /\ end(i) \in Nat /\ end(i) <= L
             /\ i # 1 => end(i - 1) \in Nat /\ end(i - 1) <= end(i)
  <2>1. i \in Nat /\ i >= 1 /\ (i <= full \/ i = full + 1)
    BY <1>2
  <2>2. CASE i <= full
    <3>1. i * D \in Nat /\ i * D <= full * D
      BY <1>1, <1>2, <2>1, <2>2
    <3>2. (i - 1) * D \in Nat /\ (i - 1) * D <= i * D
      BY <1>1, <2>1
    <3>3. i - 1 <= full
      BY <1>2, <2>1, <2>2
    <3> QED
      BY <1>1, <1>2, <2>2, <3>1, <3>2, <3>3
  <2>3. CASE i = full + 1
    <3>1. ~ (i <= full) /\ i - 1 <= full /\ i - 1 = full
      BY <1>2, <2>3
    <3>2. full * D \in Nat /\ full * D <= L
      BY <1>1, <1>2
    <3> QED
      BY <1>1, <3>1, <3>2
  <2> QED
    BY <2>1, <2>2, <2>3
<1>7. /\ Len(P) = N
      /\ \A i \in 1 .. N : P[i] = SubSeq(b, (IF i = 1 THEN 0 ELSE end(i - 1)) + 1, end(i))
  <2>1. head \in Seq(Seq(A)) /\ Len(head) = full
    <3>1. \A i \in 1 .. full : SubSeq(b, (i - 1) * D + 1, i * D) \in Seq(A)
      <4>1. SUFFICES ASSUME NEW i \in 1 .. full PROVE SubSeq(b, (i - 1) * D + 1, i * D) \in Seq(A)
        OBVIOUS
      <4>2. (i - 1) * D + 1 \in Nat /\ (i - 1) * D + 1 >= 1 /\ i * D \in Nat
        BY <1>1, <1>2
      <4>3. i * D <= full * D
        BY <1>1, <1>2
      <4>4. i * D <= Len(b)
        BY <1>1, <1>2, <1>4, <4>2, <4>3
      <4> DEFINE lo == (i - 1) * D + 1
                 hi == i * D
      <4>5. lo \in Nat /\ lo >= 1 /\ hi \in Nat /\ hi <= Len(b)
        BY <4>2, <4>4
      <4> HIDE DEF lo, hi
      <4>6. SubSeq(b, lo, hi) \in Seq(A)
        BY <4>5
      <4> QED
        BY <4>6 DEF lo, hi
    <3> QED
      BY <1>2, <3>1
  <2>2. \A i \in 1 .. full : head[i] = SubSeq(b, (i - 1) * D + 1, i * D)
    OBVIOUS
  <2>3. rest \in Seq(A)
    <3>1. full * D + 1 \in Nat /\ full * D + 1 >= 1
      BY <1>1, <1>2
    <3> QED
      BY <1>1, <1>4, <3>1
  <2> HIDE DEF head, rest
  <2>4. CASE rem = 0
    <3>1. P = head /\ N = full
      BY <1>3, <2>1, <2>4
    <3>2. ASSUME NEW i \in 1 .. N
          PROVE  P[i] = SubSeq(b, (IF i = 1 THEN 0 ELSE end(i - 1)) + 1, end(i))
      <4>1. i \in Nat /\ i <= full /\ i - 1 <= full /\ (i = 1 => (i - 1) * D = 0)
        BY <1>1, <1>2, <3>1
      <4> QED
        BY <2>2, <3>1, <4>1
    <3> QED
      BY <2>1, <3>1, <3>2
  <2>5. CASE rem # 0
    <3>1. P = Append(head, rest) /\ N = full + 1
      BY <1>3, <2>1, <2>3, <2>5, AppendIsConcat
    <3>2. Len(P) = full + 1 /\ P[full + 1] = rest /\ \A i \in 1 .. full : P[i] = head[i]
      BY <1>2, <2>1, <2>3, <3>1, AppendProperties
    <3>3. ASSUME NEW i \in 1 .. N
          PROVE  P[i] = SubSeq(b, (IF i = 1 THEN 0 ELSE end(i - 1)) + 1, end(i))
      <4>1. CASE i <= full
        <5>1. i \in 1 .. full /\ i - 1 <= full /\ (i = 1 => (i - 1) * D = 0)
          BY <1>1, <1>2, <3>1, <4>1
        <5> QED
          BY <2>2, <3>2, <4>1, <5>1
      <4>2. CASE ~ (i <= full)
        <5>1. i = full + 1 /\ i - 1 = full /\ i - 1 <= full /\ (i = 1 => full * D = 0)
          BY <1>1, <1>2, <3>1, <4>2
        <5> QED
          BY <3>2, <4>2, <5>1 DEF rest
      <4> QED
        BY <4>1, <4>2
    <3> QED
      BY <3>1, <3>2, <3>3
  <2> QED
    BY <2>4, <2>5
<1>8. CASE N = 0
  <2>1. P = <<>> /\ L = 0
    <3>1. full = 0 /\ rem = 0
      BY <1>2, <1>8
    <3>2. L = 0
      BY <1>1, <1>2, <3>1
    <3>3. head = <<>>
      BY <3>1
    <3> QED
      BY <1>3, <3>1, <3>2, <3>3
  <2>2. b = <<>>
    BY <1>4, <2>1, EmptySeq
  <2>3. FlattenSeq(<<>>) = <<>>
    BY FlattenShort
  <2> QED
    BY <2>1, <2>2, <2>3 DEF P
<1>9. CASE N # 0
  <2> DEFINE g == [i \in 1 .. N |-> SubSeq(b, 1, end(i))]
  <2> HIDE DEF N, end
  <2>1. ASSUME NEW i \in 1 .. N
        PROVE  SubSeq(b, 1, end(i)) = IF i = 1 THEN P[i] ELSE g[i - 1] \o P[i]
    <3>1. CASE i = 1
      <4>1. P[i] = SubSeq(b, 0 + 1, end(i))
        BY <1>7, <3>1
      <4> QED
        BY <3>1, <4>1
    <3>2. CASE i # 1
      <4>1. end(i) \in Nat /\ end(i) <= Len(b) /\ end(i - 1) \in Nat /\ end(i - 1) <= end(i)
        BY <1>4, <1>6, <3>2
      <4>2. P[i] = SubSeq(b, end(i - 1) + 1, end(i))
        BY <1>7, <3>2
      <4>3. i - 1 \in 1 .. N
        BY <1>5, <3>2
      <4>4. g[i - 1] = SubSeq(b, 1, end(i - 1))
        BY <4>3
      <4> HIDE DEF g
      <4>5. SubSeq(b, 1, end(i - 1)) \o SubSeq(b, end(i - 1) + 1, end(i)) = SubSeq(b, 1, end(i))
        BY <4>1, JoinStretches
      <4> QED
        BY <3>2, <4>2, <4>4, <4>5
    <3> QED
      BY <3>1, <3>2
  <2>2. Flattens(g, P)
    <3> DEFINE u(i) == SubSeq(b, 1, end(i))
               v(i) == IF i = 1 THEN P[i] ELSE g[i - 1] \o P[i]
    <3>1. \A i \in 1 .. N : u(i) = v(i)
      BY <2>1
    <3>2. g = [i \in 1 .. N |-> u(i)]
      OBVIOUS
    <3> HIDE DEF u, v, g
    <3>3. g = [i \in 1 .. N |-> v(i)]
      BY <3>1, <3>2
    <3> QED
      BY <1>7, <3>3 DEF v, Flattens
  <2>3. g[N] = SubSeq(b, 1, end(N))
    <3>1. N \in 1 .. N
      BY <1>5, <1>9
    <3> QED
      BY <3>1
  <2> HIDE DEF g
  <2>4. Len(P) \in Nat /\ Len(P) # 0
    BY <1>5, <1>7, <1>9
  <2>5. FlattenSeq(P) = g[Len(P)]
    BY <2>2, <2>4, FlattenIs
  <2>6. SubSeq(b, 1, L) = b
    BY <1>4
  <2> QED
    BY <1>5, <1>7, <2>3, <2>5, <2>6 DEF P
<1> QED
  BY <1>8, <1>9

-----------------------------------------------------------------------------
(* The pieces of an answer. *)

\* A piece has the bytes of an int or those of a text.
Sized(p) == p.part \in {"fields", "records"} => p.n \in Nat

Size(p) == IF p.part \in {"fields", "records"} THEN p.n ELSE Header

\* The bytes of a piece are in its order.
LEMMA BytesShape ==
  ASSUME NEW p, Sized(p)
  PROVE  /\ Size(p) \in Nat
         /\ Bytes(p) \in Seq({p} \X Nat)
         /\ Len(Bytes(p)) = Size(p)
         /\ \A i \in 1 .. Size(p) : Bytes(p)[i] = <<p, i>>
<1>1. Size(p) \in Nat
  BY StreamAssumption DEF Sized, Size
<1>2. Bytes(p) = [i \in 1 .. Size(p) |-> <<p, i>>]
  BY DEF Bytes, Size
<1> HIDE DEF Size
<1>3. \A i \in 1 .. Size(p) : <<p, i>> \in {p} \X Nat
  BY <1>1
<1> QED
  BY <1>1, <1>2, <1>3

\* What Send makes of one piece and of two.
LEMMA SendOne ==
  ASSUME NEW p, Sized(p)
  PROVE  FlattenSeq([i \in DOMAIN <<p>> |-> FlattenSeq(Packets(Bytes(<<p>>[i])))]) = Bytes(p)
<1>1. FlattenSeq(Packets(Bytes(p))) = Bytes(p)
  BY BytesShape, PacketsKeepBytes
<1>2. [i \in DOMAIN <<p>> |-> FlattenSeq(Packets(Bytes(<<p>>[i])))] = <<FlattenSeq(Packets(Bytes(p)))>>
  <2> DEFINE F(x) == FlattenSeq(Packets(Bytes(x)))
  <2> HIDE DEF F
  <2>1. [i \in DOMAIN <<p>> |-> F(<<p>>[i])] = <<F(p)>>
    OBVIOUS
  <2> QED
    BY <2>1 DEF F
<1> QED
  BY <1>1, <1>2, FlattenShort

\* Two pieces.
LEMMA SendTwo ==
  ASSUME NEW p, NEW q, Sized(p), Sized(q)
  PROVE  FlattenSeq([i \in DOMAIN <<p, q>> |-> FlattenSeq(Packets(Bytes(<<p, q>>[i])))])
           = Bytes(p) \o Bytes(q)
<1>1. FlattenSeq(Packets(Bytes(p))) = Bytes(p) /\ FlattenSeq(Packets(Bytes(q))) = Bytes(q)
  BY BytesShape, PacketsKeepBytes
<1>2. [i \in DOMAIN <<p, q>> |-> FlattenSeq(Packets(Bytes(<<p, q>>[i])))]
        = <<FlattenSeq(Packets(Bytes(p))), FlattenSeq(Packets(Bytes(q)))>>
  <2> DEFINE F(x) == FlattenSeq(Packets(Bytes(x)))
  <2> HIDE DEF F
  <2>1. [i \in DOMAIN <<p, q>> |-> F(<<p, q>>[i])] = <<F(p), F(q)>>
    OBVIOUS
  <2> QED
    BY <2>1 DEF F
<1>3. FlattenSeq(<<Bytes(p), Bytes(q)>>) = Bytes(p) \o Bytes(q)
  BY FlattenShort
<1> QED
  BY <1>1, <1>2, <1>3

\* Recv of the size of the first piece takes that piece and leaves the others.
LEMMA TakePiece ==
  ASSUME NEW A, NEW a \in Seq(A), NEW b \in Seq(A)
  PROVE  /\ SubSeq(a \o b, 1, Len(a)) = a
         /\ SubSeq(a \o b, Len(a) + 1, Len(a \o b)) = b
         /\ Len(a \o b) = Len(a) + Len(b)
<1> DEFINE x == a \o b
           l == SubSeq(x, 1, Len(a))
           r == SubSeq(x, Len(a) + 1, Len(x))
<1>1. /\ x \in Seq(A) /\ Len(x) = Len(a) + Len(b) /\ Len(a) \in Nat /\ Len(b) \in Nat
      /\ \A i \in 1 .. Len(a) + Len(b) : x[i] = IF i <= Len(a) THEN a[i] ELSE b[i - Len(a)]
  BY ConcatProperties, LenProperties
<1> HIDE DEF x
<1>2. l \in Seq(A) /\ Len(l) = Len(a) /\ \A i \in 1 .. Len(a) : l[i] = x[i]
  BY <1>1
<1>3. r \in Seq(A) /\ Len(r) = Len(b) /\ \A i \in 1 .. Len(b) : r[i] = x[Len(a) + i]
  BY <1>1
<1> HIDE DEF l, r
<1>4. ASSUME NEW i \in 1 .. Len(a) PROVE l[i] = a[i]
  <2>1. i \in 1 .. Len(a) + Len(b) /\ i <= Len(a)
    BY <1>1
  <2> QED
    BY <1>1, <1>2, <2>1
<1>5. ASSUME NEW i \in 1 .. Len(b) PROVE r[i] = b[i]
  <2>1. Len(a) + i \in 1 .. Len(a) + Len(b) /\ ~ (Len(a) + i <= Len(a)) /\ (Len(a) + i) - Len(a) = i
    BY <1>1
  <2>2. x[Len(a) + i] = b[(Len(a) + i) - Len(a)]
    BY <1>1, <2>1
  <2> QED
    BY <1>3, <2>1, <2>2
<1>6. l = a
  BY <1>2, <1>4, SeqEqual
<1>7. r = b
  BY <1>3, <1>5, SeqEqual
<1> QED
  BY <1>1, <1>6, <1>7 DEF l, r, x

\* Four sequences one after the other.
LEMMA FourInTwos ==
  ASSUME NEW A, NEW a \in Seq(A), NEW b \in Seq(A), NEW c \in Seq(A), NEW d \in Seq(A)
  PROVE  FlattenSeq(<<a, b, c, d>>) = Cat(Cat(a, b), Cat(c, d))
<1>1. FlattenSeq(<<a, b, c, d>>) = CatFour(a, b, c, d)
  BY FlattenParts
<1>2. Cat(a, b) \in Seq(A)
  BY CatAssociative
<1>3. CatFour(a, b, c, d) = Cat(Cat(a, b), Cat(c, d))
  BY <1>2, CatAssociative DEF CatFour
<1> QED
  BY <1>1, <1>3

\* Four pieces one after the other.
LEMMA FlattenFour ==
  ASSUME NEW A, NEW p, NEW q, NEW u, NEW v,
         Bytes(p) \in Seq(A), Bytes(q) \in Seq(A), Bytes(u) \in Seq(A), Bytes(v) \in Seq(A)
  PROVE  FlattenSeq([i \in DOMAIN (<<p, q>> \o <<u, v>>) |-> Bytes((<<p, q>> \o <<u, v>>)[i])])
           = Cat(Cat(Bytes(p), Bytes(q)), Cat(Bytes(u), Bytes(v)))
<1> DEFINE P == <<p, q, u, v>>
<1>1. <<p, q>> \o <<u, v>> = P
  <2> DEFINE S == {p, q, u, v}
             x == <<p, q>>
             y == <<u, v>>
             z == x \o y
  <2>1. /\ x \in Seq(S) /\ Len(x) = 2 /\ x[1] = p /\ x[2] = q
        /\ y \in Seq(S) /\ Len(y) = 2 /\ y[1] = u /\ y[2] = v
        /\ P \in Seq(S) /\ Len(P) = 4 /\ P[1] = p /\ P[2] = q /\ P[3] = u /\ P[4] = v
    OBVIOUS
  <2> HIDE DEF S, x, y, P
  <2>2. /\ z \in Seq(S) /\ Len(z) = Len(x) + Len(y)
        /\ \A i \in 1 .. Len(x) + Len(y) : z[i] = IF i <= Len(x) THEN x[i] ELSE y[i - Len(x)]
    BY <2>1, ConcatProperties
  <2> HIDE DEF z
  <2>3. Len(z) = 4 /\ z[1] = p /\ z[2] = q /\ z[3] = u /\ z[4] = v
    BY <2>1, <2>2
  <2>4. \A i \in 1 .. 4 : i = 1 \/ i = 2 \/ i = 3 \/ i = 4
    OBVIOUS
  <2>5. \A i \in 1 .. Len(z) : z[i] = P[i]
    BY <2>1, <2>3, <2>4
  <2>6. z = P
    <3>1. z \in Seq(S) /\ P \in Seq(S) /\ Len(z) = Len(P)
      BY <2>1, <2>2, <2>3
    <3> QED
      BY <2>5, <3>1, SeqEqual
  <2> QED
    BY <2>6 DEF z, x, y
<1>2. [i \in DOMAIN P |-> Bytes(P[i])] = <<Bytes(p), Bytes(q), Bytes(u), Bytes(v)>>
  <2> DEFINE F(x) == Bytes(x)
  <2> HIDE DEF F
  <2>1. [i \in DOMAIN P |-> F(P[i])] = <<F(p), F(q), F(u), F(v)>>
    <3> DEFINE l == [i \in DOMAIN P |-> F(P[i])]
               r == <<F(p), F(q), F(u), F(v)>>
    <3>1. DOMAIN P = 1 .. 4 /\ P[1] = p /\ P[2] = q /\ P[3] = u /\ P[4] = v
      OBVIOUS
    <3> HIDE DEF P
    <3>2. DOMAIN l = 1 .. 4 /\ l[1] = F(p) /\ l[2] = F(q) /\ l[3] = F(u) /\ l[4] = F(v)
      BY <3>1
    <3>3. DOMAIN r = 1 .. 4 /\ r[1] = F(p) /\ r[2] = F(q) /\ r[3] = F(u) /\ r[4] = F(v)
      OBVIOUS
    <3>4. \A i \in 1 .. 4 : i = 1 \/ i = 2 \/ i = 3 \/ i = 4
      OBVIOUS
    <3>5. l = [i \in DOMAIN l |-> l[i]] /\ r = [i \in DOMAIN r |-> r[i]]
      OBVIOUS
    <3> HIDE DEF l, r
    <3>6. \A i \in 1 .. 4 : l[i] = r[i]
      BY <3>2, <3>3, <3>4
    <3>7. l = r
      BY <3>2, <3>3, <3>5, <3>6
    <3> QED
      BY <3>7 DEF l, r
  <2> QED
    BY <2>1 DEF F
<1> DEFINE a == Bytes(p)
           b == Bytes(q)
           c == Bytes(u)
           d == Bytes(v)
<1>3. FlattenSeq(<<a, b, c, d>>) = Cat(Cat(a, b), Cat(c, d))
  <2>1. a \in Seq(A) /\ b \in Seq(A) /\ c \in Seq(A) /\ d \in Seq(A)
    OBVIOUS
  <2> HIDE DEF a, b, c, d
  <2> QED
    BY <2>1, FourInTwos
<1> HIDE DEF P
<1> QED
  BY <1>1, <1>2, <1>3
=============================================================================
