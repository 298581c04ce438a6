-------------------------- MODULE SchoolClientProofs --------------------------
(***************************************************************************)
(* The main dialog against the database, for any number of clients, any    *)
(* texts and scores and any number of handlers.                            *)
(***************************************************************************)
EXTENDS SchoolClient, FiniteSetTheorems, SequenceTheorems, TLAPS

-----------------------------------------------------------------------------
(* The tables. *)

\* Every row of a table has its columns, and is stored once and for all.
LEMMA RowShape ==
  ASSUME NEW t \in Tables, NEW row \in Rows(t)
  PROVE  /\ Stored(t, row) \in Rows(t)
         /\ Stored(t, Stored(t, row)) = Stored(t, row)
         /\ Key(t, Stored(t, row)) = Key(t, row)
         /\ References(t, Stored(t, row)) = References(t, row)
         /\ t # "select" => Stored(t, row) = row
<1>1. CASE t # "select"
  BY <1>1 DEF Stored
<1>2. CASE t = "select"
  <2>1. row \in Text \X Text \X Scores
    BY <1>2 DEF Rows
  <2>2. Canonical[row[3]] \in Scores /\ Canonical[Canonical[row[3]]] = Canonical[row[3]]
    BY <2>1, ScoreAssumption
  <2> DEFINE s == [row EXCEPT ![3] = Canonical[row[3]]]
  <2>3. s = <<row[1], row[2], Canonical[row[3]]>>
    BY <2>1
  <2>4. s \in Text \X Text \X Scores
    BY <2>1, <2>2, <2>3
  <2>5. s[1] = row[1] /\ s[2] = row[2] /\ s[3] = Canonical[row[3]]
    BY <2>3
  <2>6. Stored(t, row) = s
    BY <1>2 DEF Stored
  <2>7. [s EXCEPT ![3] = Canonical[s[3]]] = s
    BY <2>2, <2>3, <2>5
  <2>8. Stored(t, s) = s
    BY <1>2, <2>7 DEF Stored
  <2> HIDE DEF s
  <2>9. s \in Rows(t)
    BY <1>2, <2>4 DEF Rows
  <2>10. Key(t, s) = Key(t, row) /\ References(t, s) = References(t, row)
    BY <1>2, <2>5 DEF Key, References
  <2> QED
    BY <1>2, <2>6, <2>8, <2>9, <2>10
<1> QED
  BY <1>1, <1>2

\* A foreign key points to another table.
LEMMA ReferenceShape ==
  ASSUME NEW t \in Tables, NEW row, NEW ref \in References(t, row)
  PROVE  ref[1] \in Tables /\ ref[1] # t /\ ref = <<ref[1], ref[2]>>
<1>1. CASE t = "student"
  BY <1>1 DEF References, Tables
<1>2. CASE t = "select"
  BY <1>2 DEF References, Tables
<1>3. CASE t = "course" \/ t = "class"
  BY <1>3 DEF References
<1> QED
  BY <1>1, <1>2, <1>3 DEF Tables

\* What the tables keep from one statement to the next.
Sane(d) == d \in Databases /\ Consistent(d) /\ \A t \in Tables : IsFiniteSet(d[t])

\* One table is replaced.
LEMMA ReplaceTable ==
  ASSUME NEW d, Sane(d), NEW t \in Tables, NEW S, S \subseteq Rows(t), IsFiniteSet(S),
         \A row \in S : row = Stored(t, row) /\ ~ Dangling(d, t, row),
         \A r1, r2 \in S : Key(t, r1) = Key(t, r2) => r1 = r2,
         \A u \in Tables, row \in UNION {d[v] : v \in Tables} :
           u # t /\ row \in d[u] =>
             \A ref \in References(u, row) : ref[1] = t => ref[2] \in {Key(t, r) : r \in S}
  PROVE  Sane([d EXCEPT ![t] = S])
<1> DEFINE e == [d EXCEPT ![t] = S]
<1>1. d \in [Tables -> SUBSET UNION {Rows(u) : u \in Tables}]
  BY DEF Sane, Databases
<1>2. S \in SUBSET UNION {Rows(u) : u \in Tables}
  OBVIOUS
<1>3. /\ e \in [Tables -> SUBSET UNION {Rows(u) : u \in Tables}]
      /\ e[t] = S /\ \A u \in Tables : u # t => e[u] = d[u]
  BY <1>1, <1>2
<1> HIDE DEF e
<1>4. ASSUME NEW u \in Tables, NEW row \in e[u]
      PROVE  row \in Rows(u) /\ row = Stored(u, row) /\ ~ Dangling(e, u, row)
  <2>1. CASE u = t
    <3>1. row \in S
      BY <1>3, <2>1
    <3>2. ~ Dangling(d, t, row)
      BY <3>1
    <3>3. ASSUME NEW ref \in References(t, row) PROVE ref[2] \in Keys(e, ref[1])
      <4>1. ref[1] \in Tables /\ ref[1] # t
        BY ReferenceShape
      <4>2. ref[2] \in Keys(d, ref[1])
        BY <3>2 DEF Dangling
      <4> QED
        BY <1>3, <4>1, <4>2 DEF Keys
    <3> QED
      BY <2>1, <3>1, <3>3 DEF Dangling
  <2>2. CASE u # t
    <3>1. row \in d[u]
      BY <1>3, <2>2
    <3>2. row \in Rows(u) /\ row = Stored(u, row) /\ ~ Dangling(d, u, row)
      BY <3>1 DEF Sane, Consistent
    <3>3. ASSUME NEW ref \in References(u, row) PROVE ref[2] \in Keys(e, ref[1])
      <4>1. ref[1] \in Tables
        BY ReferenceShape
      <4>2. CASE ref[1] = t
        <5>1. ref[2] \in {Key(t, r) : r \in S}
          BY <2>2, <3>1, <4>2
        <5> QED
          BY <1>3, <4>2, <5>1 DEF Keys
      <4>3. CASE ref[1] # t
        <5>1. ref[2] \in Keys(d, ref[1])
          BY <3>2 DEF Dangling
        <5> QED
          BY <1>3, <4>1, <4>3, <5>1 DEF Keys
      <4> QED
        BY <4>2, <4>3
    <3> QED
      BY <3>2, <3>3 DEF Dangling
  <2> QED
    BY <2>1, <2>2
<1>5. ASSUME NEW u \in Tables, NEW r1 \in e[u], NEW r2 \in e[u], Key(u, r1) = Key(u, r2)
      PROVE  r1 = r2
  <2>1. CASE u = t
    BY <1>3, <1>5, <2>1
  <2>2. CASE u # t
    BY <1>3, <1>5, <2>2 DEF Sane, Consistent
  <2> QED
    BY <2>1, <2>2
<1>6. Consistent(e)
  BY <1>4, <1>5 DEF Consistent
<1>7. \A u \in Tables : IsFiniteSet(e[u])
  BY <1>3 DEF Sane
<1> QED
  BY <1>3, <1>6, <1>7 DEF Sane, Databases, e

\* INSERT keeps the tables consistent, and adds the row.
LEMMA InsertKeeps ==
  ASSUME NEW d, Sane(d), NEW t \in Tables, NEW row \in Rows(t)
  PROVE  LET o == InsertInto(d, t, row)
         IN  /\ Sane(o.db)
             /\ o.n = -1 => o.db = d
             /\ o.n # -1 =>
                  /\ o.db[t] = d[t] \cup {Stored(t, row)}
                  /\ Key(t, row) \notin Keys(d, t)
             /\ \A u \in Tables : u # t => o.db[u] = d[u]
<1>1. CASE Key(t, row) \in Keys(d, t) \/ Dangling(d, t, row)
  BY <1>1 DEF InsertInto, Outcome
<1>2. CASE ~ (Key(t, row) \in Keys(d, t) \/ Dangling(d, t, row))
  <2> DEFINE s == Stored(t, row)
             S == d[t] \cup {s}
  <2>1. s \in Rows(t) /\ Stored(t, s) = s /\ Key(t, s) = Key(t, row) /\ References(t, s) = References(t, row)
    BY RowShape
  <2> HIDE DEF s
  <2>2. \A r \in d[t] : r \in Rows(t) /\ r = Stored(t, r) /\ ~ Dangling(d, t, r)
    BY DEF Sane, Consistent
  <2>3. ~ Dangling(d, t, s)
    BY <1>2, <2>1 DEF Dangling
  <2>4. IsFiniteSet(S)
    BY FS_AddElement DEF Sane
  <2>5. \A r1, r2 \in S : Key(t, r1) = Key(t, r2) => r1 = r2
    <3>1. \A r1, r2 \in d[t] : Key(t, r1) = Key(t, r2) => r1 = r2
      BY DEF Sane, Consistent
    <3>2. \A r \in d[t] : Key(t, r) # Key(t, s)
      BY <1>2, <2>1 DEF Keys
    <3> QED
      BY <3>1, <3>2
  <2>6. ASSUME NEW u \in Tables, NEW r \in d[u], NEW ref \in References(u, r), ref[1] = t
        PROVE  ref[2] \in {Key(t, x) : x \in S}
    <3>1. ref[2] \in Keys(d, t)
      BY <2>6 DEF Sane, Consistent, Dangling
    <3> QED
      BY <3>1 DEF Keys
  <2>7. Sane([d EXCEPT ![t] = S])
    <3>1. S \subseteq Rows(t) /\ \A r \in S : r = Stored(t, r) /\ ~ Dangling(d, t, r)
      BY <2>1, <2>2, <2>3
    <3> HIDE DEF S
    <3> QED
      BY <2>4, <2>5, <2>6, <3>1, ReplaceTable
  <2>8. InsertInto(d, t, row) = Outcome([d EXCEPT ![t] = S], 1)
    BY <1>2 DEF InsertInto, s
  <2>9. /\ [d EXCEPT ![t] = S][t] = S
        /\ \A u \in Tables : u # t => [d EXCEPT ![t] = S][u] = d[u]
    BY DEF Sane, Databases
  <2> HIDE DEF S
  <2> QED
    BY <1>2, <2>7, <2>8, <2>9 DEF Outcome, S, s
<1> QED
  BY <1>1, <1>2

\* DELETE keeps the tables consistent, and takes away the rows with the key, if it says so.
LEMMA DeleteKeeps ==
  ASSUME NEW d, Sane(d), NEW t \in Tables, NEW key
  PROVE  LET o == DeleteFrom(d, t, key)
         IN  /\ Sane(o.db)
             /\ o.n = -1 => o.db = d
             /\ o.db[t] = d[t] \/ o.db[t] = {row \in d[t] : Key(t, row) # key}
             /\ \A u \in Tables : u # t => o.db[u] = d[u]
<1>1. CASE key \notin Keys(d, t) \/ Referenced(d, t, key)
  BY <1>1 DEF DeleteFrom, Outcome
<1>2. CASE ~ (key \notin Keys(d, t) \/ Referenced(d, t, key))
  <2> DEFINE S == {row \in d[t] : Key(t, row) # key}
  <2>1. \A r \in d[t] : r \in Rows(t) /\ r = Stored(t, r) /\ ~ Dangling(d, t, r)
    BY DEF Sane, Consistent
  <2>2. IsFiniteSet(S)
    BY FS_Subset DEF Sane
  <2>3. \A r1, r2 \in S : Key(t, r1) = Key(t, r2) => r1 = r2
    BY DEF Sane, Consistent
  <2>4. ASSUME NEW u \in Tables, NEW r \in d[u], NEW ref \in References(u, r), ref[1] = t
        PROVE  ref[2] \in {Key(t, x) : x \in S}
    <3>1. ref[2] \in Keys(d, t)
      BY <2>4 DEF Sane, Consistent, Dangling
    <3>2. ref[2] # key
      BY <1>2, <2>4, ReferenceShape DEF Referenced
    <3> QED
      BY <3>1, <3>2 DEF Keys
  <2>5. Sane([d EXCEPT ![t] = S])
    <3>1. S \subseteq Rows(t) /\ \A r \in S : r = Stored(t, r) /\ ~ Dangling(d, t, r)
      BY <2>1
    <3> HIDE DEF S
    <3> QED
      BY <2>2, <2>3, <2>4, <3>1, ReplaceTable
  <2>6. DeleteFrom(d, t, key) = Outcome([d EXCEPT ![t] = S], 1)
    BY <1>2 DEF DeleteFrom
  <2>7. /\ [d EXCEPT ![t] = S][t] = S
        /\ \A u \in Tables : u # t => [d EXCEPT ![t] = S][u] = d[u]
    BY DEF Sane, Databases
  <2> HIDE DEF S
  <2> QED
    BY <2>5, <2>6, <2>7 DEF Outcome, S
<1> QED
  BY <1>1, <1>2

\* UPDATE keeps the tables consistent, and replaces the row, if it says so.
LEMMA UpdateKeeps ==
  ASSUME NEW d, Sane(d), NEW t \in Tables, NEW key, NEW new \in Rows(t)
  PROVE  LET o == UpdateRow(d, t, key, new)
         IN  /\ Sane(o.db)
             /\ o.n = -1 => o.db = d
             /\ \/ o.db = d /\ (o.n # -1 => key \notin Keys(d, t) \/
                                  (Stored(t, new) \in d[t] /\ Key(t, new) = key))
                \/ /\ o.db[t] = {row \in d[t] : Key(t, row) # key} \cup {Stored(t, new)}
                   /\ Key(t, new) = key \/ Key(t, new) \notin Keys(d, t)
             /\ \A u \in Tables : u # t => o.db[u] = d[u]
<1> DEFINE moves == Key(t, new) # key
<1>1. CASE key \notin Keys(d, t) \/ (Stored(t, new) \in d[t] /\ ~ moves)
  <2>1. UpdateRow(d, t, key, new) = Outcome(d, 0)
    BY <1>1 DEF UpdateRow
  <2> QED
    BY <1>1, <2>1 DEF Outcome
<1>2. CASE /\ ~ (key \notin Keys(d, t) \/ (Stored(t, new) \in d[t] /\ ~ moves))
           /\ \/ Dangling(d, t, new)
              \/ moves /\ (Key(t, new) \in Keys(d, t) \/ Referenced(d, t, key))
  <2>1. UpdateRow(d, t, key, new) = Outcome(d, -1)
    BY <1>2 DEF UpdateRow
  <2> QED
    BY <2>1 DEF Outcome
<1>3. CASE /\ ~ (key \notin Keys(d, t) \/ (Stored(t, new) \in d[t] /\ ~ moves))
           /\ ~ (\/ Dangling(d, t, new)
                 \/ moves /\ (Key(t, new) \in Keys(d, t) \/ Referenced(d, t, key)))
  <2> DEFINE s == Stored(t, new)
             S == {row \in d[t] : Key(t, row) # key} \cup {s}
  <2>1. s \in Rows(t) /\ Stored(t, s) = s /\ Key(t, s) = Key(t, new) /\ References(t, s) = References(t, new)
    BY RowShape
  <2> HIDE DEF s
  <2>2. \A r \in d[t] : r \in Rows(t) /\ r = Stored(t, r) /\ ~ Dangling(d, t, r)
    BY DEF Sane, Consistent
  <2>3. ~ Dangling(d, t, s)
    BY <1>3, <2>1 DEF Dangling
  <2>4. IsFiniteSet(S)
    <3>1. IsFiniteSet({row \in d[t] : Key(t, row) # key})
      BY FS_Subset DEF Sane
    <3> QED
      BY <3>1, FS_AddElement
  <2>5. \A r1, r2 \in S : Key(t, r1) = Key(t, r2) => r1 = r2
    <3>1. \A r1, r2 \in d[t] : Key(t, r1) = Key(t, r2) => r1 = r2
      BY DEF Sane, Consistent
    <3>2. \A r \in d[t] : Key(t, r) # key => Key(t, r) # Key(t, s)
      BY <1>3, <2>1 DEF Keys
    <3> QED
      BY <3>1, <3>2
  <2>6. ASSUME NEW u \in Tables, NEW r \in d[u], NEW ref \in References(u, r), ref[1] = t
        PROVE  ref[2] \in {Key(t, x) : x \in S}
    <3>1. ref[2] \in Keys(d, t)
      BY <2>6 DEF Sane, Consistent, Dangling
    <3>2. CASE ref[2] # key
      BY <3>1, <3>2 DEF Keys
    <3>3. CASE ref[2] = key
      <4>1. Referenced(d, t, key)
        BY <2>6, <3>3, ReferenceShape DEF Referenced
      <4>2. Key(t, s) = key
        BY <1>3, <2>1, <4>1
      <4> QED
        BY <3>3, <4>2
    <3> QED
      BY <3>2, <3>3
  <2>7. Sane([d EXCEPT ![t] = S])
    <3>1. S \subseteq Rows(t) /\ \A r \in S : r = Stored(t, r) /\ ~ Dangling(d, t, r)
      BY <2>1, <2>2, <2>3
    <3> HIDE DEF S
    <3> QED
      BY <2>4, <2>5, <2>6, <3>1, ReplaceTable
  <2>8. UpdateRow(d, t, key, new) = Outcome([d EXCEPT ![t] = S], 1)
    BY <1>3 DEF UpdateRow, s
  <2>9. /\ [d EXCEPT ![t] = S][t] = S
        /\ \A u \in Tables : u # t => [d EXCEPT ![t] = S][u] = d[u]
    BY DEF Sane, Databases
  <2>10. Key(t, new) = key \/ Key(t, new) \notin Keys(d, t)
    BY <1>3
  <2> HIDE DEF S
  <2>11. 1 # -1
    OBVIOUS
  <2> QED
    BY <2>7, <2>8, <2>9, <2>10, <2>11 DEF Outcome, S, s
<1> QED
  BY <1>1, <1>2, <1>3

-----------------------------------------------------------------------------
(* The rows of a list. *)

\* A list shows rows of a set, none of them twice.
Shows(l, S) == l \in Seq(S) /\ \A i, j \in DOMAIN l : l[i] = l[j] => i = j

\* A result set is listed row by row.
LEMMA ListedShows ==
  ASSUME NEW T, NEW S, S \subseteq T, IsFiniteSet(S)
  PROVE  Shows(SetToSeq(S), T)
<1> DEFINE n == Cardinality(S)
<1>1. n \in Nat /\ ExistsBijection(1 .. n, S)
  BY FS_CardinalityType
<1> HIDE DEF n
<1>2. \E f \in [1 .. n -> S] : IsInjective(f)
  BY <1>1 DEF ExistsBijection, Bijection, Injection
<1>3. SetToSeq(S) \in [1 .. n -> S] /\ IsInjective(SetToSeq(S))
  BY <1>2 DEF SetToSeq, n
<1> DEFINE l == SetToSeq(S)
<1> HIDE DEF l
<1>4. l \in [1 .. n -> S] /\ IsInjective(l)
  BY <1>3 DEF l
<1>5. \A i, j \in DOMAIN l : l[i] = l[j] => i = j
  BY <1>4 DEF IsInjective
<1>6. l \in Seq(T)
  BY <1>1, <1>4
<1> QED
  BY <1>5, <1>6 DEF Shows, l

\* A new row is put in front.
LEMMA InsertShows ==
  ASSUME NEW S, NEW l, Shows(l, S), NEW x, x \notin S
  PROVE  Shows(<<x>> \o l, S \cup {x})
<1>1. l \in Seq(S) /\ Len(l) \in Nat /\ DOMAIN l = 1 .. Len(l)
  BY DEF Shows
<1> DEFINE m == <<x>> \o l
<1>2. m \in Seq(S \cup {x})
  BY <1>1
<1>3. Len(m) = Len(l) + 1 /\ m[1] = x /\ \A i \in 2 .. Len(l) + 1 : m[i] = l[i - 1]
  BY <1>1
<1>4. \A i \in 1 .. Len(l) : l[i] \in S
  BY <1>1
<1> HIDE DEF m
<1>5. DOMAIN m = 1 .. Len(l) + 1
  BY <1>2, <1>3
<1>6. ASSUME NEW i \in DOMAIN m, NEW j \in DOMAIN m, m[i] = m[j] PROVE i = j
  <2>1. CASE i = 1 /\ j = 1
    BY <2>1
  <2>2. CASE i = 1 /\ j # 1
    <3>1. j \in 2 .. Len(l) + 1 /\ j - 1 \in 1 .. Len(l)
      BY <1>1, <1>5, <2>2
    <3> QED
      BY <1>3, <1>4, <1>6, <2>2, <3>1
  <2>3. CASE i # 1 /\ j = 1
    <3>1. i \in 2 .. Len(l) + 1 /\ i - 1 \in 1 .. Len(l)
      BY <1>1, <1>5, <2>3
    <3> QED
      BY <1>3, <1>4, <1>6, <2>3, <3>1
  <2>4. CASE i # 1 /\ j # 1
    <3>1. i \in 2 .. Len(l) + 1 /\ i - 1 \in 1 .. Len(l)
      BY <1>1, <1>5, <2>4
    <3>2. j \in 2 .. Len(l) + 1 /\ j - 1 \in 1 .. Len(l)
      BY <1>1, <1>5, <2>4
    <3>3. l[i - 1] = l[j - 1]
      BY <1>3, <1>6, <3>1, <3>2
    <3>4. i - 1 = j - 1
      BY <1>1, <3>1, <3>2, <3>3 DEF Shows
    <3> QED
      BY <1>1, <3>1, <3>2, <3>4
  <2> QED
    BY <2>1, <2>2, <2>3, <2>4
<1> QED
  BY <1>2, <1>6 DEF Shows, m

\* One row is taken out of the list and perhaps out of the set.
LEMMA RemoveShows ==
  ASSUME NEW S, NEW l, Shows(l, S), NEW k \in DOMAIN l, NEW T, S \ {l[k]} \subseteq T
  PROVE  Shows(RemoveAt(l, k), T)
<1>1. l \in Seq(S) /\ Len(l) \in Nat /\ DOMAIN l = 1 .. Len(l) /\ k \in 1 .. Len(l)
  BY DEF Shows
<1> DEFINE m == RemoveAt(l, k)
           p == SubSeq(l, 1, k - 1)
           q == SubSeq(l, k + 1, Len(l))
           At(i) == IF i < k THEN i ELSE i + 1
<1>2. p \in Seq(S) /\ Len(p) = k - 1 /\ \A i \in 1 .. k - 1 : p[i] = l[i]
  BY <1>1
<1>3. q \in Seq(S) /\ Len(q) = Len(l) - k /\ \A i \in 1 .. Len(l) - k : q[i] = l[k + i]
  <2>1. k + 1 \in 1 .. Len(l) + 1 /\ k \in Nat
    BY <1>1
  <2>2. q \in Seq(S) /\ Len(q) = Len(l) - k
    BY <1>1, <2>1
  <2>3. ASSUME NEW i \in 1 .. Len(l) - k PROVE q[i] = l[k + i]
    BY <1>1, <2>1
  <2> QED
    BY <2>2, <2>3
<1>4. m = p \o q
  BY DEF RemoveAt
<1> HIDE DEF m, p, q
<1>45. /\ m \in Seq(S) /\ Len(m) = Len(p) + Len(q)
       /\ \A i \in 1 .. Len(p) + Len(q) : m[i] = IF i <= Len(p) THEN p[i] ELSE q[i - Len(p)]
  BY <1>2, <1>3, <1>4, ConcatProperties
<1>5. m \in Seq(S) /\ Len(m) = Len(l) - 1
  <2>1. k \in Int /\ Len(l) \in Int /\ (k - 1) + (Len(l) - k) = Len(l) - 1
    BY <1>1
  <2> QED
    BY <1>2, <1>3, <1>45, <2>1
<1>6. DOMAIN m = 1 .. Len(l) - 1
  BY <1>5
<1>7. ASSUME NEW i \in DOMAIN m PROVE m[i] = l[At(i)] /\ At(i) \in 1 .. Len(l) /\ At(i) # k
  <2>1. CASE i < k
    <3>1. i \in 1 .. k - 1
      BY <1>1, <1>6, <2>1
    <3>2. m[i] = p[i]
      BY <1>1, <1>2, <1>3, <1>4, <3>1
    <3> QED
      BY <1>1, <1>2, <1>6, <2>1, <3>1, <3>2
  <2>2. CASE ~ (i < k)
    <3>1. i \in Nat /\ k \in Nat /\ i >= k /\ i <= Len(l) - 1
      BY <1>1, <1>6, <2>2
    <3>2. i - (k - 1) \in 1 .. Len(l) - k
      BY <1>1, <3>1
    <3>3. m[i] = q[i - (k - 1)]
      <4>1. i \in 1 .. Len(p) + Len(q) /\ ~ (i <= Len(p))
        BY <1>1, <1>2, <1>3, <3>1
      <4> QED
        BY <1>2, <1>45, <4>1
    <3>4. q[i - (k - 1)] = l[k + (i - (k - 1))]
      BY <1>3, <3>2
    <3>5. k + (i - (k - 1)) = i + 1
      BY <3>1
    <3> QED
      BY <1>1, <2>2, <3>1, <3>3, <3>4, <3>5
  <2> QED
    BY <2>1, <2>2
<1>8. \A i, j \in 1 .. Len(l) : l[i] = l[j] => i = j
  BY <1>1 DEF Shows
<1>9. ASSUME NEW i \in DOMAIN m PROVE m[i] \in T
  <2>1. l[At(i)] \in S
    BY <1>1, <1>7
  <2>2. l[At(i)] # l[k]
    BY <1>1, <1>7, <1>8
  <2> QED
    BY <1>7, <2>1, <2>2
<1>10. ASSUME NEW i \in DOMAIN m, NEW j \in DOMAIN m, m[i] = m[j] PROVE i = j
  <2>1. At(i) = At(j)
    BY <1>7, <1>8, <1>10
  <2>2. i \in Nat /\ j \in Nat /\ k \in Nat
    BY <1>1, <1>6
  <2> QED
    BY <2>1, <2>2
<1>11. m \in Seq(T)
  BY <1>1, <1>5, <1>6, <1>9
<1> QED
  BY <1>10, <1>11 DEF Shows, m

\* One row is replaced in the list and in the set.
LEMMA ReplaceShows ==
  ASSUME NEW S, NEW l, Shows(l, S), NEW k \in DOMAIN l, NEW x,
         x = l[k] \/ x \notin S, NEW T, (S \ {l[k]}) \cup {x} \subseteq T
  PROVE  Shows([l EXCEPT ![k] = x], T)
<1>1. l \in Seq(S) /\ Len(l) \in Nat /\ DOMAIN l = 1 .. Len(l) /\ k \in 1 .. Len(l)
  BY DEF Shows
<1> DEFINE m == [l EXCEPT ![k] = x]
<1>2. DOMAIN m = 1 .. Len(l) /\ m[k] = x /\ \A i \in 1 .. Len(l) : i # k => m[i] = l[i]
  BY <1>1
<1>3. m = [i \in 1 .. Len(l) |-> m[i]]
  BY <1>1
<1> HIDE DEF m
<1>4. \A i, j \in 1 .. Len(l) : l[i] = l[j] => i = j
  BY <1>1 DEF Shows
<1>5. \A i \in 1 .. Len(l) : l[i] \in S
  BY <1>1
<1>6. \A i \in 1 .. Len(l) : m[i] \in T
  <2>1. SUFFICES ASSUME NEW i \in 1 .. Len(l), i # k PROVE m[i] \in T
    BY <1>2
  <2>2. l[i] # l[k]
    BY <1>1, <1>4, <2>1
  <2> QED
    BY <1>2, <1>5, <2>1, <2>2
<1>7. m \in Seq(T)
  BY <1>1, <1>2, <1>3, <1>6
<1>8. ASSUME NEW i \in 1 .. Len(l), NEW j \in 1 .. Len(l), m[i] = m[j] PROVE i = j
  <2>1. \A h \in 1 .. Len(l) : h # k => m[h] # x
    <3>1. SUFFICES ASSUME NEW h \in 1 .. Len(l), h # k PROVE m[h] # x
      OBVIOUS
    <3>2. m[h] = l[h] /\ l[h] \in S /\ l[h] # l[k]
      BY <1>1, <1>2, <1>4, <1>5, <3>1
    <3> QED
      BY <3>2
  <2>2. CASE i = k \/ j = k
    BY <1>2, <1>8, <2>1, <2>2
  <2>3. CASE i # k /\ j # k
    BY <1>2, <1>4, <1>8, <2>3
  <2> QED
    BY <2>2, <2>3
<1> QED
  BY <1>2, <1>7, <1>8 DEF Shows, m

-----------------------------------------------------------------------------
(* The invariant. *)

Types ==
  /\ Sane(db)
  /\ tab \in [Clients -> Tables]
  /\ cols \in [Clients -> Tables \cup {"joined"}]
  /\ ui \in [Clients -> {"start", "idle", "sent", "answered", "hung"}]
  /\ DOMAIN list = Clients /\ DOMAIN stmt = Clients /\ DOMAIN answer = Clients
  /\ clicks \in 0 .. MaxClicks
  /\ outdated \subseteq Clients \X Tables

\* A statement is under way.
Waiting(c) == ui[c] \in {"sent", "answered"}

\* It is about the current tab's table.
StatementFits(c) ==
  Waiting(c) =>
    /\ stmt[c].op \in {"select", "joined", "insert", "delete", "update"}
    /\ stmt[c].t = tab[c]
    /\ stmt[c].op \in {"insert", "update"} => stmt[c].row \in Rows(tab[c])

\* Until a query is answered the list may still have the columns of another tab.
ColumnsFit(c) ==
  /\ ui[c] = "start" => tab[c] = "student"
  /\ ui[c] \in {"start", "idle"} \/ (Waiting(c) /\ ~ IsQuery(c)) =>
       cols[c] \in {tab[c], "joined"}

NamesRow(c) ==
  stmt[c].op \in {"delete", "update"} /\ Waiting(c) =>
    \/ cols[c] = "joined"
    \/ stmt[c].op = "update" /\ stmt[c].t = "select"
    \/ stmt[c].where = Key(stmt[c].t, list[c][stmt[c].at])

\* The list that ShowResult leaves.
Changed(c) ==
  IF ~ ReportsSuccess(c) THEN list[c]
  ELSE CASE stmt[c].op = "insert" -> <<NewItem(c)>> \o list[c]
         [] stmt[c].op = "delete" -> RemoveAt(list[c], stmt[c].at)
         [] stmt[c].op = "update" ->
              [list[c] EXCEPT ![stmt[c].at] = EditedItem(c, list[c][stmt[c].at])]

\* A list that is not outdated shows rows of the current table, and once the server has executed a
\* statement the list that is about to be shown does.
ListFits(c) ==
  /\ cols[c] = tab[c] /\ tab[c] # "select" =>
       /\ ui[c] \in {"start", "idle"} => Shows(list[c], db[tab[c]])
       /\ ui[c] = "sent" /\ ~ IsQuery(c) =>
            /\ Shows(list[c], db[tab[c]])
            /\ stmt[c].op \in {"delete", "update"} => stmt[c].at \in DOMAIN list[c]
       /\ ui[c] = "answered" /\ ~ IsQuery(c) => Shows(Changed(c), db[tab[c]])
  /\ ui[c] = "answered" /\ stmt[c].op = "select" => answer[c].rows \subseteq db[stmt[c].t]

ClientFits(c) ==
  /\ StatementFits(c) /\ ColumnsFit(c) /\ NamesRow(c)
  /\ <<c, tab[c]>> \notin outdated => ListFits(c)

ClientInv == Types /\ \A c \in Clients : ClientFits(c)

\* A step of one client leaves what is known of the others, if it outdates their lists
\* of the table it changes.
LEMMA OtherClients ==
  ASSUME ClientInv, NEW c \in Clients, Types', ClientFits(c)',
         \A d \in Clients : d # c =>
           /\ tab'[d] = tab[d] /\ cols'[d] = cols[d] /\ list'[d] = list[d]
           /\ ui'[d] = ui[d] /\ stmt'[d] = stmt[d] /\ answer'[d] = answer[d],
         \A d \in Clients : d # c =>
           \/ <<d, tab[d]>> \in outdated'
           \/ <<d, tab[d]>> \notin outdated /\ db'[tab[d]] = db[tab[d]]
  PROVE  ClientInv'
<1>1. ASSUME NEW d \in Clients, d # c PROVE ClientFits(d)'
  <2>1. /\ tab'[d] = tab[d] /\ cols'[d] = cols[d] /\ list'[d] = list[d]
        /\ ui'[d] = ui[d] /\ stmt'[d] = stmt[d] /\ answer'[d] = answer[d]
    BY <1>1
  <2>2. StatementFits(d) /\ ColumnsFit(d) /\ NamesRow(d)
    BY DEF ClientInv, ClientFits
  <2>3. StatementFits(d)'
    BY <2>1, <2>2 DEF StatementFits, Waiting
  <2>4. ColumnsFit(d)'
    BY <2>1, <2>2 DEF ColumnsFit, Waiting, IsQuery
  <2>5. NamesRow(d)'
    BY <2>1, <2>2 DEF NamesRow, Waiting
  <2>6. ASSUME <<d, tab'[d]>> \notin outdated' PROVE ListFits(d)'
    <3>1. ListFits(d) /\ db'[tab[d]] = db[tab[d]]
      BY <1>1, <2>1, <2>6 DEF ClientInv, ClientFits
    <3>2. Changed(d)' = Changed(d)
      BY <2>1 DEF Changed, ReportsSuccess, NewItem, EditedItem
    <3>3. ui[d] = "answered" => stmt[d].t = tab[d]
      BY <2>2 DEF StatementFits, Waiting
    <3> QED
      BY <2>1, <3>1, <3>2, <3>3 DEF ListFits, IsQuery
  <2> QED
    BY <2>3, <2>4, <2>5, <2>6 DEF ClientFits
<1> QED
  BY <1>1 DEF ClientInv

\* A handler sends a statement about the tab it leaves selected, with the key of the
\* selected row in a DELETE or UPDATE.
Sends(c, t, s) ==
  /\ t \in Tables
  /\ ui[c] \in {"start", "idle"}
  /\ tab' = [tab EXCEPT ![c] = t]
  /\ SendSql(c, s)
  /\ clicks' \in 0 .. MaxClicks
  /\ s.op \in {"select", "joined", "insert", "delete", "update"}
  /\ s.t = t
  /\ s.op \in {"insert", "update"} => s.row \in Rows(t)
  /\ s.op \notin {"select", "joined"} => t = tab[c]
  /\ s.op \in {"delete", "update"} =>
       /\ s.at \in DOMAIN list[c]
       /\ \/ s.op = "update" /\ s.t = "select"
          \/ s.where = Key(s.t, list[c][s.at])

\* Such a statement keeps the invariant.
LEMMA SendKeeps ==
  ASSUME ClientInv, NEW c \in Clients, NEW t, NEW s, Sends(c, t, s)
  PROVE  ClientInv'
<1> USE DEF Sends
<1>1. Types /\ ClientFits(c)
  BY DEF ClientInv
<1>2. /\ tab \in [Clients -> Tables] /\ DOMAIN stmt = Clients
      /\ ui \in [Clients -> {"start", "idle", "sent", "answered", "hung"}]
  BY <1>1 DEF Types
<1>3. /\ stmt' = [stmt EXCEPT ![c] = s] /\ ui' = [ui EXCEPT ![c] = "sent"]
      /\ db' = db /\ cols' = cols /\ list' = list /\ answer' = answer /\ outdated' = outdated
  BY DEF SendSql
<1>4. stmt'[c] = s /\ ui'[c] = "sent" /\ tab'[c] = t /\ DOMAIN stmt' = Clients
  BY <1>2, <1>3
<1>5. \A d \in Clients : d # c => stmt'[d] = stmt[d] /\ ui'[d] = ui[d] /\ tab'[d] = tab[d]
  BY <1>2, <1>3
<1>6. /\ tab' \in [Clients -> Tables]
      /\ ui' \in [Clients -> {"start", "idle", "sent", "answered", "hung"}]
  BY <1>2, <1>3
<1>7. Types'
  BY <1>1, <1>3, <1>4, <1>6 DEF Types
<1>8. StatementFits(c)'
  BY <1>4 DEF StatementFits
<1>9. cols[c] \in {tab[c], "joined"}
  BY <1>1 DEF ClientFits, ColumnsFit
<1>10. ColumnsFit(c)'
  BY <1>3, <1>4, <1>9 DEF ColumnsFit, IsQuery
<1>11. NamesRow(c)'
  BY <1>3, <1>4 DEF NamesRow
<1>12. ASSUME <<c, tab'[c]>> \notin outdated' PROVE ListFits(c)'
  <2>1. SUFFICES ASSUME cols[c] = t, t # "select", s.op \notin {"select", "joined"}
                 PROVE  Shows(list[c], db[t])
    BY <1>3, <1>4 DEF ListFits, IsQuery
  <2>2. ListFits(c) /\ t = tab[c]
    BY <1>1, <1>3, <1>4, <1>12, <2>1 DEF ClientFits
  <2> QED
    BY <2>1, <2>2 DEF ListFits
<1> QED
  BY <1>3, <1>5, <1>7, <1>8, <1>10, <1>11, <1>12, OtherClients DEF ClientFits

\* Every handler of the dialog, up to SendSql.
LEMMA HandlerKeeps ==
  ASSUME ClientInv, NEW c \in Clients, Handler(c)
  PROVE  ClientInv'
<1>1. /\ Types /\ tab \in [Clients -> Tables] /\ clicks \in 0 .. MaxClicks /\ MaxClicks \in Nat
      /\ ui \in [Clients -> {"start", "idle", "sent", "answered", "hung"}]
  BY ClientAssumption DEF ClientInv, Types
<1>2. tab = [tab EXCEPT ![c] = tab[c]]
  BY <1>1
<1>3. Click(c) => ui[c] \in {"start", "idle"} /\ clicks' \in 0 .. MaxClicks
  BY <1>1 DEF Click
<1>4. CASE OnInitDialog(c)
  <2> DEFINE s == SelectAll("student")
  <2>1. /\ ui[c] \in {"start", "idle"} /\ SendSql(c, s) /\ tab' = tab /\ clicks' \in 0 .. MaxClicks
        /\ tab[c] = "student"
    BY <1>1, <1>4 DEF OnInitDialog, ClientInv, ClientFits, ColumnsFit
  <2>2. s.op = "select" /\ s.t = "student"
    BY DEF SelectAll, Statement
  <2> HIDE DEF s
  <2>3. tab' = [tab EXCEPT ![c] = "student"] /\ "student" \in Tables
    BY <1>2, <2>1 DEF Tables
  <2>9. Sends(c, "student", s)
    BY <2>1, <2>2, <2>3 DEF Sends
  <2> QED
    BY <2>9, SendKeeps
<1>5. CASE OnInitDialogFails(c)
  <2>1. /\ ui' = [ui EXCEPT ![c] = "hung"]
        /\ UNCHANGED <<db, tab, cols, list, stmt, answer, clicks, outdated>>
    BY <1>5 DEF OnInitDialogFails
  <2>2. /\ ui' \in [Clients -> {"start", "idle", "sent", "answered", "hung"}]
        /\ ui'[c] = "hung" /\ \A d \in Clients : d # c => ui'[d] = ui[d]
    BY <1>1, <2>1
  <2>3. Types'
    BY <1>1, <2>1, <2>2 DEF Types
  <2>4. ClientFits(c)'
    BY <2>2 DEF ClientFits, StatementFits, ColumnsFit, NamesRow, ListFits, Waiting
  <2> QED
    BY <2>1, <2>2, <2>3, <2>4, OtherClients
<1>6. ASSUME NEW t \in Tables, OnTcnSelchangeTab(c, t) PROVE ClientInv'
  <2> DEFINE s == SelectAll(t)
  <2>1. Click(c) /\ SendSql(c, s) /\ tab' = [tab EXCEPT ![c] = t]
    BY <1>6 DEF OnTcnSelchangeTab
  <2>2. s.op = "select" /\ s.t = t
    BY DEF SelectAll, Statement
  <2> HIDE DEF s
  <2>9. Sends(c, t, s)
    BY <1>3, <2>1, <2>2 DEF Sends
  <2> QED
    BY <2>9, SendKeeps
<1>7. ASSUME NEW row \in Rows(tab[c]), OnBnClickedButtonInsert(c, row) PROVE ClientInv'
  <2> DEFINE s == Statement("insert", tab[c], row, <<>>, 0)
  <2>1. Click(c) /\ SendSql(c, s) /\ tab' = [tab EXCEPT ![c] = tab[c]] /\ tab[c] \in Tables
    BY <1>1, <1>2, <1>7 DEF OnBnClickedButtonInsert
  <2>2. s.op = "insert" /\ s.t = tab[c] /\ s.row = row
    BY DEF Statement
  <2> HIDE DEF s
  <2>9. Sends(c, tab[c], s)
    BY <1>3, <1>7, <2>1, <2>2 DEF Sends
  <2> QED
    BY <2>9, SendKeeps
<1>8. ASSUME NEW i \in DOMAIN list[c], OnBnClickedButtonDelete(c, i) PROVE ClientInv'
  <2> DEFINE s == Statement("delete", tab[c], <<>>, SelectedKey(c, i), i)
  <2>1. Click(c) /\ SendSql(c, s) /\ tab' = [tab EXCEPT ![c] = tab[c]] /\ tab[c] \in Tables
    BY <1>1, <1>2, <1>8 DEF OnBnClickedButtonDelete
  <2>2. s.op = "delete" /\ s.t = tab[c] /\ s.at = i /\ s.where = SelectedKey(c, i)
    BY DEF Statement
  <2>3. SelectedKey(c, i) = Key(tab[c], list[c][i])
    BY DEF SelectedKey, Key
  <2> HIDE DEF s
  <2>9. Sends(c, tab[c], s)
    BY <1>3, <1>8, <2>1, <2>2, <2>3 DEF Sends
  <2> QED
    BY <2>9, SendKeeps
<1>9. ASSUME NEW i \in DOMAIN list[c], NEW new \in Rows(tab[c]), OnBnClickedButtonUpdate(c, i, new)
      PROVE  ClientInv'
  <2> DEFINE s == Statement("update", tab[c], new, UpdateKey(c, i, new), i)
  <2>1. Click(c) /\ SendSql(c, s) /\ tab' = [tab EXCEPT ![c] = tab[c]] /\ tab[c] \in Tables
    BY <1>1, <1>2, <1>9 DEF OnBnClickedButtonUpdate
  <2>2. s.op = "update" /\ s.t = tab[c] /\ s.at = i /\ s.where = UpdateKey(c, i, new) /\ s.row = new
    BY DEF Statement
  <2>3. tab[c] = "select" \/ UpdateKey(c, i, new) = Key(tab[c], list[c][i])
    BY DEF UpdateKey, Key
  <2> HIDE DEF s
  <2>9. Sends(c, tab[c], s)
    BY <1>3, <1>9, <2>1, <2>2, <2>3 DEF Sends
  <2> QED
    BY <2>9, SendKeeps
<1>10. ASSUME NEW cond, OnBnClickedButtonSelect(c, cond) PROVE ClientInv'
  <2> DEFINE s == Statement("select", tab[c], <<>>, cond, 0)
  <2>1. Click(c) /\ SendSql(c, s) /\ tab' = [tab EXCEPT ![c] = tab[c]] /\ tab[c] \in Tables
    BY <1>1, <1>2, <1>10 DEF OnBnClickedButtonSelect
  <2>2. s.op = "select" /\ s.t = tab[c]
    BY DEF Statement
  <2> HIDE DEF s
  <2>9. Sends(c, tab[c], s)
    BY <1>3, <2>1, <2>2 DEF Sends
  <2> QED
    BY <2>9, SendKeeps
<1>11. CASE OnBnClickedButtonUnionSelect(c)
  <2> DEFINE s == Statement("joined", tab[c], <<>>, <<>>, 0)
  <2>1. Click(c) /\ SendSql(c, s) /\ tab' = [tab EXCEPT ![c] = tab[c]] /\ tab[c] \in Tables
    BY <1>1, <1>2, <1>11 DEF OnBnClickedButtonUnionSelect
  <2>2. s.op = "joined" /\ s.t = tab[c]
    BY DEF Statement
  <2> HIDE DEF s
  <2>9. Sends(c, tab[c], s)
    BY <1>3, <2>1, <2>2 DEF Sends
  <2> QED
    BY <2>9, SendKeeps
<1> QED
  BY <1>4, <1>5, <1>6, <1>7, <1>8, <1>9, <1>10, <1>11 DEF Handler

-----------------------------------------------------------------------------
(* The server executes a statement. *)

\* Outside the selections of courses the list gets the row that was entered.
LEMMA ItemsEntered ==
  ASSUME NEW t \in Tables, t # "select", NEW r1 \in Rows(t), NEW r2 \in Rows(t)
  PROVE  /\ [i \in DOMAIN r1 |->
              IF i <= Len(r2) /\ (t = "select" => i = 3) THEN r2[i] ELSE r1[i]] = r2
         /\ [i \in 1 .. Len(r2) |-> IF i <= Len(r2) THEN r2[i] ELSE ""] = r2
<1>1. CASE t = "student"
  <2>1. r1 \in Text \X Text \X Text /\ r2 \in Text \X Text \X Text
    BY <1>1 DEF Rows
  <2>2. DOMAIN r1 = 1 .. 3 /\ Len(r2) = 3 /\ DOMAIN r2 = 1 .. 3 /\ r2 = [i \in 1 .. 3 |-> r2[i]]
    BY <2>1
  <2> QED
    BY <1>1, <2>2
<1>2. CASE t \in {"course", "class"}
  <2>1. r1 \in Text \X Text /\ r2 \in Text \X Text
    BY <1>2 DEF Rows
  <2>2. DOMAIN r1 = 1 .. 2 /\ Len(r2) = 2 /\ DOMAIN r2 = 1 .. 2 /\ r2 = [i \in 1 .. 2 |-> r2[i]]
    BY <2>1
  <2> QED
    BY <1>2, <2>2
<1> QED
  BY <1>1, <1>2 DEF Tables

\* What the statement did to a table is what ShowResult is going to do to its list.
LEMMA ListFollowsTable ==
  ASSUME ClientInv, NEW c \in Clients, Execute(c), Types',
         ~ IsQuery(c), cols[c] = tab[c], tab[c] # "select", ListFits(c)
  PROVE  Shows(Changed(c)', db'[tab[c]])
<1> DEFINE t == tab[c]
           s == stmt[c]
           l == list[c]
<1>1. ui[c] = "sent" /\ Waiting(c)
  BY DEF Execute, Waiting
<1>2. /\ t \in Tables /\ Sane(db) /\ t # "select" /\ s.t = t
      /\ s.op \in {"insert", "delete", "update"}
      /\ s.op \in {"insert", "update"} => s.row \in Rows(t)
  BY <1>1 DEF ClientInv, Types, ClientFits, StatementFits, IsQuery
<1>3. Shows(l, db[t]) /\ (s.op \in {"delete", "update"} => s.at \in DOMAIN l)
  BY <1>1 DEF ListFits
<1>4. s.op \in {"delete", "update"} => s.where = Key(t, l[s.at])
  <2>1. cols[c] # "joined"
    BY <1>2 DEF Tables
  <2> QED
    BY <1>1, <1>2, <2>1 DEF ClientInv, ClientFits, NamesRow
<1>5. stmt' = stmt /\ list' = list /\ cols' = cols /\ tab' = tab
  BY DEF Execute
<1>6. \A r1, r2 \in db[t] : Key(t, r1) = Key(t, r2) => r1 = r2
  BY <1>2 DEF Sane, Consistent
<1>7. \A r \in db[t] : r \in Rows(t)
  BY <1>2 DEF Sane, Consistent
<1>8. \A i \in DOMAIN l : l[i] \in db[t]
  BY <1>3 DEF Shows
<1>9. DOMAIN answer = Clients
  BY DEF ClientInv, Types
<1>10. CASE s.op = "insert"
  <2> DEFINE o == InsertInto(db, t, s.row)
  <2>1. db' = o.db /\ answer'[c].n = o.n
    BY <1>2, <1>9, <1>10 DEF Execute
  <2>2. /\ o.n = -1 => o.db = db
        /\ o.n # -1 => o.db[t] = db[t] \cup {Stored(t, s.row)} /\ Key(t, s.row) \notin Keys(db, t)
    BY <1>2, <1>10, InsertKeeps
  <2> HIDE DEF o
  <2>3. CASE o.n = -1
    <3>1. Changed(c)' = l
      BY <1>5, <2>1, <2>3 DEF Changed, ReportsSuccess
    <3> QED
      BY <1>3, <2>1, <2>2, <2>3, <3>1
  <2>4. CASE o.n # -1
    <3>1. NewItem(c)' = s.row
      <4>1. NewItem(c)' = [i \in 1 .. Len(s.row) |-> IF i <= Len(s.row) THEN s.row[i] ELSE ""]
        <5>1. cols'[c] # "joined"
          BY <1>2, <1>5 DEF Tables
        <5> QED
          BY <1>5, <5>1 DEF NewItem
      <4> QED
        BY <1>2, <1>10, <4>1, ItemsEntered
    <3>2. Changed(c)' = <<s.row>> \o l
      BY <1>5, <1>10, <2>1, <2>4, <3>1 DEF Changed, ReportsSuccess
    <3>3. Stored(t, s.row) = s.row
      BY <1>2, <1>10, RowShape
    <3>4. s.row \notin db[t]
      BY <2>2, <2>4 DEF Keys
    <3>5. Shows(<<s.row>> \o l, db[t] \cup {s.row})
      BY <1>3, <3>4, InsertShows
    <3> QED
      BY <2>1, <2>2, <2>4, <3>2, <3>3, <3>5
  <2> QED
    BY <2>3, <2>4
<1>11. CASE s.op = "delete"
  <2> DEFINE o == DeleteFrom(db, t, s.where)
             S == o.db[t]
  <2>1. db' = o.db /\ answer'[c].n = o.n
    BY <1>2, <1>9, <1>11 DEF Execute
  <2>2. /\ o.n = -1 => o.db = db
        /\ o.db[t] = db[t] \/ o.db[t] = {row \in db[t] : Key(t, row) # s.where}
    BY <1>2, DeleteKeeps
  <2> HIDE DEF o
  <2>3. CASE o.n = -1
    <3>1. Changed(c)' = l
      BY <1>5, <2>1, <2>3 DEF Changed, ReportsSuccess
    <3> QED
      BY <1>3, <2>1, <2>2, <2>3, <3>1
  <2>4. CASE o.n # -1
    <3>1. Changed(c)' = RemoveAt(l, s.at)
      BY <1>5, <1>11, <2>1, <2>4 DEF Changed, ReportsSuccess
    <3>2. s.at \in DOMAIN l /\ l[s.at] \in db[t] /\ s.where = Key(t, l[s.at])
      BY <1>3, <1>4, <1>8, <1>11
    <3>3. \A r \in db[t] : r # l[s.at] => Key(t, r) # s.where
      BY <1>6, <3>2
    <3>4. db[t] \ {l[s.at]} \subseteq S
      BY <2>2, <3>3
    <3> HIDE DEF S
    <3>5. Shows(RemoveAt(l, s.at), S)
      BY <1>3, <3>2, <3>4, RemoveShows
    <3> QED
      BY <2>1, <3>1, <3>5 DEF S
  <2> QED
    BY <2>3, <2>4
<1>12. CASE s.op = "update"
  <2> DEFINE o == UpdateRow(db, t, s.where, s.row)
             S == o.db[t]
  <2>1. db' = o.db /\ answer'[c].n = o.n
    BY <1>2, <1>9, <1>12 DEF Execute
  <2>2. /\ o.n = -1 => o.db = db
        /\ \/ o.db = db /\ (o.n # -1 => s.where \notin Keys(db, t) \/
                              (Stored(t, s.row) \in db[t] /\ Key(t, s.row) = s.where))
           \/ /\ o.db[t] = {row \in db[t] : Key(t, row) # s.where} \cup {Stored(t, s.row)}
              /\ Key(t, s.row) = s.where \/ Key(t, s.row) \notin Keys(db, t)
    BY <1>2, <1>12, UpdateKeeps
  <2> HIDE DEF o
  <2>3. CASE o.n = -1
    <3>1. Changed(c)' = l
      BY <1>5, <2>1, <2>3 DEF Changed, ReportsSuccess
    <3> QED
      BY <1>3, <2>1, <2>2, <2>3, <3>1
  <2>4. CASE o.n # -1
    <3>1. s.at \in DOMAIN l /\ l[s.at] \in db[t] /\ s.where = Key(t, l[s.at]) /\ s.row \in Rows(t)
      BY <1>2, <1>3, <1>4, <1>8, <1>12
    <3>2. EditedItem(c, l[s.at])' = s.row
      <4>1. EditedItem(c, l[s.at])' =
              [i \in DOMAIN l[s.at] |->
                IF i <= Len(s.row) /\ (t = "select" => i = 3) THEN s.row[i] ELSE l[s.at][i]]
        BY <1>2, <1>5 DEF EditedItem
      <4>2. l[s.at] \in Rows(t)
        BY <1>7, <3>1
      <4> QED
        BY <1>2, <3>1, <4>1, <4>2, ItemsEntered
    <3>3. Changed(c)' = [l EXCEPT ![s.at] = s.row]
      BY <1>5, <1>12, <2>1, <2>4, <3>2 DEF Changed, ReportsSuccess
    <3>4. Stored(t, s.row) = s.row
      BY <1>2, <3>1, RowShape
    <3>5. \A r \in db[t] : r # l[s.at] => Key(t, r) # s.where
      BY <1>6, <3>1
    <3>6. s.where \in Keys(db, t)
      BY <3>1 DEF Keys
    <3>7. (db[t] \ {l[s.at]}) \cup {s.row} \subseteq S
      BY <2>2, <2>4, <3>4, <3>5, <3>6
    <3>8. s.row = l[s.at] \/ s.row \notin db[t]
      <4>1. SUFFICES ASSUME s.row \in db[t] PROVE s.row = l[s.at]
        OBVIOUS
      <4>2. Key(t, s.row) \in Keys(db, t)
        BY <4>1 DEF Keys
      <4>3. Key(t, s.row) = s.where
        BY <2>2, <2>4, <3>6, <4>2
      <4> QED
        BY <3>5, <4>1, <4>3
    <3> HIDE DEF S
    <3>9. Shows([l EXCEPT ![s.at] = s.row], S)
      BY <1>3, <3>1, <3>7, <3>8, ReplaceShows
    <3> QED
      BY <2>1, <3>3, <3>9 DEF S
  <2> QED
    BY <2>3, <2>4
<1> QED
  BY <1>2, <1>10, <1>11, <1>12

\* Query and its answer.
LEMMA ExecuteKeeps ==
  ASSUME ClientInv, NEW c \in Clients, Execute(c)
  PROVE  ClientInv'
<1> DEFINE t == tab[c]
           s == stmt[c]
<1>1. /\ ui[c] = "sent" /\ Waiting(c) /\ Types /\ ClientFits(c)
      /\ ui' = [ui EXCEPT ![c] = "answered"]
      /\ tab' = tab /\ cols' = cols /\ list' = list /\ stmt' = stmt /\ clicks' = clicks
      /\ outdated' = Outdated(c, s, db')
  BY DEF Execute, Waiting, ClientInv
<1>2. /\ t \in Tables /\ Sane(db) /\ s.t = t
      /\ s.op \in {"select", "joined", "insert", "delete", "update"}
      /\ s.op \in {"insert", "update"} => s.row \in Rows(t)
  BY <1>1 DEF Types, ClientFits, StatementFits
<1>3. /\ ui' \in [Clients -> {"start", "idle", "sent", "answered", "hung"}]
      /\ ui'[c] = "answered" /\ \A d \in Clients : d # c => ui'[d] = ui[d]
  BY <1>1 DEF Types
<1>4. DOMAIN answer' = Clients /\ \A d \in Clients : d # c => answer'[d] = answer[d]
  BY DEF Execute, ClientInv, Types
<1>5. Sane(db') /\ \A u \in Tables : u # t => db'[u] = db[u]
  <2>1. CASE s.op = "insert"
    <3>1. db' = InsertInto(db, t, s.row).db
      BY <1>2, <2>1 DEF Execute
    <3> QED
      BY <1>2, <2>1, <3>1, InsertKeeps
  <2>2. CASE s.op = "delete"
    <3>1. db' = DeleteFrom(db, t, s.where).db
      BY <1>2, <2>2 DEF Execute
    <3> QED
      BY <1>2, <3>1, DeleteKeeps
  <2>3. CASE s.op = "update"
    <3>1. db' = UpdateRow(db, t, s.where, s.row).db
      BY <1>2, <2>3 DEF Execute
    <3> QED
      BY <1>2, <2>3, <3>1, UpdateKeeps
  <2>4. CASE s.op \in {"select", "joined"}
    <3>1. db' = db
      BY <2>4 DEF Execute, Outcome
    <3> QED
      BY <1>2, <3>1
  <2> QED
    BY <1>2, <2>1, <2>2, <2>3, <2>4
<1>55. outdated' \subseteq Clients \X Tables
  BY <1>1, <1>2 DEF Types, Outdated
<1>56. ASSUME NEW d \in Clients, d # c
       PROVE  \/ <<d, tab[d]>> \in outdated'
              \/ <<d, tab[d]>> \notin outdated /\ db'[tab[d]] = db[tab[d]]
  <2>1. tab[d] \in Tables
    BY <1>1 DEF Types
  <2>2. CASE db' = db
    BY <1>1, <1>56, <2>2 DEF Outdated
  <2>3. CASE db' # db
    <3>1. s.op # "select"
      BY <2>3 DEF Execute, Outcome
    <3>2. outdated' = outdated \cup ((Clients \ {c}) \X {s.t})
      BY <1>1, <2>3, <3>1 DEF Outdated
    <3>3. CASE tab[d] = t
      BY <1>2, <1>56, <3>2, <3>3
    <3>4. CASE tab[d] # t
      BY <1>5, <2>1, <3>2, <3>4
    <3> QED
      BY <3>3, <3>4
  <2> QED
    BY <2>2, <2>3
<1>6. Types'
  BY <1>1, <1>3, <1>4, <1>5, <1>55 DEF Types
<1>7. StatementFits(c)' /\ NamesRow(c)'
  BY <1>1, <1>3 DEF ClientFits, StatementFits, NamesRow, Waiting
<1>8. ColumnsFit(c)'
  BY <1>1, <1>3 DEF ClientFits, ColumnsFit, Waiting, IsQuery
<1>9. ASSUME <<c, tab'[c]>> \notin outdated' PROVE ListFits(c)'
  <2>1. s.op # "select" => ListFits(c)
    BY <1>1, <1>9 DEF ClientFits, Outdated
  <2>2. ASSUME cols[c] = tab[c], tab[c] # "select", ~ IsQuery(c)
        PROVE  Shows(Changed(c)', db'[tab[c]])
    <3>1. s.op # "select"
      BY <2>2 DEF IsQuery
    <3> QED
      BY <1>6, <2>1, <2>2, <3>1, ListFollowsTable
  <2>3. ASSUME s.op = "select" PROVE answer'[c].rows \subseteq db'[t]
    <3>1. db' = db
      BY <2>3 DEF Execute, Outcome
    <3>2. answer'[c].rows = SelectFrom(db, t, s.where)
      <4>1. DOMAIN answer = Clients
        BY <1>1 DEF Types
      <4> QED
        BY <1>2, <2>3, <4>1 DEF Execute
    <3> QED
      BY <3>1, <3>2 DEF SelectFrom
  <2> QED
    BY <1>1, <1>2, <1>3, <2>2, <2>3 DEF ListFits, IsQuery
<1>10. ClientFits(c)'
  BY <1>7, <1>8, <1>9 DEF ClientFits
<1> QED
  BY <1>1, <1>3, <1>4, <1>56, <1>6, <1>10, OtherClients

\* Query fails.
LEMMA ExecuteFailsKeeps ==
  ASSUME ClientInv, NEW c \in Clients, ExecuteFails(c)
  PROVE  ClientInv'
<1>1. /\ ui[c] = "sent" /\ Waiting(c) /\ Types /\ ClientFits(c) /\ DOMAIN answer = Clients
      /\ ui' = [ui EXCEPT ![c] = "answered"]
      /\ answer' = [answer EXCEPT ![c] = [n |-> -1, rows |-> {}]]
      /\ db' = db
      /\ tab' = tab /\ cols' = cols /\ list' = list /\ stmt' = stmt /\ clicks' = clicks
      /\ outdated' = outdated
  BY DEF ExecuteFails, Waiting, ClientInv, Types
<1>2. /\ ui' \in [Clients -> {"start", "idle", "sent", "answered", "hung"}]
      /\ ui'[c] = "answered" /\ \A d \in Clients : d # c => ui'[d] = ui[d]
  BY <1>1 DEF Types
<1>3. /\ DOMAIN answer' = Clients /\ answer'[c].n = -1 /\ answer'[c].rows = {}
      /\ \A d \in Clients : d # c => answer'[d] = answer[d]
  BY <1>1
<1>4. Types'
  BY <1>1, <1>2, <1>3 DEF Types
<1>5. StatementFits(c)' /\ NamesRow(c)'
  BY <1>1, <1>2 DEF ClientFits, StatementFits, NamesRow, Waiting
<1>6. ColumnsFit(c)'
  BY <1>1, <1>2 DEF ClientFits, ColumnsFit, Waiting, IsQuery
<1>7. Changed(c)' = list[c]
  BY <1>1, <1>3 DEF Changed, ReportsSuccess
<1>8. ASSUME <<c, tab'[c]>> \notin outdated' PROVE ListFits(c)'
  BY <1>1, <1>2, <1>3, <1>7, <1>8 DEF ClientFits, ListFits, IsQuery
<1> QED
  BY <1>1, <1>2, <1>3, <1>4, <1>5, <1>6, <1>8, OtherClients DEF ClientFits

\* The handler takes the answer and changes the list.
LEMMA CompletionKeeps ==
  ASSUME ClientInv, NEW c \in Clients, Completion(c)
  PROVE  ClientInv'
<1>1. /\ Types /\ ClientFits(c) /\ Sane(db) /\ tab \in [Clients -> Tables]
      /\ cols \in [Clients -> Tables \cup {"joined"}]
      /\ ui \in [Clients -> {"start", "idle", "sent", "answered", "hung"}]
      /\ DOMAIN list = Clients /\ DOMAIN stmt = Clients /\ DOMAIN answer = Clients
  BY DEF ClientInv, Types
<1>2. ui[c] = "answered" /\ Waiting(c)
  BY DEF Completion, ShowList, ShowListHangs, ShowResult, Answered, Waiting
<1>3. StatementFits(c) /\ stmt[c].t = tab[c] /\ tab[c] \in Tables
  BY <1>1, <1>2 DEF ClientFits, StatementFits
<1>4. ASSUME Done(c)
      PROVE  /\ db' = db /\ tab' = tab /\ clicks' = clicks /\ outdated' = outdated
             /\ ui' \in [Clients -> {"start", "idle", "sent", "answered", "hung"}]
             /\ ui'[c] = "idle" /\ DOMAIN stmt' = Clients /\ DOMAIN answer' = Clients
             /\ \A d \in Clients : d # c =>
                  ui'[d] = ui[d] /\ stmt'[d] = stmt[d] /\ answer'[d] = answer[d]
  BY <1>1, <1>4 DEF Done
<1>5. ASSUME ui'[c] = "idle", tab' = tab
      PROVE  StatementFits(c)' /\ NamesRow(c)'
  BY <1>5 DEF StatementFits, NamesRow, Waiting
<1>6. CASE ShowList(c)
  <2> DEFINE k == IF stmt[c].op = "joined" THEN "joined" ELSE stmt[c].t
             l == SetToSeq(answer[c].rows)
  <2>1. /\ stmt[c].op \in {"select", "joined"} /\ Done(c)
        /\ cols' = [cols EXCEPT ![c] = k] /\ list' = [list EXCEPT ![c] = l]
    BY <1>6 DEF ShowList, IsQuery
  <2>2. k \in {tab[c], "joined"}
    BY <1>3
  <2> HIDE DEF k, l
  <2>3. /\ cols' \in [Clients -> Tables \cup {"joined"}] /\ cols'[c] = k
        /\ DOMAIN list' = Clients /\ list'[c] = l
        /\ \A d \in Clients : d # c => cols'[d] = cols[d] /\ list'[d] = list[d]
    BY <1>1, <1>3, <2>1, <2>2
  <2>4. Types'
    BY <1>1, <1>4, <2>1, <2>3 DEF Types
  <2>5. ColumnsFit(c)'
    BY <1>4, <2>1, <2>2, <2>3 DEF ColumnsFit
  <2>6. ASSUME <<c, tab'[c]>> \notin outdated' PROVE ListFits(c)'
    <3>1. SUFFICES ASSUME k = tab[c] PROVE Shows(l, db[tab[c]])
      BY <1>4, <2>1, <2>3 DEF ListFits
    <3>2. stmt[c].op = "select"
      BY <1>3, <2>1, <3>1 DEF k, Tables
    <3>3. answer[c].rows \subseteq db[tab[c]]
      BY <1>1, <1>2, <1>3, <1>4, <2>1, <2>6, <3>2 DEF ClientFits, ListFits
    <3>4. IsFiniteSet(answer[c].rows)
      BY <1>1, <1>3, <3>3, FS_Subset DEF Sane
    <3> QED
      BY <3>3, <3>4, ListedShows DEF l
  <2> QED
    BY <1>4, <1>5, <2>1, <2>3, <2>4, <2>5, <2>6, OtherClients DEF ClientFits
<1>7. CASE ShowListHangs(c)
  <2>1. /\ ui' = [ui EXCEPT ![c] = "hung"] /\ list' = [list EXCEPT ![c] = <<>>]
        /\ UNCHANGED <<db, tab, cols, stmt, answer, clicks, outdated>>
    BY <1>7 DEF ShowListHangs
  <2>2. /\ ui' \in [Clients -> {"start", "idle", "sent", "answered", "hung"}]
        /\ ui'[c] = "hung" /\ DOMAIN list' = Clients
        /\ \A d \in Clients : d # c => ui'[d] = ui[d] /\ list'[d] = list[d]
    BY <1>1, <2>1
  <2>3. Types'
    BY <1>1, <2>1, <2>2 DEF Types
  <2>4. ClientFits(c)'
    BY <2>2 DEF ClientFits, StatementFits, ColumnsFit, NamesRow, ListFits, Waiting
  <2> QED
    BY <2>1, <2>2, <2>3, <2>4, OtherClients
<1>8. CASE ShowResult(c)
  <2> DEFINE l == IF ~ ReportsSuccess(c) THEN list[c]
                  ELSE CASE stmt[c].op = "insert" -> <<NewItem(c)>> \o list[c]
                         [] stmt[c].op = "delete" -> RemoveAt(list[c], stmt[c].at)
                         [] stmt[c].op = "update" ->
                              [list[c] EXCEPT ![stmt[c].at] = EditedItem(c, list[c][stmt[c].at])]
  <2>1. ~ IsQuery(c) /\ Done(c) /\ cols' = cols /\ list' = [list EXCEPT ![c] = l]
    <3>1. ~ IsQuery(c) /\ Done(c) /\ cols' = cols
      BY <1>8 DEF ShowResult
    <3>2. list' = [list EXCEPT ![c] = l]
      BY <1>8, SMTT(30) DEF ShowResult
    <3> QED
      BY <3>1, <3>2
  <2>2. l = Changed(c)
    BY DEF Changed
  <2> HIDE DEF l
  <2>3. /\ DOMAIN list' = Clients /\ list'[c] = Changed(c)
        /\ \A d \in Clients : d # c => list'[d] = list[d]
    BY <1>1, <2>1, <2>2
  <2>4. Types'
    BY <1>1, <1>4, <2>1, <2>3 DEF Types
  <2>5. ColumnsFit(c)'
    BY <1>1, <1>2, <1>4, <2>1 DEF ClientFits, ColumnsFit
  <2>6. ASSUME <<c, tab'[c]>> \notin outdated' PROVE ListFits(c)'
    <3>1. SUFFICES ASSUME cols[c] = tab[c], tab[c] # "select" PROVE Shows(Changed(c), db[tab[c]])
      BY <1>4, <2>1, <2>3 DEF ListFits
    <3> QED
      BY <1>1, <1>2, <1>4, <2>1, <2>6, <3>1 DEF ClientFits, ListFits
  <2> QED
    BY <1>4, <1>5, <2>1, <2>3, <2>4, <2>5, <2>6, OtherClients DEF ClientFits
<1> QED
  BY <1>6, <1>7, <1>8 DEF Completion

-----------------------------------------------------------------------------
(* The theorems. *)

\* The invariant of the dialogs and the tables.
THEOREM ClientInvariant == Spec => []ClientInv
<1>1. Init => ClientInv
  <2>1. SUFFICES ASSUME Init PROVE ClientInv
    OBVIOUS
  <2>2. Sane(db)
    BY <2>1, ClientAssumption DEF Init, Sane
  <2>3. Types
    BY <2>1, <2>2, ClientAssumption DEF Init, Types, Tables
  <2>4. ASSUME NEW c \in Clients PROVE ClientFits(c)
    <3>1. tab[c] = "student" /\ cols[c] = "student" /\ list[c] = <<>> /\ ui[c] = "start"
      BY <2>1 DEF Init
    <3>2. Shows(<<>>, db["student"])
      BY DEF Shows
    <3> QED
      BY <3>1, <3>2 DEF ClientFits, StatementFits, ColumnsFit, NamesRow, ListFits, Waiting
  <2> QED
    BY <2>3, <2>4 DEF ClientInv
<1>2. ClientInv /\ [Next]_vars => ClientInv'
  <2>1. SUFFICES ASSUME ClientInv, [Next]_vars PROVE ClientInv'
    OBVIOUS
  <2>2. CASE UNCHANGED vars
    <3>1. UNCHANGED <<db, tab, cols, list, ui, stmt, answer, clicks, outdated>>
      BY <2>2 DEF vars
    <3>2. Types'
      BY <2>1, <3>1 DEF ClientInv, Types
    <3>3. ASSUME NEW c \in Clients PROVE ClientFits(c)'
      <4>1. ClientFits(c)
        BY <2>1 DEF ClientInv
      <4> QED
        BY <3>1, <4>1 DEF ClientFits, StatementFits, ColumnsFit, NamesRow, ListFits, Waiting,
          IsQuery, Changed, ReportsSuccess, NewItem, EditedItem
    <3> QED
      BY <3>2, <3>3 DEF ClientInv
  <2>3. CASE Next
    <3>1. PICK c \in Clients : Handler(c) \/ Execute(c) \/ ExecuteFails(c) \/ Completion(c)
      BY <2>3 DEF Next
    <3> QED
      BY <2>1, <3>1, HandlerKeeps, ExecuteKeeps, ExecuteFailsKeeps, CompletionKeeps
  <2> QED
    BY <2>1, <2>2, <2>3
<1> QED
  BY <1>1, <1>2, PTL DEF Spec

\* Whatever statements the dialogs send and however the server interleaves them, keys
\* stay unique, every foreign key has its record, and between two handlers the list
\* has the columns of the current tab's table or of the joined query.
THEOREM ClientTypeCorrect == Spec => []TypeOK
<1>1. ClientInv => TypeOK
  BY DEF ClientInv, Types, Sane, ClientFits, ColumnsFit, TypeOK
<1> QED
  BY <1>1, ClientInvariant, PTL

\* Whatever the other clients do, the rows of a student, course or class list are rows
\* of the table between two handlers, unless one of them has changed that very table.
THEOREM ClientListShowsTable == Spec => []ListShowsTable
<1>1. ClientInv => ListShowsTable
  <2>1. SUFFICES ASSUME ClientInv, NEW c \in Clients, ui[c] = "idle",
                        <<c, tab[c]>> \notin outdated, cols[c] = tab[c], tab[c] # "select", NEW i \in DOMAIN list[c]
                 PROVE  list[c][i] \in db[tab[c]]
    BY DEF ListShowsTable
  <2>2. Shows(list[c], db[tab[c]])
    BY <2>1 DEF ClientInv, ClientFits, ListFits
  <2> QED
    BY <2>2 DEF Shows
<1> QED
  BY <1>1, ClientInvariant, PTL
=============================================================================
