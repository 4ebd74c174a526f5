-------------------------- MODULE MeshtasticProofs --------------------------
(***************************************************************************)
(* A protobuf message that its buffer has room for is read as it was       *)
(* written, for messages of any values (Codec).  The proof follows the     *)
(* bytes: a number is read as it was written; a field that is written at a *)
(* place is the field that is read there; what is written of a field stays *)
(* where it is when others follow; so the fields that are read are those   *)
(* that were written, and a decoder finds each value under its number.     *)
(*                                                                         *)
(* On it rests what an app is told (MeshtasticHandler): the configuration  *)
(* of its node, whose messages have room for all that is written, and the  *)
(* packets it hears.                                                       *)
(*                                                                         *)
(* Induction over numbers and places is by the least counterexample, and a *)
(* definition by recursion has a solution because one of least length      *)
(* without one could be extended.                                          *)
(***************************************************************************)
EXTENDS Codec, MeshtasticHandler, WellFoundedInduction, TLAPS

\* A set of numbers that is not empty has a least one.
LEMMA LeastNumber ==
    ASSUME NEW T, T \subseteq Nat, T # {}
    PROVE  \E m \in T : \A j \in T : m <= j
<1>1. PICK m \in T : \A j \in T : ~ (<<j, m>> \in OpToRel(<, Nat))
  BY WFMin, NatLessThanWellFounded
<1>2. \A j \in T : m <= j
  <2> TAKE j \in T
  <2>1. ~ (j < m)
    BY <1>1 DEF OpToRel
  <2> QED BY <2>1, SMT
<1> QED BY <1>2

\* Dividing by 128 makes a number smaller.
LEMMA Septets ==
    ASSUME NEW n \in Nat
    PROVE  /\ n \div 128 \in Nat /\ n % 128 \in 0 .. 127
           /\ n = (n % 128) + 128 * (n \div 128)
           /\ n >= 128 => n \div 128 < n
  BY SMT

\* Varint is what its definition says of it: a table of it up to n exists for
\* every n, by the least n for which there was none, and two tables agree.
VarintStep(n, rest) == IF n < 128 THEN <<n>> ELSE <<(n % 128) + 128>> \o rest

VarintTable(u, n) == \A i \in 0 .. n : u[i] = VarintStep(i, u[i \div 128])

\* The bytes of a step of the table are bytes.
LEMMA VarintStepBytes ==
    ASSUME NEW n \in Nat, NEW rest \in Seq(Byte)
    PROVE  VarintStep(n, rest) \in Seq(Byte)
<1>1. CASE n < 128
  BY <1>1 DEF VarintStep, Byte
<1>2. CASE ~ (n < 128)
  <2>1. (n % 128) + 128 \in Byte
    BY Septets DEF Byte
  <2>2. <<(n % 128) + 128>> \in Seq(Byte)
    BY <2>1
  <2> QED BY <1>2, <2>2 DEF VarintStep
<1> QED BY <1>1, <1>2

\* There is a table up to every number.
LEMMA VarintTableExists ==
    ASSUME NEW n \in Nat
    PROVE  \E u \in [0 .. n -> Seq(Byte)] : VarintTable(u, n)
<1> DEFINE Bad == {m \in Nat : ~ \E u \in [0 .. m -> Seq(Byte)] : VarintTable(u, m)}
<1> SUFFICES ASSUME Bad # {} PROVE FALSE
  BY Zenon
<1>1. PICK m \in Bad : \A j \in Bad : m <= j
  BY LeastNumber, Zenon
<1>2. m \in Nat /\ ~ \E u \in [0 .. m -> Seq(Byte)] : VarintTable(u, m)
  BY Zenon
<1>3. CASE m = 0
  <2> DEFINE u == [i \in 0 .. 0 |-> << 0 >>]
  <2>1. u \in [0 .. m -> Seq(Byte)]
    BY <1>3 DEF Byte
  <2>2. VarintTable(u, m)
    BY <1>3 DEF VarintTable, VarintStep
  <2> QED BY <1>2, <2>1, <2>2, Zenon
<1>4. CASE m # 0
  <2>1. m - 1 \in Nat /\ ~ (m <= m - 1)
    BY <1>2, <1>4
  <2>2. PICK u \in [0 .. m - 1 -> Seq(Byte)] : VarintTable(u, m - 1)
    BY <1>1, <2>1, Zenon
  <2>3. m \div 128 \in 0 .. m - 1
    BY <1>2, <1>4, SMT
  <2> DEFINE last == VarintStep(m, u[m \div 128])
             v == [i \in 0 .. m |-> IF i = m THEN last ELSE u[i]]
  <2>4. last \in Seq(Byte)
    BY <1>2, <2>2, <2>3, VarintStepBytes
  <2> HIDE DEF last
  <2>5. v \in [0 .. m -> Seq(Byte)]
    BY <1>2, <2>2, <2>4
  <2>6. ASSUME NEW i \in 0 .. m PROVE v[i] = VarintStep(i, v[i \div 128])
    <3>1. CASE i = m
      <4>1. v[i] = last /\ v[i \div 128] = u[m \div 128]
        BY <1>2, <1>4, <2>3, <3>1
      <4> QED BY <3>1, <4>1 DEF last
    <3>2. CASE i # m
      <4>1. i \in 0 .. m - 1 /\ i \div 128 \in 0 .. m - 1 /\ i \div 128 \in 0 .. m /\ i \div 128 # m
        BY <1>2, <3>2, SMT
      <4>2. u[i] = VarintStep(i, u[i \div 128])
        BY <2>2, <4>1 DEF VarintTable
      <4>3. v[i] = u[i] /\ v[i \div 128] = u[i \div 128]
        BY <3>2, <4>1
      <4> QED BY <4>2, <4>3
    <3> QED BY <3>1, <3>2
  <2> HIDE DEF v
  <2>7. VarintTable(v, m)
    BY <2>6 DEF VarintTable
  <2> QED BY <1>2, <2>5, <2>7, Zenon
<1> QED BY <1>3, <1>4

\* Two tables agree where both are defined.
LEMMA VarintTablesAgree ==
    ASSUME NEW m \in Nat, NEW n \in Nat, NEW u, NEW v, VarintTable(u, m), VarintTable(v, n),
           NEW i \in Nat, i <= m, i <= n
    PROVE  u[i] = v[i]
<1> DEFINE Bad == {k \in Nat : k <= m /\ k <= n /\ u[k] # v[k]}
<1> SUFFICES ASSUME Bad # {} PROVE FALSE
  BY Zenon
<1>1. PICK k \in Bad : \A j \in Bad : k <= j
  BY LeastNumber, Zenon
<1>2. k \in Nat /\ k <= m /\ k <= n /\ u[k] # v[k]
  BY Zenon
<1>3. u[k] = VarintStep(k, u[k \div 128]) /\ v[k] = VarintStep(k, v[k \div 128])
  BY <1>2 DEF VarintTable
<1>4. CASE k < 128
  BY <1>2, <1>3, <1>4 DEF VarintStep
<1>5. CASE ~ (k < 128)
  <2>1. k \div 128 \in Nat /\ k \div 128 <= m /\ k \div 128 <= n /\ ~ (k <= k \div 128)
    BY <1>2, <1>5, SMT
  <2>2. u[k \div 128] = v[k \div 128]
    BY <1>1, <2>1, Zenon
  <2> QED BY <1>2, <1>3, <2>2
<1> QED BY <1>4, <1>5

\* write_varint, as it is defined.
LEMMA VarintIs ==
    /\ Varint \in [Nat -> Seq(Byte)]
    /\ \A n \in Nat : Varint[n] = VarintStep(n, Varint[n \div 128])
<1> DEFINE Table(n) == CHOOSE u \in [0 .. n -> Seq(Byte)] : VarintTable(u, n)
           g == [n \in Nat |-> Table(n)[n]]
           Made(h) == [n \in Nat |-> IF n < 128 THEN <<n>>
                                     ELSE <<(n % 128) + 128>> \o h[n \div 128]]
<1>1. ASSUME NEW n \in Nat PROVE Table(n) \in [0 .. n -> Seq(Byte)] /\ VarintTable(Table(n), n)
  BY VarintTableExists, Zenon
<1> HIDE DEF Table
<1>2. ASSUME NEW n \in Nat PROVE g[n] \in Seq(Byte) /\ g[n] = VarintStep(n, g[n \div 128])
  <2>1. n \in 0 .. n /\ n \div 128 \in Nat /\ n \div 128 <= n /\ n \div 128 \in 0 .. n
        /\ n \div 128 <= n \div 128
    BY SMT
  <2>2. g[n] = Table(n)[n] /\ g[n \div 128] = Table(n \div 128)[n \div 128]
    BY <2>1
  <2>3. Table(n)[n] = VarintStep(n, Table(n)[n \div 128])
    BY <1>1, <2>1 DEF VarintTable
  <2>4. Table(n)[n \div 128] = Table(n \div 128)[n \div 128]
    <3> DEFINE q == n \div 128
    <3>1. q \in Nat /\ q <= n /\ q <= q
      BY <2>1
    <3> HIDE DEF q
    <3>2. Table(n)[q] = Table(q)[q]
      BY <1>1, <3>1, VarintTablesAgree
    <3> QED BY <3>2 DEF q
  <2>5. Table(n)[n] \in Seq(Byte)
    BY <1>1, <2>1
  <2> QED BY <2>2, <2>3, <2>4, <2>5
<1>3. DOMAIN g = Nat /\ g = [n \in Nat |-> g[n]]
  OBVIOUS
<1> HIDE DEF g
<1>4. g = Made(g)
  <2>1. \A n \in Nat : g[n] = IF n < 128 THEN <<n>> ELSE <<(n % 128) + 128>> \o g[n \div 128]
    BY <1>2, Zenon DEF VarintStep
  <2> QED BY <1>3, <2>1, Zenon
<1>5. Varint = CHOOSE h : h = Made(h)
  BY Zenon DEF Varint
<1> HIDE DEF Made
<1>6. Varint = Made(Varint)
  BY <1>4, <1>5, Zenon
<1>7. DOMAIN Varint = Nat /\ \A n \in Nat : Varint[n] = VarintStep(n, Varint[n \div 128])
  <2>1. \A h : DOMAIN Made(h) = Nat
    BY DEF Made
  <2>2. \A h : \A n \in Nat : Made(h)[n] = VarintStep(n, h[n \div 128])
    BY Zenon DEF Made, VarintStep
  <2> QED BY <1>6, <2>1, <2>2, ZenonT(60)
<1>8. VarintTable(Varint, 0) /\ \A n \in Nat : VarintTable(Varint, n)
  BY <1>7 DEF VarintTable
<1>9. ASSUME NEW n \in Nat PROVE Varint[n] \in Seq(Byte)
  <2>1. n \in 0 .. n /\ n <= n
    BY SMT
  <2>2. Varint[n] = Table(n)[n]
    BY <1>1, <1>8, <2>1, VarintTablesAgree
  <2>3. Table(n)[n] \in Seq(Byte)
    BY <1>1, <2>1
  <2> QED BY <2>2, <2>3
<1>10. Varint \in [Nat -> Seq(Byte)]
  <2>1. \A h : Made(h) = [n \in Nat |-> Made(h)[n]]
    BY DEF Made
  <2>2. Varint = [n \in Nat |-> Varint[n]]
    BY <1>6, <2>1, Zenon
  <2> QED BY <1>9, <2>2, Zenon
<1> QED BY <1>7, <1>10

\* Bytes v are in d from place p.
At(d, p, v) ==
    /\ p \in Nat \ {0} /\ p + Len(v) - 1 <= Len(d)
    /\ \A i \in 1 .. Len(v) : d[p + i - 1] = v[i]

\* All bytes but the last have the bit that says another follows.
VarintEnds(v) ==
    /\ Len(v) >= 1 /\ v[Len(v)] < 128
    /\ \A i \in 1 .. Len(v) - 1 : v[i] >= 128

\* A varint of more than one byte: the first, and the varint of the rest.
LEMMA VarintMore ==
    ASSUME NEW n \in Nat, n >= 128
    PROVE  /\ Len(Varint[n]) = 1 + Len(Varint[n \div 128]) /\ Len(Varint[n \div 128]) \in Nat
           /\ Varint[n][1] = (n % 128) + 128
           /\ \A i \in 1 .. Len(Varint[n \div 128]) : Varint[n][i + 1] = Varint[n \div 128][i]
<1> DEFINE rest == Varint[n \div 128]
           b == (n % 128) + 128
<1>1. rest \in Seq(Byte)
  BY Septets, VarintIs
<1>2. Varint[n] = <<b>> \o rest
  <2>1. Varint[n] = VarintStep(n, Varint[n \div 128])
    BY VarintIs, Zenon
  <2>2. ~ (n < 128)
    BY SMT
  <2> QED BY <2>1, <2>2, Zenon DEF VarintStep
<1> HIDE DEF rest, b
<1>3. /\ Len(<<b>> \o rest) = 1 + Len(rest) /\ Len(rest) \in Nat /\ (<<b>> \o rest)[1] = b
      /\ \A i \in 1 .. Len(rest) : (<<b>> \o rest)[i + 1] = rest[i]
  BY <1>1, SMTT(30)
<1> QED BY <1>2, <1>3 DEF rest, b

\* A varint of one byte.
LEMMA VarintLess ==
    ASSUME NEW n \in Nat, n < 128
    PROVE  Varint[n] = <<n>> /\ Len(Varint[n]) = 1 /\ Varint[n][1] = n
<1>1. Varint[n] = VarintStep(n, Varint[n \div 128])
  BY VarintIs, Zenon
<1>2. Varint[n] = <<n>>
  BY <1>1, Zenon DEF VarintStep
<1>3. Len(<<n>>) = 1 /\ <<n>>[1] = n
  BY SMT
<1> QED BY <1>2, <1>3

\* Only the last byte of a varint ends it.
LEMMA VarintsEnd ==
    ASSUME NEW n \in Nat
    PROVE  VarintEnds(Varint[n])
<1> DEFINE Bad == {k \in Nat : ~ VarintEnds(Varint[k])}
<1> SUFFICES ASSUME Bad # {} PROVE FALSE
  BY Zenon
<1>1. PICK k \in Bad : \A j \in Bad : k <= j
  BY LeastNumber, Zenon
<1>2. k \in Nat /\ ~ VarintEnds(Varint[k]) /\ Varint[k] \in Seq(Byte)
  BY VarintIs
<1>3. CASE k < 128
  <2>1. VarintEnds(Varint[k])
    <3>1. Varint[k] = <<k>>
      BY <1>2, <1>3, VarintLess, Zenon
    <3>2. /\ Len(<<k>>) = 1 /\ <<k>>[1] = k /\ \A i \in 1 .. Len(<<k>>) - 1 : <<k>>[i] >= 128
      BY <1>2, SMT
    <3> QED BY <1>2, <1>3, <3>1, <3>2 DEF VarintEnds
  <2> QED BY <1>2, <2>1
<1>4. CASE ~ (k < 128)
  <2> DEFINE q == k \div 128
  <2>1. q \in Nat /\ ~ (k <= q) /\ k >= 128 /\ (k % 128) + 128 >= 128
    BY <1>2, <1>4, SMT
  <2>2. /\ Len(Varint[k]) = 1 + Len(Varint[q]) /\ Len(Varint[q]) \in Nat
        /\ Varint[k][1] = (k % 128) + 128
        /\ \A i \in 1 .. Len(Varint[q]) : Varint[k][i + 1] = Varint[q][i]
    BY <1>2, <2>1, VarintMore
  <2> HIDE DEF q
  <2>3. VarintEnds(Varint[q])
    BY <1>1, <2>1, Zenon
  <2> DEFINE v == Varint[k]
             w == Varint[q]
  <2>4. w \in Seq(Byte) /\ Len(w) \in Nat \ {0} /\ w[Len(w)] < 128
        /\ \A i \in 1 .. Len(w) - 1 : w[i] >= 128
    <3>1. w \in Seq(Byte)
      BY <2>1, VarintIs
    <3> HIDE DEF w
    <3> QED BY <2>3, <3>1 DEF VarintEnds, w
  <2>5. /\ v \in Seq(Byte) /\ Len(v) = 1 + Len(w) /\ v[1] >= 128
        /\ \A i \in 1 .. Len(w) : v[i + 1] = w[i]
    BY <1>2, <2>1, <2>2
  <2> HIDE DEF v, w
  <2>6. v[Len(v)] < 128
    <3>1. v[Len(w) + 1] = w[Len(w)]
      BY <2>4, <2>5, SMTT(30)
    <3> QED BY <2>4, <2>5, <3>1
  <2>7. ASSUME NEW i \in 1 .. Len(v) - 1 PROVE v[i] >= 128
    <3>1. CASE i = 1
      BY <2>5, <3>1
    <3>2. CASE i # 1
      <4>1. i - 1 \in 1 .. Len(w) - 1 /\ i - 1 \in 1 .. Len(w) /\ (i - 1) + 1 = i
        BY <2>4, <2>5, <3>2
      <4>2. v[(i - 1) + 1] = w[i - 1]
        BY <2>5, <4>1
      <4> QED BY <2>4, <4>1, <4>2
    <3> QED BY <3>1, <3>2
  <2>8. VarintEnds(v)
    BY <2>4, <2>5, <2>6, <2>7 DEF VarintEnds
  <2> QED BY <1>2, <2>8 DEF v
<1> QED BY <1>3, <1>4

\* A number of 32 bits takes five bytes at most.
LEMMA VarintOfWord ==
    ASSUME NEW n \in Words
    PROVE  Varint[n] \in Seq(Byte) /\ 1 <= Len(Varint[n]) /\ Len(Varint[n]) <= 5 /\ n \in Nat
<1> DEFINE Short(m, l) == \A k \in Nat : k < m => 1 <= Len(Varint[k]) /\ Len(Varint[k]) <= l
<1>1. Short(128, 1)
  <2>1. ASSUME NEW k \in Nat, k < 128 PROVE 1 <= Len(Varint[k]) /\ Len(Varint[k]) <= 1
    <3>1. Len(Varint[k]) = 1
      BY <2>1, VarintLess
    <3> QED BY <3>1
  <2> QED BY <2>1
<1>2. ASSUME NEW m \in Nat, NEW p \in Nat, p <= 128 * m, NEW l \in Nat, Short(m, l)
      PROVE  Short(p, l + 1)
  <2> SUFFICES ASSUME NEW k \in Nat, k < p
               PROVE  1 <= Len(Varint[k]) /\ Len(Varint[k]) <= l + 1
    OBVIOUS
  <2>1. k \div 128 \in Nat /\ k \div 128 < m
    BY <1>2, SMT
  <2>2. 1 <= Len(Varint[k \div 128]) /\ Len(Varint[k \div 128]) <= l
    BY <1>2, <2>1
  <2>3. CASE k < 128
    <3>1. Len(Varint[k]) = 1
      BY <2>3, VarintLess
    <3> QED BY <3>1
  <2>4. CASE ~ (k < 128)
    <3>1. Len(Varint[k]) = 1 + Len(Varint[k \div 128]) /\ Len(Varint[k \div 128]) \in Nat
      BY <2>4, VarintMore
    <3> QED BY <2>2, <3>1
  <2> QED BY <2>3, <2>4
<1> HIDE DEF Short
<1>4. Short(16384, 2)
  BY <1>1, <1>2, SMT
<1>5. Short(2097152, 3)
  BY <1>2, <1>4, SMT
<1>6. Short(268435456, 4)
  BY <1>2, <1>5, SMT
<1>7. Short(4294967296, 5)
  BY <1>2, <1>6, SMT
<1>8. n \in Nat /\ n < 4294967296
  BY SMT DEF Words
<1>9. 1 <= Len(Varint[n]) /\ Len(Varint[n]) <= 5
  BY <1>7, <1>8, SMT DEF Short
<1> QED BY <1>8, <1>9, VarintIs

\* The least of a set of numbers is what Min chooses.
LEMMA LeastIsMin ==
    ASSUME NEW S, S \subseteq Int, NEW e \in S, \A x \in S : e <= x
    PROVE  Min(S) = e
<1>1. Min(S) \in S /\ \A x \in S : Min(S) <= x
  BY Zenon DEF Min
<1>2. Min(S) \in Int /\ e \in Int /\ Min(S) <= e /\ e <= Min(S)
  BY <1>1, Zenon
<1> QED BY <1>2, SMT

\* read_varint ends where write_varint ended.
LEMMA VarintEndAt ==
    ASSUME NEW d \in Seq(Byte), NEW p \in Nat, NEW v \in Seq(Byte), VarintEnds(v), Len(v) <= 10, At(d, p, v)
    PROVE  /\ VarintEnd(d, p) = p + Len(v) - 1
           /\ VarintEnd(d, p) \in Nat /\ p <= VarintEnd(d, p) /\ VarintEnd(d, p) <= Len(d)
<1> DEFINE ends == {i \in p .. p + 9 : i <= Len(d) /\ d[i] < 128}
           e == p + Len(v) - 1
<1>1. Len(v) \in Nat /\ 1 <= Len(v) /\ Len(v) <= 10 /\ p \in Nat \ {0} /\ Len(d) \in Nat /\ v \in Seq(Byte)
  BY DEF VarintEnds, At
<1>2. e \in p .. p + 9 /\ e <= Len(d) /\ e \in Nat
  BY <1>1 DEF At
<1>3. d[e] = v[Len(v)]
  BY <1>1 DEF At
<1>4. e \in ends
  BY <1>2, <1>3 DEF VarintEnds
<1>5. ASSUME NEW i \in ends PROVE e <= i
  <2> SUFFICES ASSUME i < e PROVE FALSE
    BY <1>2
  <2>1. i - p + 1 \in 1 .. Len(v) - 1 /\ i - p + 1 \in 1 .. Len(v) /\ p + (i - p + 1) - 1 = i
    BY <1>1, <1>2
  <2>2. d[i] = v[i - p + 1]
    BY <2>1 DEF At
  <2>3. v[i - p + 1] >= 128 /\ v[i - p + 1] \in Int
    <3>1. v[i - p + 1] \in Byte
      BY <1>1, <2>1
    <3>2. \A b \in Byte : b \in Int
      BY DEF Byte
    <3>3. v[i - p + 1] >= 128
      BY <2>1 DEF VarintEnds
    <3> QED BY <3>1, <3>2, <3>3
  <2> QED BY <2>2, <2>3
<1>6. ends \subseteq Int
  OBVIOUS
<1> HIDE DEF e, ends
<1>7. Min(ends) = e
  BY <1>4, <1>5, <1>6, LeastIsMin
<1>8. VarintEnd(d, p) = e
  BY <1>4, <1>7 DEF VarintEnd, ends
<1> QED BY <1>1, <1>2, <1>8 DEF e

\* What is computed from what is nearer the end exists: D is what it is computed
\* for, m how far each is from the end, G[i] what is made of the one before.
Recursive(D, S, m, most, stop, base, next, G) ==
    /\ m \in [D -> Nat] /\ most \in Nat /\ \A i \in D : m[i] <= most
    /\ base \in [D -> S] /\ next \in [D -> D] /\ G \in [D -> [S -> S]]
    /\ \A i \in D : i \notin stop => m[next[i]] < m[i]

Computes(u, D, S, stop, base, next, G) ==
    /\ u \in [D -> S]
    /\ \A i \in D : u[i] = IF i \in stop THEN base[i] ELSE G[i][u[next[i]]]

\* There is a function with these equations.
LEMMA RecursionExists ==
    ASSUME NEW D, NEW S, NEW m, NEW most, NEW stop, NEW base, NEW next, NEW G,
           Recursive(D, S, m, most, stop, base, next, G)
    PROVE  \E u : Computes(u, D, S, stop, base, next, G)
<1> DEFINE Rhs(u, i) == IF i \in stop THEN base[i] ELSE G[i][u[next[i]]]
           Good(u, n) == \A i \in D : m[i] < n => u[i] = Rhs(u, i)
           Bad == {n \in Nat : ~ \E u \in [D -> S] : Good(u, n)}
<1>0. /\ m \in [D -> Nat] /\ most \in Nat /\ \A i \in D : m[i] <= most
      /\ base \in [D -> S] /\ next \in [D -> D] /\ G \in [D -> [S -> S]]
      /\ \A i \in D : i \notin stop => m[next[i]] < m[i]
  BY Zenon DEF Recursive
<1>1. ASSUME Bad # {} PROVE FALSE
  <2>1. PICK n \in Bad : \A j \in Bad : n <= j
    BY <1>1, LeastNumber, Zenon
  <2>2. n \in Nat /\ ~ \E u \in [D -> S] : Good(u, n)
    BY Zenon
  <2>3. CASE n = 0
    <3>1. \A i \in D : ~ (m[i] < 0)
      BY <1>0
    <3>2. Good(base, n)
      BY <2>3, <3>1, Zenon
    <3> QED BY <1>0, <2>2, <3>2, Zenon
  <2>4. CASE n # 0
    <3>1. n - 1 \in Nat /\ ~ (n <= n - 1)
      BY <2>2, <2>4
    <3>2. PICK u \in [D -> S] : Good(u, n - 1)
      BY <2>1, <3>1, Zenon
    <3> DEFINE v == [i \in D |-> Rhs(u, i)]
    <3>3. v \in [D -> S]
      <4>1. \A i \in D : next[i] \in D /\ u[next[i]] \in S /\ G[i] \in [S -> S] /\ base[i] \in S
        BY <1>0, Zenon
      <4>2. \A i \in D : G[i][u[next[i]]] \in S
        BY <4>1, Zenon
      <4>3. \A i \in D : Rhs(u, i) \in S
        BY <4>1, <4>2, Zenon
      <4> QED BY <4>3, Zenon
    <3>4. ASSUME NEW i \in D, m[i] < n PROVE v[i] = Rhs(v, i)
      <4>1. CASE i \in stop
        BY <4>1, Zenon
      <4>2. CASE i \notin stop
        <5>1. next[i] \in D /\ m[next[i]] < n - 1
          BY <1>0, <2>2, <3>4, <4>2
        <5>2. u[next[i]] = Rhs(u, next[i])
          BY <3>2, <5>1, Zenon
        <5>3. v[next[i]] = u[next[i]]
          BY <5>1, <5>2, Zenon
        <5>4. v[i] = G[i][u[next[i]]]
          BY <4>2, Zenon
        <5>5. Rhs(v, i) = G[i][v[next[i]]]
          BY <4>2, Zenon
        <5> QED BY <5>3, <5>4, <5>5, Zenon
      <4> QED BY <4>1, <4>2
    <3> HIDE DEF v
    <3>5. Good(v, n)
      BY <3>4, Zenon
    <3> QED BY <2>2, <3>3, <3>5, Zenon
  <2> QED BY <2>3, <2>4
<1>2. most + 1 \in Nat /\ \A i \in D : m[i] < most + 1
  BY <1>0
<1>3. PICK u \in [D -> S] : Good(u, most + 1)
  BY <1>1, <1>2, Zenon
<1>4. \A i \in D : u[i] = Rhs(u, i)
  BY <1>2, <1>3, Zenon
<1> QED BY <1>3, <1>4, Zenon DEF Computes

\* read_varint, as it is defined: the septets of the bytes from p to last.
LEMMA ValueIs ==
    ASSUME NEW d \in Seq(Byte), NEW last \in Nat, last <= Len(d)
    PROVE  \A p \in 1 .. Len(d) + 1 :
              /\ VarintValue(d, p, last) \in Nat
              /\ p > last => VarintValue(d, p, last) = 0
              /\ p <= last => VarintValue(d, p, last) = (d[p] % 128) + 128 * VarintValue(d, p + 1, last)
<1> DEFINE D == 1 .. Len(d) + 1
           Made(f) == [i \in D |-> IF i > last THEN 0 ELSE (d[i] % 128) + 128 * f[i + 1]]
           from == CHOOSE f : f = Made(f)
           m == [i \in D |-> Len(d) + 1 - i]
           stop == {i \in D : i > last}
           base == [i \in D |-> 0]
           next == [i \in D |-> IF i > last THEN i ELSE i + 1]
           G == [i \in D |-> [x \in Nat |-> IF i > last THEN 0 ELSE (d[i] % 128) + 128 * x]]
<1>0. Len(d) \in Nat /\ \A i \in 1 .. Len(d) : d[i] \in Byte /\ d[i] % 128 \in Nat
  <2>1. \A b \in Byte : b % 128 \in Nat
    BY SMT DEF Byte
  <2> QED BY <2>1
<1>1. m \in [D -> Nat] /\ (\A i \in D : m[i] <= Len(d)) /\ base \in [D -> Nat] /\ next \in [D -> D]
  BY <1>0
<1>2. G \in [D -> [Nat -> Nat]]
  <2>1. ASSUME NEW i \in D, NEW x \in Nat
        PROVE  (IF i > last THEN 0 ELSE (d[i] % 128) + 128 * x) \in Nat
    <3>1. CASE i > last
      BY <3>1
    <3>2. CASE ~ (i > last)
      <4>1. d[i] % 128 \in Nat
        BY <1>0, <3>2
      <4> QED BY <3>2, <4>1
    <3> QED BY <3>1, <3>2
  <2> QED BY <2>1
<1>3. \A i \in D : i \notin stop => m[next[i]] < m[i]
  BY <1>0
<1>4. \E u : Computes(u, D, Nat, stop, base, next, G)
  <2> HIDE DEF D, m, stop, base, next, G
  <2>1. Recursive(D, Nat, m, Len(d), stop, base, next, G)
    BY <1>0, <1>1, <1>2, <1>3, Zenon DEF Recursive
  <2> QED BY <2>1, RecursionExists, Zenon
<1>5. PICK u \in [D -> Nat] : \A i \in D : u[i] = IF i \in stop THEN base[i] ELSE G[i][u[next[i]]]
  BY <1>4, Zenon DEF Computes
<1>6. \A i \in D : u[i] = IF i > last THEN 0 ELSE (d[i] % 128) + 128 * u[i + 1]
  <2> TAKE i \in D
  <2>1. CASE i > last
    BY <1>5, <2>1
  <2>2. CASE ~ (i > last)
    <3>1. i + 1 \in D /\ u[i + 1] \in Nat
      <4>1. i + 1 \in D
        BY <1>0, <2>2
      <4> HIDE DEF D
      <4> QED BY <4>1
    <3>2. u[i] = G[i][u[i + 1]]
      BY <1>5, <2>2
    <3>3. G[i][u[i + 1]] = (d[i] % 128) + 128 * u[i + 1]
      BY <2>2, <3>1
    <3> QED BY <2>2, <3>2, <3>3
  <2> QED BY <2>1, <2>2
<1>7. u = Made(u)
  BY <1>5, <1>6, Zenon
<1>8. \A f : f = Made(f) => DOMAIN f = D /\ \A i \in D : f[i] = IF i > last THEN 0 ELSE (d[i] % 128) + 128 * f[i + 1]
  BY Zenon
<1>9. VarintValue(d, 1, last) = from[1] /\ \A p : VarintValue(d, p, last) = from[p]
  BY Zenon DEF VarintValue
<1> HIDE DEF Made
<1>10. from = Made(from)
  BY <1>7, Zenon
<1> HIDE DEF from
<1>11. \A i \in D : from[i] = IF i > last THEN 0 ELSE (d[i] % 128) + 128 * from[i + 1]
  BY <1>8, <1>10, Zenon
<1>12. \A i \in D : from[i] \in Nat
  <2> DEFINE Bad == {n \in Nat : \E i \in D : n = Len(d) + 1 - i /\ from[i] \notin Nat}
  <2>0. \A i \in D : Len(d) + 1 - i \in Nat
    BY <1>0
  <2> SUFFICES ASSUME Bad # {} PROVE FALSE
    BY <2>0, Zenon
  <2>1. PICK n \in Bad : \A j \in Bad : n <= j
    BY LeastNumber, Zenon
  <2>2. PICK i \in D : n = Len(d) + 1 - i /\ from[i] \notin Nat
    BY Zenon
  <2>3. ~ (i > last)
    BY <1>11, <2>2
  <2>4. i + 1 \in D /\ n - 1 \in Nat /\ n - 1 = Len(d) + 1 - (i + 1) /\ ~ (n <= n - 1)
        /\ d[i] % 128 \in Nat
    BY <1>0, <2>2, <2>3
  <2>5. from[i + 1] \in Nat
    BY <2>1, <2>4, Zenon
  <2>6. from[i] = (d[i] % 128) + 128 * from[i + 1]
    BY <1>11, <2>3, Zenon
  <2> QED BY <2>2, <2>4, <2>5, <2>6, SMTT(30)
<1> QED BY <1>9, <1>11, <1>12

\* Two things written one after the other are each at their place.
LEMMA AtJoined ==
    ASSUME NEW d \in Seq(Byte), NEW p \in Nat, NEW x \in Seq(Byte), NEW y \in Seq(Byte),
           At(d, p, x \o y)
    PROVE  At(d, p, x) /\ At(d, p + Len(x), y) /\ p + Len(x) \in Nat
<1>1. /\ Len(x \o y) = Len(x) + Len(y) /\ Len(x) \in Nat /\ Len(y) \in Nat /\ Len(d) \in Nat
      /\ \A i \in 1 .. Len(x) : (x \o y)[i] = x[i]
      /\ \A i \in 1 .. Len(y) : (x \o y)[Len(x) + i] = y[i]
  OBVIOUS
<1> DEFINE z == x \o y
<1>2. /\ p \in Nat \ {0} /\ p + Len(z) - 1 <= Len(d) /\ Len(z) = Len(x) + Len(y)
      /\ \A i \in 1 .. Len(z) : d[p + i - 1] = z[i]
  BY <1>1 DEF At
<1>3. (\A i \in 1 .. Len(x) : z[i] = x[i]) /\ \A i \in 1 .. Len(y) : z[Len(x) + i] = y[i]
  BY <1>1
<1> HIDE DEF z
<1>4. ASSUME NEW i \in 1 .. Len(x) PROVE d[p + i - 1] = x[i]
  <2>1. i \in 1 .. Len(z)
    BY <1>1, <1>2
  <2> QED BY <1>2, <1>3, <2>1
<1>5. ASSUME NEW i \in 1 .. Len(y) PROVE d[p + Len(x) + i - 1] = y[i]
  <2>1. Len(x) + i \in 1 .. Len(z) /\ p + (Len(x) + i) - 1 = p + Len(x) + i - 1
    BY <1>1, <1>2
  <2>2. d[p + (Len(x) + i) - 1] = z[Len(x) + i]
    BY <1>2, <2>1, Zenon
  <2> QED BY <1>3, <2>1, <2>2
<1>6. p \in Nat \ {0} /\ p + Len(x) - 1 <= Len(d) /\ p + Len(x) \in Nat \ {0}
      /\ p + Len(x) + Len(y) - 1 <= Len(d)
  BY <1>1, <1>2
<1> QED BY <1>4, <1>5, <1>6 DEF At

\* read_varint makes of the bytes the number write_varint was given.
LEMMA ValueAt ==
    ASSUME NEW d \in Seq(Byte), NEW n \in Nat, NEW p \in Nat, At(d, p, Varint[n])
    PROVE  VarintValue(d, p, p + Len(Varint[n]) - 1) = n
<1> DEFINE Bad == {k \in Nat : \E i \in Nat : /\ At(d, i, Varint[k])
                                              /\ VarintValue(d, i, i + Len(Varint[k]) - 1) # k}
<1> SUFFICES ASSUME Bad # {} PROVE FALSE
  BY Zenon
<1>1. PICK k \in Bad : \A j \in Bad : k <= j
  BY LeastNumber, Zenon
<1>2. PICK i \in Nat : At(d, i, Varint[k]) /\ VarintValue(d, i, i + Len(Varint[k]) - 1) # k
  BY Zenon
<1> DEFINE v == Varint[k]
           last == i + Len(v) - 1
<1>3. k \in Nat /\ v \in Seq(Byte) /\ Len(v) \in Nat /\ Len(v) >= 1 /\ Len(d) \in Nat
  <2>1. k \in Nat
    BY Zenon
  <2>2. v \in Seq(Byte) /\ VarintEnds(v)
    BY <2>1, VarintIs, VarintsEnd
  <2> HIDE DEF v
  <2> QED BY <2>1, <2>2 DEF VarintEnds
<1>4. /\ i \in Nat \ {0} /\ last <= Len(d) /\ last \in Nat /\ i <= last /\ d[i] = v[1]
      /\ i \in 1 .. Len(d) + 1 /\ i + 1 \in 1 .. Len(d) + 1
  <2> HIDE DEF v
  <2>1. i \in Nat \ {0} /\ i + Len(v) - 1 <= Len(d) /\ \A x \in 1 .. Len(v) : d[i + x - 1] = v[x]
    BY <1>2 DEF At, v
  <2>2. 1 \in 1 .. Len(v) /\ i + 1 - 1 = i
    BY <1>3
  <2> QED BY <1>3, <2>1, <2>2
<1>5. /\ VarintValue(d, i, last) = (d[i] % 128) + 128 * VarintValue(d, i + 1, last)
      /\ i + 1 > last => VarintValue(d, i + 1, last) = 0
  <2> HIDE DEF last
  <2>0. last \in Nat /\ last <= Len(d)
    BY <1>4
  <2>1. \A x \in 1 .. Len(d) + 1 :
           /\ VarintValue(d, x, last) \in Nat
           /\ x > last => VarintValue(d, x, last) = 0
           /\ x <= last => VarintValue(d, x, last) = (d[x] % 128) + 128 * VarintValue(d, x + 1, last)
    BY <2>0, ValueIs, Zenon
  <2> QED BY <1>4, <2>1
<1>6. CASE k < 128
  <2>1. Len(v) = 1 /\ v[1] = k
    BY <1>3, <1>6, VarintLess
  <2>2. VarintValue(d, i + 1, last) = 0
    BY <1>4, <1>5, <2>1
  <2>3. d[i] = k /\ k % 128 = k
    <3>1. d[i] = k
      BY <1>4, <2>1
    <3>2. k % 128 = k
      BY <1>3, <1>6, SMT
    <3> QED BY <3>1, <3>2
  <2>4. VarintValue(d, i, last) = k + 128 * 0
    BY <1>5, <2>2, <2>3
  <2>5. VarintValue(d, i, last) = k
    BY <1>3, <2>4
  <2> QED BY <1>2, <2>5
<1>7. CASE ~ (k < 128)
  <2> DEFINE q == k \div 128
             w == Varint[q]
  <2>1. q \in Nat /\ ~ (k <= q) /\ ((k % 128) + 128) % 128 = k % 128
        /\ k = (k % 128) + 128 * q
    BY <1>3, <1>7, SMT
  <2>2. Len(v) = 1 + Len(w) /\ Len(w) \in Nat /\ v[1] = (k % 128) + 128
        /\ \A x \in 1 .. Len(w) : v[x + 1] = w[x]
    BY <1>3, <1>7, VarintMore
  <2> HIDE DEF q
  <2>3. w \in Seq(Byte)
    BY <2>1, VarintIs
  <2> HIDE DEF v, w
  <2>4. At(d, i + 1, w)
    <3>1. \A x \in 1 .. Len(v) : d[i + x - 1] = v[x]
      BY <1>2 DEF At, v
    <3>2. ASSUME NEW x \in 1 .. Len(w) PROVE d[i + 1 + x - 1] = w[x]
      <4>1. x + 1 \in 1 .. Len(v) /\ i + (x + 1) - 1 = i + 1 + x - 1
        BY <1>3, <2>2
      <4>2. d[i + (x + 1) - 1] = v[x + 1]
        BY <3>1, <4>1, Zenon
      <4> QED BY <2>2, <4>1, <4>2
    <3>3. i + 1 \in Nat \ {0} /\ i + 1 + Len(w) - 1 <= Len(d)
      BY <1>3, <1>4, <2>2, SMTT(30)
    <3> QED BY <3>2, <3>3 DEF At
  <2>5. last = (i + 1) + Len(w) - 1 /\ i + 1 \in Nat
    BY <1>3, <1>4, <2>2
  <2>6. VarintValue(d, i + 1, last) = q
    <3>1. q \notin Bad
      BY <1>1, <2>1, Zenon
    <3>2. VarintValue(d, i + 1, (i + 1) + Len(Varint[q]) - 1) = q
      BY <2>1, <2>4, <2>5, <3>1, Zenon DEF w
    <3> QED BY <2>5, <3>2, Zenon DEF w
  <2>7. VarintValue(d, i, last) = k
    <3>1. i <= last
      BY <1>3, <2>2, <2>5
    <3>2. VarintValue(d, i, last) = (d[i] % 128) + 128 * VarintValue(d, i + 1, last)
      BY <1>5, <3>1
    <3>3. d[i] % 128 = k % 128
      BY <1>4, <2>1, <2>2
    <3>4. VarintValue(d, i, last) = (k % 128) + 128 * q
      BY <2>6, <3>2, <3>3, Zenon
    <3> QED BY <2>1, <3>4, Zenon
  <2> QED BY <1>2, <2>7 DEF v
<1> QED BY <1>6, <1>7

\* A word that was written at p is read there, and its end is known.
LEMMA WordAt ==
    ASSUME NEW d \in Seq(Byte), NEW n \in Words, NEW p \in Nat, At(d, p, Varint[n])
    PROVE  /\ VarintEnd(d, p) = p + Len(Varint[n]) - 1
           /\ VarintEnd(d, p) \in Nat /\ p <= VarintEnd(d, p) /\ VarintEnd(d, p) <= Len(d)
           /\ VarintValue(d, p, VarintEnd(d, p)) = n
<1>1. n \in Nat /\ Varint[n] \in Seq(Byte) /\ Len(Varint[n]) <= 10
  <2>1. n \in Nat /\ Varint[n] \in Seq(Byte) /\ Len(Varint[n]) <= 5
    BY VarintOfWord
  <2>2. Len(Varint[n]) \in Nat
    BY <2>1
  <2> QED BY <2>1, <2>2
<1>2. VarintEnds(Varint[n])
  BY <1>1, VarintsEnd
<1>3. /\ VarintEnd(d, p) = p + Len(Varint[n]) - 1
      /\ VarintEnd(d, p) \in Nat /\ p <= VarintEnd(d, p) /\ VarintEnd(d, p) <= Len(d)
  BY <1>1, <1>2, VarintEndAt
<1>4. VarintValue(d, p, p + Len(Varint[n]) - 1) = n
  BY <1>1, ValueAt
<1> QED BY <1>3, <1>4

\* A field of a schema: its number and the wire type make a tag of 32 bits.
IsField(f) == f.number \in Nat \ {0} /\ \A w \in {0, 2, 5} : f.number * 8 + w \in Words

\* The three wire types that are written.
LEMMA Wires == \A type : WireOf(type) \in {0, 2, 5}
  BY Zenon DEF WireOf

\* A tag says the number of the field and its wire type (write_tag, read_tag).
LEMMA TagOf ==
    ASSUME NEW f, IsField(f)
    PROVE  /\ f.number * 8 + WireOf(f.type) \in Words
           /\ Tag(f.number, WireOf(f.type)) = Varint[f.number * 8 + WireOf(f.type)]
           /\ (f.number * 8 + WireOf(f.type)) % 8 = WireOf(f.type)
           /\ (f.number * 8 + WireOf(f.type)) \div 8 = f.number
<1>1. WireOf(f.type) \in {0, 2, 5} /\ f.number \in Nat
  BY Wires DEF IsField
<1> DEFINE w == WireOf(f.type)
<1>2. f.number * 8 + w \in Words
  BY <1>1, Zenon DEF IsField
<1>3. \A m \in Nat : \A x \in {0, 2, 5} : (m * 8 + x) % 8 = x /\ (m * 8 + x) \div 8 = m
  BY SMT
<1> QED BY <1>1, <1>2, <1>3, Zenon DEF Tag

\* A fixed32 is read as it was written.
LEMMA FourBytes ==
    ASSUME NEW n \in Words
    PROVE  /\ LittleEndian(n) \in Seq(Byte) /\ Len(LittleEndian(n)) = 4
           /\ FromLittleEndian(LittleEndian(n)) = n
<1> DEFINE a == n % 256
           b == (n \div 256) % 256
           c == (n \div 65536) % 256
           e == (n \div 16777216) % 256
<1>1. n \in Nat /\ n \div 16777216 <= 255
  BY SMT DEF Words
<1>2. /\ n = 256 * (n \div 256) + a /\ n \div 256 \in Nat /\ a \in 0 .. 255
      /\ n \div 256 = 256 * ((n \div 256) \div 256) + b /\ b \in 0 .. 255
      /\ (n \div 256) \div 256 \in Nat
  BY <1>1, SMT
<1>3. (n \div 256) \div 256 = n \div 65536 /\ n \div 65536 \in Nat
  BY <1>1, SMT
<1>4. n \div 65536 = 256 * ((n \div 65536) \div 256) + c /\ c \in 0 .. 255
  BY <1>3, SMT
<1>5. (n \div 65536) \div 256 = n \div 16777216 /\ n \div 16777216 \in Nat
  BY <1>1, SMT
<1>6. e = n \div 16777216 /\ e \in 0 .. 255
  BY <1>1, <1>5, SMT
<1>7. LittleEndian(n) = <<a, b, c, e>>
  BY SMT DEF LittleEndian
<1>8. n = a + 256 * b + 65536 * c + 16777216 * e
  <2> HIDE DEF a, b, c, e
  <2> QED BY <1>2, <1>3, <1>4, <1>5, <1>6, SMT
<1> HIDE DEF a, b, c, e
<1>9. <<a, b, c, e>> \in Seq(Byte) /\ Len(<<a, b, c, e>>) = 4
      /\ FromLittleEndian(<<a, b, c, e>>) = a + 256 * b + 65536 * c + 16777216 * e
  BY <1>2, <1>4, <1>6, SMT DEF Byte, FromLittleEndian
<1> QED BY <1>7, <1>8, <1>9, SMT

\* A signed number is read as it was written (write_sint32, read_sint32).
LEMMA UnZigZagged ==
    ASSUME NEW v \in Int
    PROVE  ZigZag(v) \in Nat /\ UnZigZag(ZigZag(v)) = v /\ (ZigZag(v) = 0 <=> v = 0)
<1>1. CASE v >= 0
  BY <1>1, SMT DEF ZigZag, UnZigZag
<1>2. CASE ~ (v >= 0)
  <2>1. ZigZag(v) = -2 * v - 1 /\ (-2 * v - 1) % 2 # 0 /\ (-2 * v - 1) \div 2 = -v - 1
    BY <1>2, SMT DEF ZigZag
  <2>2. UnZigZag(ZigZag(v)) = -(-v - 1) - 1
    BY <2>1 DEF UnZigZag
  <2> QED BY <1>2, <2>1, <2>2, SMT
<1> QED BY <1>1, <1>2

\* What FieldAt makes of the tag it reads, in parts.
LastOf(d, kind, q) ==
    CASE kind = 0 -> VarintEnd(d, q)
      [] kind = 1 -> q + 7
      [] kind = 5 -> q + 3
      [] kind = 2 -> IF VarintEnd(d, q) = 0 THEN 0
                     ELSE VarintEnd(d, q) + VarintValue(d, q, VarintEnd(d, q))
      [] OTHER    -> 0

FieldOf(d, tag, key, first, last) ==
    [ok |-> tag # 0 /\ last # 0 /\ last <= Len(d),
     number |-> key \div 8, wire |-> key % 8, first |-> first, last |-> last]

\* FieldAt, in its parts.
LEMMA FieldParts ==
    ASSUME NEW d, NEW p, NEW tag, tag = VarintEnd(d, p), NEW key, key = VarintValue(d, p, tag)
    PROVE  FieldAt(d, p) =
              FieldOf(d, tag, key,
                      IF key % 8 = 2 THEN VarintEnd(d, tag + 1) + 1 ELSE tag + 1,
                      LastOf(d, key % 8, tag + 1))
  BY Zenon DEF FieldAt, FieldOf, LastOf

\* The types whose numbers are read as they are.
Plainly == {"bytes", "fixed32", "sint", "bool", "uint", "port"}

\* Nothing is taken off their numbers, and nothing is read as nothing.
LEMMA PlainTypes ==
    ASSUME NEW type \in Plainly
    PROVE  /\ StartOf(type) = NoneOf(type) /\ AsNamed(type, NoneOf(type)) = NoneOf(type)
           /\ \A n : Narrowed(type, n) = n
<1>1. type \notin {"address", "hops", "priority"}
  BY Zenon DEF Plainly
<1>2. StartOf(type) = NoneOf(type)
  BY <1>1, Zenon DEF StartOf
<1>3. AsNamed(type, NoneOf(type)) = NoneOf(type)
  BY <1>2, Zenon DEF AsNamed
<1>4. DOMAIN Width = {"byte", "hops", "priority", "source", "role", "error", "model"}
  BY SMT DEF Width
<1>5. type \notin DOMAIN Width
  BY <1>4, Zenon DEF Plainly
<1> QED BY <1>2, <1>3, <1>5, Zenon DEF Narrowed

\* Nothing stays nothing.
LEMMA NarrowedNone == \A type : Narrowed(type, 0) = 0
<1>1. DOMAIN Width = {"byte", "hops", "priority", "source", "role", "error", "model"}
  BY SMT DEF Width
<1>2. \A t \in DOMAIN Width : Width[t] = 256 \/ Width[t] = 65536
  BY <1>1, SMT DEF Width
<1>3. 0 % 256 = 0 /\ 0 % 65536 = 0
  OBVIOUS
<1> SUFFICES ASSUME NEW type PROVE Narrowed(type, 0) = 0
  OBVIOUS
<1>4. CASE type \in DOMAIN Width
  <2>1. Width[type] = 256 \/ Width[type] = 65536
    BY <1>2, <1>4
  <2>2. 0 % Width[type] = 0
    BY <1>3, <2>1, SMT
  <2> QED BY <1>4, <2>2, Zenon DEF Narrowed
<1>5. CASE type \notin DOMAIN Width
  BY <1>5, Zenon DEF Narrowed
<1> QED BY <1>4, <1>5

\* The word that a number is written as.
WordOf(type, v) == IF type = "sint" THEN ZigZag(v) ELSE v

\* How each type is written.
LEMMA Encodings ==
    ASSUME NEW f, NEW v, Fits(f.type, v)
    PROVE  /\ f.type = "bytes" =>
                  /\ WireOf(f.type) = 2 /\ NoneOf(f.type) = << >> /\ Content(f, v) = v
                  /\ Preface(f, v) = Tag(f.number, WireOf(f.type)) \o Varint[Len(v)]
                  /\ v \in Seq(Byte) /\ Len(v) \in Words
           /\ f.type # "bytes" =>
                  /\ NoneOf(f.type) = 0 /\ WordOf(f.type, v) \in Words
                  /\ Preface(f, v) = Tag(f.number, WireOf(f.type)) \o << >>
                  /\ f.type = "fixed32" =>
                        v \in Words /\ WireOf(f.type) = 5 /\ Content(f, v) = LittleEndian(v)
                  /\ f.type # "fixed32" =>
                        WireOf(f.type) = 0 /\ Content(f, v) = Varint[WordOf(f.type, v)]
<1>1. 0 \in Words /\ 1 \in Words
  BY SMT DEF Words
<1>2. CASE f.type = "bytes"
  BY <1>2, Zenon DEF Fits, WireOf, NoneOf, Content, Preface
<1>3. CASE f.type = "sint"
  BY <1>3, Zenon DEF Fits, WireOf, NoneOf, Content, Preface, WordOf
<1>4. CASE f.type = "bool"
  <2>1. v \in {0, 1}
    BY <1>4, Zenon DEF Fits
  <2> QED BY <1>1, <1>4, <2>1, Zenon DEF WireOf, NoneOf, Content, Preface, WordOf
<1>5. CASE f.type = "fixed32"
  BY <1>5, Zenon DEF Fits, WireOf, NoneOf, Content, Preface, WordOf
<1>6. CASE f.type \notin {"bytes", "sint", "bool", "fixed32"}
  BY <1>6, Zenon DEF Fits, WireOf, NoneOf, Content, Preface, WordOf
<1> QED BY <1>2, <1>3, <1>4, <1>5, <1>6, Zenon

\* What is written of a field is bytes, and its tag is at least one.
LEMMA WrittenBytes ==
    ASSUME NEW f, IsField(f), NEW v, Fits(f.type, v)
    PROVE  /\ Tag(f.number, WireOf(f.type)) \in Seq(Byte)
           /\ Preface(f, v) \in Seq(Byte) /\ Content(f, v) \in Seq(Byte)
           /\ Written(f, v) \in Seq(Byte)
           /\ Len(Preface(f, v)) >= 1
<1> DEFINE T == Tag(f.number, WireOf(f.type))
           pre == Preface(f, v)
           con == Content(f, v)
<1>1. T \in Seq(Byte) /\ Len(T) >= 1
  <2>1. \A n \in Words : Varint[n] \in Seq(Byte) /\ Len(Varint[n]) >= 1
    BY VarintOfWord
  <2> QED BY <2>1, TagOf
<1> HIDE DEF T
<1>2. con \in Seq(Byte) /\ pre \in Seq(Byte) /\ Len(pre) >= 1
  <2>1. CASE f.type = "bytes"
    <3>1. con = v /\ pre = T \o Varint[Len(v)] /\ v \in Seq(Byte) /\ Varint[Len(v)] \in Seq(Byte)
      BY <2>1, Encodings, VarintOfWord DEF T
    <3> HIDE DEF pre, con
    <3>2. \A y \in Seq(Byte) : T \o y \in Seq(Byte) /\ Len(T \o y) >= 1
      BY <1>1
    <3> QED BY <3>1, <3>2
  <2>2. CASE f.type # "bytes"
    <3>1. pre = T \o << >>
      BY <2>2, Encodings DEF T
    <3>2. T \o << >> \in Seq(Byte) /\ Len(T \o << >>) >= 1
      BY <1>1
    <3>3. CASE f.type = "fixed32"
      <4>1. con = LittleEndian(v) /\ v \in Words
        BY <2>2, <3>3, Encodings
      <4>2. con \in Seq(Byte)
        BY <4>1, FourBytes
      <4> QED BY <3>1, <3>2, <4>2
    <3>4. CASE f.type # "fixed32"
      <4>1. con = Varint[WordOf(f.type, v)] /\ WordOf(f.type, v) \in Words
        BY <2>2, <3>4, Encodings
      <4>2. con \in Seq(Byte)
        BY <4>1, VarintOfWord
      <4> QED BY <3>1, <3>2, <4>2
    <3> QED BY <3>3, <3>4
  <2> QED BY <2>1, <2>2
<1> HIDE DEF pre, con
<1>3. << >> \in Seq(Byte) /\ pre \o con \in Seq(Byte)
  BY <1>2
<1>4. Written(f, v) \in Seq(Byte)
  BY <1>3, Zenon DEF Written, pre, con
<1> QED BY <1>1, <1>2, <1>4 DEF T, pre, con

\* Where the value of each wire type ends.
LEMMA LastOfWires ==
    ASSUME NEW d, NEW q
    PROVE  /\ LastOf(d, 0, q) = VarintEnd(d, q) /\ LastOf(d, 1, q) = q + 7
           /\ LastOf(d, 5, q) = q + 3
           /\ LastOf(d, 2, q) = IF VarintEnd(d, q) = 0 THEN 0
                               ELSE VarintEnd(d, q) + VarintValue(d, q, VarintEnd(d, q))
           /\ \A kind : kind \notin {0, 1, 2, 5} => LastOf(d, kind, q) = 0
<1>1. 0 # 1 /\ 0 # 2 /\ 0 # 5 /\ 1 # 2 /\ 1 # 5 /\ 2 # 5
  BY SMT
<1> QED BY <1>1, Zenon DEF LastOf

\* What read_tag and the reader of the value make of a field written at p.
Read(f, v, p) ==
    [ok |-> TRUE, number |-> f.number, wire |-> WireOf(f.type),
     first |-> p + Len(Preface(f, v)),
     last |-> p + Len(Preface(f, v)) + Len(Content(f, v)) - 1]

\* A field that is written at a place is the field that is read there.
LEMMA FieldIsRead ==
    ASSUME NEW d \in Seq(Byte), NEW p \in Nat, NEW f, IsField(f), NEW v, Fits(f.type, v),
           v # NoneOf(f.type), At(d, p, Preface(f, v) \o Content(f, v))
    PROVE  /\ FieldAt(d, p) = Read(f, v, p)
           /\ At(d, p + Len(Preface(f, v)), Content(f, v))
           /\ Len(Preface(f, v)) \in Nat \ {0} /\ Len(Content(f, v)) \in Nat \ {0}
           /\ Len(Preface(f, v)) + Len(Content(f, v)) = Len(Preface(f, v) \o Content(f, v))
           /\ p + Len(Preface(f, v)) + Len(Content(f, v)) - 1 <= Len(d)
<1> DEFINE T == Tag(f.number, WireOf(f.type))
           key == f.number * 8 + WireOf(f.type)
           pre == Preface(f, v)
           con == Content(f, v)
           tag == VarintEnd(d, p)
           q == tag + 1
           kind == WireOf(f.type)
           last == p + Len(pre) + Len(con) - 1
<1>1. pre \in Seq(Byte) /\ con \in Seq(Byte) /\ T \in Seq(Byte) /\ Len(pre) >= 1
  BY WrittenBytes
<1>2. At(d, p, pre) /\ At(d, p + Len(pre), con) /\ p + Len(pre) \in Nat
  BY <1>1, AtJoined
<1>3. T = Varint[key] /\ key \in Words /\ key % 8 = kind /\ key \div 8 = f.number
  BY TagOf
<1>4. ASSUME NEW y \in Seq(Byte), pre = T \o y
      PROVE  /\ VarintValue(d, p, tag) = key /\ tag # 0
             /\ q = p + Len(T) /\ q \in Nat /\ At(d, q, y) /\ p + Len(pre) = q + Len(y)
  <2> HIDE DEF T, key, pre, tag
  <2>1. At(d, p, T) /\ At(d, p + Len(T), y)
    BY <1>1, <1>2, <1>4, AtJoined
  <2>2. tag = p + Len(T) - 1 /\ tag \in Nat /\ p <= tag /\ VarintValue(d, p, tag) = key
    BY <1>3, <2>1, WordAt DEF tag
  <2>3. Len(T \o y) = Len(T) + Len(y) /\ Len(T) \in Nat /\ Len(y) \in Nat
    BY <1>1, <1>4
  <2>4. p \in Nat \ {0}
    BY <2>1 DEF At
  <2> QED BY <1>4, <2>1, <2>2, <2>3, <2>4
<1>5. ASSUME VarintValue(d, p, tag) = key
      PROVE  FieldAt(d, p) = FieldOf(d, tag, key, IF kind = 2 THEN VarintEnd(d, q) + 1 ELSE q,
                                     LastOf(d, kind, q))
  <2> HIDE DEF key, kind, tag
  <2>1. FieldAt(d, p) =
              FieldOf(d, tag, key,
                      IF key % 8 = 2 THEN VarintEnd(d, tag + 1) + 1 ELSE tag + 1,
                      LastOf(d, key % 8, tag + 1))
    BY <1>5, FieldParts, Zenon DEF tag
  <2> QED BY <1>3, <2>1, Zenon
<1>6. Len(con) \in Nat /\ Len(pre) \in Nat /\ Len(d) \in Nat /\ p \in Nat
      /\ p + Len(pre) + Len(con) - 1 <= Len(d)
  <2> HIDE DEF pre, con
  <2> QED BY <1>1, <1>2 DEF At
<1>7. Len(con) # 0 /\ FieldAt(d, p) = FieldOf(d, tag, key, p + Len(pre), last) /\ tag # 0
  <2>1. CASE f.type = "bytes"
    <3>1. con = v /\ pre = T \o Varint[Len(v)] /\ v \in Seq(Byte) /\ v # << >>
          /\ Len(v) \in Words /\ kind = 2 /\ Varint[Len(v)] \in Seq(Byte)
      BY <2>1, Encodings, VarintOfWord
    <3> DEFINE y == Varint[Len(v)]
               length == VarintEnd(d, q)
    <3>2. /\ VarintValue(d, p, tag) = key /\ tag # 0 /\ q \in Nat
          /\ At(d, q, y) /\ p + Len(pre) = q + Len(y)
      <4> HIDE DEF T, key, pre, tag
      <4> QED BY <1>4, <3>1
    <3>3. /\ length = q + Len(y) - 1 /\ length \in Nat /\ q <= length
          /\ VarintValue(d, q, length) = Len(v)
      <4> HIDE DEF q
      <4> QED BY <3>1, <3>2, WordAt
    <3>4. Len(v) \in Nat \ {0} /\ Len(y) \in Nat
      BY <3>1
    <3>5. LastOf(d, 2, q) = IF length = 0 THEN 0 ELSE length + VarintValue(d, q, length)
      BY LastOfWires
    <3>6. q # 0
      BY <3>2 DEF At
    <3> HIDE DEF T, key, pre, con, tag, q, kind, y, length
    <3>7. LastOf(d, kind, q) = length + Len(v) /\ length + 1 = p + Len(pre)
      BY <3>1, <3>2, <3>3, <3>4, <3>5, <3>6
    <3>8. length + Len(v) = last
      <4>1. Len(con) = Len(v)
        BY <3>1
      <4>2. p + Len(pre) \in Nat
        BY <1>6
      <4> QED BY <3>2, <3>3, <3>4, <4>1, <4>2
    <3>9. FieldAt(d, p) = FieldOf(d, tag, key, length + 1, length + Len(v))
      BY <1>5, <3>1, <3>2, <3>7, Zenon DEF length
    <3> HIDE DEF last
    <3> QED BY <3>1, <3>2, <3>4, <3>7, <3>8, <3>9
  <2>2. CASE f.type # "bytes"
    <3>1. pre = T \o << >> /\ << >> \in Seq(Byte) /\ Len(<< >>) = 0
      <4>1. pre = T \o << >>
        BY <2>2, Encodings, Zenon
      <4> HIDE DEF T, pre
      <4> QED BY <4>1
    <3>2. /\ VarintValue(d, p, tag) = key /\ tag # 0 /\ q \in Nat
          /\ p + Len(pre) = q + Len(<< >>)
      <4> HIDE DEF T, key, pre, tag
      <4> QED BY <1>4, <3>1
    <3>3. p + Len(pre) = q
      BY <3>1, <3>2
    <3>4. kind # 2 /\ LastOf(d, kind, q) = last /\ Len(con) # 0
      <4>1. CASE f.type = "fixed32"
        <5>1. con = LittleEndian(v) /\ v \in Words /\ kind = 5
          BY <2>2, <4>1, Encodings
        <5>2. Len(con) = 4
          BY <5>1, FourBytes
        <5>3. LastOf(d, 5, q) = q + 3
          BY LastOfWires
        <5> HIDE DEF con, kind, q, pre
        <5> QED BY <1>6, <3>2, <3>3, <5>1, <5>2, <5>3
      <4>2. CASE f.type # "fixed32"
        <5>1. con = Varint[WordOf(f.type, v)] /\ WordOf(f.type, v) \in Words /\ kind = 0
          BY <2>2, <4>2, Encodings
        <5>2. At(d, q, con)
          BY <1>2, <3>3, Zenon
        <5>3. VarintEnd(d, q) = q + Len(con) - 1 /\ Len(con) >= 1
          <6> HIDE DEF q, con
          <6> QED BY <3>2, <5>1, <5>2, WordAt, VarintOfWord
        <5>4. LastOf(d, 0, q) = VarintEnd(d, q)
          BY LastOfWires
        <5> HIDE DEF con, kind, q, pre
        <5>5. kind # 2 /\ Len(con) # 0
          BY <1>6, <5>1, <5>3
        <5>6. LastOf(d, kind, q) = q + Len(con) - 1
          BY <5>1, <5>3, <5>4
        <5> QED BY <1>6, <3>2, <3>3, <5>5, <5>6
      <4> QED BY <4>1, <4>2
    <3> HIDE DEF T, key, pre, con, tag, q, kind, last
    <3>5. FieldAt(d, p) = FieldOf(d, tag, key, q, last)
      BY <1>5, <3>2, <3>4, Zenon
    <3> QED BY <3>2, <3>3, <3>4, <3>5
  <2> QED BY <2>1, <2>2
<1>8. last # 0 /\ last <= Len(d) /\ last \in Nat
  <2>1. p \in Nat \ {0}
    BY <1>2 DEF At
  <2> HIDE DEF pre, con
  <2> QED BY <1>1, <1>6, <1>7, <2>1
<1>9. FieldOf(d, tag, key, p + Len(pre), last) = Read(f, v, p)
  <2>1. Read(f, v, p) = [ok |-> TRUE, number |-> f.number, wire |-> kind,
                         first |-> p + Len(pre), last |-> last]
    BY DEF Read
  <2>2. (tag # 0 /\ last # 0 /\ last <= Len(d)) = TRUE
    BY <1>7, <1>8
  <2> HIDE DEF pre, con, tag, key, kind, last
  <2> QED BY <1>3, <2>1, <2>2, Zenon DEF FieldOf
<1>10. Len(pre) + Len(con) = Len(pre \o con) /\ Len(pre) \in Nat \ {0} /\ Len(con) \in Nat \ {0}
  <2> HIDE DEF pre, con
  <2> QED BY <1>1, <1>6, <1>7
<1> QED BY <1>2, <1>6, <1>7, <1>9, <1>10

\* A varint ends at or behind the place it was begun at, and in the message.
LEMMA VarintEndIn ==
    ASSUME NEW d \in Seq(Byte), NEW p \in Nat
    PROVE  /\ VarintEnd(d, p) \in Nat /\ VarintEnd(d, p) <= Len(d)
           /\ VarintEnd(d, p) # 0 => p <= VarintEnd(d, p)
<1> DEFINE ends == {i \in p .. p + 9 : i <= Len(d) /\ d[i] < 128}
<1>1. CASE ends = {}
  <2>1. VarintEnd(d, p) = 0
    BY <1>1, Zenon DEF VarintEnd
  <2> QED BY <2>1
<1>2. CASE ends # {}
  <2>1. ends \subseteq Nat /\ \A i \in ends : p <= i /\ i <= Len(d)
    BY SMT
  <2> HIDE DEF ends
  <2>2. PICK e \in ends : \A x \in ends : e <= x
    BY <1>2, <2>1, LeastNumber, Zenon
  <2>3. ends \subseteq Int
    BY <2>1
  <2>4. Min(ends) = e
    BY <2>2, <2>3, LeastIsMin
  <2>5. VarintEnd(d, p) = e
    BY <1>2, <2>4, Zenon DEF VarintEnd, ends
  <2> QED BY <2>1, <2>2, <2>5
<1> QED BY <1>1, <1>2

\* The last place and the verdict of FieldOf.
LEMMA FieldOfHas ==
    ASSUME NEW d, NEW tag, NEW key, NEW first, NEW last
    PROVE  /\ FieldOf(d, tag, key, first, last).last = last
           /\ FieldOf(d, tag, key, first, last).ok => tag # 0 /\ last # 0 /\ last <= Len(d)
  BY Zenon DEF FieldOf

\* A field that is not broken ends behind its beginning, in the message.
LEMMA FieldEnds ==
    ASSUME NEW d \in Seq(Byte), NEW p \in 1 .. Len(d) + 1, FieldAt(d, p).ok
    PROVE  FieldAt(d, p).last \in p .. Len(d)
<1> DEFINE tag == VarintEnd(d, p)
           key == VarintValue(d, p, tag)
           q == tag + 1
           kind == key % 8
           length == VarintEnd(d, q)
           last == LastOf(d, kind, q)
<1>1. FieldAt(d, p).last = last /\ tag # 0 /\ last # 0 /\ last <= Len(d)
  <2>1. FieldAt(d, p) = FieldOf(d, tag, key, IF kind = 2 THEN length + 1 ELSE q, last)
    BY FieldParts
  <2> HIDE DEF tag, key, q, kind, length, last
  <2> DEFINE r == FieldAt(d, p)
             first == IF kind = 2 THEN length + 1 ELSE q
  <2>2. r = FieldOf(d, tag, key, first, last) /\ r.ok
    BY <2>1
  <2> HIDE DEF r, first
  <2>3. r.last = last /\ tag # 0 /\ last # 0 /\ last <= Len(d)
    BY <2>2, FieldOfHas
  <2> QED BY <2>3 DEF r
<1>2. Len(d) \in Nat /\ p \in Nat
  OBVIOUS
<1>3. tag \in Nat /\ p <= tag /\ tag <= Len(d)
  BY <1>1, <1>2, VarintEndIn
<1>4. q \in Nat /\ p <= q /\ q \in 1 .. Len(d) + 1
  BY <1>2, <1>3
<1>5. length \in Nat /\ length <= Len(d) /\ (length # 0 => q <= length)
  <2> HIDE DEF q
  <2> QED BY <1>4, VarintEndIn
<1>6. VarintValue(d, q, length) \in Nat
  <2> HIDE DEF q, length
  <2> QED BY <1>4, <1>5, ValueIs, Zenon
<1> HIDE DEF tag, key, q
<1>7. /\ kind = 0 => last = length
      /\ kind = 1 => last = q + 7
      /\ kind = 5 => last = q + 3
      /\ kind = 2 => last = IF length = 0 THEN 0 ELSE length + VarintValue(d, q, length)
      /\ kind \notin {0, 1, 2, 5} => last = 0
  BY LastOfWires, ZenonT(60)
<1> HIDE DEF kind, length, last
<1>8. CASE kind \in {0, 1, 5}
  BY <1>1, <1>2, <1>3, <1>4, <1>5, <1>7, <1>8
<1>9. CASE kind = 2
  BY <1>1, <1>2, <1>3, <1>4, <1>5, <1>6, <1>7, <1>9
<1>10. last \in p .. Len(d)
  BY <1>1, <1>7, <1>8, <1>9
<1> QED BY <1>1, <1>10, Zenon

\* The list of fields, from each place on, as FieldsOf is defined.
FieldLists(d, from) ==
    \A p \in 1 .. Len(d) + 1 :
        from[p] = IF p > Len(d) THEN << >>
                  ELSE <<FieldAt(d, p)>> \o (IF FieldAt(d, p).ok THEN from[FieldAt(d, p).last + 1]
                                             ELSE << >>)

\* FieldsOf is such a list: the recursion goes on behind each field.
LEMMA FieldsAre ==
    ASSUME NEW d \in Seq(Byte)
    PROVE  \E from : FieldLists(d, from) /\ FieldsOf(d) = from[1]
<1> DEFINE D == 1 .. Len(d) + 1
           F(p) == FieldAt(d, p)
           Made(f) == [p \in D |-> IF p > Len(d) THEN << >>
                                   ELSE <<F(p)>> \o (IF F(p).ok THEN f[F(p).last + 1] ELSE << >>)]
           from == CHOOSE f : f = Made(f)
           R == {F(p) : p \in D}
           Ends(p) == p > Len(d) \/ ~ F(p).ok
           m == [p \in D |-> Len(d) + 1 - p]
           stop == {p \in D : Ends(p)}
           base == [p \in D |-> IF p > Len(d) THEN << >> ELSE <<F(p)>>]
           next == [p \in D |-> IF Ends(p) THEN p ELSE F(p).last + 1]
           G == [p \in D |-> [x \in Seq(R) |-> <<F(p)>> \o x]]
<1>1. Len(d) \in Nat
  OBVIOUS
<1>2. ASSUME NEW p \in D, ~ Ends(p) PROVE F(p).last + 1 \in D /\ p < F(p).last + 1
  <2>1. F(p).last \in p .. Len(d)
    BY <1>2, FieldEnds
  <2> HIDE DEF F
  <2> QED BY <1>1, <2>1
<1>3. ASSUME NEW p \in D PROVE <<F(p)>> \in Seq(R) /\ \A x \in Seq(R) : <<F(p)>> \o x \in Seq(R)
  <2>1. F(p) \in R
    BY Zenon
  <2> HIDE DEF F, R
  <2> QED BY <2>1
<1> HIDE DEF F
<1>4. Recursive(D, Seq(R), m, Len(d), stop, base, next, G)
  <2> HIDE DEF R
  <2>1. m \in [D -> Nat] /\ \A i \in D : m[i] <= Len(d)
    BY <1>1
  <2>2. base \in [D -> Seq(R)]
    <3>1. << >> \in Seq(R)
      OBVIOUS
    <3>2. \A p \in D : (IF p > Len(d) THEN << >> ELSE <<F(p)>>) \in Seq(R)
      BY <1>3, <3>1, Zenon
    <3> QED BY <3>2, Zenon
  <2>3. next \in [D -> D]
    <3>1. \A p \in D : (IF Ends(p) THEN p ELSE F(p).last + 1) \in D
      BY <1>2, Zenon
    <3> HIDE DEF D, Ends
    <3> QED BY <3>1, Zenon
  <2>4. G \in [D -> [Seq(R) -> Seq(R)]]
    BY <1>3, Zenon
  <2>5. ASSUME NEW i \in D, i \notin stop PROVE m[next[i]] < m[i]
    <3>1. ~ Ends(i)
      BY <2>5, Zenon
    <3>2. next[i] = F(i).last + 1
      BY <3>1, Zenon
    <3>3. F(i).last + 1 \in D /\ i < F(i).last + 1
      BY <1>2, <3>1
    <3> HIDE DEF Ends, next
    <3> QED BY <1>1, <3>2, <3>3
  <2> HIDE DEF m, stop, base, next, G
  <2> QED BY <1>1, <2>1, <2>2, <2>3, <2>4, <2>5, Zenon DEF Recursive
<1>5. \E u : Computes(u, D, Seq(R), stop, base, next, G)
  <2> HIDE DEF D, R, m, stop, base, next, G
  <2> QED BY <1>4, RecursionExists, Zenon
<1>6. PICK u \in [D -> Seq(R)] : \A p \in D : u[p] = IF p \in stop THEN base[p] ELSE G[p][u[next[p]]]
  BY <1>5, Zenon DEF Computes
<1>7. ASSUME NEW p \in D
      PROVE  u[p] = IF p > Len(d) THEN << >>
                    ELSE <<F(p)>> \o (IF F(p).ok THEN u[F(p).last + 1] ELSE << >>)
  <2>1. CASE p > Len(d)
    BY <1>6, <2>1, Zenon
  <2>2. CASE ~ (p > Len(d)) /\ ~ F(p).ok
    <3>1. u[p] = <<F(p)>>
      BY <1>6, <2>2, Zenon
    <3>2. <<F(p)>> = <<F(p)>> \o << >>
      OBVIOUS
    <3> QED BY <2>2, <3>1, <3>2, Zenon
  <2>3. CASE ~ (p > Len(d)) /\ F(p).ok
    <3>1. ~ Ends(p) /\ p \notin stop /\ next[p] = F(p).last + 1
      BY <2>3, Zenon
    <3>2. F(p).last + 1 \in D
      BY <1>2, <3>1, Zenon
    <3>3. u[F(p).last + 1] \in Seq(R)
      <4> HIDE DEF R, D
      <4> QED BY <3>2, Zenon
    <3>4. u[p] = G[p][u[F(p).last + 1]]
      BY <1>6, <3>1, Zenon
    <3>5. G[p][u[F(p).last + 1]] = <<F(p)>> \o u[F(p).last + 1]
      BY <3>3, Zenon
    <3> QED BY <2>3, <3>4, <3>5, Zenon
  <2> QED BY <2>1, <2>2, <2>3, Zenon
<1>8. u = Made(u)
  <2> HIDE DEF R
  <2> QED BY <1>6, <1>7, Zenon
<1>9. \A f : f = Made(f) => \A p \in D : f[p] = IF p > Len(d) THEN << >>
                    ELSE <<F(p)>> \o (IF F(p).ok THEN f[F(p).last + 1] ELSE << >>)
  BY Zenon
<1>10. FieldsOf(d) = from[1]
  BY Zenon DEF FieldsOf, F
<1> HIDE DEF Made
<1>11. from = Made(from)
  BY <1>8, Zenon
<1> HIDE DEF from
<1>12. FieldLists(d, from)
  BY <1>9, <1>11, Zenon DEF FieldLists, F
<1> QED BY <1>10, <1>12, Zenon

\* What every field of a schema has: a name and a number of its own, and a type
\* the message has a value of.
IsSchema(schema) ==
    /\ Len(schema) \in Nat /\ DOMAIN schema = 1 .. Len(schema)
    /\ \A i \in 1 .. Len(schema) : IsField(schema[i])
    /\ \A i, j \in 1 .. Len(schema) :
          schema[i].name = schema[j].name \/ schema[i].number = schema[j].number => i = j

IsMessage(schema, m) == \A i \in 1 .. Len(schema) : Fits(schema[i].type, m[schema[i].name])

\* What is written of the field at i, and how far the message is written.
Piece(schema, m, i) == Written(schema[i], m[schema[i].name])

Pieced(schema, m, upTo) ==
    /\ upTo \in [0 .. Len(schema) -> Seq(Byte)]
    /\ \A i \in 0 .. Len(schema) :
          upTo[i] = IF i = 0 THEN << >> ELSE upTo[i - 1] \o Piece(schema, m, i)

\* Whole is such a list of what is written so far.
LEMMA WholeIs ==
    ASSUME NEW schema, IsSchema(schema), NEW m, IsMessage(schema, m)
    PROVE  \E upTo : Pieced(schema, m, upTo) /\ Whole(schema, m) = upTo[Len(schema)]
<1> DEFINE n == Len(schema)
           D == 0 .. n
           W(i) == Piece(schema, m, i)
           Made(f) == [i \in D |-> IF i = 0 THEN << >> ELSE f[i - 1] \o W(i)]
           upTo == CHOOSE f : f = Made(f)
           S == Seq(Byte)
           measure == [i \in D |-> i]
           stop == {0}
           base == [i \in D |-> << >>]
           next == [i \in D |-> IF i = 0 THEN 0 ELSE i - 1]
           G == [i \in D |-> [x \in S |-> IF i = 0 THEN << >> ELSE x \o W(i)]]
<1>1. n \in Nat /\ \A i \in 1 .. n : IsField(schema[i])
  BY DEF IsSchema
<1>2. \A i \in 1 .. n : W(i) \in S
  <2>1. \A i \in 1 .. n : Fits(schema[i].type, m[schema[i].name])
    BY DEF IsMessage
  <2> QED BY <1>1, <2>1, WrittenBytes, Zenon DEF Piece
<1> HIDE DEF n, W
<1>3. Recursive(D, S, measure, n, stop, base, next, G)
  <2>1. measure \in [D -> Nat] /\ (\A i \in D : measure[i] <= n) /\ next \in [D -> D]
    BY <1>1
  <2>2. << >> \in S /\ base \in [D -> S]
    OBVIOUS
  <2>3. \A i \in D : \A x \in S : (IF i = 0 THEN << >> ELSE x \o W(i)) \in S
    <3> SUFFICES ASSUME NEW i \in D, NEW x \in S PROVE (IF i = 0 THEN << >> ELSE x \o W(i)) \in S
      OBVIOUS
    <3>1. CASE i = 0
      BY <3>1, <2>2
    <3>2. CASE i # 0
      <4>1. W(i) \in S
        BY <1>1, <1>2, <3>2
      <4> QED BY <3>2, <4>1
    <3> QED BY <3>1, <3>2
  <2>4. G \in [D -> [S -> S]]
    <3> HIDE DEF D, S
    <3> QED BY <2>3, Zenon
  <2>5. \A i \in D : i \notin stop => measure[next[i]] < measure[i]
    BY <1>1
  <2> HIDE DEF D, S, measure, stop, base, next, G
  <2> QED BY <1>1, <2>1, <2>2, <2>4, <2>5, Zenon DEF Recursive
<1>4. \E u : Computes(u, D, S, stop, base, next, G)
  <2> HIDE DEF D, S, measure, stop, base, next, G
  <2> QED BY <1>3, RecursionExists, Zenon
<1>5. PICK u \in [D -> S] : \A i \in D : u[i] = IF i \in stop THEN base[i] ELSE G[i][u[next[i]]]
  BY <1>4, Zenon DEF Computes
<1>6. ASSUME NEW i \in D
      PROVE  u[i] = IF i = 0 THEN << >> ELSE u[i - 1] \o W(i)
  <2>1. CASE i = 0
    BY <1>5, <2>1, Zenon
  <2>2. CASE i # 0
    <3>1. i - 1 \in D
      BY <1>1, <2>2
    <3>2. u[i - 1] \in S /\ next[i] = i - 1 /\ i \notin stop
      <4> HIDE DEF S
      <4>1. u[i - 1] \in S
        BY <3>1, Zenon
      <4> QED BY <2>2, <4>1
    <3>3. u[i] = G[i][u[i - 1]]
      BY <1>5, <3>2, Zenon
    <3>4. G[i][u[i - 1]] = u[i - 1] \o W(i)
      BY <2>2, <3>2, Zenon
    <3> QED BY <2>2, <3>3, <3>4, Zenon
  <2> QED BY <2>1, <2>2
<1>7. u = Made(u)
  <2> HIDE DEF S
  <2> QED BY <1>5, <1>6, Zenon
<1>8. \A f : f = Made(f) => DOMAIN f = D /\ f = [i \in D |-> f[i]]
                            /\ \A i \in D : f[i] = IF i = 0 THEN << >> ELSE f[i - 1] \o W(i)
  BY Zenon
<1>9. Whole(schema, m) = upTo[n]
  BY Zenon DEF Whole, n, W, Piece
<1> HIDE DEF Made
<1>10. upTo = Made(upTo)
  BY <1>7, Zenon
<1> HIDE DEF upTo
<1>11. /\ upTo = [i \in D |-> upTo[i]]
       /\ \A i \in D : upTo[i] = IF i = 0 THEN << >> ELSE upTo[i - 1] \o W(i)
  BY <1>8, <1>10, Zenon
<1>12. \A i \in D : upTo[i] \in S
  <2> DEFINE Bad == {k \in Nat : k \in D /\ upTo[k] \notin S}
  <2>0. \A i \in D : i \in Nat
    BY <1>1
  <2> SUFFICES ASSUME Bad # {} PROVE FALSE
    BY <2>0, Zenon
  <2>1. PICK k \in Bad : \A j \in Bad : k <= j
    BY LeastNumber, Zenon
  <2>2. k \in Nat /\ k \in D /\ upTo[k] \notin S
    BY Zenon
  <2>3. CASE k = 0
    <3>1. upTo[k] = << >>
      BY <1>11, <2>2, <2>3, Zenon
    <3> QED BY <2>2, <3>1
  <2>4. CASE k # 0
    <3>1. k - 1 \in Nat /\ k - 1 \in D /\ ~ (k <= k - 1) /\ k \in 1 .. n
      BY <1>1, <2>2, <2>4
    <3>2. upTo[k - 1] \in S /\ W(k) \in S
      BY <1>2, <2>1, <3>1, Zenon
    <3>3. upTo[k] = upTo[k - 1] \o W(k)
      BY <1>11, <2>2, <2>4, Zenon
    <3>4. upTo[k - 1] \o W(k) \in S
      BY <3>2
    <3> QED BY <2>2, <3>3, <3>4
  <2> QED BY <2>3, <2>4
<1>13. Pieced(schema, m, upTo)
  <2> HIDE DEF S
  <2>1. upTo \in [D -> S]
    BY <1>11, <1>12, Zenon
  <2> QED BY <1>11, <2>1, Zenon DEF Pieced, n, W, S
<1> QED BY <1>9, <1>13, Zenon DEF n

\* One field more.
LEMMA PiecesJoin ==
    ASSUME NEW schema, IsSchema(schema), NEW m, IsMessage(schema, m), NEW upTo, Pieced(schema, m, upTo),
           NEW i \in 1 .. Len(schema)
    PROVE  /\ upTo[i - 1] \in Seq(Byte) /\ upTo[i] \in Seq(Byte) /\ Piece(schema, m, i) \in Seq(Byte)
           /\ upTo[i] = upTo[i - 1] \o Piece(schema, m, i)
           /\ IsField(schema[i]) /\ Fits(schema[i].type, m[schema[i].name])
<1>1. Len(schema) \in Nat
  BY DEF IsSchema
<1>2. i \in 0 .. Len(schema) /\ i - 1 \in 0 .. Len(schema) /\ i # 0
  BY <1>1
<1>3. /\ upTo \in [0 .. Len(schema) -> Seq(Byte)]
      /\ \A x \in 0 .. Len(schema) :
            upTo[x] = IF x = 0 THEN << >> ELSE upTo[x - 1] \o Piece(schema, m, x)
  BY Zenon DEF Pieced
<1>4. upTo[i - 1] \in Seq(Byte) /\ upTo[i] \in Seq(Byte)
  BY <1>2, <1>3, Zenon
<1>5. upTo[i] = upTo[i - 1] \o Piece(schema, m, i)
  BY <1>2, <1>3, Zenon
<1>6. IsField(schema[i]) /\ Fits(schema[i].type, m[schema[i].name])
  BY Zenon DEF IsSchema, IsMessage
<1>7. Piece(schema, m, i) \in Seq(Byte)
  BY <1>6, WrittenBytes, Zenon DEF Piece
<1> QED BY <1>4, <1>5, <1>6, <1>7

\* What has been written stays where it is.
LEMMA WrittenStays ==
    ASSUME NEW schema, IsSchema(schema), NEW m, IsMessage(schema, m), NEW upTo, Pieced(schema, m, upTo),
           NEW i \in 0 .. Len(schema)
    PROVE  /\ upTo[i] \in Seq(Byte)
           /\ Len(upTo[i]) <= Len(upTo[Len(schema)])
           /\ \A k \in 1 .. Len(upTo[i]) : upTo[Len(schema)][k] = upTo[i][k]
<1> DEFINE n == Len(schema)
           d == upTo[n]
           Kept(x) == Len(upTo[x]) <= Len(d) /\ \A k \in 1 .. Len(upTo[x]) : d[k] = upTo[x][k]
           Bad == {y \in Nat : \E x \in 0 .. n : y = n - x /\ ~ Kept(x)}
<1>1. n \in Nat /\ i \in 0 .. n
  BY DEF IsSchema
<1>2. \A x \in 0 .. n : upTo[x] \in Seq(Byte)
  BY Zenon DEF Pieced
<1> HIDE DEF n
<1>3. ASSUME Bad # {} PROVE FALSE
  <2>1. PICK y \in Bad : \A z \in Bad : y <= z
    BY <1>3, LeastNumber, Zenon
  <2>2. PICK x \in 0 .. n : y = n - x /\ ~ Kept(x)
    BY Zenon
  <2>3. CASE x = n
    <3>1. Kept(n)
      BY <1>1, <1>2
    <3> QED BY <2>2, <2>3, <3>1
  <2>4. CASE x # n
    <3>1. /\ x + 1 \in 0 .. n /\ x + 1 \in 1 .. n /\ (x + 1) - 1 = x
          /\ y - 1 = n - (x + 1) /\ y - 1 \in Nat /\ ~ (y <= y - 1)
      BY <1>1, <2>2, <2>4
    <3>2. Kept(x + 1)
      BY <2>1, <3>1, Zenon
    <3> DEFINE s == upTo[x]
               t == upTo[x + 1]
               w == Piece(schema, m, x + 1)
    <3>3. s \in Seq(Byte) /\ t \in Seq(Byte) /\ w \in Seq(Byte) /\ t = s \o w
      <4>1. x + 1 \in 1 .. Len(schema) /\ upTo[(x + 1) - 1] = upTo[x]
        BY <3>1, Zenon DEF n
      <4> HIDE DEF d, w
      <4>2. /\ upTo[(x + 1) - 1] \in Seq(Byte) /\ t \in Seq(Byte)
            /\ Piece(schema, m, x + 1) \in Seq(Byte)
            /\ t = upTo[(x + 1) - 1] \o Piece(schema, m, x + 1)
        BY <4>1, PiecesJoin
      <4> QED BY <4>1, <4>2, Zenon DEF w
    <3>4. Len(t) <= Len(d) /\ \A k \in 1 .. Len(t) : d[k] = t[k]
      BY <3>2
    <3>5. d \in Seq(Byte)
      BY <1>1, <1>2
    <3> HIDE DEF d, s, t, w
    <3>6. Len(s) \in Nat /\ Len(t) \in Nat /\ Len(d) \in Nat /\ Len(s) <= Len(t)
          /\ \A k \in 1 .. Len(s) : t[k] = s[k]
      BY <3>3, <3>5
    <3>7. Len(s) <= Len(d) /\ \A k \in 1 .. Len(s) : d[k] = s[k]
      BY <3>4, <3>6
    <3> QED BY <2>2, <3>7 DEF s
  <2> QED BY <2>3, <2>4
<1>4. \A x \in 0 .. n : n - x \in Nat
  BY <1>1
<1>5. Kept(i)
  BY <1>1, <1>3, <1>4, Zenon
<1>6. /\ upTo[i] \in Seq(Byte) /\ Len(upTo[i]) <= Len(upTo[n])
      /\ \A k \in 1 .. Len(upTo[i]) : upTo[n][k] = upTo[i][k]
  BY <1>1, <1>2, <1>5, Zenon
<1> QED BY <1>6, Zenon DEF n

\* The bytes of each field are in the message, behind those of the fields before.
LEMMA PieceAt ==
    ASSUME NEW schema, IsSchema(schema), NEW m, IsMessage(schema, m), NEW upTo, Pieced(schema, m, upTo),
           NEW i \in 1 .. Len(schema)
    PROVE  /\ At(upTo[Len(schema)], Len(upTo[i - 1]) + 1, Piece(schema, m, i))
           /\ Len(upTo[i]) = Len(upTo[i - 1]) + Len(Piece(schema, m, i))
           /\ Len(upTo[i - 1]) \in Nat /\ Len(upTo[i]) \in Nat
           /\ upTo[Len(schema)] \in Seq(Byte)
<1> DEFINE d == upTo[Len(schema)]
           s == upTo[i - 1]
           t == upTo[i]
           w == Piece(schema, m, i)
<1>1. s \in Seq(Byte) /\ t \in Seq(Byte) /\ w \in Seq(Byte) /\ t = s \o w
  BY PiecesJoin
<1>2. i \in 0 .. Len(schema) /\ Len(schema) \in 0 .. Len(schema)
  BY DEF IsSchema
<1>3. d \in Seq(Byte) /\ Len(t) <= Len(d) /\ \A k \in 1 .. Len(t) : d[k] = t[k]
  <2>1. Len(t) <= Len(d) /\ \A k \in 1 .. Len(t) : d[k] = t[k]
    <3> HIDE DEF s, w
    <3>1. i \in 0 .. Len(schema)
      BY <1>2
    <3> QED BY <3>1, WrittenStays
  <2>2. d \in Seq(Byte)
    BY <1>2, Zenon DEF Pieced
  <2> QED BY <2>1, <2>2
<1> HIDE DEF d, s, t, w
<1>4. /\ Len(t) = Len(s) + Len(w) /\ Len(s) \in Nat /\ Len(t) \in Nat /\ Len(w) \in Nat /\ Len(d) \in Nat
      /\ \A k \in 1 .. Len(w) : t[Len(s) + k] = w[k]
  BY <1>1, <1>3
<1>5. ASSUME NEW k \in 1 .. Len(w) PROVE d[Len(s) + 1 + k - 1] = w[k]
  <2>1. Len(s) + k \in 1 .. Len(t) /\ Len(s) + 1 + k - 1 = Len(s) + k
    BY <1>4
  <2> QED BY <1>3, <1>4, <2>1
<1>6. Len(s) + 1 \in Nat \ {0} /\ Len(s) + 1 + Len(w) - 1 <= Len(d)
  BY <1>3, <1>4
<1>7. At(d, Len(s) + 1, w)
  BY <1>5, <1>6 DEF At
<1> QED BY <1>3, <1>4, <1>7 DEF d, s, t, w

\* The fields of a message that are not zero or empty, as they are read back.
IsWritten(schema, m, j) == m[schema[j].name] # NoneOf(schema[j].type)

ReadBack(schema, m, upTo, j) ==
    Read(schema[j], m[schema[j].name], Len(upTo[j - 1]) + 1)

\* A message that is read from the bytes it was written as.
Transfer(schema, m, upTo, from) ==
    /\ IsSchema(schema) /\ IsMessage(schema, m)
    /\ Pieced(schema, m, upTo) /\ FieldLists(upTo[Len(schema)], from)

\* From the place of a field on it is read first, when it was written at all.
LEMMA OneIsRead ==
    ASSUME NEW schema, NEW m, NEW upTo, NEW from, Transfer(schema, m, upTo, from),
           NEW i \in 1 .. Len(schema)
    PROVE  /\ ~ IsWritten(schema, m, i) => Len(upTo[i]) = Len(upTo[i - 1])
           /\ IsWritten(schema, m, i) =>
                 from[Len(upTo[i - 1]) + 1] =
                     <<ReadBack(schema, m, upTo, i)>> \o from[Len(upTo[i]) + 1]
<1> DEFINE d == upTo[Len(schema)]
           f == schema[i]
           v == m[f.name]
           w == Piece(schema, m, i)
           p == Len(upTo[i - 1]) + 1
           pre == Preface(f, v)
           con == Content(f, v)
<1>0. IsSchema(schema) /\ IsMessage(schema, m) /\ Pieced(schema, m, upTo) /\ FieldLists(d, from)
  BY Zenon DEF Transfer
<1>1. /\ At(d, p, w) /\ Len(upTo[i]) = Len(upTo[i - 1]) + Len(w)
      /\ Len(upTo[i - 1]) \in Nat /\ Len(upTo[i]) \in Nat /\ d \in Seq(Byte)
  BY <1>0, PieceAt
<1>2. IsField(f) /\ Fits(f.type, v) /\ w \in Seq(Byte)
  BY <1>0, PiecesJoin
<1>3. CASE ~ IsWritten(schema, m, i)
  <2>1. w = << >>
    BY <1>3, Zenon DEF IsWritten, Piece, Written
  <2> HIDE DEF w
  <2>2. Len(w) = 0
    BY <2>1
  <2> QED BY <1>1, <1>3, <2>2
<1>4. CASE IsWritten(schema, m, i)
  <2>1. v # NoneOf(f.type) /\ w = pre \o con
    BY <1>4, Zenon DEF IsWritten, Piece, Written
  <2>2. p \in Nat /\ Len(d) \in Nat
    BY <1>1
  <2>3. /\ FieldAt(d, p) = Read(f, v, p)
        /\ Len(pre) \in Nat \ {0} /\ Len(con) \in Nat \ {0}
        /\ Len(pre) + Len(con) = Len(pre \o con)
        /\ p + Len(pre) + Len(con) - 1 <= Len(d)
    <3> HIDE DEF d, f, v, w, p
    <3>1. At(d, p, pre \o con)
      BY <1>1, <2>1
    <3> QED BY <1>1, <1>2, <2>1, <2>2, <3>1, FieldIsRead
  <2>4. Read(f, v, p).ok = TRUE /\ Read(f, v, p).last = p + Len(pre) + Len(con) - 1
    BY Zenon DEF Read
  <2>5. Len(upTo[i - 1]) + 1 >= 1
    BY <1>1
  <2> HIDE DEF d, f, v, w, pre, con
  <2>6. p \in 1 .. Len(d) + 1 /\ ~ (p > Len(d))
    BY <2>2, <2>3, <2>5
  <2>7. p + Len(pre) + Len(con) - 1 + 1 = Len(upTo[i]) + 1
    <3>1. Len(w) = Len(pre) + Len(con)
      BY <2>1, <2>3, Zenon
    <3>2. Len(upTo[i]) = Len(upTo[i - 1]) + Len(w) /\ Len(upTo[i - 1]) \in Nat
      BY <1>1
    <3>3. Len(pre) \in Nat /\ Len(con) \in Nat
      BY <2>3
    <3> DEFINE a == Len(upTo[i - 1])
               b == Len(upTo[i])
               x == Len(pre)
               y == Len(con)
    <3>4. a \in Nat /\ x \in Nat /\ y \in Nat /\ b = a + (x + y)
      BY <3>1, <3>2, <3>3, Zenon
    <3> HIDE DEF a, b, x, y
    <3>5. a + 1 + x + y - 1 + 1 = b + 1
      BY <3>4
    <3> QED BY <3>5, Zenon DEF a, b, x, y
  <2>8. from[p] = <<FieldAt(d, p)>> \o (IF FieldAt(d, p).ok THEN from[FieldAt(d, p).last + 1]
                                        ELSE << >>)
    BY <1>0, <2>6, Zenon DEF FieldLists, d
  <2>9. FieldAt(d, p).ok /\ FieldAt(d, p).last + 1 = Len(upTo[i]) + 1
    BY <2>3, <2>4, <2>7, Zenon
  <2>10. from[p] = <<Read(f, v, p)>> \o from[Len(upTo[i]) + 1]
    BY <2>3, <2>8, <2>9, Zenon
  <2> QED BY <1>4, <2>10, Zenon DEF ReadBack, f, v
<1> QED BY <1>3, <1>4

\* A list that grows by one record for each place in a set.
Collects(n, L, rec, W) ==
    /\ n \in Nat /\ L[n] = << >>
    /\ \A x \in 1 .. n : /\ x \in W => L[x - 1] = <<rec[x]>> \o L[x]
                         /\ x \notin W => L[x - 1] = L[x]

\* The records of the places in a set.
Records(rec, W) == {rec[j] : j \in W}

\* One record more in front of a list.
LEMMA OneInFront ==
    ASSUME NEW R, NEW r \in R, NEW s \in Seq(R)
    PROVE  <<r>> \o s \in Seq(R) /\ ToSet(<<r>> \o s) = {r} \cup ToSet(s)
<1>1. /\ <<r>> \o s \in Seq(R) /\ Len(<<r>> \o s) = 1 + Len(s) /\ Len(s) \in Nat
      /\ (<<r>> \o s)[1] = r /\ \A k \in 1 .. Len(s) : (<<r>> \o s)[1 + k] = s[k]
      /\ DOMAIN (<<r>> \o s) = 1 .. 1 + Len(s) /\ DOMAIN s = 1 .. Len(s)
  OBVIOUS
<1> DEFINE t == <<r>> \o s
<1>2. /\ t[1] = r /\ \A k \in 1 .. Len(s) : t[1 + k] = s[k]
      /\ DOMAIN t = 1 .. 1 + Len(s) /\ DOMAIN s = 1 .. Len(s) /\ Len(s) \in Nat
  BY <1>1
<1> HIDE DEF t
<1>3. ASSUME NEW e \in ToSet(t) PROVE e \in {r} \cup ToSet(s)
  <2>1. PICK k \in 1 .. 1 + Len(s) : e = t[k]
    BY <1>2, Zenon DEF ToSet
  <2>2. CASE k = 1
    BY <1>2, <2>1, <2>2, Zenon
  <2>3. CASE k # 1
    <3>1. k - 1 \in 1 .. Len(s) /\ 1 + (k - 1) = k
      BY <1>2, <2>1, <2>3
    <3>2. e = s[k - 1]
      BY <1>2, <2>1, <3>1, Zenon
    <3> QED BY <1>2, <3>1, <3>2, Zenon DEF ToSet
  <2> QED BY <2>2, <2>3
<1>4. ASSUME NEW e \in {r} \cup ToSet(s) PROVE e \in ToSet(t)
  <2>1. CASE e = r
    <3>1. 1 \in 1 .. 1 + Len(s)
      BY <1>2
    <3> QED BY <1>2, <2>1, <3>1, Zenon DEF ToSet
  <2>2. CASE e \in ToSet(s)
    <3>1. PICK k \in 1 .. Len(s) : e = s[k]
      BY <1>2, <2>2, Zenon DEF ToSet
    <3>2. 1 + k \in 1 .. 1 + Len(s)
      BY <1>2
    <3>3. e = t[1 + k]
      BY <1>2, <3>1, Zenon
    <3> QED BY <1>2, <3>2, <3>3, Zenon DEF ToSet
  <2> QED BY <2>1, <2>2
<1> QED BY <1>1, <1>3, <1>4, Zenon DEF t

\* In the end the list has these records and no other.
LEMMA Collected ==
    ASSUME NEW n, NEW L, NEW rec, NEW W, Collects(n, L, rec, W)
    PROVE  /\ L[0] \in Seq(Records(rec, 1 .. n))
           /\ ToSet(L[0]) = Records(rec, {k \in 1 .. n : k \in W})
<1> DEFINE R == {rec[j] : j \in 1 .. n}
           Due(x) == {rec[j] : j \in {k \in x + 1 .. n : k \in W}}
           Good(x) == L[x] \in Seq(R) /\ ToSet(L[x]) = Due(x)
           Bad == {y \in Nat : \E x \in 0 .. n : y = n - x /\ ~ Good(x)}
<1>1. /\ n \in Nat /\ L[n] = << >>
      /\ \A x \in 1 .. n : (x \in W => L[x - 1] = <<rec[x]>> \o L[x]) /\ (x \notin W => L[x - 1] = L[x])
  BY Zenon DEF Collects
<1>2. ASSUME Bad # {} PROVE FALSE
  <2>1. PICK y \in Bad : \A z \in Bad : y <= z
    BY <1>2, LeastNumber, Zenon
  <2>2. PICK x \in 0 .. n : y = n - x /\ ~ Good(x)
    BY Zenon
  <2>3. CASE x = n
    <3>1. L[x] \in Seq(R) /\ ToSet(L[x]) = {}
      <4>1. << >> \in Seq(R) /\ ToSet(<< >>) = {}
        BY DEF ToSet
      <4> QED BY <1>1, <2>3, <4>1, Zenon
    <3>2. Due(x) = {}
      <4>1. x + 1 .. n = {}
        BY <1>1, <2>3
      <4> QED BY <4>1, Zenon
    <3> QED BY <2>2, <3>1, <3>2, Zenon
  <2>4. CASE x # n
    <3>1. /\ x + 1 \in 0 .. n /\ x + 1 \in 1 .. n /\ (x + 1) - 1 = x
          /\ y - 1 = n - (x + 1) /\ y - 1 \in Nat /\ ~ (y <= y - 1)
      BY <1>1, <2>2, <2>4
    <3>2. Good(x + 1)
      BY <2>1, <3>1, Zenon
    <3>3. x + 1 .. n = {x + 1} \cup (x + 1 + 1 .. n)
      BY <1>1, <2>2, <2>4
    <3>4. CASE x + 1 \notin W
      <4>1. L[x] = L[x + 1]
        BY <1>1, <3>1, <3>4, Zenon
      <4>2. Due(x) = Due(x + 1)
        BY <3>3, <3>4, Zenon
      <4> QED BY <2>2, <3>2, <4>1, <4>2, Zenon
    <3>5. CASE x + 1 \in W
      <4>1. L[x] = <<rec[x + 1]>> \o L[x + 1]
        BY <1>1, <3>1, <3>5, Zenon
      <4>2. Due(x) = {rec[x + 1]} \cup Due(x + 1)
        BY <3>3, <3>5, Zenon
      <4>3. rec[x + 1] \in R
        BY <3>1, Zenon
      <4> HIDE DEF R, Due
      <4>4. /\ <<rec[x + 1]>> \o L[x + 1] \in Seq(R)
            /\ ToSet(<<rec[x + 1]>> \o L[x + 1]) = {rec[x + 1]} \cup ToSet(L[x + 1])
        <5>1. L[x + 1] \in Seq(R)
          BY <3>2, Zenon
        <5> DEFINE r == rec[x + 1]
                   s == L[x + 1]
        <5>2. r \in R /\ s \in Seq(R)
          BY <4>3, <5>1
        <5> HIDE DEF r, s
        <5>3. <<r>> \o s \in Seq(R) /\ ToSet(<<r>> \o s) = {r} \cup ToSet(s)
          BY <5>2, OneInFront
        <5> QED BY <5>3 DEF r, s
      <4> QED BY <2>2, <3>2, <4>1, <4>2, <4>4, Zenon
    <3> QED BY <3>4, <3>5
  <2> QED BY <2>3, <2>4
<1>3. \A x \in 0 .. n : n - x \in Nat
  BY <1>1
<1>4. 0 \in 0 .. n /\ 0 + 1 = 1
  BY <1>1
<1>5. Good(0)
  BY <1>2, <1>3, <1>4, Zenon
<1> QED BY <1>4, <1>5, Zenon DEF Records

\* decode_... meets the fields that were written and no other.
LEMMA AllAreRead ==
    ASSUME NEW schema, NEW m, NEW upTo, NEW from, Transfer(schema, m, upTo, from)
    PROVE  /\ from[1] \in Seq({ReadBack(schema, m, upTo, j) : j \in 1 .. Len(schema)})
           /\ ToSet(from[1]) =
                 {ReadBack(schema, m, upTo, j) : j \in {k \in 1 .. Len(schema) : IsWritten(schema, m, k)}}
<1> DEFINE n == Len(schema)
           d == upTo[n]
           Rec(j) == ReadBack(schema, m, upTo, j)
           rec == [j \in 1 .. n |-> Rec(j)]
           W == {k \in 1 .. n : IsWritten(schema, m, k)}
           L == [x \in 0 .. n |-> from[Len(upTo[x]) + 1]]
<1>1. n \in Nat /\ Pieced(schema, m, upTo) /\ FieldLists(d, from)
  BY DEF IsSchema, Transfer
<1>2. \A x \in 1 .. n : x \in 0 .. n /\ x - 1 \in 0 .. n
  BY <1>1
<1>3. ASSUME NEW x \in 1 .. n
      PROVE  /\ x \in W => L[x - 1] = <<rec[x]>> \o L[x]
             /\ x \notin W => L[x - 1] = L[x]
  <2>1. /\ ~ IsWritten(schema, m, x) => Len(upTo[x]) = Len(upTo[x - 1])
        /\ IsWritten(schema, m, x) =>
                 from[Len(upTo[x - 1]) + 1] =
                     <<ReadBack(schema, m, upTo, x)>> \o from[Len(upTo[x]) + 1]
    <3>1. x \in 1 .. Len(schema)
      BY Zenon
    <3> HIDE DEF n, d, Rec, rec, W, L
    <3> QED BY <3>1, OneIsRead
  <2>2. L[x] = from[Len(upTo[x]) + 1] /\ L[x - 1] = from[Len(upTo[x - 1]) + 1] /\ rec[x] = Rec(x)
    BY <1>2, Zenon
  <2>3. x \in W <=> IsWritten(schema, m, x)
    BY Zenon
  <2> HIDE DEF L, rec, W
  <2> QED BY <2>1, <2>2, <2>3, Zenon
<1>4. from[Len(d) + 1] = << >>
  <2>1. d \in Seq(Byte) /\ Len(d) \in Nat
    <3>1. n \in 0 .. n
      BY <1>1
    <3>2. d \in Seq(Byte)
      BY <1>1, <3>1, Zenon DEF Pieced
    <3> HIDE DEF d
    <3> QED BY <3>2
  <2> HIDE DEF d
  <2>2. Len(d) + 1 \in 1 .. Len(d) + 1 /\ Len(d) + 1 > Len(d)
    BY <2>1
  <2> QED BY <1>1, <2>2, Zenon DEF FieldLists
<1>5. L[n] = << >> /\ L[0] = from[Len(upTo[0]) + 1]
  <2>1. n \in 0 .. n /\ 0 \in 0 .. n
    BY <1>1
  <2> QED BY <1>4, <2>1, Zenon
<1>6. Len(upTo[0]) + 1 = 1
  <2>1. upTo[0] = << >>
    <3>1. 0 \in 0 .. n
      BY <1>1
    <3> QED BY <1>1, <3>1, Zenon DEF Pieced
  <2> QED BY <2>1
<1>7. Collects(n, L, rec, W)
  <2> HIDE DEF L, rec, W, n
  <2> QED BY <1>1, <1>3, <1>5, Zenon DEF Collects
<1>8. /\ L[0] \in Seq(Records(rec, 1 .. n))
      /\ ToSet(L[0]) = Records(rec, {k \in 1 .. n : k \in W})
  <2> HIDE DEF L, rec, W, n
  <2> QED BY <1>7, Collected
<1>9. /\ Records(rec, 1 .. n) = {Rec(j) : j \in 1 .. n}
      /\ Records(rec, {k \in 1 .. n : k \in W}) = {Rec(j) : j \in {k \in 1 .. n : IsWritten(schema, m, k)}}
  <2> HIDE DEF Rec
  <2> QED BY Zenon DEF Records
<1>10. L[0] = from[1]
  BY <1>5, <1>6, Zenon
<1> HIDE DEF L, rec, W, Rec
<1>11. /\ from[1] \in Seq({Rec(j) : j \in 1 .. n})
       /\ ToSet(from[1]) = {Rec(j) : j \in {k \in 1 .. n : IsWritten(schema, m, k)}}
  BY <1>8, <1>9, <1>10, Zenon
<1> QED BY <1>11, Zenon DEF Rec

\* A field there is room for is written whole.
LEMMA FieldFits ==
    ASSUME NEW f, IsField(f), NEW v, Fits(f.type, v), NEW b \in Seq(Byte), NEW capacity,
           Len(b \o Written(f, v)) <= capacity
    PROVE  WithField(b, f, v, capacity) = b \o Written(f, v)
<1> DEFINE pre == Preface(f, v)
           con == Content(f, v)
<1>1. pre \in Seq(Byte) /\ con \in Seq(Byte)
  BY WrittenBytes
<1>2. CASE v = NoneOf(f.type)
  <2>1. WithField(b, f, v, capacity) = b /\ Written(f, v) = << >>
    BY <1>2, Zenon DEF WithField, Written
  <2>2. b \o << >> = b
    OBVIOUS
  <2> QED BY <2>1, <2>2, Zenon
<1>3. CASE v # NoneOf(f.type)
  <2>1. Written(f, v) = pre \o con
    BY <1>3, Zenon DEF Written
  <2>2. b \o (pre \o con) = (b \o pre) \o con
    <3> HIDE DEF pre, con
    <3> QED BY <1>1
  <2>3. Len((b \o pre) \o con) <= capacity
    BY <2>1, <2>2, Zenon
  <2>4. WithField(b, f, v, capacity) = (b \o pre) \o con
    BY <1>3, <2>3, Zenon DEF WithField
  <2> QED BY <2>1, <2>2, <2>4, Zenon
<1> QED BY <1>2, <1>3

\* A message there is room for is written whole: no field is cut.
LEMMA EncodeWhole ==
    ASSUME NEW schema, IsSchema(schema), NEW m, IsMessage(schema, m), NEW capacity \in Nat,
           Len(Whole(schema, m)) <= capacity
    PROVE  Encode(schema, m, capacity) = Whole(schema, m)
<1> DEFINE n == Len(schema)
           D == 0 .. n
           F(i, b) == WithField(b, schema[i], m[schema[i].name], capacity)
           Made(f) == [i \in D |-> IF i = 0 THEN << >> ELSE F(i, f[i - 1])]
           enc == CHOOSE f : f = Made(f)
<1>1. n \in Nat
  BY DEF IsSchema
<1>2. PICK upTo : Pieced(schema, m, upTo) /\ Whole(schema, m) = upTo[n]
  BY WholeIs
<1>3. upTo \in [D -> Seq(Byte)] /\ upTo[0] = << >>
  <2>1. 0 \in 0 .. n
    BY <1>1
  <2> QED BY <1>2, <2>1, Zenon DEF Pieced
<1>4. ASSUME NEW i \in 1 .. n PROVE F(i, upTo[i - 1]) = upTo[i]
  <2>1. i \in 1 .. Len(schema)
    OBVIOUS
  <2>2. /\ upTo[i - 1] \in Seq(Byte) /\ upTo[i] \in Seq(Byte) /\ Piece(schema, m, i) \in Seq(Byte)
        /\ upTo[i] = upTo[i - 1] \o Piece(schema, m, i)
        /\ IsField(schema[i]) /\ Fits(schema[i].type, m[schema[i].name])
    <3> HIDE DEF n
    <3> QED BY <1>2, <2>1, PiecesJoin
  <2>3. Len(upTo[i]) <= Len(upTo[n])
    <3>1. i \in 0 .. Len(schema)
      BY <1>1
    <3> QED BY <1>2, <3>1, WrittenStays
  <2> DEFINE b == upTo[i - 1]
             w == Written(schema[i], m[schema[i].name])
  <2>4. upTo[i] = b \o w /\ b \in Seq(Byte)
    BY <2>2, Zenon DEF Piece
  <2>5. Len(b \o w) <= capacity
    <3>1. Len(upTo[i]) \in Nat /\ Len(upTo[n]) \in Nat
      <4>1. n \in D
        BY <1>1
      <4> HIDE DEF n
      <4> QED BY <1>3, <2>2, <4>1
    <3> DEFINE x == Len(upTo[i])
               y == Len(upTo[n])
    <3>2. x = Len(b \o w)
      BY <2>4, Zenon
    <3>3. x \in Nat /\ y \in Nat /\ x <= y /\ y <= capacity
      BY <1>2, <2>3, <3>1, Zenon
    <3> HIDE DEF x, y
    <3>4. \A q, r, t \in Nat : q <= r /\ r <= t => q <= t
      BY SMT
    <3> QED BY <3>2, <3>3, <3>4, Zenon
  <2> HIDE DEF b
  <2>6. F(i, b) = b \o w
    BY <2>2, <2>4, <2>5, FieldFits
  <2> QED BY <2>4, <2>6 DEF b
<1> HIDE DEF n, F
<1>5. \A i \in D : i # 0 => i \in 1 .. n /\ i - 1 \in D /\ i - 1 \in Nat /\ ~ (i <= i - 1)
  BY <1>1
<1>6. upTo = Made(upTo)
  <2>1. \A i \in D : upTo[i] = IF i = 0 THEN << >> ELSE F(i, upTo[i - 1])
    BY <1>3, <1>4, <1>5, Zenon
  <2> HIDE DEF D
  <2> QED BY <1>3, <2>1, Zenon
<1>7. Encode(schema, m, capacity) = enc[n]
  BY Zenon DEF Encode, n, F
<1>8. \A f : f = Made(f) => \A i \in D : f[i] = IF i = 0 THEN << >> ELSE F(i, f[i - 1])
  BY Zenon
<1> HIDE DEF Made
<1>9. enc = Made(enc)
  BY <1>6, Zenon
<1> HIDE DEF enc
<1> DEFINE Bad == {k \in Nat : k \in D /\ enc[k] # upTo[k]}
<1>10. ASSUME Bad # {} PROVE FALSE
  <2>1. PICK k \in Bad : \A j \in Bad : k <= j
    BY <1>10, LeastNumber, Zenon
  <2>2. k \in Nat /\ k \in D /\ enc[k] # upTo[k]
    BY Zenon
  <2>3. enc[k] = IF k = 0 THEN << >> ELSE F(k, enc[k - 1])
    BY <1>8, <1>9, <2>2, Zenon
  <2>4. CASE k = 0
    BY <1>3, <2>2, <2>3, <2>4, Zenon
  <2>5. CASE k # 0
    <3>1. enc[k - 1] = upTo[k - 1]
      BY <1>5, <2>1, <2>2, <2>5, Zenon
    <3>2. F(k, upTo[k - 1]) = upTo[k]
      BY <1>4, <1>5, <2>2, <2>5, Zenon
    <3> QED BY <2>2, <2>3, <2>5, <3>1, <3>2, Zenon
  <2> QED BY <2>4, <2>5
<1>11. n \in Nat /\ n \in D
  BY <1>1
<1>12. enc[n] = upTo[n]
  BY <1>10, <1>11, Zenon
<1> QED BY <1>2, <1>7, <1>12, Zenon

\* The bytes at a place are what is read there.
LEMMA CutAt ==
    ASSUME NEW d \in Seq(Byte), NEW p \in Nat, NEW v \in Seq(Byte), At(d, p, v), Len(v) >= 1
    PROVE  SubSeq(d, p, p + Len(v) - 1) = v
<1>1. /\ p \in Nat \ {0} /\ p + Len(v) - 1 <= Len(d) /\ Len(v) \in Nat \ {0} /\ Len(d) \in Nat
      /\ \A i \in 1 .. Len(v) : d[p + i - 1] = v[i]
  BY DEF At
<1> DEFINE e == p + Len(v) - 1
           s == SubSeq(d, p, e)
<1>2. e \in Nat /\ p <= e /\ e <= Len(d) /\ e - p + 1 = Len(v)
  BY <1>1
<1> HIDE DEF e
<1>3. /\ s \in Seq(Byte) /\ Len(s) = e - p + 1
      /\ \A i \in 1 .. (e - p + 1) : s[i] = d[p + i - 1]
  BY <1>1, <1>2
<1> HIDE DEF s
<1>4. /\ s \in Seq(Byte) /\ Len(s) = Len(v) /\ \A i \in 1 .. Len(v) : s[i] = v[i]
  BY <1>1, <1>2, <1>3
<1>5. s = v
  BY <1>4
<1> QED BY <1>5 DEF s, e

\* ValueOf, by the type.
LEMMA ValueOfType ==
    ASSUME NEW d, NEW type, NEW r, NEW v
    PROVE  /\ type = "bytes" => ValueOf(d, type, r) = SubSeq(d, r.first, r.last)
           /\ type = "fixed32" => ValueOf(d, type, r) = FromLittleEndian(SubSeq(d, r.first, r.last))
           /\ type = "sint" => ValueOf(d, type, r) = UnZigZag(VarintValue(d, r.first, r.last))
           /\ type = "bool" => ValueOf(d, type, r) =
                                  IF VarintValue(d, r.first, r.last) = 0 THEN 0 ELSE 1
           /\ type \notin {"bytes", "fixed32", "sint", "bool"} =>
                  ValueOf(d, type, r) = AsNamed(type, Narrowed(type, VarintValue(d, r.first, r.last)))
           /\ type = "uint" => ValueOf(d, type, r) = VarintValue(d, r.first, r.last)
           /\ type \in {"bytes", "fixed32", "sint", "bool", "uint"} => AsNamed(type, v) = v
<1>1. type \in {"bytes", "fixed32", "sint", "bool", "uint"} => AsNamed(type, v) = v
  <2>1. DOMAIN Named = {"port", "source", "model", "role", "error", "priority"}
    BY SMT DEF Named
  <2> QED BY <2>1, Zenon DEF AsNamed
<1>2. type \notin {"bytes", "fixed32", "sint", "bool"} =>
         ValueOf(d, type, r) = AsNamed(type, Narrowed(type, VarintValue(d, r.first, r.last)))
  BY Zenon DEF ValueOf
<1>3. /\ type = "bytes" => ValueOf(d, type, r) = SubSeq(d, r.first, r.last)
      /\ type = "fixed32" => ValueOf(d, type, r) = FromLittleEndian(SubSeq(d, r.first, r.last))
      /\ type = "sint" => ValueOf(d, type, r) = UnZigZag(VarintValue(d, r.first, r.last))
      /\ type = "bool" => ValueOf(d, type, r) =
                                  IF VarintValue(d, r.first, r.last) = 0 THEN 0 ELSE 1
  BY Zenon DEF ValueOf
<1>4. type = "uint" => ValueOf(d, type, r) = VarintValue(d, r.first, r.last)
  <2> SUFFICES ASSUME type = "uint" PROVE ValueOf(d, type, r) = VarintValue(d, r.first, r.last)
    OBVIOUS
  <2> DEFINE x == VarintValue(d, r.first, r.last)
  <2>1. type \in Plainly
    BY Zenon DEF Plainly
  <2> HIDE DEF x
  <2>2. Narrowed(type, x) = x
    BY <2>1, PlainTypes
  <2>3. AsNamed(type, x) = x
    <3>1. DOMAIN Named = {"port", "source", "model", "role", "error", "priority"}
      BY SMT DEF Named
    <3> QED BY <3>1, Zenon DEF AsNamed
  <2>4. ValueOf(d, type, r) = AsNamed(type, Narrowed(type, x))
    BY <1>2, Zenon DEF x
  <2> QED BY <2>2, <2>3, <2>4, Zenon DEF x
<1> QED BY <1>1, <1>2, <1>3, <1>4, Zenon

\* The reader of a type makes of the bytes the value they were written for; a
\* signed number that is read as it is comes out in zigzag.
LEMMA ValueIsRead ==
    ASSUME NEW d \in Seq(Byte), NEW p \in Nat, NEW f, IsField(f), NEW v, Fits(f.type, v),
           v # NoneOf(f.type), At(d, p, Preface(f, v) \o Content(f, v))
    PROVE  /\ ValueOf(d, f.type, Read(f, v, p)) = AsNamed(f.type, v)
           /\ f.type = "sint" => ValueOf(d, "uint", Read(f, v, p)) = ZigZag(v)
<1> DEFINE con == Content(f, v)
           r == Read(f, v, p)
           q == p + Len(Preface(f, v))
           type == f.type
<1>1. At(d, q, con) /\ Len(con) \in Nat \ {0} /\ con \in Seq(Byte)
  BY FieldIsRead, WrittenBytes
<1>2. q \in Nat
  BY <1>1 DEF At
<1>3. r.first = q /\ r.last = q + Len(con) - 1
  BY Zenon DEF Read
<1> HIDE DEF con, r, q
<1>4. SubSeq(d, r.first, r.last) = con
  <2>1. SubSeq(d, q, q + Len(con) - 1) = con
    BY <1>1, <1>2, CutAt
  <2> QED BY <1>3, <2>1, Zenon
<1>5. ASSUME NEW n \in Words, con = Varint[n] PROVE VarintValue(d, r.first, r.last) = n
  <2>1. n \in Nat
    BY VarintOfWord
  <2>2. At(d, q, Varint[n])
    BY <1>1, <1>5, Zenon
  <2>3. VarintValue(d, q, q + Len(Varint[n]) - 1) = n
    BY <1>2, <2>1, <2>2, ValueAt
  <2> QED BY <1>3, <1>5, <2>3, Zenon
<1>6. CASE type = "bytes"
  <2>1. con = v
    BY <1>6, Encodings DEF con
  <2>2. ValueOf(d, type, r) = SubSeq(d, r.first, r.last) /\ AsNamed(type, v) = v
    BY <1>6, ValueOfType, Zenon
  <2>3. ValueOf(d, type, r) = AsNamed(type, v)
    BY <1>4, <2>1, <2>2, Zenon
  <2>4. type # "sint"
    BY <1>6
  <2> QED BY <2>3, <2>4 DEF r
<1>7. CASE type = "fixed32"
  <2>1. con = LittleEndian(v) /\ v \in Words
    BY <1>7, Encodings DEF con
  <2>2. FromLittleEndian(LittleEndian(v)) = v
    BY <2>1, FourBytes
  <2>3. ValueOf(d, type, r) = FromLittleEndian(SubSeq(d, r.first, r.last)) /\ AsNamed(type, v) = v
    BY <1>7, ValueOfType, Zenon
  <2>4. ValueOf(d, type, r) = AsNamed(type, v)
    BY <1>4, <2>1, <2>2, <2>3, Zenon
  <2>5. type # "sint"
    BY <1>7
  <2> QED BY <2>4, <2>5 DEF r
<1>8. CASE type \notin {"bytes", "fixed32"}
  <2>1. con = Varint[WordOf(type, v)] /\ WordOf(type, v) \in Words
    BY <1>8, Encodings DEF con
  <2>2. VarintValue(d, r.first, r.last) = WordOf(type, v)
    BY <1>5, <2>1
  <2>3. CASE type = "sint"
    <3>1. WordOf(type, v) = ZigZag(v)
      BY <2>3, Zenon DEF WordOf
    <3>2. v \in Int
      BY <2>3, Zenon DEF Fits
    <3>3. UnZigZag(ZigZag(v)) = v
      BY <3>2, UnZigZagged
    <3>4. ValueOf(d, type, r) = UnZigZag(VarintValue(d, r.first, r.last)) /\ AsNamed(type, v) = v
      BY <2>3, ValueOfType, Zenon
    <3>5. ValueOf(d, "uint", r) = VarintValue(d, r.first, r.last)
      BY ValueOfType, Zenon
    <3>6. ValueOf(d, type, r) = AsNamed(type, v) /\ ValueOf(d, "uint", r) = ZigZag(v)
      BY <2>2, <3>1, <3>3, <3>4, <3>5, Zenon
    <3> QED BY <3>6 DEF r
  <2>4. CASE type # "sint"
    <3>1. WordOf(type, v) = v
      BY <2>4, Zenon DEF WordOf
    <3>2. ValueOf(d, type, r) = AsNamed(type, v)
      <4>1. CASE type = "bool"
        <5>1. v \in {0, 1}
          BY <4>1, Zenon DEF Fits
        <5>2. VarintValue(d, r.first, r.last) = v
          BY <2>2, <3>1, Zenon
        <5>3. ValueOf(d, "bool", r) = IF VarintValue(d, r.first, r.last) = 0 THEN 0 ELSE 1
          BY ValueOfType, Zenon
        <5>4. AsNamed("bool", v) = v
          BY ValueOfType, Zenon
        <5>5. ValueOf(d, "bool", r) = v
          BY <5>1, <5>2, <5>3, Zenon
        <5> QED BY <4>1, <5>4, <5>5, Zenon
      <4>2. CASE type # "bool"
        <5>1. type \notin {"bytes", "fixed32", "sint", "bool"}
          BY <1>8, <2>4, <4>2
        <5>2. ValueOf(d, type, r) = AsNamed(type, Narrowed(type, VarintValue(d, r.first, r.last)))
          <6> HIDE DEF type
          <6> QED BY <5>1, ValueOfType
        <5>3. Narrowed(type, v) = v
          BY <5>1, Zenon DEF Fits
        <5> QED BY <2>2, <3>1, <5>2, <5>3, Zenon
      <4> QED BY <4>1, <4>2
    <3> QED BY <2>4, <3>2 DEF r
  <2> QED BY <2>3, <2>4
<1> QED BY <1>6, <1>7, <1>8

\* A schema the same message is read by: only a signed number may be read as it is.
IsReader(schema, reader) ==
    /\ Len(reader) = Len(schema) /\ DOMAIN reader = 1 .. Len(reader)
    /\ \A i \in 1 .. Len(schema) :
          /\ reader[i].name = schema[i].name /\ reader[i].number = schema[i].number
          /\ reader[i].type = schema[i].type \/ (schema[i].type = "sint" /\ reader[i].type = "uint")

ReadAs(f, g, v) ==
    IF g.type # f.type THEN ZigZag(v)
    ELSE IF v = NoneOf(f.type) THEN StartOf(f.type) ELSE AsNamed(f.type, v)

\* A type whose numbers are read as they are.
LEMMA PlainIsRead ==
    ASSUME NEW f, NEW v, f.type \in Plainly
    PROVE  ReadAs(f, f, v) = AsNamed(f.type, v)
  BY PlainTypes, Zenon DEF ReadAs

\* Max chooses from a set of numbers that is not empty and has a bound.
LEMMA GreatestIsMax ==
    ASSUME NEW n \in Nat, NEW S, S \subseteq 1 .. n, S # {}
    PROVE  Max(S) \in S
<1> DEFINE T == {k \in Nat : \E x \in S : k = n - x}
<1>1. \A x \in S : x \in Int /\ n - x \in Nat
  OBVIOUS
<1>2. T \subseteq Nat /\ T # {}
  BY <1>1, Zenon
<1>3. PICK k \in T : \A j \in T : k <= j
  BY <1>2, LeastNumber, Zenon
<1>4. PICK x \in S : k = n - x
  BY Zenon
<1>5. \A y \in S : n - y \in T
  BY <1>1, Zenon
<1>6. \A y \in S : n - x <= n - y
  BY <1>3, <1>4, <1>5, Zenon
<1>7. \A y \in S : x >= y
  BY <1>1, <1>6
<1> QED BY <1>7, Zenon DEF Max

\* What is read of a field that is zero or empty, and so not written.
LEMMA NoneIsRead ==
    ASSUME NEW f, NEW g, NEW v, v = NoneOf(f.type),
           g.type = f.type \/ (f.type = "sint" /\ g.type = "uint")
    PROVE  StartOf(g.type) = ReadAs(f, g, v)
<1>1. CASE g.type = f.type
  BY <1>1, Zenon DEF ReadAs
<1>2. CASE g.type # f.type
  <2>1. f.type = "sint" /\ g.type = "uint"
    BY <1>2, Zenon
  <2>2. v = 0 /\ NoneOf("uint") = 0
    BY <2>1, Zenon DEF NoneOf
  <2>3. StartOf("uint") = NoneOf("uint")
    BY PlainTypes, Zenon DEF Plainly
  <2>4. ZigZag(0) = 0
    BY SMT DEF ZigZag
  <2> QED BY <1>2, <2>1, <2>2, <2>3, <2>4, Zenon DEF ReadAs
<1> QED BY <1>1, <1>2

\* The field a decoder reads: the one that was written.
LEMMA FieldFound ==
    ASSUME NEW schema, NEW m, NEW upTo, NEW from, Transfer(schema, m, upTo, from),
           NEW reader, IsReader(schema, reader), NEW i \in 1 .. Len(schema)
    PROVE  /\ ~ IsWritten(schema, m, i) => ReadInto(reader[i], from[1]) = {}
           /\ IsWritten(schema, m, i) =>
                 /\ ReadInto(reader[i], from[1]) # {}
                 /\ from[1][Max(ReadInto(reader[i], from[1]))] = ReadBack(schema, m, upTo, i)
<1> DEFINE n == Len(schema)
           Rec(j) == ReadBack(schema, m, upTo, j)
           R == {Rec(j) : j \in 1 .. n}
           fields == from[1]
           found == ReadInto(reader[i], fields)
<1>1. fields \in Seq(R) /\ ToSet(fields) = {Rec(j) : j \in {k \in 1 .. n : IsWritten(schema, m, k)}}
  BY AllAreRead
<1>2. IsSchema(schema) /\ i \in 1 .. n
  BY Zenon DEF Transfer
<1>3. reader[i].number = schema[i].number /\ WireOf(reader[i].type) = WireOf(schema[i].type)
  <2>1. /\ reader[i].number = schema[i].number
        /\ reader[i].type = schema[i].type \/ (schema[i].type = "sint" /\ reader[i].type = "uint")
    BY Zenon DEF IsReader
  <2>2. WireOf("sint") = WireOf("uint")
    BY Zenon DEF WireOf
  <2> QED BY <2>1, <2>2, Zenon
<1>4. \A j \in 1 .. n : Rec(j).number = schema[j].number /\ Rec(j).wire = WireOf(schema[j].type)
  BY Zenon DEF ReadBack, Read
<1>5. \A j \in 1 .. n : schema[j].number = schema[i].number => j = i
  BY <1>2, Zenon DEF IsSchema
<1> HIDE DEF Rec, n
<1>6. DOMAIN fields = 1 .. Len(fields) /\ Len(fields) \in Nat
  <2> HIDE DEF R, fields
  <2> QED BY <1>1
<1>7. \A k \in DOMAIN fields : \E j \in 1 .. n : IsWritten(schema, m, j) /\ fields[k] = Rec(j)
  <2>1. \A k \in DOMAIN fields : fields[k] \in ToSet(fields)
    BY Zenon DEF ToSet
  <2> QED BY <1>1, <2>1, Zenon
<1>8. \A k \in found : k \in 1 .. Len(fields) /\ IsWritten(schema, m, i) /\ fields[k] = Rec(i)
  <2> SUFFICES ASSUME NEW k \in found
               PROVE  k \in DOMAIN fields /\ IsWritten(schema, m, i) /\ fields[k] = Rec(i)
    BY <1>6, Zenon
  <2>1. k \in DOMAIN fields /\ fields[k].number = reader[i].number
    BY Zenon DEF ReadInto
  <2>2. PICK j \in 1 .. n : IsWritten(schema, m, j) /\ fields[k] = Rec(j)
    BY <1>7, <2>1, Zenon
  <2>3. schema[j].number = schema[i].number
    BY <1>3, <1>4, <2>1, <2>2, Zenon
  <2>4. j = i
    BY <1>5, <2>3, Zenon
  <2> QED BY <2>1, <2>2, <2>4, Zenon
<1>9. ASSUME IsWritten(schema, m, i) PROVE found # {}
  <2>1. Rec(i) \in ToSet(fields)
    BY <1>1, <1>2, <1>9, Zenon
  <2>2. PICK k \in DOMAIN fields : fields[k] = Rec(i)
    BY <2>1, Zenon DEF ToSet
  <2>3. fields[k].number = reader[i].number /\ fields[k].wire = WireOf(reader[i].type)
    BY <1>2, <1>3, <1>4, <2>2, Zenon
  <2>4. k \in found
    BY <2>3, Zenon DEF ReadInto
  <2> QED BY <2>4, Zenon
<1>10. ASSUME IsWritten(schema, m, i) PROVE Max(found) \in found
  <2>1. found \subseteq 1 .. Len(fields) /\ found # {}
    BY <1>8, <1>9, <1>10, Zenon
  <2> HIDE DEF found, fields
  <2> QED BY <1>6, <2>1, GreatestIsMax
<1>11. IsWritten(schema, m, i) => fields[Max(found)] = Rec(i)
  BY <1>8, <1>10, Zenon
<1>12. ~ IsWritten(schema, m, i) => found = {}
  BY <1>8, Zenon
<1> QED BY <1>9, <1>11, <1>12, Zenon DEF Rec

\* What a decoder makes of the bytes of a message.
LEMMA RoundTrip ==
    ASSUME NEW schema, IsSchema(schema), NEW m, IsMessage(schema, m),
           NEW reader, IsReader(schema, reader), NEW d, d = Whole(schema, m)
    PROVE  /\ Decodes(d)
           /\ \A i \in 1 .. Len(schema) :
                 Decode(reader, d)[schema[i].name] = ReadAs(schema[i], reader[i], m[schema[i].name])
<1> DEFINE n == Len(schema)
<1>1. n \in Nat
  BY DEF IsSchema
<1>2. PICK upTo : Pieced(schema, m, upTo) /\ d = upTo[n]
  BY WholeIs
<1>3. d \in Seq(Byte)
  <2>1. n \in 0 .. n
    BY <1>1
  <2> QED BY <1>2, <2>1, Zenon DEF Pieced
<1>4. PICK from : FieldLists(d, from) /\ FieldsOf(d) = from[1]
  BY <1>3, FieldsAre
<1>5. Transfer(schema, m, upTo, from)
  BY <1>2, <1>4, Zenon DEF Transfer
<1>6. Decodes(d)
  <2>1. ToSet(from[1]) = {ReadBack(schema, m, upTo, j) : j \in {k \in 1 .. n : IsWritten(schema, m, k)}}
    BY <1>5, AllAreRead
  <2>2. \A j : ReadBack(schema, m, upTo, j).ok = TRUE
    BY Zenon DEF ReadBack, Read
  <2> QED BY <1>4, <2>1, <2>2, Zenon DEF Decodes
<1>7. ASSUME NEW i \in 1 .. n
      PROVE  Decode(reader, d)[schema[i].name] = ReadAs(schema[i], reader[i], m[schema[i].name])
  <2> DEFINE f == schema[i]
             g == reader[i]
             v == m[f.name]
             fields == FieldsOf(d)
             found == ReadInto(g, fields)
             r == ReadBack(schema, m, upTo, i)
             Rd(s) == IF ReadInto(s, fields) = {} THEN StartOf(s.type)
                      ELSE ValueOf(d, s.type, fields[Max(ReadInto(s, fields))])
             chosen == CHOOSE s \in ToSet(reader) : s.name = f.name
  <2>1. /\ g.name = f.name
        /\ g.type = f.type \/ (f.type = "sint" /\ g.type = "uint")
        /\ DOMAIN reader = 1 .. n
        /\ \A j \in 1 .. n : reader[j].name = schema[j].name
    BY Zenon DEF IsReader
  <2>2. g \in ToSet(reader) /\ f.name \in FieldNames(reader)
    BY <2>1, Zenon DEF ToSet, FieldNames
  <2>3. \A s \in ToSet(reader) : s.name = f.name => s = g
    <3> SUFFICES ASSUME NEW s \in ToSet(reader), s.name = f.name PROVE s = g
      BY Zenon
    <3>1. PICK j \in 1 .. n : s = reader[j]
      BY <2>1, Zenon DEF ToSet
    <3>2. schema[j].name = schema[i].name
      BY <2>1, <3>1, Zenon
    <3>3. j = i
      BY <3>2, Zenon DEF IsSchema
    <3> QED BY <3>1, <3>3, Zenon
  <2>4. chosen = g
    BY <2>1, <2>2, <2>3, Zenon
  <2>5. Decode(reader, d) = [x \in FieldNames(reader) |->
                                Rd(CHOOSE s \in ToSet(reader) : s.name = x)]
    BY Zenon DEF Decode, ValueRead
  <2>6. Decode(reader, d)[f.name] = Rd(g)
    <3>1. Decode(reader, d)[f.name] = Rd(chosen)
      <4> HIDE DEF Rd
      <4> QED BY <2>2, <2>5, Zenon
    <3> HIDE DEF Rd, chosen
    <3> QED BY <2>4, <3>1, Zenon
  <2>7. i \in 1 .. Len(schema)
    BY Zenon
  <2>8. /\ ~ IsWritten(schema, m, i) => found = {}
        /\ IsWritten(schema, m, i) => found # {} /\ fields[Max(found)] = r
    <3>1. /\ ~ IsWritten(schema, m, i) => ReadInto(reader[i], from[1]) = {}
          /\ IsWritten(schema, m, i) =>
                 /\ ReadInto(reader[i], from[1]) # {}
                 /\ from[1][Max(ReadInto(reader[i], from[1]))] = ReadBack(schema, m, upTo, i)
      <4> HIDE DEF n
      <4> QED BY <1>5, <2>7, FieldFound
    <3> QED BY <1>4, <3>1, Zenon
  <2>9. CASE ~ IsWritten(schema, m, i)
    <3>1. v = NoneOf(f.type)
      BY <2>9, Zenon DEF IsWritten
    <3>2. Rd(g) = StartOf(g.type)
      BY <2>8, <2>9, Zenon
    <3> HIDE DEF f, g, v, Rd
    <3>3. StartOf(g.type) = ReadAs(f, g, v)
      BY <2>1, <3>1, NoneIsRead
    <3>4. Decode(reader, d)[f.name] = ReadAs(f, g, v)
      BY <2>6, <3>2, <3>3, Zenon
    <3> QED BY <3>4, Zenon DEF f, g, v
  <2>10. CASE IsWritten(schema, m, i)
    <3>1. Rd(g) = ValueOf(d, g.type, r)
      BY <2>8, <2>10, Zenon
    <3>2. v # NoneOf(f.type) /\ Piece(schema, m, i) = Preface(f, v) \o Content(f, v)
      BY <2>10, Zenon DEF IsWritten, Piece, Written
    <3> DEFINE p == Len(upTo[i - 1]) + 1
    <3>3. At(d, p, Piece(schema, m, i)) /\ Len(upTo[i - 1]) \in Nat
      <4> HIDE DEF n, p
      <4>1. At(upTo[Len(schema)], Len(upTo[i - 1]) + 1, Piece(schema, m, i)) /\ Len(upTo[i - 1]) \in Nat
        BY <1>2, <2>7, PieceAt
      <4> QED BY <1>2, <4>1, Zenon DEF n, p
    <3>4. p \in Nat
      BY <3>3
    <3>5. IsField(f) /\ Fits(f.type, v)
      BY <2>7, Zenon DEF IsSchema, IsMessage
    <3>6. r = Read(f, v, p)
      BY Zenon DEF ReadBack
    <3> HIDE DEF f, g, v, r, p, Rd
    <3>7. /\ ValueOf(d, f.type, Read(f, v, p)) = AsNamed(f.type, v)
          /\ f.type = "sint" => ValueOf(d, "uint", Read(f, v, p)) = ZigZag(v)
      <4>1. At(d, p, Preface(f, v) \o Content(f, v))
        BY <3>2, <3>3, Zenon
      <4> QED BY <1>3, <3>2, <3>4, <3>5, <4>1, ValueIsRead
    <3>8. ValueOf(d, g.type, r) = ReadAs(f, g, v)
      BY <2>1, <3>2, <3>6, <3>7, Zenon DEF ReadAs
    <3>9. Decode(reader, d)[f.name] = ReadAs(f, g, v)
      BY <2>6, <3>1, <3>8, Zenon
    <3> QED BY <3>9, Zenon DEF f, g, v
  <2> QED BY <2>9, <2>10
<1> QED BY <1>6, <1>7, Zenon

\* The numbers of the fields are small, and no two fields have a name or a number
\* in common.
Listed(schema) ==
    /\ Len(schema) \in Nat /\ DOMAIN schema = 1 .. Len(schema)
    /\ \A i \in 1 .. Len(schema) : 1 <= schema[i].number /\ schema[i].number <= 22
                                  /\ schema[i].number \in Nat
    /\ \A i, j \in 1 .. Len(schema) : schema[i].name = schema[j].name => i = j
    /\ \A i, j \in 1 .. Len(schema) : schema[i].number = schema[j].number => i = j

\* Such a list is a schema.
LEMMA ListedIsSchema == ASSUME NEW schema, Listed(schema) PROVE IsSchema(schema)
<1>1. \A k \in Nat : 1 <= k /\ k <= 22 =>
         k \in Nat \ {0} /\ \A w \in {0, 2, 5} : k * 8 + w \in Nat /\ (k * 8 + w) \div 16777216 <= 255
  BY SMT
<1>2. \A k \in Nat : 1 <= k /\ k <= 22 => k \in Nat \ {0} /\ \A w \in {0, 2, 5} : k * 8 + w \in Words
  BY <1>1, SMT DEF Words
<1>3. \A i \in 1 .. Len(schema) : IsField(schema[i])
  BY <1>2, Zenon DEF Listed, IsField
<1> QED BY <1>3, Zenon DEF Listed, IsSchema

\* The schemas of the program have what the proofs want of one.
LEMMA SchemasAre == \A kind \in DOMAIN Schemas : IsSchema(Schemas[kind])
<1>1. Listed(DataFields)
  BY SMT DEF Listed, Field, DataFields
<1>2. Listed(PositionFields)
  BY SMT DEF Listed, Field, PositionFields
<1>3. Listed(UserFields)
  BY SMT DEF Listed, Field, UserFields
<1>4. Listed(NodeInfoFields)
  BY SMT DEF Listed, Field, NodeInfoFields
<1>5. Listed(MetricsFields)
  BY SMT DEF Listed, Field, MetricsFields
<1>6. Listed(TelemetryFields)
  BY SMT DEF Listed, Field, TelemetryFields
<1>7. Listed(MeshPacketFields)
  BY SMT DEF Listed, Field, MeshPacketFields
<1>8. Listed(FromRadioFields)
  BY SMT DEF Listed, Field, FromRadioFields
<1>9. Listed(RoutingFields)
  BY SMT DEF Listed, Field, RoutingFields
<1>10. Listed(MyInfoFields)
  BY SMT DEF Listed, Field, MyInfoFields
<1>11. Listed(ChannelFields)
  BY SMT DEF Listed, Field, ChannelFields
<1>12. Listed(ChannelSettingsFields)
  BY SMT DEF Listed, Field, ChannelSettingsFields
<1>13. Listed(AppDataFields)
  BY SMT DEF Listed, Field, AppDataFields
<1>14. Listed(AppMeshFields)
  BY SMT DEF Listed, Field, AppMeshFields
<1>15. \A kind \in DOMAIN Schemas : Listed(Schemas[kind])
  BY <1>1, <1>2, <1>3, <1>4, <1>5, <1>6, <1>7, <1>8, <1>9, <1>10, <1>11, <1>12, <1>13, <1>14, SMT DEF Schemas
<1> QED BY <1>15, ListedIsSchema, Zenon

\* Each kind is read by its own schema, a packet with the signal strength as it is.
LEMMA ReadersAre ==
    \A kind \in DOMAIN Schemas :
        /\ IsReader(Schemas[kind], ReadSchema(kind))
        /\ \A i \in 1 .. Len(Schemas[kind]) :
              LET f == Schemas[kind][i]
                  g == ReadSchema(kind)[i]
              IN  IF kind = "packet" /\ f.name = "rx_rssi" THEN g.type # f.type ELSE g.type = f.type
<1> SUFFICES ASSUME NEW kind \in DOMAIN Schemas
             PROVE  /\ IsReader(Schemas[kind], ReadSchema(kind))
                    /\ \A i \in 1 .. Len(Schemas[kind]) :
                          IF kind = "packet" /\ Schemas[kind][i].name = "rx_rssi"
                          THEN ReadSchema(kind)[i].type # Schemas[kind][i].type
                          ELSE ReadSchema(kind)[i].type = Schemas[kind][i].type
  BY Zenon
<1>1. IsSchema(Schemas[kind])
  BY SchemasAre
<1>2. CASE kind # "packet"
  <2>1. ReadSchema(kind) = Schemas[kind]
    BY <1>2, Zenon DEF ReadSchema
  <2> QED BY <1>1, <1>2, <2>1, Zenon DEF IsReader, IsSchema
<1>3. CASE kind = "packet"
  <2>1. Schemas[kind] = MeshPacketFields
    BY <1>3, SMT DEF Schemas
  <2> DEFINE S == MeshPacketFields
             T == ReadSchema(kind)
  <2>2. Len(S) = 12 /\ DOMAIN S = 1 .. 12
    BY SMT DEF MeshPacketFields
  <2>3. T = [i \in DOMAIN S |-> IF S[i].name = "rx_rssi" THEN Field("rx_rssi", 12, "uint") ELSE S[i]]
    BY <1>3, Zenon DEF ReadSchema
  <2>4. \A i \in 1 .. 12 : S[i].name = "rx_rssi" => S[i].number = 12 /\ S[i].type = "sint"
    BY SMT DEF MeshPacketFields, Field
  <2>5. T \in Seq({T[i] : i \in 1 .. 12}) /\ Len(T) = 12 /\ DOMAIN T = 1 .. 12
    <3> HIDE DEF S
    <3>1. DOMAIN T = 1 .. 12 /\ T = [i \in 1 .. 12 |-> T[i]]
      BY <2>2, <2>3, Zenon
    <3> HIDE DEF T
    <3> QED BY <3>1
  <2>6. \A i \in 1 .. 12 : T[i] = IF S[i].name = "rx_rssi" THEN Field("rx_rssi", 12, "uint") ELSE S[i]
    BY <2>2, <2>3, Zenon
  <2>7. /\ Field("rx_rssi", 12, "uint").name = "rx_rssi" /\ Field("rx_rssi", 12, "uint").number = 12
        /\ Field("rx_rssi", 12, "uint").type = "uint" /\ "uint" # "sint"
    BY Zenon DEF Field
  <2> HIDE DEF S, T
  <2>8. \A i \in 1 .. 12 :
           /\ T[i].name = S[i].name /\ T[i].number = S[i].number
           /\ T[i].type = S[i].type \/ (S[i].type = "sint" /\ T[i].type = "uint")
           /\ IF S[i].name = "rx_rssi" THEN T[i].type # S[i].type ELSE T[i].type = S[i].type
    BY <2>4, <2>6, <2>7, Zenon
  <2>9. IsReader(S, T)
    BY <2>2, <2>5, <2>8, Zenon DEF IsReader
  <2> QED BY <1>3, <2>1, <2>2, <2>8, <2>9, ZenonT(60) DEF S, T
<1> QED BY <1>2, <1>3

\* The room an encoder has.
LEMMA CapacityIs == \A kind \in DOMAIN Schemas : Capacity[kind] \in Nat
  BY SMT DEF Capacity, Schemas

\* What is assumed of the messages is what the lemmas want.
LEMMA MessageFits ==
    ASSUME NEW c \in CodecMessages
    PROVE  /\ c.kind \in DOMAIN Schemas /\ IsSchema(Schemas[c.kind])
           /\ IsMessage(Schemas[c.kind], c.message) /\ Capacity[c.kind] \in Nat
<1>1. c.kind \in DOMAIN Schemas /\ \A s \in ToSet(Schemas[c.kind]) : Fits(s.type, c.message[s.name])
  BY CodecAssumption, Zenon DEF CodecAssumption
<1>2. IsSchema(Schemas[c.kind]) /\ Capacity[c.kind] \in Nat
  BY <1>1, SchemasAre, CapacityIs, Zenon
<1>3. \A i \in 1 .. Len(Schemas[c.kind]) : Schemas[c.kind][i] \in ToSet(Schemas[c.kind])
  BY <1>2, Zenon DEF IsSchema, ToSet
<1> QED BY <1>1, <1>2, <1>3, Zenon DEF IsMessage

\* A message of which something is written is not without bytes.
LEMMA SomeBytes ==
    ASSUME NEW schema, IsSchema(schema), NEW m, IsMessage(schema, m),
           NEW i \in 1 .. Len(schema), IsWritten(schema, m, i)
    PROVE  Whole(schema, m) # << >>
<1>1. PICK upTo : Pieced(schema, m, upTo) /\ Whole(schema, m) = upTo[Len(schema)]
  BY WholeIs
<1> DEFINE d == upTo[Len(schema)]
           f == schema[i]
           v == m[f.name]
           p == Len(upTo[i - 1]) + 1
<1>2. /\ At(d, p, Piece(schema, m, i)) /\ Len(upTo[i - 1]) \in Nat /\ d \in Seq(Byte)
      /\ IsField(f) /\ Fits(f.type, v)
  BY <1>1, PieceAt, PiecesJoin
<1>3. v # NoneOf(f.type) /\ Piece(schema, m, i) = Preface(f, v) \o Content(f, v)
  BY Zenon DEF IsWritten, Piece, Written
<1>4. p \in Nat /\ p >= 1
  BY <1>2
<1> HIDE DEF d, f, v, p
<1>5. /\ Len(Preface(f, v)) \in Nat \ {0} /\ Len(Content(f, v)) \in Nat \ {0}
      /\ p + Len(Preface(f, v)) + Len(Content(f, v)) - 1 <= Len(d)
  BY <1>2, <1>3, <1>4, FieldIsRead
<1>6. Len(d) # 0
  <2> DEFINE x == Len(Preface(f, v))
             y == Len(Content(f, v))
             z == Len(d)
  <2>1. x \in Nat \ {0} /\ y \in Nat \ {0} /\ p + x + y - 1 <= z
    BY <1>5, Zenon
  <2> HIDE DEF x, y, z
  <2>2. z # 0
    BY <1>4, <2>1
  <2> QED BY <2>2 DEF z
<1>7. d # << >>
  BY <1>6
<1> QED BY <1>1, <1>7, Zenon DEF d

\* What a decoder returns for the bytes of a kind.
Decoding(kind, bytes) ==
    IF Decodes(bytes) /\ (kind = "routing" => bytes # << >>)
    THEN [ok |-> TRUE, message |-> Decode(ReadSchema(kind), bytes)]
    ELSE [ok |-> FALSE, message |-> bytes]

Encoded(c) == Encode(Schemas[c.kind], c.message, Capacity[c.kind])

\* What was decoded was encoded by the encoder of the kind before.
CodecInv ==
    /\ coding \in CodecMessages
    /\ wire # NotEncoded => wire = Encoded(coding)
    /\ decoding # NotDecoded => /\ wire = Encoded(coding)
                                /\ decoding = Decoding(coding.kind, wire)

\* The invariant is inductive.
LEMMA CodecInvHolds == CodecSpec => []CodecInv
<1>1. CodecInit => CodecInv
  BY Zenon DEF CodecInit, CodecInv
<1>2. CodecInv /\ [CodecNext]_codecVars => CodecInv'
  <2> SUFFICES ASSUME CodecInv, [CodecNext]_codecVars PROVE CodecInv'
    OBVIOUS
  <2>1. CASE EncodeMessage
    <3>1. /\ wire = NotEncoded /\ wire' = Encoded(coding) /\ coding' = coding
          /\ decoding' = decoding
      BY <2>1, Zenon DEF EncodeMessage, Encoded
    <3> QED BY <3>1, Zenon DEF CodecInv
  <2>2. CASE DecodeMessage
    <3>1. /\ wire # NotEncoded /\ wire' = wire /\ coding' = coding
          /\ decoding' = Decoding(coding.kind, wire)
      BY <2>2, Zenon DEF DecodeMessage, Decoding
    <3> QED BY <3>1, Zenon DEF CodecInv
  <2>3. CASE UNCHANGED codecVars
    BY <2>3, Zenon DEF CodecInv, codecVars
  <2> QED BY <2>1, <2>2, <2>3, Zenon DEF CodecNext
<1> QED BY <1>1, <1>2, PTL DEF CodecSpec

\* The invariant says what is read: the bytes are the message's, whole.
LEMMA CodecInvSuffices == CodecInv => ReadsWhatItWrote
<1> SUFFICES ASSUME CodecInv, decoding # NotDecoded,
                    Size(coding.kind, coding.message) <= Capacity[coding.kind],
                    coding.kind = "routing" => coding.message.error_reason # 0
             PROVE  /\ decoding.ok
                    /\ \A s \in ToSet(Schemas[coding.kind]) :
                          decoding.message[s.name] =
                              ReadsAs(coding.kind, s, coding.message[s.name])
  BY Zenon DEF ReadsWhatItWrote
<1> DEFINE kind == coding.kind
           m == coding.message
           schema == Schemas[kind]
           reader == ReadSchema(kind)
<1>1. /\ kind \in DOMAIN Schemas /\ IsSchema(schema) /\ IsMessage(schema, m)
      /\ Capacity[kind] \in Nat
  BY MessageFits DEF CodecInv
<1>2. Len(Whole(schema, m)) <= Capacity[kind]
  BY Zenon DEF Size
<1>3. wire = Whole(schema, m)
  <2>1. wire = Encode(schema, m, Capacity[kind])
    BY Zenon DEF CodecInv, Encoded
  <2> HIDE DEF kind, m, schema
  <2>2. Encode(schema, m, Capacity[kind]) = Whole(schema, m)
    BY <1>1, <1>2, EncodeWhole
  <2> QED BY <2>1, <2>2, Zenon
<1>4. IsReader(schema, reader)
  BY <1>1, ReadersAre, Zenon
<1>5. \A i \in 1 .. Len(schema) :
         IF kind = "packet" /\ schema[i].name = "rx_rssi" THEN reader[i].type # schema[i].type
         ELSE reader[i].type = schema[i].type
  BY <1>1, ReadersAre, Zenon
<1>6. kind = "routing" => wire # << >>
  <2> SUFFICES ASSUME kind = "routing" PROVE wire # << >>
    OBVIOUS
  <2>1. schema = RoutingFields
    BY SMT DEF Schemas
  <2>2. Len(RoutingFields) = 1 /\ RoutingFields[1].name = "error_reason" /\ RoutingFields[1].type = "error"
    BY SMT DEF RoutingFields, Field
  <2>3. m["error_reason"] # 0 /\ NoneOf("error") = 0
    BY Zenon DEF NoneOf
  <2> HIDE DEF kind, m, schema
  <2>4. IsWritten(schema, m, 1)
    BY <2>1, <2>2, <2>3, Zenon DEF IsWritten
  <2>5. 1 \in 1 .. Len(schema)
    BY <2>1, <2>2
  <2>6. Whole(schema, m) # << >>
    BY <1>1, <2>4, <2>5, SomeBytes
  <2> QED BY <1>3, <2>6, Zenon
<1>7. decoding = Decoding(kind, wire)
  BY Zenon DEF CodecInv
<1> HIDE DEF kind, m, schema, reader
<1>8. /\ Decodes(wire)
      /\ \A i \in 1 .. Len(schema) :
            Decode(reader, wire)[schema[i].name] = ReadAs(schema[i], reader[i], m[schema[i].name])
  BY <1>1, <1>3, <1>4, RoundTrip
<1>9. decoding = [ok |-> TRUE, message |-> Decode(reader, wire)]
  BY <1>6, <1>7, <1>8, Zenon DEF Decoding, reader
<1>10. decoding.ok = TRUE /\ decoding.message = Decode(reader, wire)
  BY <1>9, Zenon
<1>11. ASSUME NEW s \in ToSet(schema)
       PROVE  decoding.message[s.name] = ReadsAs(kind, s, m[s.name])
  <2>1. PICK i \in 1 .. Len(schema) : s = schema[i]
    BY <1>1, Zenon DEF IsSchema, ToSet
  <2>2. decoding.message[s.name] = ReadAs(schema[i], reader[i], m[s.name])
    BY <1>8, <1>10, <2>1, Zenon
  <2>3. IF kind = "packet" /\ s.name = "rx_rssi" THEN reader[i].type # s.type
        ELSE reader[i].type = s.type
    BY <1>5, <2>1, Zenon
  <2> QED BY <2>1, <2>2, <2>3, Zenon DEF ReadAs, ReadsAs
<1> QED BY <1>10, <1>11, Zenon DEF kind, m, schema

\* A message the buffer has room for is read as it was written, but for what
\* ReadsAs names: the fields a decoder starts from something else than nothing
\* for, and the values it has no name for (the encoders and decoders of
\* meshtastic/protobuf.rs).
THEOREM RoundTrips == CodecSpec => []ReadsWhatItWrote
  BY CodecInvHolds, CodecInvSuffices, PTL

\* What a message has of what it is given.
LEMMA MessageIs ==
    ASSUME NEW schema, IsSchema(schema), NEW given, NEW i \in 1 .. Len(schema)
    PROVE  Message(schema, given)[schema[i].name] =
              IF schema[i].name \in DOMAIN given THEN given[schema[i].name]
              ELSE NoneOf(schema[i].type)
<1> DEFINE name == schema[i].name
           chosen == CHOOSE s \in ToSet(schema) : s.name = name
<1>1. schema[i] \in ToSet(schema) /\ name \in FieldNames(schema)
  BY Zenon DEF IsSchema, ToSet, FieldNames
<1>2. \A s \in ToSet(schema) : s.name = name => s = schema[i]
  <2> SUFFICES ASSUME NEW s \in ToSet(schema), s.name = name PROVE s = schema[i]
    BY Zenon
  <2>1. PICK j \in 1 .. Len(schema) : s = schema[j]
    BY Zenon DEF IsSchema, ToSet
  <2>2. j = i
    BY <2>1, Zenon DEF IsSchema
  <2> QED BY <2>1, <2>2, Zenon
<1>3. chosen = schema[i]
  BY <1>1, <1>2, Zenon
<1>4. Message(schema, given)[name] = IF name \in DOMAIN given THEN given[name]
                                     ELSE NoneOf(chosen.type)
  BY <1>1, Zenon DEF Message
<1> QED BY <1>3, <1>4, Zenon

\* A value that is zero or empty fits every type.
LEMMA NoneFits == \A type : Fits(type, NoneOf(type))
<1>1. 0 \in Words /\ 0 \in Int /\ ZigZag(0) \in Words
  BY SMT DEF Words, ZigZag
<1>2. << >> \in Seq(Byte) /\ Len(<< >>) = 0
  OBVIOUS
<1> SUFFICES ASSUME NEW type PROVE Fits(type, NoneOf(type))
  OBVIOUS
<1>3. CASE type = "bytes"
  BY <1>1, <1>2, <1>3, Zenon DEF Fits, NoneOf
<1>4. CASE type # "bytes"
  <2>1. NoneOf(type) = 0
    BY <1>4, Zenon DEF NoneOf
  <2> QED BY <1>1, <1>4, <2>1, NarrowedNone, Zenon DEF Fits
<1> QED BY <1>3, <1>4

\* A message fits its fields when what is given does.
LEMMA MessageFromFits ==
    ASSUME NEW schema, IsSchema(schema), NEW given,
           \A i \in 1 .. Len(schema) : schema[i].name \in DOMAIN given =>
                                          Fits(schema[i].type, given[schema[i].name])
    PROVE  IsMessage(schema, Message(schema, given))
<1> SUFFICES ASSUME NEW i \in 1 .. Len(schema)
             PROVE  Fits(schema[i].type, Message(schema, given)[schema[i].name])
  BY Zenon DEF IsMessage
<1>1. Message(schema, given)[schema[i].name] =
              IF schema[i].name \in DOMAIN given THEN given[schema[i].name]
              ELSE NoneOf(schema[i].type)
  BY MessageIs
<1> QED BY <1>1, NoneFits, Zenon

\* How many bytes a number takes.
LEMMA VarintSizes ==
    ASSUME NEW n \in Nat
    PROVE  /\ n < 128 => Len(Varint[n]) = 1
           /\ n < 16384 => Len(Varint[n]) <= 2
           /\ n \in Words => Len(Varint[n]) <= 5
           /\ Len(Varint[n]) \in Nat
<1>1. n < 128 => Len(Varint[n]) = 1
  BY VarintLess
<1> DEFINE q == n \div 128
           a == Len(Varint[n])
           b == Len(Varint[q])
<1>2. n < 16384 => a <= 2
  <2>1. q \in Nat /\ (n < 16384 => q < 128)
    BY SMT
  <2>2. n >= 128 => a = 1 + b
    BY VarintMore
  <2>3. n < 128 => a = 1
    BY <1>1
  <2> HIDE DEF q
  <2>4. n < 16384 => b = 1
    BY <2>1, VarintLess
  <2> HIDE DEF a, b
  <2>5. (n >= 128 /\ n < 16384 => a = 2) /\ (n < 128 => a = 1)
    BY <2>2, <2>3, <2>4
  <2> QED BY <2>5
<1>3. n \in Words => Len(Varint[n]) <= 5
  BY VarintOfWord
<1>4. Len(Varint[n]) \in Nat
  <2>1. Varint[n] \in Seq(Byte)
    BY VarintIs
  <2> QED BY <2>1
<1> QED BY <1>1, <1>2, <1>3, <1>4

\* How many bytes are written of a field with a tag of one byte.
LEMMA WrittenRoom ==
    ASSUME NEW f, IsField(f), f.number <= 15, NEW v, Fits(f.type, v),
           f.type \notin {"sint", "fixed32"}
    PROVE  /\ Len(Written(f, v)) \in Nat
           /\ v = NoneOf(f.type) => Len(Written(f, v)) = 0
           /\ f.type = "bytes" =>
                 /\ Len(v) \in Nat
                 /\ Len(v) < 128 => Len(Written(f, v)) <= Len(v) + 2
                 /\ Len(v) < 16384 => Len(Written(f, v)) <= Len(v) + 3
           /\ f.type # "bytes" =>
                 /\ v \in Nat /\ Len(Written(f, v)) <= 6
                 /\ v < 128 => Len(Written(f, v)) <= 2
<1> DEFINE T == Tag(f.number, WireOf(f.type))
           pre == Preface(f, v)
           con == Content(f, v)
           all == Written(f, v)
           none == NoneOf(f.type)
<1>1. T \in Seq(Byte) /\ pre \in Seq(Byte) /\ con \in Seq(Byte) /\ all \in Seq(Byte)
  BY WrittenBytes
<1>2. Len(T) = 1
  <2>1. f.number \in Nat /\ WireOf(f.type) \in {0, 2, 5}
    BY Wires DEF IsField
  <2>2. \A k \in Nat : \A w \in {0, 2, 5} : k <= 15 => k * 8 + w \in Nat /\ k * 8 + w < 128
    BY SMT
  <2>3. f.number * 8 + WireOf(f.type) \in Nat /\ f.number * 8 + WireOf(f.type) < 128
    BY <2>1, <2>2, Zenon
  <2>4. T = Varint[f.number * 8 + WireOf(f.type)]
    BY TagOf
  <2> DEFINE k == f.number * 8 + WireOf(f.type)
  <2>5. T = Varint[k] /\ k \in Nat /\ k < 128
    BY <2>3, <2>4
  <2> HIDE DEF k, T
  <2> QED BY <2>5, VarintSizes
<1>3. all = IF v = none THEN << >> ELSE pre \o con
  BY Zenon DEF Written
<1>4. CASE f.type = "bytes"
  <2>1. /\ pre = T \o Varint[Len(v)] /\ con = v /\ v \in Seq(Byte) /\ Len(v) \in Words
        /\ none = << >>
    BY <1>4, Encodings
  <2> HIDE DEF T, pre, con, all, none
  <2> DEFINE w == Varint[Len(v)]
  <2>2. Len(v) \in Nat
    BY <2>1
  <2>3. w \in Seq(Byte)
    BY <2>1, VarintOfWord
  <2>4. (Len(v) < 128 => Len(w) = 1) /\ (Len(v) < 16384 => Len(w) <= 2)
    BY <2>2, VarintSizes
  <2> HIDE DEF w
  <2>5. Len(all) = IF v = none THEN 0 ELSE 1 + Len(w) + Len(v)
    <3>1. CASE v = none
      <4>1. all = << >>
        BY <1>3, <3>1, Zenon
      <4> QED BY <3>1, <4>1
    <3>2. CASE v # none
      <4>1. all = (T \o w) \o v
        BY <1>3, <2>1, <3>2, Zenon DEF w
      <4>2. Len((T \o w) \o v) = Len(T) + Len(w) + Len(v)
        BY <1>1, <2>1, <2>3
      <4> QED BY <1>2, <3>2, <4>1, <4>2
    <3> QED BY <3>1, <3>2
  <2> DEFINE a == Len(all)
             b == Len(v)
             c == Len(w)
  <2>6. a = (IF v = none THEN 0 ELSE 1 + c + b) /\ b \in Nat /\ c \in Nat
        /\ (b < 128 => c = 1) /\ (b < 16384 => c <= 2)
    BY <2>2, <2>3, <2>4, <2>5
  <2> HIDE DEF a, b, c
  <2>7. a \in Nat /\ (v = none => a = 0) /\ (b < 128 => a <= b + 2) /\ (b < 16384 => a <= b + 3)
    BY <2>6
  <2>8. /\ Len(all) \in Nat /\ (v = none => Len(all) = 0) /\ Len(v) \in Nat
        /\ Len(v) < 128 => Len(all) <= Len(v) + 2
        /\ Len(v) < 16384 => Len(all) <= Len(v) + 3
    BY <2>6, <2>7 DEF a, b, c
  <2> HIDE <2>6, <2>7
  <2> QED BY <1>4, <2>8 DEF all, none
<1>5. CASE f.type # "bytes"
  <2>1. /\ pre = T \o << >> /\ con = Varint[WordOf(f.type, v)] /\ WordOf(f.type, v) \in Words
        /\ none = 0
    BY <1>5, Encodings
  <2>2. WordOf(f.type, v) = v
    BY Zenon DEF WordOf
  <2> DEFINE w == Varint[v]
  <2>3. con = w /\ v \in Words
    BY <2>1, <2>2, Zenon
  <2>4. v \in Nat /\ w \in Seq(Byte)
    BY <2>3, VarintOfWord
  <2>5. (v < 128 => Len(w) = 1) /\ Len(w) <= 5
    BY <2>3, <2>4, VarintSizes
  <2> HIDE DEF T, pre, con, all, none, w
  <2>6. Len(all) = IF v = none THEN 0 ELSE 1 + Len(w)
    <3>1. CASE v = none
      <4>1. all = << >>
        BY <1>3, <3>1, Zenon
      <4> QED BY <3>1, <4>1
    <3>2. CASE v # none
      <4>1. all = (T \o << >>) \o w
        BY <1>3, <2>1, <2>3, <3>2, Zenon
      <4>2. Len((T \o << >>) \o w) = Len(T) + Len(w)
        BY <1>1, <2>4
      <4> QED BY <1>2, <3>2, <4>1, <4>2
    <3> QED BY <3>1, <3>2
  <2> DEFINE a == Len(all)
             c == Len(w)
  <2>7. a = (IF v = none THEN 0 ELSE 1 + c) /\ c \in Nat /\ (v < 128 => c = 1) /\ c <= 5
    BY <2>4, <2>5, <2>6
  <2> HIDE DEF a, c
  <2>8. a \in Nat /\ (v = none => a = 0) /\ (v < 128 => a <= 2) /\ a <= 6
    BY <2>7
  <2>9. /\ Len(all) \in Nat /\ (v = none => Len(all) = 0)
        /\ (v < 128 => Len(all) <= 2) /\ Len(all) <= 6
    BY <2>8 DEF a
  <2> QED BY <1>5, <2>4, <2>9 DEF all, none
<1> QED BY <1>4, <1>5

\* A message grows by what is written of each field.
Grows(schema, m, upTo) ==
    /\ upTo[0] = << >> /\ Whole(schema, m) = upTo[Len(schema)]
    /\ \A i \in 1 .. Len(schema) :
          /\ Len(upTo[i]) = Len(upTo[i - 1]) + Len(Written(schema[i], m[schema[i].name]))
          /\ Len(upTo[i]) \in Nat /\ Len(upTo[i - 1]) \in Nat

\* The bytes of a message are those of its fields, one after the other.
LEMMA WholeGrows ==
    ASSUME NEW schema, IsSchema(schema), NEW m, IsMessage(schema, m)
    PROVE  /\ \E upTo : Grows(schema, m, upTo)
           /\ Whole(schema, m) \in Seq(Byte)
<1>1. PICK upTo : Pieced(schema, m, upTo) /\ Whole(schema, m) = upTo[Len(schema)]
  BY WholeIs
<1>2. 0 \in 0 .. Len(schema) /\ Len(schema) \in 0 .. Len(schema)
  BY DEF IsSchema
<1>3. upTo[0] = << >> /\ Whole(schema, m) \in Seq(Byte)
  BY <1>1, <1>2, Zenon DEF Pieced
<1>4. \A i \in 1 .. Len(schema) :
          /\ Len(upTo[i]) = Len(upTo[i - 1]) + Len(Written(schema[i], m[schema[i].name]))
          /\ Len(upTo[i]) \in Nat /\ Len(upTo[i - 1]) \in Nat
  <2> SUFFICES ASSUME NEW i \in 1 .. Len(schema)
               PROVE  /\ Len(upTo[i]) = Len(upTo[i - 1]) + Len(Piece(schema, m, i))
                      /\ Len(upTo[i]) \in Nat /\ Len(upTo[i - 1]) \in Nat
    BY Zenon DEF Piece
  <2> QED BY <1>1, PieceAt
<1> QED BY <1>1, <1>3, <1>4, Zenon DEF Grows

\* The smaller of two numbers.
LEMMA LessOfTwo ==
    ASSUME NEW x \in Nat, NEW y \in Nat
    PROVE  Min({x, y}) \in Nat /\ Min({x, y}) <= x /\ Min({x, y}) <= y
<1> DEFINE S == {x, y}
<1>0. S \subseteq Int
  OBVIOUS
<1>1. CASE x <= y
  <2>1. x \in S /\ \A z \in S : x <= z
    BY <1>1
  <2> HIDE DEF S
  <2>2. Min(S) = x
    BY <1>0, <2>1, LeastIsMin
  <2> QED BY <1>1, <2>2 DEF S
<1>2. CASE ~ (x <= y)
  <2>1. y \in S /\ \A z \in S : y <= z
    BY <1>2
  <2> HIDE DEF S
  <2>2. Min(S) = y
    BY <1>0, <2>1, LeastIsMin
  <2> QED BY <1>2, <2>2 DEF S
<1> QED BY <1>1, <1>2

\* A field leaves what is written within the buffer, cut or not.
LEMMA FieldIsCut ==
    ASSUME NEW f, IsField(f), NEW v, Fits(f.type, v), NEW b \in Seq(Byte),
           NEW capacity \in Nat, Len(b) <= capacity
    PROVE  /\ WithField(b, f, v, capacity) \in Seq(Byte)
           /\ Len(WithField(b, f, v, capacity)) <= capacity
<1> DEFINE pre == Preface(f, v)
           con == Content(f, v)
           head == b \o pre
           whole == head \o con
           cut == IF f.type \in {"bytes", "fixed32"} THEN head ELSE whole
           least == Min({capacity, Len(cut)})
           short == SubSeq(cut, 1, least)
<1>1. pre \in Seq(Byte) /\ con \in Seq(Byte)
  BY WrittenBytes
<1>2. head \in Seq(Byte) /\ whole \in Seq(Byte)
  <2> HIDE DEF pre, con
  <2> QED BY <1>1
<1>3. cut \in Seq(Byte)
  <2> HIDE DEF head, whole
  <2> QED BY <1>2
<1>4. short \in Seq(Byte) /\ Len(short) <= capacity
  <2> HIDE DEF cut
  <2>1. Len(cut) \in Nat
    BY <1>3
  <2>2. least \in Nat /\ least <= capacity /\ least <= Len(cut)
    BY <2>1, LessOfTwo
  <2> HIDE DEF least
  <2>3. \A i \in 1 .. least : i \in 1 .. Len(cut)
    BY <2>1, <2>2
  <2>4. SubSeq(cut, 1, least) \in Seq(Byte) /\ Len(SubSeq(cut, 1, least)) = least
    BY <1>3, <2>1, <2>2, <2>3
  <2> QED BY <2>2, <2>4
<1>5. WithField(b, f, v, capacity) = IF v = NoneOf(f.type) THEN b
                                     ELSE IF Len(whole) <= capacity THEN whole ELSE short
  BY Zenon DEF WithField
<1> HIDE DEF whole, short
<1> QED BY <1>2, <1>4, <1>5

\* What an encoder writes is bytes, no more than the buffer has room for.
LEMMA EncodeFits ==
    ASSUME NEW schema, IsSchema(schema), NEW m, IsMessage(schema, m), NEW capacity \in Nat
    PROVE  Encode(schema, m, capacity) \in Seq(Byte) /\ Len(Encode(schema, m, capacity)) <= capacity
<1> DEFINE n == Len(schema)
           D == 0 .. n
           S == {b \in Seq(Byte) : Len(b) <= capacity}
           F(i, b) == WithField(b, schema[i], m[schema[i].name], capacity)
           Made(f) == [i \in D |-> IF i = 0 THEN << >> ELSE F(i, f[i - 1])]
           enc == CHOOSE f : f = Made(f)
           measure == [i \in D |-> i]
           stop == {0}
           base == [i \in D |-> << >>]
           next == [i \in D |-> IF i = 0 THEN 0 ELSE i - 1]
           G == [i \in D |-> [x \in S |-> IF i = 0 THEN << >> ELSE F(i, x)]]
<1>1. n \in Nat
  BY DEF IsSchema
<1>2. \A i \in 1 .. n : \A b \in S : F(i, b) \in S
  <2> SUFFICES ASSUME NEW i \in 1 .. n, NEW b \in S PROVE F(i, b) \in S
    OBVIOUS
  <2>1. IsField(schema[i]) /\ Fits(schema[i].type, m[schema[i].name])
    BY Zenon DEF IsSchema, IsMessage
  <2>2. b \in Seq(Byte) /\ Len(b) <= capacity
    BY Zenon
  <2>3. F(i, b) \in Seq(Byte) /\ Len(F(i, b)) <= capacity
    BY <2>1, <2>2, FieldIsCut
  <2> HIDE DEF F
  <2> QED BY <2>3, Zenon
<1>3. << >> \in S
  OBVIOUS
<1> HIDE DEF n, F, S
<1>4. \A i \in D : \A x \in S : (IF i = 0 THEN << >> ELSE F(i, x)) \in S
  <2> SUFFICES ASSUME NEW i \in D, NEW x \in S PROVE (IF i = 0 THEN << >> ELSE F(i, x)) \in S
    BY Zenon
  <2>1. CASE i = 0
    BY <1>3, <2>1, Zenon
  <2>2. CASE i # 0
    <3>1. i \in 1 .. n
      BY <1>1, <2>2
    <3> QED BY <1>2, <2>2, <3>1, Zenon
  <2> QED BY <2>1, <2>2
<1>5. Recursive(D, S, measure, n, stop, base, next, G)
  <2>1. measure \in [D -> Nat] /\ (\A i \in D : measure[i] <= n) /\ next \in [D -> D]
    BY <1>1
  <2>2. base \in [D -> S] /\ G \in [D -> [S -> S]]
    <3> HIDE DEF D
    <3> QED BY <1>3, <1>4, Zenon
  <2>3. \A i \in D : i \notin stop => measure[next[i]] < measure[i]
    BY <1>1
  <2> HIDE DEF D, measure, stop, base, next, G
  <2> QED BY <1>1, <2>1, <2>2, <2>3, Zenon DEF Recursive
<1>6. \E u : Computes(u, D, S, stop, base, next, G)
  <2> HIDE DEF D, measure, stop, base, next, G
  <2> QED BY <1>5, RecursionExists, Zenon
<1>7. PICK u \in [D -> S] : \A i \in D : u[i] = IF i \in stop THEN base[i] ELSE G[i][u[next[i]]]
  BY <1>6, Zenon DEF Computes
<1>8. ASSUME NEW i \in D PROVE u[i] = IF i = 0 THEN << >> ELSE F(i, u[i - 1])
  <2>1. CASE i = 0
    BY <1>7, <2>1, Zenon
  <2>2. CASE i # 0
    <3>1. i - 1 \in D
      BY <1>1, <2>2
    <3>2. u[i - 1] \in S /\ next[i] = i - 1 /\ i \notin stop
      BY <2>2, <3>1, Zenon
    <3>3. u[i] = G[i][u[i - 1]]
      BY <1>7, <3>2, Zenon
    <3>4. G[i][u[i - 1]] = F(i, u[i - 1])
      BY <2>2, <3>2, Zenon
    <3> QED BY <2>2, <3>3, <3>4, Zenon
  <2> QED BY <2>1, <2>2
<1>9. u = Made(u)
  BY <1>7, <1>8, Zenon
<1>10. \A f : f = Made(f) => \A i \in D : f[i] = IF i = 0 THEN << >> ELSE F(i, f[i - 1])
  BY Zenon
<1>11. Encode(schema, m, capacity) = enc[n]
  BY Zenon DEF Encode, n, F
<1> HIDE DEF Made
<1>12. enc = Made(enc)
  BY <1>9, Zenon
<1> HIDE DEF enc
<1>13. \A i \in D : enc[i] = IF i = 0 THEN << >> ELSE F(i, enc[i - 1])
  BY <1>10, <1>12, Zenon
<1>14. \A i \in D : enc[i] \in S
  <2> DEFINE Bad == {k \in Nat : k \in D /\ enc[k] \notin S}
  <2>0. \A i \in D : i \in Nat
    BY <1>1
  <2> SUFFICES ASSUME Bad # {} PROVE FALSE
    BY <2>0, Zenon
  <2>1. PICK k \in Bad : \A j \in Bad : k <= j
    BY LeastNumber, Zenon
  <2>2. k \in Nat /\ k \in D /\ enc[k] \notin S
    BY Zenon
  <2>3. CASE k = 0
    BY <1>3, <1>13, <2>2, <2>3, Zenon
  <2>4. CASE k # 0
    <3>1. k - 1 \in Nat /\ k - 1 \in D /\ ~ (k <= k - 1)
      BY <1>1, <2>2, <2>4
    <3>2. enc[k - 1] \in S
      BY <2>1, <3>1, Zenon
    <3>3. enc[k] \in S
      BY <1>4, <1>13, <2>2, <3>2, Zenon
    <3> QED BY <2>2, <3>3
  <2> QED BY <2>3, <2>4
<1>15. n \in D
  BY <1>1
<1>16. enc[n] \in S
  BY <1>14, <1>15, Zenon
<1> QED BY <1>11, <1>16, Zenon DEF S

\* A field the loose parser takes ends behind its beginning, in the message.
LEMMA LooseEnds ==
    ASSUME NEW d \in Seq(Byte), NEW p \in 1 .. Len(d) + 1, LooseField(d, p).ok
    PROVE  LooseField(d, p).last \in p .. Len(d) /\ p < Len(d)
<1> DEFINE kind == d[p] % 8
           end == VarintEnd(d, p + 1)
           last == CASE kind = 0 -> IF end = 0 THEN Len(d) ELSE end
                     [] kind = 2 -> p + 1 + d[p + 1]
                     [] OTHER    -> p
<1>1. LooseField(d, p).last = last /\ p < Len(d) /\ kind \in {0, 2} /\ last <= Len(d)
  BY Zenon DEF LooseField
<1>2. Len(d) \in Nat /\ p \in Nat /\ p + 1 \in 1 .. Len(d)
  BY <1>1
<1>3. end \in Nat /\ (end # 0 => p + 1 <= end)
  BY <1>2, VarintEndIn
<1>4. d[p + 1] \in Byte
  BY <1>2
<1>5. \A b \in Byte : b \in Nat
  BY DEF Byte
<1>6. /\ kind = 0 => last = IF end = 0 THEN Len(d) ELSE end
      /\ kind = 2 => last = p + 1 + d[p + 1]
  <2>1. 0 # 2
    BY SMT
  <2> HIDE DEF kind, end
  <2> QED BY <2>1, Zenon
<1> HIDE DEF kind, end, last
<1>7. last \in p .. Len(d)
  <2>1. CASE kind = 0
    BY <1>1, <1>2, <1>3, <1>6, <2>1
  <2>2. CASE kind = 2
    BY <1>1, <1>2, <1>4, <1>5, <1>6, <2>2
  <2> QED BY <1>1, <2>1, <2>2
<1> QED BY <1>1, <1>7, Zenon

\* The list of fields, from each place on, as LooseFields is defined.
LooseLists(d, from) ==
    \A p \in 1 .. Len(d) + 1 :
        from[p] = IF p >= Len(d) THEN << >>
                  ELSE IF LooseField(d, p).ok
                       THEN <<LooseField(d, p)>> \o from[LooseField(d, p).last + 1]
                       ELSE << >>

\* LooseFields is such a list.
LEMMA LooseFieldsAre ==
    ASSUME NEW d \in Seq(Byte)
    PROVE  \E from : LooseLists(d, from) /\ LooseFields(d) = from[1]
<1> DEFINE D == 1 .. Len(d) + 1
           F(p) == LooseField(d, p)
           Made(f) == [p \in D |-> IF p >= Len(d) THEN << >>
                                   ELSE IF F(p).ok THEN <<F(p)>> \o f[F(p).last + 1] ELSE << >>]
           from == CHOOSE f : f = Made(f)
           R == {F(p) : p \in D}
           Ends(p) == p >= Len(d) \/ ~ F(p).ok
           m == [p \in D |-> Len(d) + 1 - p]
           stop == {p \in D : Ends(p)}
           base == [p \in D |-> << >>]
           next == [p \in D |-> IF Ends(p) THEN p ELSE F(p).last + 1]
           G == [p \in D |-> [x \in Seq(R) |-> <<F(p)>> \o x]]
<1>1. Len(d) \in Nat
  OBVIOUS
<1>2. ASSUME NEW p \in D, ~ Ends(p) PROVE F(p).last + 1 \in D /\ p < F(p).last + 1
  <2>1. F(p).last \in p .. Len(d)
    BY <1>2, LooseEnds
  <2> HIDE DEF F
  <2> QED BY <1>1, <2>1
<1>3. ASSUME NEW p \in D PROVE \A x \in Seq(R) : <<F(p)>> \o x \in Seq(R)
  <2>1. F(p) \in R
    BY Zenon
  <2> HIDE DEF F, R
  <2> QED BY <2>1
<1> HIDE DEF F
<1>4. Recursive(D, Seq(R), m, Len(d), stop, base, next, G)
  <2> HIDE DEF R
  <2>1. m \in [D -> Nat] /\ \A i \in D : m[i] <= Len(d)
    BY <1>1
  <2>2. base \in [D -> Seq(R)]
    <3>1. << >> \in Seq(R)
      OBVIOUS
    <3> QED BY <3>1, Zenon
  <2>3. next \in [D -> D]
    <3>1. \A p \in D : (IF Ends(p) THEN p ELSE F(p).last + 1) \in D
      BY <1>2, Zenon
    <3> HIDE DEF D, Ends
    <3> QED BY <3>1, Zenon
  <2>4. G \in [D -> [Seq(R) -> Seq(R)]]
    BY <1>3, Zenon
  <2>5. ASSUME NEW i \in D, i \notin stop PROVE m[next[i]] < m[i]
    <3>1. ~ Ends(i)
      BY <2>5, Zenon
    <3>2. next[i] = F(i).last + 1
      BY <3>1, Zenon
    <3>3. F(i).last + 1 \in D /\ i < F(i).last + 1
      BY <1>2, <3>1
    <3> HIDE DEF Ends, next
    <3> QED BY <1>1, <3>2, <3>3
  <2> HIDE DEF m, stop, base, next, G
  <2> QED BY <1>1, <2>1, <2>2, <2>3, <2>4, <2>5, Zenon DEF Recursive
<1>5. \E u : Computes(u, D, Seq(R), stop, base, next, G)
  <2> HIDE DEF D, R, m, stop, base, next, G
  <2> QED BY <1>4, RecursionExists, Zenon
<1>6. PICK u \in [D -> Seq(R)] : \A p \in D : u[p] = IF p \in stop THEN base[p] ELSE G[p][u[next[p]]]
  BY <1>5, Zenon DEF Computes
<1>7. ASSUME NEW p \in D
      PROVE  u[p] = IF p >= Len(d) THEN << >>
                    ELSE IF F(p).ok THEN <<F(p)>> \o u[F(p).last + 1] ELSE << >>
  <2>1. CASE Ends(p)
    <3>1. u[p] = << >>
      BY <1>6, <2>1, Zenon
    <3> QED BY <2>1, <3>1, Zenon
  <2>2. CASE ~ Ends(p)
    <3>1. p \notin stop /\ next[p] = F(p).last + 1
      BY <2>2, Zenon
    <3>2. F(p).last + 1 \in D
      BY <1>2, <2>2, Zenon
    <3>3. u[F(p).last + 1] \in Seq(R)
      <4> HIDE DEF R, D
      <4> QED BY <3>2, Zenon
    <3>4. u[p] = G[p][u[F(p).last + 1]]
      BY <1>6, <3>1, Zenon
    <3>5. G[p][u[F(p).last + 1]] = <<F(p)>> \o u[F(p).last + 1]
      BY <3>3, Zenon
    <3> QED BY <2>2, <3>4, <3>5, Zenon
  <2> QED BY <2>1, <2>2, Zenon
<1>8. u = Made(u)
  <2> HIDE DEF R
  <2> QED BY <1>6, <1>7, Zenon
<1>9. \A f : f = Made(f) => \A p \in D : f[p] = IF p >= Len(d) THEN << >>
                    ELSE IF F(p).ok THEN <<F(p)>> \o f[F(p).last + 1] ELSE << >>
  BY Zenon
<1>10. LooseFields(d) = from[1]
  BY Zenon DEF LooseFields, F
<1> HIDE DEF Made
<1>11. from = Made(from)
  BY <1>8, Zenon
<1> HIDE DEF from
<1>12. LooseLists(d, from)
  BY <1>9, <1>11, Zenon DEF LooseLists, F
<1> QED BY <1>10, <1>12, Zenon

\* A field the loose parser can follow: one byte of tag, one of length.
IsLoose(f, v) ==
    /\ IsField(f) /\ f.number <= 15 /\ Fits(f.type, v)
    /\ f.type \notin {"sint", "fixed32"}
    /\ f.type = "bytes" => Len(v) < 128

\* Such a field is the field that is read.
LEMMA LooseIsRead ==
    ASSUME NEW d \in Seq(Byte), NEW p \in Nat, NEW f, NEW v, IsLoose(f, v),
           v # NoneOf(f.type), At(d, p, Preface(f, v) \o Content(f, v))
    PROVE  /\ LooseField(d, p).ok /\ LooseField(d, p).number = f.number
           /\ LooseField(d, p).first = p + Len(Preface(f, v))
           /\ LooseField(d, p).last = p + Len(Preface(f, v)) + Len(Content(f, v)) - 1
           /\ p \in 1 .. Len(d) /\ p < Len(d)
<1> DEFINE T == Tag(f.number, WireOf(f.type))
           key == f.number * 8 + WireOf(f.type)
           pre == Preface(f, v)
           con == Content(f, v)
           kind == d[p] % 8
           end == VarintEnd(d, p + 1)
           last == CASE kind = 0 -> IF end = 0 THEN Len(d) ELSE end
                     [] kind = 2 -> p + 1 + d[p + 1]
                     [] OTHER    -> p
<1>0. IsField(f) /\ f.number <= 15 /\ Fits(f.type, v) /\ f.type \notin {"sint", "fixed32"}
      /\ (f.type = "bytes" => Len(v) < 128)
  BY Zenon DEF IsLoose
<1>1. pre \in Seq(Byte) /\ con \in Seq(Byte) /\ T \in Seq(Byte)
  BY <1>0, WrittenBytes
<1>2. At(d, p, pre) /\ At(d, p + Len(pre), con)
  BY <1>1, AtJoined
<1>3. T = Varint[key] /\ key % 8 = WireOf(f.type) /\ key \div 8 = f.number
  BY <1>0, TagOf
<1>4. T = <<key>>
  <2>1. f.number \in Nat /\ WireOf(f.type) \in {0, 2, 5}
    BY <1>0, Wires DEF IsField
  <2>2. \A k \in Nat : \A w \in {0, 2, 5} : k <= 15 => k * 8 + w \in Nat /\ k * 8 + w < 128
    BY SMT
  <2>3. key \in Nat /\ key < 128
    BY <1>0, <2>1, <2>2, Zenon
  <2> HIDE DEF key, T
  <2> QED BY <1>3, <2>3, VarintLess, Zenon
<1>5. /\ p < Len(d) /\ kind \in {0, 2} /\ last <= Len(d) => LooseField(d, p).ok
      /\ LooseField(d, p).number = d[p] \div 8
      /\ kind = 2 => LooseField(d, p).first = p + 2
      /\ kind # 2 => LooseField(d, p).first = p + 1
      /\ LooseField(d, p).last = last
  BY Zenon DEF LooseField
<1>6. /\ kind = 0 => last = IF end = 0 THEN Len(d) ELSE end
      /\ kind = 2 => last = p + 1 + d[p + 1]
  <2>1. 0 # 2
    BY SMT
  <2> HIDE DEF kind, end
  <2> QED BY <2>1, Zenon
<1>7. /\ Len(con) \in Nat \ {0} /\ Len(pre) \in Nat \ {0} /\ Len(d) \in Nat /\ p \in Nat \ {0}
      /\ p + Len(pre) + Len(con) - 1 <= Len(d)
  <2>1. /\ Len(pre) \in Nat \ {0} /\ Len(con) \in Nat \ {0}
        /\ p + Len(pre) + Len(con) - 1 <= Len(d)
    BY <1>0, FieldIsRead
  <2>2. p \in Nat \ {0}
    BY <1>2 DEF At
  <2> HIDE DEF pre, con
  <2> QED BY <2>1, <2>2
<1>8. CASE f.type = "bytes"
  <2>1. pre = T \o Varint[Len(v)] /\ con = v /\ WireOf(f.type) = 2 /\ v \in Seq(Byte)
    BY <1>0, <1>8, Encodings
  <2>2. Len(v) \in Nat /\ Len(v) < 128
    BY <1>0, <1>8, <2>1
  <2>3. Varint[Len(v)] = <<Len(v)>>
    BY <2>2, VarintLess
  <2> HIDE DEF T, key, con, kind, end, last
  <2>4. pre = <<key>> \o <<Len(v)>>
    BY <1>4, <2>1, <2>3, Zenon
  <2> HIDE DEF pre
  <2>5. Len(pre) = 2 /\ pre[1] = key /\ pre[2] = Len(v)
    BY <2>4
  <2>6. d[p] = key /\ d[p + 1] = Len(v)
    <3>1. \A i \in 1 .. Len(pre) : d[p + i - 1] = pre[i]
      BY <1>2 DEF At
    <3>2. 1 \in 1 .. Len(pre) /\ 2 \in 1 .. Len(pre) /\ p + 1 - 1 = p /\ p + 2 - 1 = p + 1
      BY <2>5
    <3> QED BY <2>5, <3>1, <3>2
  <2>7. kind = 2 /\ d[p] \div 8 = f.number
    BY <1>3, <2>1, <2>6, Zenon DEF kind
  <2>8. last = p + 1 + Len(v)
    BY <1>6, <2>6, <2>7, Zenon
  <2>9. Len(con) = Len(v)
    BY <2>1, Zenon
  <2> DEFINE x == Len(con)
             y == Len(d)
  <2>10. last = p + 1 + x /\ x \in Nat \ {0} /\ y \in Nat /\ p \in Nat \ {0} /\ p + 2 + x - 1 <= y
    BY <1>7, <2>5, <2>8, <2>9, Zenon
  <2> HIDE DEF x, y
  <2>11. p < y /\ last <= y /\ last = p + 2 + x - 1 /\ p \in 1 .. y
    BY <2>10
  <2>12. 2 \in {0, 2}
    OBVIOUS
  <2>13. /\ LooseField(d, p).ok /\ LooseField(d, p).number = f.number
         /\ LooseField(d, p).first = p + 2 /\ LooseField(d, p).last = p + 2 + x - 1
    BY <1>5, <2>7, <2>11, <2>12, Zenon DEF y
  <2> QED BY <2>5, <2>11, <2>13, Zenon DEF x, y, pre, con
<1>9. CASE f.type # "bytes"
  <2>1. pre = T \o << >> /\ con = Varint[WordOf(f.type, v)] /\ WordOf(f.type, v) \in Words
        /\ WireOf(f.type) = 0
    BY <1>0, <1>9, Encodings
  <2> HIDE DEF T, key, con, kind, last, pre
  <2>2. pre = <<key>> \o << >>
    BY <1>4, <2>1, Zenon
  <2>3. Len(pre) = 1 /\ pre[1] = key
    BY <2>2
  <2>4. d[p] = key
    <3>1. \A i \in 1 .. Len(pre) : d[p + i - 1] = pre[i]
      BY <1>2 DEF At
    <3>2. 1 \in 1 .. Len(pre) /\ p + 1 - 1 = p
      BY <1>7, <2>3
    <3> QED BY <2>3, <3>1, <3>2
  <2>5. kind = 0 /\ d[p] \div 8 = f.number
    BY <1>3, <2>1, <2>4, Zenon DEF kind
  <2>6. At(d, p + 1, con) /\ p + 1 \in Nat
    BY <1>2, <1>7, <2>3
  <2>7. end = p + 1 + Len(con) - 1
    BY <2>1, <2>6, WordAt
  <2> HIDE DEF end
  <2>8. end # 0
    BY <1>7, <2>7
  <2>9. last = end
    BY <1>6, <2>5, <2>8, Zenon
  <2> DEFINE x == Len(con)
             y == Len(d)
  <2>10. last = p + 1 + x - 1 /\ x \in Nat \ {0} /\ y \in Nat /\ p \in Nat \ {0} /\ p + 1 + x - 1 <= y
    BY <1>7, <2>3, <2>7, <2>9, Zenon
  <2> HIDE DEF x, y
  <2>11. p < y /\ last <= y /\ p \in 1 .. y
    BY <2>10
  <2>12. 0 \in {0, 2} /\ 0 # 2
    OBVIOUS
  <2>13. /\ LooseField(d, p).ok /\ LooseField(d, p).number = f.number
         /\ LooseField(d, p).first = p + 1 /\ LooseField(d, p).last = p + 1 + x - 1
    BY <1>5, <2>5, <2>10, <2>11, <2>12, Zenon DEF y
  <2> QED BY <2>3, <2>11, <2>13, Zenon DEF x, y, pre, con
<1> QED BY <1>8, <1>9

\* A message that the loose parser reads from the bytes it was written as.
LooseTransfer(schema, m, upTo, from) ==
    /\ IsSchema(schema) /\ IsMessage(schema, m)
    /\ \A i \in 1 .. Len(schema) : IsLoose(schema[i], m[schema[i].name])
    /\ Pieced(schema, m, upTo) /\ LooseLists(upTo[Len(schema)], from)

LooseBack(schema, upTo, j) == LooseField(upTo[Len(schema)], Len(upTo[j - 1]) + 1)

\* From the place of a field on the loose parser reads it first.
LEMMA LooseOneIsRead ==
    ASSUME NEW schema, NEW m, NEW upTo, NEW from, LooseTransfer(schema, m, upTo, from),
           NEW i \in 1 .. Len(schema)
    PROVE  /\ ~ IsWritten(schema, m, i) => Len(upTo[i]) = Len(upTo[i - 1])
           /\ IsWritten(schema, m, i) =>
                 /\ from[Len(upTo[i - 1]) + 1] =
                       <<LooseBack(schema, upTo, i)>> \o from[Len(upTo[i]) + 1]
                 /\ LooseBack(schema, upTo, i).number = schema[i].number
                 /\ SubSeq(upTo[Len(schema)], LooseBack(schema, upTo, i).first,
                           LooseBack(schema, upTo, i).last) =
                       Content(schema[i], m[schema[i].name])
<1> DEFINE d == upTo[Len(schema)]
           f == schema[i]
           v == m[f.name]
           w == Piece(schema, m, i)
           p == Len(upTo[i - 1]) + 1
           pre == Preface(f, v)
           con == Content(f, v)
<1>0. IsSchema(schema) /\ IsMessage(schema, m) /\ Pieced(schema, m, upTo) /\ LooseLists(d, from)
      /\ IsLoose(f, v)
  BY Zenon DEF LooseTransfer
<1>1. /\ At(d, p, w) /\ Len(upTo[i]) = Len(upTo[i - 1]) + Len(w)
      /\ Len(upTo[i - 1]) \in Nat /\ Len(upTo[i]) \in Nat /\ d \in Seq(Byte)
  BY <1>0, PieceAt
<1>2. IsField(f) /\ Fits(f.type, v) /\ w \in Seq(Byte)
  BY <1>0, PiecesJoin
<1>3. CASE ~ IsWritten(schema, m, i)
  <2>1. w = << >>
    BY <1>3, Zenon DEF IsWritten, Piece, Written
  <2> HIDE DEF w
  <2>2. Len(w) = 0
    BY <2>1
  <2> QED BY <1>1, <1>3, <2>2
<1>4. CASE IsWritten(schema, m, i)
  <2>1. v # NoneOf(f.type) /\ w = pre \o con
    BY <1>4, Zenon DEF IsWritten, Piece, Written
  <2>2. p \in Nat /\ Len(d) \in Nat
    BY <1>1
  <2> DEFINE r == LooseField(d, p)
  <2>3. /\ r.ok /\ r.number = f.number /\ r.first = p + Len(pre)
        /\ r.last = p + Len(pre) + Len(con) - 1
        /\ p \in 1 .. Len(d) /\ p < Len(d)
        /\ At(d, p + Len(pre), con)
        /\ Len(pre) \in Nat \ {0} /\ Len(con) \in Nat \ {0}
        /\ Len(pre) + Len(con) = Len(pre \o con)
        /\ p + Len(pre) + Len(con) - 1 <= Len(d)
    <3> HIDE DEF d, f, v, w, p
    <3>1. At(d, p, pre \o con)
      BY <1>1, <2>1
    <3>2. /\ r.ok /\ r.number = f.number /\ r.first = p + Len(pre)
          /\ r.last = p + Len(pre) + Len(con) - 1
          /\ p \in 1 .. Len(d) /\ p < Len(d)
      BY <1>0, <1>1, <2>1, <2>2, <3>1, LooseIsRead
    <3>3. /\ At(d, p + Len(pre), con)
          /\ Len(pre) \in Nat \ {0} /\ Len(con) \in Nat \ {0}
          /\ Len(pre) + Len(con) = Len(pre \o con)
          /\ p + Len(pre) + Len(con) - 1 <= Len(d)
      BY <1>1, <1>2, <2>1, <2>2, <3>1, FieldIsRead
    <3> QED BY <3>2, <3>3
  <2>4. con \in Seq(Byte)
    BY <1>2, WrittenBytes
  <2>5. SubSeq(d, r.first, r.last) = con
    <3> HIDE DEF d, p, pre, con
    <3>1. At(d, p + Len(pre), con) /\ p + Len(pre) \in Nat /\ Len(con) >= 1
      <4>1. At(d, p + Len(pre), con) /\ Len(pre) \in Nat \ {0} /\ Len(con) \in Nat \ {0}
        BY <2>3
      <4> QED BY <2>2, <4>1
    <3>2. SubSeq(d, p + Len(pre), p + Len(pre) + Len(con) - 1) = con
      BY <1>1, <2>4, <3>1, CutAt
    <3> HIDE DEF r
    <3> QED BY <2>3, <3>2, Zenon
  <2> HIDE DEF d, f, v, w, pre, con
  <2>6. p \in 1 .. Len(d) + 1 /\ ~ (p >= Len(d))
    BY <2>2, <2>3
  <2>7. p + Len(pre) + Len(con) - 1 + 1 = Len(upTo[i]) + 1
    <3>1. Len(w) = Len(pre) + Len(con)
      BY <2>1, <2>3, Zenon
    <3>2. Len(upTo[i]) = Len(upTo[i - 1]) + Len(w) /\ Len(upTo[i - 1]) \in Nat
      BY <1>1
    <3>3. Len(pre) \in Nat /\ Len(con) \in Nat
      BY <2>3
    <3> DEFINE a == Len(upTo[i - 1])
               b == Len(upTo[i])
               x == Len(pre)
               y == Len(con)
    <3>4. a \in Nat /\ x \in Nat /\ y \in Nat /\ b = a + (x + y)
      BY <3>1, <3>2, <3>3, Zenon
    <3> HIDE DEF a, b, x, y
    <3>5. a + 1 + x + y - 1 + 1 = b + 1
      BY <3>4
    <3> QED BY <3>5, Zenon DEF a, b, x, y
  <2>8. from[p] = IF LooseField(d, p).ok
                  THEN <<LooseField(d, p)>> \o from[LooseField(d, p).last + 1] ELSE << >>
    BY <1>0, <2>6, Zenon DEF LooseLists, d
  <2>9. from[p] = <<r>> \o from[Len(upTo[i]) + 1]
    BY <2>3, <2>7, <2>8, Zenon
  <2>10. r = LooseBack(schema, upTo, i)
    BY Zenon DEF LooseBack, d
  <2> HIDE DEF r
  <2>11. r.number = f.number
    BY <2>3, Zenon
  <2> QED BY <1>4, <2>5, <2>9, <2>10, <2>11, Zenon DEF d, f, v, con
<1> QED BY <1>3, <1>4

\* The loose parser meets the fields that were written and no other.
LEMMA LooseAllAreRead ==
    ASSUME NEW schema, NEW m, NEW upTo, NEW from, LooseTransfer(schema, m, upTo, from)
    PROVE  /\ from[1] \in Seq({LooseBack(schema, upTo, j) : j \in 1 .. Len(schema)})
           /\ ToSet(from[1]) =
                 {LooseBack(schema, upTo, j) : j \in {k \in 1 .. Len(schema) : IsWritten(schema, m, k)}}
<1> DEFINE n == Len(schema)
           d == upTo[n]
           Rec(j) == LooseBack(schema, upTo, j)
           rec == [j \in 1 .. n |-> Rec(j)]
           W == {k \in 1 .. n : IsWritten(schema, m, k)}
           L == [x \in 0 .. n |-> from[Len(upTo[x]) + 1]]
<1>1. n \in Nat /\ Pieced(schema, m, upTo) /\ LooseLists(d, from)
  BY DEF IsSchema, LooseTransfer
<1>2. \A x \in 1 .. n : x \in 0 .. n /\ x - 1 \in 0 .. n
  BY <1>1
<1>3. ASSUME NEW x \in 1 .. n
      PROVE  /\ x \in W => L[x - 1] = <<rec[x]>> \o L[x]
             /\ x \notin W => L[x - 1] = L[x]
  <2>1. /\ ~ IsWritten(schema, m, x) => Len(upTo[x]) = Len(upTo[x - 1])
        /\ IsWritten(schema, m, x) =>
              /\ from[Len(upTo[x - 1]) + 1] =
                    <<LooseBack(schema, upTo, x)>> \o from[Len(upTo[x]) + 1]
              /\ LooseBack(schema, upTo, x).number = schema[x].number
              /\ SubSeq(upTo[Len(schema)], LooseBack(schema, upTo, x).first,
                        LooseBack(schema, upTo, x).last) =
                    Content(schema[x], m[schema[x].name])
    <3>1. x \in 1 .. Len(schema)
      BY Zenon
    <3> HIDE DEF n, d, Rec, rec, W, L
    <3> QED BY <3>1, LooseOneIsRead
  <2>2. L[x] = from[Len(upTo[x]) + 1] /\ L[x - 1] = from[Len(upTo[x - 1]) + 1] /\ rec[x] = Rec(x)
    BY <1>2, Zenon
  <2>3. x \in W <=> IsWritten(schema, m, x)
    BY Zenon
  <2> HIDE DEF L, rec, W
  <2> QED BY <2>1, <2>2, <2>3, Zenon
<1>4. from[Len(d) + 1] = << >>
  <2>1. d \in Seq(Byte) /\ Len(d) \in Nat
    <3>1. n \in 0 .. n
      BY <1>1
    <3>2. d \in Seq(Byte)
      BY <1>1, <3>1, Zenon DEF Pieced
    <3> HIDE DEF d
    <3> QED BY <3>2
  <2> HIDE DEF d
  <2>2. Len(d) + 1 \in 1 .. Len(d) + 1 /\ Len(d) + 1 >= Len(d)
    BY <2>1
  <2> QED BY <1>1, <2>2, Zenon DEF LooseLists
<1>5. L[n] = << >> /\ L[0] = from[Len(upTo[0]) + 1]
  <2>1. n \in 0 .. n /\ 0 \in 0 .. n
    BY <1>1
  <2> QED BY <1>4, <2>1, Zenon
<1>6. Len(upTo[0]) + 1 = 1
  <2>1. upTo[0] = << >>
    <3>1. 0 \in 0 .. n
      BY <1>1
    <3> QED BY <1>1, <3>1, Zenon DEF Pieced
  <2> QED BY <2>1
<1>7. Collects(n, L, rec, W)
  <2> HIDE DEF L, rec, W, n
  <2> QED BY <1>1, <1>3, <1>5, Zenon DEF Collects
<1>8. /\ L[0] \in Seq(Records(rec, 1 .. n))
      /\ ToSet(L[0]) = Records(rec, {k \in 1 .. n : k \in W})
  <2> HIDE DEF L, rec, W, n
  <2> QED BY <1>7, Collected
<1>9. /\ Records(rec, 1 .. n) = {Rec(j) : j \in 1 .. n}
      /\ Records(rec, {k \in 1 .. n : k \in W}) = {Rec(j) : j \in {k \in 1 .. n : IsWritten(schema, m, k)}}
  <2> HIDE DEF Rec
  <2> QED BY Zenon DEF Records
<1>10. L[0] = from[1]
  BY <1>5, <1>6, Zenon
<1> HIDE DEF L, rec, W, Rec
<1>11. /\ from[1] \in Seq({Rec(j) : j \in 1 .. n})
       /\ ToSet(from[1]) = {Rec(j) : j \in {k \in 1 .. n : IsWritten(schema, m, k)}}
  BY <1>8, <1>9, <1>10, Zenon
<1> QED BY <1>11, Zenon DEF Rec

\* The schemas of the messages to an app: words and bytes, with tags of one byte.
Plain(schema) ==
    /\ Listed(schema)
    /\ \A i \in 1 .. Len(schema) : schema[i].type \in {"uint", "bytes"} /\ schema[i].number <= 15

\* The most that is written of a field.
Cost(f, given) ==
    IF f.name \notin DOMAIN given THEN 0
    ELSE IF f.type = "bytes"
         THEN IF Len(given[f.name]) < 128 THEN Len(given[f.name]) + 2 ELSE Len(given[f.name]) + 3
         ELSE IF given[f.name] < 128 THEN 2 ELSE 6

\* A value that is given fits its field, and is not long.
Holds(f, given) ==
    f.name \in DOMAIN given => /\ Fits(f.type, given[f.name])
                               /\ f.type = "bytes" => Len(given[f.name]) < 16384

\* What is given fits its fields, and there is room for it up to each of them.
Packs(schema, given, room, capacity) ==
    /\ Plain(schema) /\ capacity \in Nat
    /\ \A i \in 1 .. Len(schema) : Holds(schema[i], given)
    /\ room[1] = 0 /\ \A i \in 1 .. Len(schema) + 1 : room[i] \in Nat
    /\ \A i \in 1 .. Len(schema) : room[i] + Cost(schema[i], given) <= room[i + 1]
    /\ room[Len(schema) + 1] <= capacity

\* What is written of a field is at most its cost.
LEMMA CostBounds ==
    ASSUME NEW schema, Plain(schema), NEW given, NEW i \in 1 .. Len(schema),
           Holds(schema[i], given)
    PROVE  /\ Len(Written(schema[i], Message(schema, given)[schema[i].name])) \in Nat
           /\ Len(Written(schema[i], Message(schema, given)[schema[i].name])) <= Cost(schema[i], given)
           /\ Cost(schema[i], given) \in Nat
<1> DEFINE f == schema[i]
           v == Message(schema, given)[f.name]
           all == Written(f, v)
<1>1. IsSchema(schema) /\ IsField(f) /\ f.number <= 15 /\ f.type \in {"uint", "bytes"}
  <2>1. IsSchema(schema)
    BY ListedIsSchema DEF Plain
  <2> QED BY <2>1, Zenon DEF Plain, IsSchema
<1>2. v = IF f.name \in DOMAIN given THEN given[f.name] ELSE NoneOf(f.type)
  BY <1>1, MessageIs
<1>0. Holds(f, given)
  OBVIOUS
<1>3. Fits(f.type, v)
  <2> HIDE DEF f, v
  <2>1. CASE f.name \in DOMAIN given
    BY <1>0, <1>2, <2>1, SMT DEF Holds
  <2>2. CASE f.name \notin DOMAIN given
    BY <1>2, <2>2, NoneFits, Zenon
  <2> QED BY <2>1, <2>2
<1> HIDE DEF f, v, all
<1>4. f.type \notin {"sint", "fixed32"}
  BY <1>1
<1>5. /\ Len(all) \in Nat
      /\ v = NoneOf(f.type) => Len(all) = 0
      /\ f.type = "bytes" =>
            /\ Len(v) \in Nat
            /\ Len(v) < 128 => Len(all) <= Len(v) + 2
            /\ Len(v) < 16384 => Len(all) <= Len(v) + 3
      /\ f.type # "bytes" =>
            /\ v \in Nat /\ Len(all) <= 6
            /\ v < 128 => Len(all) <= 2
  BY <1>1, <1>3, <1>4, WrittenRoom DEF all
<1>6. CASE f.name \notin DOMAIN given
  <2>1. Cost(f, given) = 0
    BY <1>6, SMT DEF Cost
  <2>2. v = NoneOf(f.type)
    BY <1>2, <1>6
  <2>3. Len(all) = 0
    BY <1>5, <2>2
  <2> QED BY <2>1, <2>3, SMT DEF f, v, all
<1>7. CASE f.name \in DOMAIN given
  <2>1. v = given[f.name]
    BY <1>2, <1>7
  <2>2. CASE f.type = "bytes"
    <3>1. Cost(f, given) = IF Len(v) < 128 THEN Len(v) + 2 ELSE Len(v) + 3
      BY <1>7, <2>1, <2>2, Zenon DEF Cost
    <3>2. Len(v) < 16384
      BY <1>0, <1>7, <2>1, <2>2, SMT DEF Holds
    <3> DEFINE a == Len(all)
               b == Len(v)
               c == Cost(f, given)
    <3>3. c = IF b < 128 THEN b + 2 ELSE b + 3
      BY <3>1, Zenon
    <3>5. a \in Nat /\ b \in Nat /\ (b < 128 => a <= b + 2) /\ a <= b + 3
      BY <1>5, <2>2, <3>2
    <3> HIDE DEF a, b, c
    <3>4. a \in Nat /\ a <= c /\ c \in Nat
      BY <3>3, <3>5
    <3> QED BY <3>4, Zenon DEF a, c, f, v, all
  <2>3. CASE f.type # "bytes"
    <3>1. Cost(f, given) = IF v < 128 THEN 2 ELSE 6
      BY <1>7, <2>1, <2>3, Zenon DEF Cost
    <3> DEFINE a == Len(all)
               c == Cost(f, given)
    <3>2. /\ a \in Nat /\ v \in Nat /\ a <= 6 /\ (v < 128 => a <= 2)
          /\ c = IF v < 128 THEN 2 ELSE 6
      <4>1. a \in Nat /\ v \in Nat /\ a <= 6 /\ (v < 128 => a <= 2)
        BY <1>5, <2>3
      <4>2. c = IF v < 128 THEN 2 ELSE 6
        BY <3>1, Zenon
      <4> QED BY <4>1, <4>2
    <3> HIDE DEF a, c
    <3>3. a \in Nat /\ a <= c /\ c \in Nat
      BY <3>2
    <3> QED BY <3>3, Zenon DEF a, c, f, v, all
  <2> QED BY <2>2, <2>3
<1> QED BY <1>6, <1>7

\* The whole message has the room that was reckoned with.
LEMMA WholeRoom ==
    ASSUME NEW schema, NEW given, NEW room, NEW capacity, Packs(schema, given, room, capacity)
    PROVE  /\ IsSchema(schema) /\ IsMessage(schema, Message(schema, given))
           /\ Whole(schema, Message(schema, given)) \in Seq(Byte)
           /\ Len(Whole(schema, Message(schema, given))) <= room[Len(schema) + 1]
           /\ Len(Whole(schema, Message(schema, given))) <= capacity
<1> DEFINE n == Len(schema)
           m == Message(schema, given)
<1>1. IsSchema(schema) /\ Plain(schema) /\ n \in Nat
  BY ListedIsSchema DEF Packs, Plain, IsSchema
<1>2. IsMessage(schema, m)
  <2>1. \A i \in 1 .. Len(schema) : schema[i].name \in DOMAIN given =>
                                       Fits(schema[i].type, given[schema[i].name])
    <3>1. \A i \in 1 .. Len(schema) : Holds(schema[i], given)
      BY Zenon DEF Packs
    <3> QED BY <3>1, SMT DEF Holds
  <2> QED BY <1>1, <2>1, MessageFromFits
<1> HIDE DEF m
<1>3. Whole(schema, m) \in Seq(Byte) /\ \E upTo : Grows(schema, m, upTo)
  BY <1>1, <1>2, WholeGrows
<1>4. PICK upTo : Grows(schema, m, upTo)
  BY <1>3
<1>5. ASSUME NEW i \in 1 .. n
      PROVE  /\ Len(upTo[i]) <= Len(upTo[i - 1]) + Cost(schema[i], given)
             /\ Len(upTo[i]) \in Nat /\ Len(upTo[i - 1]) \in Nat /\ Cost(schema[i], given) \in Nat
             /\ room[i] + Cost(schema[i], given) <= room[i + 1]
  <2> DEFINE all == Written(schema[i], m[schema[i].name])
  <2>1. Holds(schema[i], given) /\ room[i] + Cost(schema[i], given) <= room[i + 1]
    BY Zenon DEF Packs
  <2>2. Len(all) \in Nat /\ Len(all) <= Cost(schema[i], given) /\ Cost(schema[i], given) \in Nat
    BY <1>1, <2>1, CostBounds DEF m
  <2>3. /\ Len(upTo[i]) = Len(upTo[i - 1]) + Len(all)
        /\ Len(upTo[i]) \in Nat /\ Len(upTo[i - 1]) \in Nat
    BY <1>4, Zenon DEF Grows
  <2> DEFINE a == Len(upTo[i - 1])
             b == Len(upTo[i])
             c == Cost(schema[i], given)
             x == Len(all)
  <2>4. a \in Nat /\ b \in Nat /\ c \in Nat /\ x \in Nat /\ x <= c /\ b = a + x
    BY <2>2, <2>3, Zenon
  <2> HIDE DEF a, b, c, x
  <2>5. b <= a + c
    BY <2>4
  <2> QED BY <2>1, <2>4, <2>5, Zenon DEF a, b, c
<1>6. room[1] = 0 /\ \A i \in 1 .. n + 1 : room[i] \in Nat
  BY Zenon DEF Packs
<1> DEFINE Bad == {i \in Nat : i <= n /\ ~ (Len(upTo[i]) <= room[i + 1])}
<1>7. Bad = {}
  <2> SUFFICES ASSUME Bad # {} PROVE FALSE
    BY Zenon
  <2>1. PICK i \in Bad : \A j \in Bad : i <= j
    <3>1. Bad \subseteq Nat
      BY Zenon
    <3> HIDE DEF Bad
    <3> QED BY <3>1, LeastNumber, Zenon
  <2>2. i \in Nat /\ i <= n /\ ~ (Len(upTo[i]) <= room[i + 1])
    BY <2>1
  <2>3. i # 0
    <3> SUFFICES ASSUME i = 0 PROVE FALSE
      OBVIOUS
    <3>1. upTo[0] = << >>
      BY <1>4, Zenon DEF Grows
    <3>2. Len(upTo[i]) = 0 /\ room[i + 1] = 0
      BY <1>6, <3>1
    <3> QED BY <2>2, <3>2
  <2>4. i \in 1 .. n /\ i - 1 \in Nat /\ i - 1 <= n /\ i \in 1 .. n + 1 /\ i + 1 \in 1 .. n + 1
        /\ (i - 1) + 1 = i /\ ~ (i <= i - 1)
    BY <1>1, <2>2, <2>3
  <2>5. Len(upTo[i - 1]) <= room[i]
    <3>1. i - 1 \notin Bad
      BY <2>1, <2>4, Zenon
    <3>2. Len(upTo[i - 1]) <= room[(i - 1) + 1]
      BY <2>4, <3>1, Zenon
    <3> QED BY <2>4, <3>2, Zenon
  <2> DEFINE a == Len(upTo[i - 1])
             b == Len(upTo[i])
             c == Cost(schema[i], given)
             x == room[i]
             y == room[i + 1]
  <2>6. /\ a \in Nat /\ b \in Nat /\ c \in Nat /\ x \in Nat /\ y \in Nat
        /\ b <= a + c /\ a <= x /\ x + c <= y /\ ~ (b <= y)
    BY <1>5, <1>6, <2>2, <2>4, <2>5, Zenon
  <2> HIDE DEF a, b, c, x, y, Bad
  <2> QED BY <2>6
<1>8. Len(upTo[n]) <= room[n + 1]
  <2>1. n \notin Bad /\ n <= n
    BY <1>1, <1>7
  <2> QED BY <1>1, <2>1, Zenon
<1>9. Whole(schema, m) = upTo[n]
  BY <1>4, Zenon DEF Grows
<1>10. Len(Whole(schema, m)) <= room[n + 1] /\ room[n + 1] <= capacity
  BY <1>8, <1>9, Zenon DEF Packs
<1>11. Len(Whole(schema, m)) <= capacity
  <2>1. Len(Whole(schema, m)) \in Nat
    BY <1>3
  <2>2. n + 1 \in 1 .. n + 1
    BY <1>1
  <2>3. room[n + 1] \in Nat /\ capacity \in Nat
    BY <1>6, <2>2, Zenon DEF Packs
  <2> DEFINE a == Len(Whole(schema, m))
             b == room[n + 1]
  <2>4. a \in Nat /\ b \in Nat /\ capacity \in Nat /\ a <= b /\ b <= capacity
    BY <1>10, <2>1, <2>3, Zenon
  <2> HIDE DEF a, b
  <2>5. a <= capacity
    BY <2>4
  <2> QED BY <2>5, Zenon DEF a
<1> QED BY <1>1, <1>2, <1>3, <1>10, <1>11, Zenon DEF m

\* The bytes of what is given.
Sent(schema, given, capacity) == Encode(schema, Message(schema, given), capacity)

\* A message that there is room for is read as it was given.
LEMMA GivenIsRead ==
    ASSUME NEW schema, NEW given, NEW room, NEW capacity, Packs(schema, given, room, capacity)
    PROVE  /\ Sent(schema, given, capacity) \in Seq(Byte)
           /\ Len(Sent(schema, given, capacity)) <= room[Len(schema) + 1]
           /\ Decodes(Sent(schema, given, capacity))
           /\ \A i \in 1 .. Len(schema) :
                 Decode(schema, Sent(schema, given, capacity))[schema[i].name] =
                     IF schema[i].name \in DOMAIN given THEN given[schema[i].name]
                     ELSE NoneOf(schema[i].type)
<1> DEFINE m == Message(schema, given)
           d == Sent(schema, given, capacity)
<1>1. /\ IsSchema(schema) /\ IsMessage(schema, m) /\ Whole(schema, m) \in Seq(Byte)
      /\ Len(Whole(schema, m)) <= room[Len(schema) + 1]
      /\ Len(Whole(schema, m)) <= capacity /\ capacity \in Nat /\ Plain(schema)
  BY WholeRoom DEF Packs
<1>2. d = Whole(schema, m)
  BY <1>1, EncodeWhole, Zenon DEF Sent
<1>3. IsReader(schema, schema)
  BY <1>1, Zenon DEF IsReader, IsSchema
<1>4. /\ Decodes(d)
      /\ \A i \in 1 .. Len(schema) :
            Decode(schema, d)[schema[i].name] = ReadAs(schema[i], schema[i], m[schema[i].name])
  <2> HIDE DEF m, d
  <2> QED BY <1>1, <1>2, <1>3, RoundTrip
<1>5. ASSUME NEW i \in 1 .. Len(schema)
      PROVE  ReadAs(schema[i], schema[i], m[schema[i].name]) =
                IF schema[i].name \in DOMAIN given THEN given[schema[i].name]
                ELSE NoneOf(schema[i].type)
  <2>1. ReadAs(schema[i], schema[i], m[schema[i].name]) = AsNamed(schema[i].type, m[schema[i].name])
    <3>1. schema[i].type \in Plainly
      BY <1>1 DEF Plain, Plainly
    <3> QED BY <3>1, PlainIsRead
  <2>2. schema[i].type \in {"bytes", "fixed32", "sint", "bool", "uint"}
    BY <1>1 DEF Plain
  <2>3. AsNamed(schema[i].type, m[schema[i].name]) = m[schema[i].name]
    BY <2>2, ValueOfType
  <2>4. m[schema[i].name] = IF schema[i].name \in DOMAIN given THEN given[schema[i].name]
                            ELSE NoneOf(schema[i].type)
    BY <1>1, MessageIs
  <2> QED BY <2>1, <2>3, <2>4, Zenon
<1> HIDE DEF m, d
<1> QED BY <1>1, <1>2, <1>4, <1>5, Zenon DEF d

\* Small numbers are words.
LEMMA SmallWords == \A k \in Nat : k <= 65535 => k \in Words
  BY SMT DEF Words

\* Bytes that are given, with room for them.
IsBytes(f, given, k) ==
    /\ f.type = "bytes" /\ f.name \in DOMAIN given /\ given[f.name] \in Seq(Byte)
    /\ Len(given[f.name]) <= k /\ k \in Nat /\ k < 128

\* Bytes take two more than there are.
LEMMA BytesPack ==
    ASSUME NEW f, NEW given, NEW k, IsBytes(f, given, k)
    PROVE  Holds(f, given) /\ Cost(f, given) \in Nat /\ Cost(f, given) <= k + 2
<1> DEFINE v == given[f.name]
<1>1. /\ v \in Seq(Byte) /\ Len(v) <= k /\ k \in Nat /\ k < 128 /\ f.type = "bytes"
      /\ f.name \in DOMAIN given
  BY Zenon DEF IsBytes
<1>2. Len(v) \in Nat /\ Len(v) < 128 /\ Len(v) <= 65535 /\ Len(v) < 16384
  <2> HIDE DEF v
  <2> QED BY <1>1
<1>3. Fits("bytes", v)
  <2>1. Len(v) \in Words
    BY <1>2, SmallWords
  <2> QED BY <1>1, <2>1, Zenon DEF Fits
<1>4. Cost(f, given) = Len(v) + 2
  BY <1>1, <1>2, SMT DEF Cost
<1>5. Holds(f, given)
  BY <1>1, <1>2, <1>3, SMT DEF Holds
<1>6. Cost(f, given) \in Nat /\ Cost(f, given) <= k + 2
  <2> HIDE DEF v
  <2> QED BY <1>1, <1>2, <1>4
<1> QED BY <1>5, <1>6

\* A word that is given.
LEMMA WordPacks ==
    ASSUME NEW f, NEW given, NEW v \in Words, f.type = "uint",
           f.name \in DOMAIN given, given[f.name] = v
    PROVE  /\ Holds(f, given) /\ Cost(f, given) \in Nat /\ Cost(f, given) <= 6
           /\ v < 128 => Cost(f, given) <= 2
<1>1. Fits("uint", v) /\ "uint" # "bytes"
  BY PlainTypes, Zenon DEF Fits, Plainly
<1>2. Holds(f, given)
  BY <1>1, SMT DEF Holds
<1>3. Cost(f, given) = IF v < 128 THEN 2 ELSE 6
  BY <1>1, Zenon DEF Cost
<1> QED BY <1>2, <1>3

\* A field that is not given.
LEMMA NonePacks ==
    ASSUME NEW f, NEW given, f.name \notin DOMAIN given
    PROVE  Holds(f, given) /\ Cost(f, given) \in Nat /\ Cost(f, given) <= 0
<1>1. Cost(f, given) = 0
  BY Zenon DEF Cost
<1> QED BY <1>1, SMT DEF Holds

\* The text of a node number is nine bytes (format_node_id).
LEMMA IdTextIs ==
    ASSUME NEW n \in Words
    PROVE  IdText(n) \in Seq(Byte) /\ Len(IdText(n)) = 9
<1>1. n \in Nat
  BY SMT DEF Words
<1>2. \A k \in Nat : Digit(k % 16) \in Byte
  BY SMT DEF Byte, Digit
<1>3. /\ n \div 268435456 \in Nat /\ n \div 16777216 \in Nat /\ n \div 1048576 \in Nat
      /\ n \div 65536 \in Nat /\ n \div 4096 \in Nat /\ n \div 256 \in Nat
      /\ n \div 16 \in Nat
  BY <1>1, SMT
<1>4. 33 \in Byte
  BY SMT DEF Byte
<1> QED BY <1>1, <1>2, <1>3, <1>4, SMT DEF IdText

\* A message that has every field of the schema, and nothing else.
LEMMA DecodeIs ==
    ASSUME NEW schema, NEW d, NEW given, Plain(schema),
           given = [x \in FieldNames(schema) |-> given[x]],
           \A i \in 1 .. Len(schema) : Decode(schema, d)[schema[i].name] = given[schema[i].name]
    PROVE  Decode(schema, d) = given
<1> DEFINE value == [x \in FieldNames(schema) |->
                        ValueRead(d, CHOOSE s \in ToSet(schema) : s.name = x, FieldsOf(d))]
<1>1. \A x \in FieldNames(schema) : \E i \in 1 .. Len(schema) : x = schema[i].name
  <2>1. DOMAIN schema = 1 .. Len(schema)
    BY Zenon DEF Plain, Listed
  <2>2. ASSUME NEW x \in FieldNames(schema) PROVE \E i \in 1 .. Len(schema) : x = schema[i].name
    <3>1. PICK s \in ToSet(schema) : x = s.name
      BY Zenon DEF FieldNames
    <3>2. PICK i \in DOMAIN schema : s = schema[i]
      BY Zenon DEF ToSet
    <3> QED BY <2>1, <3>1, <3>2, Zenon
  <2> QED BY <2>2
<1>2. \A x \in FieldNames(schema) : Decode(schema, d)[x] = given[x]
  BY <1>1, Zenon
<1>3. Decode(schema, d) = value
  BY Zenon DEF Decode
<1>4. value = [x \in FieldNames(schema) |-> value[x]]
  OBVIOUS
<1> HIDE DEF value
<1> QED BY <1>2, <1>3, <1>4, Zenon

\* What is put in the messages about a node.
UserGiven(n) ==
    [id |-> IdText(n), long_name |-> OwnerOf[n].long_name,
     short_name |-> OwnerOf[n].short_name, hw_model |-> 43, role |-> 4]
NodeGiven(n)   == [num |-> n, user |-> Sent(AppUserFields, UserGiven(n), UserRoom)]
MyInfoGiven(n) == [my_node_num |-> n, min_app |-> 30000, max_channels |-> 8, has_wifi |-> 1]

\* The user of a node fills the buffer at most.
LEMMA UserPacks ==
    ASSUME NEW n \in MeshNodes
    PROVE  Packs(AppUserFields, UserGiven(n), <<0, 11, 53, 60, 62, 64>>, UserRoom)
<1> DEFINE S == AppUserFields
           g == UserGiven(n)
           room == <<0, 11, 53, 60, 62, 64>>
<1>1. /\ n \in Words
      /\ OwnerOf[n].long_name \in Seq(Byte) /\ Len(OwnerOf[n].long_name) <= 40
      /\ OwnerOf[n].short_name \in Seq(Byte) /\ Len(OwnerOf[n].short_name) <= 5
  BY HandlerAssumption, ZenonT(60) DEF HandlerAssumption
<1>2. Plain(S)
  <2>1. Listed(S)
    BY SMT DEF Listed, Field, AppUserFields
  <2>2. \A i \in 1 .. Len(S) : S[i].type \in {"uint", "bytes"} /\ S[i].number <= 15
    BY SMT DEF Field, AppUserFields
  <2> QED BY <2>1, <2>2, Zenon DEF Plain
<1>3. /\ Len(S) = 5
      /\ S[1].name = "id" /\ S[1].type = "bytes"
      /\ S[2].name = "long_name" /\ S[2].type = "bytes"
      /\ S[3].name = "short_name" /\ S[3].type = "bytes"
      /\ S[4].name = "hw_model" /\ S[4].type = "uint"
      /\ S[5].name = "role" /\ S[5].type = "uint"
  BY SMT DEF Field, AppUserFields
<1>4. /\ "id" \in DOMAIN g /\ "long_name" \in DOMAIN g /\ "short_name" \in DOMAIN g
      /\ "hw_model" \in DOMAIN g /\ "role" \in DOMAIN g
      /\ g["id"] = IdText(n) /\ g["long_name"] = OwnerOf[n].long_name
      /\ g["short_name"] = OwnerOf[n].short_name /\ g["hw_model"] = 43 /\ g["role"] = 4
  BY SMT DEF UserGiven
<1>5. /\ room[1] = 0 /\ room[2] = 11 /\ room[3] = 53 /\ room[4] = 60 /\ room[5] = 62
      /\ room[6] = 64
  OBVIOUS
<1>6. 43 \in Words /\ 4 \in Words /\ UserRoom = 64
  BY SmallWords DEF UserRoom
<1>7. IdText(n) \in Seq(Byte) /\ Len(IdText(n)) <= 9
  <2>1. IdText(n) \in Seq(Byte) /\ Len(IdText(n)) = 9
    BY <1>1, IdTextIs
  <2> QED BY <2>1
<1> HIDE DEF S, g, room
<1>8. /\ Holds(S[1], g) /\ Cost(S[1], g) \in Nat /\ Cost(S[1], g) <= 11
      /\ Holds(S[2], g) /\ Cost(S[2], g) \in Nat /\ Cost(S[2], g) <= 42
      /\ Holds(S[3], g) /\ Cost(S[3], g) \in Nat /\ Cost(S[3], g) <= 7
  <2>1. Holds(S[1], g) /\ Cost(S[1], g) \in Nat /\ Cost(S[1], g) <= 9 + 2
    <3>1. IsBytes(S[1], g, 9)
      BY <1>3, <1>4, <1>7, SMT DEF IsBytes
    <3> QED BY <3>1, BytesPack
  <2>2. Holds(S[2], g) /\ Cost(S[2], g) \in Nat /\ Cost(S[2], g) <= 40 + 2
    <3>1. IsBytes(S[2], g, 40)
      BY <1>1, <1>3, <1>4, SMT DEF IsBytes
    <3> QED BY <3>1, BytesPack
  <2>3. Holds(S[3], g) /\ Cost(S[3], g) \in Nat /\ Cost(S[3], g) <= 5 + 2
    <3>1. IsBytes(S[3], g, 5)
      BY <1>1, <1>3, <1>4, SMT DEF IsBytes
    <3> QED BY <3>1, BytesPack
  <2> QED BY <2>1, <2>2, <2>3
<1>9. /\ Holds(S[4], g) /\ Cost(S[4], g) \in Nat /\ Cost(S[4], g) <= 2
      /\ Holds(S[5], g) /\ Cost(S[5], g) \in Nat /\ Cost(S[5], g) <= 2
  BY <1>3, <1>4, <1>6, WordPacks
<1>10. /\ \A i \in 1 .. 5 : Holds(S[i], g) /\ room[i] + Cost(S[i], g) <= room[i + 1]
       /\ \A i \in 1 .. 6 : room[i] \in Nat
  <2>1. \A i \in 1 .. 5 : i = 1 \/ i = 2 \/ i = 3 \/ i = 4 \/ i = 5
    OBVIOUS
  <2>2. \A i \in 1 .. 6 : i = 1 \/ i = 2 \/ i = 3 \/ i = 4 \/ i = 5 \/ i = 6
    OBVIOUS
  <2>3. /\ room[1] + Cost(S[1], g) <= room[1 + 1] /\ room[2] + Cost(S[2], g) <= room[2 + 1]
        /\ room[3] + Cost(S[3], g) <= room[3 + 1] /\ room[4] + Cost(S[4], g) <= room[4 + 1]
        /\ room[5] + Cost(S[5], g) <= room[5 + 1]
    BY <1>5, <1>8, <1>9
  <2>4. /\ room[1] \in Nat /\ room[2] \in Nat /\ room[3] \in Nat /\ room[4] \in Nat
        /\ room[5] \in Nat /\ room[6] \in Nat
    BY <1>5
  <2> QED BY <1>8, <1>9, <2>1, <2>2, <2>3, <2>4, Zenon
<1>11. 5 + 1 = 6 /\ 64 \in Nat /\ 64 <= 64
  OBVIOUS
<1>12. Packs(S, g, room, UserRoom)
  BY <1>2, <1>3, <1>5, <1>6, <1>10, <1>11, SMT DEF Packs
<1> QED BY <1>12, Zenon DEF S, g, room

\* A node with its user.
LEMMA NodePacks ==
    ASSUME NEW n \in MeshNodes
    PROVE  Packs(AppNodeFields, NodeGiven(n), <<0, 6, 72>>, NodeInfoRoom)
<1> DEFINE S == AppNodeFields
           g == NodeGiven(n)
           room == <<0, 6, 72>>
           u == Sent(AppUserFields, UserGiven(n), UserRoom)
<1>1. n \in Words
  BY HandlerAssumption, Zenon DEF HandlerAssumption
<1>2. Plain(S)
  <2>1. Listed(S)
    BY SMT DEF Listed, Field, AppNodeFields
  <2>2. \A i \in 1 .. Len(S) : S[i].type \in {"uint", "bytes"} /\ S[i].number <= 15
    BY SMT DEF Field, AppNodeFields
  <2> QED BY <2>1, <2>2, Zenon DEF Plain
<1>3. /\ Len(S) = 2
      /\ S[1].name = "num" /\ S[1].type = "uint" /\ S[2].name = "user" /\ S[2].type = "bytes"
  BY SMT DEF Field, AppNodeFields
<1>4. /\ "num" \in DOMAIN g /\ "user" \in DOMAIN g /\ g["num"] = n /\ g["user"] = u
  BY SMT DEF NodeGiven
<1>5. room[1] = 0 /\ room[2] = 6 /\ room[3] = 72 /\ NodeInfoRoom = 128
  BY DEF NodeInfoRoom
<1>6. u \in Seq(Byte) /\ Len(u) <= 64
  <2> DEFINE r == <<0, 11, 53, 60, 62, 64>>
  <2>1. r[6] = 64 /\ Len(AppUserFields) + 1 = 6
    BY SMT DEF AppUserFields
  <2>2. u \in Seq(Byte) /\ Len(u) <= r[Len(AppUserFields) + 1]
    BY UserPacks, GivenIsRead
  <2> HIDE DEF u, r
  <2> QED BY <2>1, <2>2, Zenon
<1> HIDE DEF S, g, room, u
<1>7. /\ Holds(S[1], g) /\ Cost(S[1], g) \in Nat /\ Cost(S[1], g) <= 6
  BY <1>1, <1>3, <1>4, WordPacks
<1>8. Holds(S[2], g) /\ Cost(S[2], g) \in Nat /\ Cost(S[2], g) <= 64 + 2
  <2>1. IsBytes(S[2], g, 64)
    BY <1>3, <1>4, <1>6, SMT DEF IsBytes
  <2> QED BY <2>1, BytesPack
<1>9. /\ \A i \in 1 .. 2 : Holds(S[i], g) /\ room[i] + Cost(S[i], g) <= room[i + 1]
      /\ \A i \in 1 .. 3 : room[i] \in Nat
  <2>1. (\A i \in 1 .. 2 : i = 1 \/ i = 2) /\ (\A i \in 1 .. 3 : i = 1 \/ i = 2 \/ i = 3)
    OBVIOUS
  <2>2. room[1] + Cost(S[1], g) <= room[1 + 1] /\ room[2] + Cost(S[2], g) <= room[2 + 1]
    BY <1>5, <1>7, <1>8
  <2>3. room[1] \in Nat /\ room[2] \in Nat /\ room[3] \in Nat
    BY <1>5
  <2> QED BY <1>7, <1>8, <2>1, <2>2, <2>3, Zenon
<1>10. 2 + 1 = 3 /\ 128 \in Nat /\ 72 <= 128
  OBVIOUS
<1>11. Packs(S, g, room, NodeInfoRoom)
  BY <1>2, <1>3, <1>5, <1>9, <1>10, SMT DEF Packs
<1> QED BY <1>11, Zenon DEF S, g, room

\* The number of the node and what its firmware can do.
LEMMA MyInfoPacks ==
    ASSUME NEW n \in MeshNodes
    PROVE  Packs(AppMyInfoFields, MyInfoGiven(n), <<0, 6, 12, 14, 16>>, 64)
<1> DEFINE S == AppMyInfoFields
           g == MyInfoGiven(n)
           room == <<0, 6, 12, 14, 16>>
<1>1. n \in Words
  BY HandlerAssumption, Zenon DEF HandlerAssumption
<1>2. Plain(S)
  <2>1. Listed(S)
    BY SMT DEF Listed, Field, AppMyInfoFields
  <2>2. \A i \in 1 .. Len(S) : S[i].type \in {"uint", "bytes"} /\ S[i].number <= 15
    BY SMT DEF Field, AppMyInfoFields
  <2> QED BY <2>1, <2>2, Zenon DEF Plain
<1>3. /\ Len(S) = 4
      /\ S[1].name = "my_node_num" /\ S[1].type = "uint" /\ S[2].name = "min_app" /\ S[2].type = "uint"
      /\ S[3].name = "max_channels" /\ S[3].type = "uint" /\ S[4].name = "has_wifi" /\ S[4].type = "uint"
  BY SMT DEF Field, AppMyInfoFields
<1>4. /\ "my_node_num" \in DOMAIN g /\ "min_app" \in DOMAIN g /\ "max_channels" \in DOMAIN g
      /\ "has_wifi" \in DOMAIN g
      /\ g["my_node_num"] = n /\ g["min_app"] = 30000 /\ g["max_channels"] = 8 /\ g["has_wifi"] = 1
  BY SMT DEF MyInfoGiven
<1>5. room[1] = 0 /\ room[2] = 6 /\ room[3] = 12 /\ room[4] = 14 /\ room[5] = 16
  OBVIOUS
<1>6. 30000 \in Words /\ 8 \in Words /\ 1 \in Words /\ 8 < 128 /\ 1 < 128
  BY SmallWords, SMT
<1> HIDE DEF S, g, room
<1>7. /\ Holds(S[1], g) /\ Cost(S[1], g) \in Nat /\ Cost(S[1], g) <= 6
  BY <1>1, <1>3, <1>4, WordPacks
<1>8. /\ Holds(S[2], g) /\ Cost(S[2], g) \in Nat /\ Cost(S[2], g) <= 6
  BY <1>3, <1>4, <1>6, WordPacks, SMT
<1>9. /\ Holds(S[3], g) /\ Cost(S[3], g) \in Nat /\ Cost(S[3], g) <= 2
      /\ Holds(S[4], g) /\ Cost(S[4], g) \in Nat /\ Cost(S[4], g) <= 2
  BY <1>3, <1>4, <1>6, WordPacks
<1>10. /\ \A i \in 1 .. 4 : Holds(S[i], g) /\ room[i] + Cost(S[i], g) <= room[i + 1]
       /\ \A i \in 1 .. 5 : room[i] \in Nat
  <2>1. /\ \A i \in 1 .. 4 : i = 1 \/ i = 2 \/ i = 3 \/ i = 4
        /\ \A i \in 1 .. 5 : i = 1 \/ i = 2 \/ i = 3 \/ i = 4 \/ i = 5
    OBVIOUS
  <2>2. /\ room[1] + Cost(S[1], g) <= room[1 + 1] /\ room[2] + Cost(S[2], g) <= room[2 + 1]
        /\ room[3] + Cost(S[3], g) <= room[3 + 1] /\ room[4] + Cost(S[4], g) <= room[4 + 1]
    BY <1>5, <1>7, <1>8, <1>9
  <2>3. room[1] \in Nat /\ room[2] \in Nat /\ room[3] \in Nat /\ room[4] \in Nat /\ room[5] \in Nat
    BY <1>5
  <2> QED BY <1>7, <1>8, <1>9, <2>1, <2>2, <2>3, Zenon
<1>11. 4 + 1 = 5 /\ 64 \in Nat /\ 16 <= 64
  OBVIOUS
<1>12. Packs(S, g, room, 64)
  BY <1>2, <1>3, <1>5, <1>10, <1>11, SMT DEF Packs
<1> QED BY <1>12, Zenon DEF S, g, room

\* The four kinds of message to an app.
FromNodeRoom == <<0, 102, 204, 306, 312>>

\* There is room for any one of them.
LEMMA FromNodePacks ==
    ASSUME NEW given, \A i \in 1 .. 4 : /\ Holds(FromNodeFields[i], given)
                                        /\ Cost(FromNodeFields[i], given) \in Nat
                                        /\ Cost(FromNodeFields[i], given) <= IF i = 4 THEN 6 ELSE 102
    PROVE  Packs(FromNodeFields, given, FromNodeRoom, 512)
<1> DEFINE S == FromNodeFields
           room == FromNodeRoom
<1>1. Plain(S) /\ Len(S) = 4
  <2>1. Listed(S)
    BY SMT DEF Listed, Field, FromNodeFields
  <2>2. \A i \in 1 .. Len(S) : S[i].type \in {"uint", "bytes"} /\ S[i].number <= 15
    BY SMT DEF Field, FromNodeFields
  <2>3. Len(S) = 4
    BY SMT DEF FromNodeFields
  <2> QED BY <2>1, <2>2, <2>3, Zenon DEF Plain
<1>2. room[1] = 0 /\ room[2] = 102 /\ room[3] = 204 /\ room[4] = 306 /\ room[5] = 312
  BY DEF FromNodeRoom
<1> HIDE DEF S, room
<1>3. /\ Cost(S[1], given) \in Nat /\ Cost(S[1], given) <= 102
      /\ Cost(S[2], given) \in Nat /\ Cost(S[2], given) <= 102
      /\ Cost(S[3], given) \in Nat /\ Cost(S[3], given) <= 102
      /\ Cost(S[4], given) \in Nat /\ Cost(S[4], given) <= 6
  BY DEF S
<1>4. /\ \A i \in 1 .. 4 : Holds(S[i], given) /\ room[i] + Cost(S[i], given) <= room[i + 1]
      /\ \A i \in 1 .. 5 : room[i] \in Nat
  <2>1. /\ \A i \in 1 .. 4 : i = 1 \/ i = 2 \/ i = 3 \/ i = 4
        /\ \A i \in 1 .. 5 : i = 1 \/ i = 2 \/ i = 3 \/ i = 4 \/ i = 5
    OBVIOUS
  <2>2. /\ room[1] + Cost(S[1], given) <= room[1 + 1] /\ room[2] + Cost(S[2], given) <= room[2 + 1]
        /\ room[3] + Cost(S[3], given) <= room[3 + 1] /\ room[4] + Cost(S[4], given) <= room[4 + 1]
    BY <1>2, <1>3
  <2>3. room[1] \in Nat /\ room[2] \in Nat /\ room[3] \in Nat /\ room[4] \in Nat /\ room[5] \in Nat
    BY <1>2
  <2>4. \A i \in 1 .. 4 : Holds(S[i], given)
    BY Zenon DEF S
  <2> QED BY <2>1, <2>2, <2>3, <2>4, Zenon
<1>5. 4 + 1 = 5 /\ 512 \in Nat /\ 312 <= 512
  OBVIOUS
<1>6. Packs(S, given, room, 512)
  BY <1>1, <1>2, <1>4, <1>5, SMT DEF Packs
<1> QED BY <1>6, Zenon DEF S, room

\* One value is given: it is read, and the message is not broken.
LEMMA FromNodeIsRead ==
    ASSUME NEW k \in 1 .. 4, NEW v, NEW given, given = [x \in {FromNodeFields[k].name} |-> v],
           IF k = 4 THEN v \in Words ELSE v \in Seq(Byte) /\ Len(v) <= 100
    PROVE  /\ Decodes(FromNode(given))
           /\ Decode(FromNodeFields, FromNode(given))[FromNodeFields[k].name] = v
<1> DEFINE S == FromNodeFields
<1>1. /\ Len(S) = 4
      /\ S[1].type = "bytes" /\ S[2].type = "bytes" /\ S[3].type = "bytes" /\ S[4].type = "uint"
      /\ \A i \in 1 .. 4 : S[i].name = S[k].name => i = k
  BY SMT DEF Field, FromNodeFields
<1>2. DOMAIN given = {S[k].name} /\ given[S[k].name] = v
  BY Zenon
<1>3. ASSUME NEW i \in 1 .. 4
      PROVE  Holds(S[i], given) /\ Cost(S[i], given) \in Nat
             /\ Cost(S[i], given) <= IF i = 4 THEN 6 ELSE 102
  <2>1. CASE i # k
    <3>1. S[i].name \notin DOMAIN given
      BY <1>1, <1>2, <2>1, Zenon
    <3> HIDE DEF S
    <3>2. Holds(S[i], given) /\ Cost(S[i], given) \in Nat /\ Cost(S[i], given) <= 0
      BY <3>1, NonePacks
    <3> QED BY <3>2
  <2>2. CASE i = k /\ i = 4
    <3> HIDE DEF S
    <3>1. S[i].type = "uint" /\ S[i].name \in DOMAIN given /\ given[S[i].name] = v /\ v \in Words
      BY <1>1, <1>2, <2>2, Zenon
    <3> QED BY <2>2, <3>1, WordPacks
  <2>3. CASE i = k /\ i # 4
    <3> HIDE DEF S
    <3>1. /\ S[i].name \in DOMAIN given /\ given[S[i].name] = v
          /\ v \in Seq(Byte) /\ Len(v) <= 100
      BY <1>2, <2>3, Zenon
    <3>2. i = 1 \/ i = 2 \/ i = 3
      BY <2>3
    <3>3. S[i].type = "bytes"
      BY <1>1, <3>2, Zenon
    <3>4. Holds(S[i], given) /\ Cost(S[i], given) \in Nat /\ Cost(S[i], given) <= 100 + 2
      <4>1. IsBytes(S[i], given, 100)
        BY <3>1, <3>3, SMT DEF IsBytes
      <4> QED BY <4>1, BytesPack
    <3> QED BY <2>3, <3>4
  <2> QED BY <2>1, <2>2, <2>3
<1>4. Packs(S, given, FromNodeRoom, 512)
  <2>1. \A i \in 1 .. 4 : Holds(S[i], given) /\ Cost(S[i], given) \in Nat
                          /\ Cost(S[i], given) <= IF i = 4 THEN 6 ELSE 102
    BY <1>3
  <2> QED BY <2>1, FromNodePacks
<1>5. FromNode(given) = Sent(S, given, 512)
  BY Zenon DEF FromNode, Sent
<1> HIDE DEF S
<1>6. /\ Decodes(Sent(S, given, 512))
      /\ \A i \in 1 .. Len(S) :
            Decode(S, Sent(S, given, 512))[S[i].name] =
                IF S[i].name \in DOMAIN given THEN given[S[i].name] ELSE NoneOf(S[i].type)
  BY <1>4, GivenIsRead
<1>7. k \in 1 .. Len(S) /\ S[k].name \in DOMAIN given
  BY <1>1, <1>2
<1> DEFINE b == Sent(S, given, 512)
<1>8. Decodes(b) /\ FromNode(given) = b
  BY <1>5, <1>6, Zenon
<1>9. Decode(S, b)[S[k].name] = IF S[k].name \in DOMAIN given THEN given[S[k].name] ELSE NoneOf(S[k].type)
  BY <1>6, <1>7, ZenonT(60)
<1> HIDE DEF b
<1>10. Decode(S, b)[S[k].name] = v
  BY <1>2, <1>7, <1>9, Zenon
<1> QED BY <1>8, <1>10, Zenon DEF S

\* The number of the node is read in its message (encode_privacy_myinfo).
LEMMA MyInfoIsRead ==
    ASSUME NEW n \in MeshNodes
    PROVE  /\ Decodes(MyInfo(n))
           /\ Decode(AppMyInfoFields, Decode(FromNodeFields, MyInfo(n)).my_info).my_node_num = n
<1> DEFINE b == Sent(AppMyInfoFields, MyInfoGiven(n), 64)
           r == <<0, 6, 12, 14, 16>>
           g == MyInfoGiven(n)
<1>1. MyInfo(n) = FromNode([my_info |-> b])
  BY SMT DEF MyInfo, MyInfoGiven, Sent
<1>2. /\ b \in Seq(Byte) /\ Len(b) <= r[Len(AppMyInfoFields) + 1]
      /\ \A i \in 1 .. Len(AppMyInfoFields) :
            Decode(AppMyInfoFields, b)[AppMyInfoFields[i].name] =
                IF AppMyInfoFields[i].name \in DOMAIN g THEN g[AppMyInfoFields[i].name]
                ELSE NoneOf(AppMyInfoFields[i].type)
  <2>1. Packs(AppMyInfoFields, g, r, 64)
    BY MyInfoPacks
  <2>2. b = Sent(AppMyInfoFields, g, 64)
    OBVIOUS
  <2> HIDE DEF g, r, b
  <2> QED BY <2>1, <2>2, GivenIsRead
<1>3. /\ Len(AppMyInfoFields) = 4 /\ AppMyInfoFields[1].name = "my_node_num" /\ r[5] = 16
      /\ FromNodeFields[1].name = "my_info"
  BY SMT DEF AppMyInfoFields, FromNodeFields, Field
<1>4. "my_node_num" \in DOMAIN g /\ g["my_node_num"] = n
  BY SMT DEF MyInfoGiven
<1> HIDE DEF b, r, g
<1>5. Decode(AppMyInfoFields, b)["my_node_num"] = n
  <2>1. 1 \in 1 .. Len(AppMyInfoFields)
    BY <1>3
  <2> QED BY <1>2, <1>3, <1>4, <2>1, Zenon
<1>6. b \in Seq(Byte) /\ Len(b) <= 100
  <2>1. Len(b) <= 16
    BY <1>2, <1>3
  <2> QED BY <1>2, <2>1
<1>7. [my_info |-> b] = [x \in {FromNodeFields[1].name} |-> b]
  BY <1>3, SMT
<1>8. /\ Decodes(FromNode([my_info |-> b]))
      /\ Decode(FromNodeFields, FromNode([my_info |-> b]))["my_info"] = b
  <2>1. 1 \in 1 .. 4 /\ 1 # 4
    OBVIOUS
  <2> DEFINE given == [my_info |-> b]
  <2>2. given = [x \in {FromNodeFields[1].name} |-> b]
    BY <1>7
  <2> HIDE DEF given
  <2>3. Decodes(FromNode(given)) /\ Decode(FromNodeFields, FromNode(given))[FromNodeFields[1].name] = b
    BY <1>6, <2>1, <2>2, FromNodeIsRead
  <2> QED BY <1>3, <2>3, Zenon DEF given
<1> QED BY <1>1, <1>5, <1>8, Zenon

\* The user that an app is told of, in the node's message.
LEMMA NodeInfoIsRead ==
    ASSUME NEW n \in MeshNodes
    PROVE  /\ Decodes(NodeInfo(n))
           /\ Decode(AppNodeFields, Decode(FromNodeFields, NodeInfo(n)).node_info).num = n
           /\ Decode(AppUserFields,
                     Decode(AppNodeFields, Decode(FromNodeFields, NodeInfo(n)).node_info).user) =
                  UserGiven(n)
<1> DEFINE b == Sent(AppNodeFields, NodeGiven(n), NodeInfoRoom)
           u == Sent(AppUserFields, UserGiven(n), UserRoom)
           r == <<0, 6, 72>>
           g == NodeGiven(n)
           h == UserGiven(n)
<1>1. NodeInfo(n) = FromNode([node_info |-> b])
  BY Zenon DEF NodeInfo, NodeGiven, UserGiven, Sent
<1>2. /\ b \in Seq(Byte) /\ Len(b) <= r[Len(AppNodeFields) + 1]
      /\ \A i \in 1 .. Len(AppNodeFields) :
            Decode(AppNodeFields, b)[AppNodeFields[i].name] =
                IF AppNodeFields[i].name \in DOMAIN g THEN g[AppNodeFields[i].name]
                ELSE NoneOf(AppNodeFields[i].type)
  <2>1. Packs(AppNodeFields, g, r, NodeInfoRoom)
    BY NodePacks
  <2>2. b = Sent(AppNodeFields, g, NodeInfoRoom)
    OBVIOUS
  <2> HIDE DEF g, r, b
  <2> QED BY <2>1, <2>2, GivenIsRead
<1>3. \A i \in 1 .. Len(AppUserFields) :
          Decode(AppUserFields, u)[AppUserFields[i].name] =
              IF AppUserFields[i].name \in DOMAIN h THEN h[AppUserFields[i].name]
              ELSE NoneOf(AppUserFields[i].type)
  <2> DEFINE room == <<0, 11, 53, 60, 62, 64>>
  <2>1. Packs(AppUserFields, h, room, UserRoom)
    BY UserPacks
  <2>2. u = Sent(AppUserFields, h, UserRoom)
    OBVIOUS
  <2> HIDE DEF h, room, u
  <2> QED BY <2>1, <2>2, GivenIsRead
<1>4. /\ Len(AppNodeFields) = 2 /\ AppNodeFields[1].name = "num" /\ AppNodeFields[2].name = "user"
      /\ r[3] = 72 /\ FromNodeFields[2].name = "node_info"
  BY SMT DEF AppNodeFields, FromNodeFields, Field
<1>5. "num" \in DOMAIN g /\ g["num"] = n /\ "user" \in DOMAIN g /\ g["user"] = u
  BY SMT DEF NodeGiven
<1>6. h = [x \in FieldNames(AppUserFields) |-> h[x]]
  <2>1. FieldNames(AppUserFields) = {"id", "long_name", "short_name", "hw_model", "role"}
    BY SMT DEF FieldNames, ToSet, AppUserFields, Field
  <2>2. h = [x \in {"id", "long_name", "short_name", "hw_model", "role"} |-> h[x]]
    BY SMT DEF UserGiven
  <2> QED BY <2>1, <2>2, Zenon
<1>7. /\ Plain(AppUserFields)
      /\ \A i \in 1 .. Len(AppUserFields) : AppUserFields[i].name \in DOMAIN h
  <2>1. Plain(AppUserFields)
    BY UserPacks DEF Packs
  <2>2. DOMAIN h = FieldNames(AppUserFields)
    BY <1>6
  <2>3. \A i \in 1 .. Len(AppUserFields) : AppUserFields[i].name \in FieldNames(AppUserFields)
    BY <2>1, Zenon DEF Plain, Listed, FieldNames, ToSet
  <2> QED BY <2>1, <2>2, <2>3, Zenon
<1> HIDE DEF b, r, g, u, h
<1>8. Decode(AppNodeFields, b)["num"] = n /\ Decode(AppNodeFields, b)["user"] = u
  <2>1. 1 \in 1 .. Len(AppNodeFields) /\ 2 \in 1 .. Len(AppNodeFields)
    BY <1>4
  <2> QED BY <1>2, <1>4, <1>5, <2>1, Zenon
<1>9. Decode(AppUserFields, u) = h
  <2>1. \A i \in 1 .. Len(AppUserFields) :
            Decode(AppUserFields, u)[AppUserFields[i].name] = h[AppUserFields[i].name]
    BY <1>3, <1>7, Zenon
  <2> QED BY <1>6, <1>7, <2>1, DecodeIs
<1>10. b \in Seq(Byte) /\ Len(b) <= 100
  <2>1. Len(b) <= 72
    BY <1>2, <1>4
  <2> QED BY <1>2, <2>1
<1>11. [node_info |-> b] = [x \in {FromNodeFields[2].name} |-> b]
  BY <1>4, SMT
<1>12. /\ Decodes(FromNode([node_info |-> b]))
       /\ Decode(FromNodeFields, FromNode([node_info |-> b]))["node_info"] = b
  <2>1. 2 \in 1 .. 4 /\ 2 # 4
    OBVIOUS
  <2> DEFINE given == [node_info |-> b]
  <2>2. given = [x \in {FromNodeFields[2].name} |-> b]
    BY <1>11
  <2> HIDE DEF given
  <2>3. Decodes(FromNode(given)) /\ Decode(FromNodeFields, FromNode(given))[FromNodeFields[2].name] = b
    BY <1>10, <2>1, <2>2, FromNodeIsRead
  <2> QED BY <1>4, <2>3, Zenon DEF given
<1> QED BY <1>1, <1>8, <1>9, <1>12, Zenon DEF h

\* The primary channel's message is not broken (encode_channel_config).
LEMMA ChannelIsRead == Decodes(ChannelConfig)
<1> DEFINE S == AppChannelFields
           name == <<80, 114, 105, 109, 97, 114, 121>>
           s == Encode(SettingsFields, [name |-> name], 48)
           g == [settings |-> s, role |-> 1]
           b == Sent(S, g, 64)
           room == <<0, 0, 50, 52>>
<1>1. ChannelConfig = FromNode([channel |-> b])
  BY Zenon DEF ChannelConfig, Sent
<1>2. s \in Seq(Byte) /\ Len(s) <= 48
  <2> DEFINE m == [name |-> name]
  <2>1. IsSchema(SettingsFields)
    <3>1. Listed(SettingsFields)
      BY SMT DEF Listed, Field, SettingsFields
    <3> QED BY <3>1, ListedIsSchema
  <2>2. IsMessage(SettingsFields, m)
    <3>1. Len(SettingsFields) = 1 /\ SettingsFields[1].name = "name" /\ SettingsFields[1].type = "bytes"
      BY SMT DEF Field, SettingsFields
    <3>2. m["name"] = name
      BY SMT
    <3>3. name \in Seq(Byte) /\ Len(name) = 7
      <4>1. 80 \in Byte /\ 114 \in Byte /\ 105 \in Byte /\ 109 \in Byte /\ 97 \in Byte /\ 121 \in Byte
        BY SMT DEF Byte
      <4> QED BY <4>1, SMT
    <3> HIDE DEF m, name
    <3>4. Fits("bytes", name)
      <4>1. Len(name) \in Words
        BY <3>3, SmallWords
      <4> QED BY <3>3, <4>1, Zenon DEF Fits
    <3>5. \A i \in 1 .. Len(SettingsFields) : i = 1
      BY <3>1
    <3> QED BY <3>1, <3>2, <3>4, <3>5, Zenon DEF IsMessage
  <2>3. 48 \in Nat
    OBVIOUS
  <2> HIDE DEF m
  <2>4. Encode(SettingsFields, m, 48) \in Seq(Byte) /\ Len(Encode(SettingsFields, m, 48)) <= 48
    BY <2>1, <2>2, <2>3, EncodeFits
  <2> QED BY <2>4 DEF m
<1>3. /\ Len(S) = 3
      /\ S[1].name = "index" /\ S[2].name = "settings" /\ S[2].type = "bytes"
      /\ S[3].name = "role" /\ S[3].type = "uint" /\ FromNodeFields[3].name = "channel"
  BY SMT DEF AppChannelFields, FromNodeFields, Field
<1>4. Plain(S)
  <2>1. Listed(S)
    BY SMT DEF Listed, Field, AppChannelFields
  <2>2. \A i \in 1 .. Len(S) : S[i].type \in {"uint", "bytes"} /\ S[i].number <= 15
    BY SMT DEF Field, AppChannelFields
  <2> QED BY <2>1, <2>2, Zenon DEF Plain
<1>5. room[1] = 0 /\ room[2] = 0 /\ room[3] = 50 /\ room[4] = 52
  OBVIOUS
<1> HIDE DEF s
<1>6. /\ "index" \notin DOMAIN g /\ "settings" \in DOMAIN g /\ "role" \in DOMAIN g
      /\ g["settings"] = s /\ g["role"] = 1
  BY SMT
<1> HIDE DEF S, g, room
<1>7. Holds(S[1], g) /\ Cost(S[1], g) \in Nat /\ Cost(S[1], g) <= 0
  BY <1>3, <1>6, NonePacks
<1>8. Holds(S[2], g) /\ Cost(S[2], g) \in Nat /\ Cost(S[2], g) <= 48 + 2
  <2>1. IsBytes(S[2], g, 48)
    BY <1>2, <1>3, <1>6, SMT DEF IsBytes
  <2> QED BY <2>1, BytesPack
<1>9. Holds(S[3], g) /\ Cost(S[3], g) \in Nat /\ Cost(S[3], g) <= 2
  <2>1. 1 \in Words
    BY SmallWords
  <2> QED BY <1>3, <1>6, <2>1, WordPacks
<1>10. /\ \A i \in 1 .. 3 : Holds(S[i], g) /\ room[i] + Cost(S[i], g) <= room[i + 1]
       /\ \A i \in 1 .. 4 : room[i] \in Nat
  <2>1. /\ \A i \in 1 .. 3 : i = 1 \/ i = 2 \/ i = 3
        /\ \A i \in 1 .. 4 : i = 1 \/ i = 2 \/ i = 3 \/ i = 4
    OBVIOUS
  <2>2. /\ room[1] + Cost(S[1], g) <= room[1 + 1] /\ room[2] + Cost(S[2], g) <= room[2 + 1]
        /\ room[3] + Cost(S[3], g) <= room[3 + 1]
    BY <1>5, <1>7, <1>8, <1>9
  <2>3. room[1] \in Nat /\ room[2] \in Nat /\ room[3] \in Nat /\ room[4] \in Nat
    BY <1>5
  <2> QED BY <1>7, <1>8, <1>9, <2>1, <2>2, <2>3, Zenon
<1>11. 3 + 1 = 4 /\ 64 \in Nat /\ 52 <= 64
  OBVIOUS
<1>12. Packs(S, g, room, 64)
  BY <1>3, <1>4, <1>5, <1>10, <1>11, SMT DEF Packs
<1>13. b \in Seq(Byte) /\ Len(b) <= 100
  <2>1. b \in Seq(Byte) /\ Len(b) <= room[Len(S) + 1]
    BY <1>12, GivenIsRead
  <2> HIDE DEF b
  <2>2. Len(b) <= 52
    BY <1>3, <1>5, <2>1
  <2> QED BY <2>1, <2>2
<1>14. [channel |-> b] = [x \in {FromNodeFields[3].name} |-> b]
  <2> HIDE DEF b
  <2> QED BY <1>3, SMT
<1>15. Decodes(FromNode([channel |-> b]))
  <2>1. 3 \in 1 .. 4 /\ 3 # 4
    OBVIOUS
  <2> DEFINE given == [channel |-> b]
  <2>2. given = [x \in {FromNodeFields[3].name} |-> b]
    BY <1>14
  <2> HIDE DEF given, b
  <2>3. Decodes(FromNode(given))
    BY <1>13, <2>1, <2>2, FromNodeIsRead
  <2> QED BY <2>3, Zenon DEF given
<1> HIDE DEF b
<1> QED BY <1>1, <1>15, Zenon DEF S, g, b, s

\* The four messages of a configuration (build_config_response).
ConfigOf(n) == <<MyInfo(n), NodeInfo(n), ChannelConfig, FromNode([complete |-> 7])>>

\* The end of the configuration tells the request it answers.
LEMMA CompleteIsRead ==
    /\ Decodes(FromNode([complete |-> 7]))
    /\ Decode(FromNodeFields, FromNode([complete |-> 7])).complete = 7
<1> DEFINE given == [complete |-> 7]
<1>1. FromNodeFields[4].name = "complete" /\ 7 \in Words /\ 4 \in 1 .. 4
  <2>1. FromNodeFields[4].name = "complete"
    BY SMT DEF FromNodeFields, Field
  <2>2. 7 \in Words
    BY SmallWords
  <2> QED BY <2>1, <2>2
<1>2. given = [x \in {FromNodeFields[4].name} |-> 7]
  BY <1>1, SMT
<1> HIDE DEF given
<1>3. /\ Decodes(FromNode(given))
      /\ Decode(FromNodeFields, FromNode(given))[FromNodeFields[4].name] = 7
  BY <1>1, <1>2, FromNodeIsRead, ZenonT(60)
<1> QED BY <1>1, <1>3, Zenon DEF given

\* The configuration of a node is true of it.
LEMMA ConfigOfIsTrue ==
    ASSUME NEW n \in MeshNodes, NEW c, c = ConfigOf(n)
    PROVE  /\ \A i \in 1 .. 4 : Decodes(c[i])
           /\ Decode(FromNodeFields, c[4]).complete = 7
           /\ Decode(AppMyInfoFields, Decode(FromNodeFields, c[1]).my_info).my_node_num = n
           /\ Decode(AppNodeFields, Decode(FromNodeFields, c[2]).node_info).num = n
           /\ Decode(AppUserFields,
                     Decode(AppNodeFields, Decode(FromNodeFields, c[2]).node_info).user) =
                  UserGiven(n)
<1> DEFINE last == FromNode([complete |-> 7])
<1>1. c = <<MyInfo(n), NodeInfo(n), ChannelConfig, last>>
  BY DEF ConfigOf
<1>5. Decodes(last) /\ Decode(FromNodeFields, last).complete = 7
  BY CompleteIsRead
<1> HIDE DEF last
<1>2. c[1] = MyInfo(n) /\ c[2] = NodeInfo(n) /\ c[3] = ChannelConfig /\ c[4] = last
  BY <1>1
<1>3. /\ Decodes(c[1]) /\ Decodes(c[2]) /\ Decodes(c[3]) /\ Decodes(c[4])
      /\ Decode(FromNodeFields, c[4]).complete = 7
  BY <1>2, <1>5, MyInfoIsRead, NodeInfoIsRead, ChannelIsRead, Zenon
<1>4. \A i \in 1 .. 4 : i = 1 \/ i = 2 \/ i = 3 \/ i = 4
  OBVIOUS
<1> QED BY <1>2, <1>3, <1>4, MyInfoIsRead, NodeInfoIsRead, Zenon

\* What an app has is the whole configuration of its node, or nothing.
ConfigInv ==
    /\ config = [n \in MeshNodes |-> config[n]]
    /\ \A n \in MeshNodes : config[n] \in {<< >>, ConfigOf(n)}

\* Such a configuration is true.
LEMMA ConfigInvIsEnough == ConfigInv => ConfigIsTrue
<1> SUFFICES ASSUME ConfigInv, NEW n \in MeshNodes, config[n] # << >>
             PROVE  /\ \A i \in 1 .. 4 : Decodes(config[n][i])
                    /\ LET From(i) == Decode(FromNodeFields, config[n][i])
                       IN  /\ From(4).complete = 7
                           /\ \E info \in {From(1).my_info} :
                                 Decode(AppMyInfoFields, info).my_node_num = n
                           /\ \E node \in {From(2).node_info} :
                                 /\ Decode(AppNodeFields, node).num = n
                                 /\ \E user \in {Decode(AppNodeFields, node).user} :
                                       Decode(AppUserFields, user) =
                                           [id |-> IdText(n), long_name |-> OwnerOf[n].long_name,
                                            short_name |-> OwnerOf[n].short_name,
                                            hw_model |-> 43, role |-> 4]
  BY Zenon DEF ConfigIsTrue
<1>1. config[n] = ConfigOf(n)
  BY Zenon DEF ConfigInv
<1> DEFINE c == config[n]
<1>2. UserGiven(n) = [id |-> IdText(n), long_name |-> OwnerOf[n].long_name,
                      short_name |-> OwnerOf[n].short_name, hw_model |-> 43, role |-> 4]
  BY Zenon DEF UserGiven
<1>3. /\ \A i \in 1 .. 4 : Decodes(c[i])
      /\ Decode(FromNodeFields, c[4]).complete = 7
      /\ Decode(AppMyInfoFields, Decode(FromNodeFields, c[1]).my_info).my_node_num = n
      /\ Decode(AppNodeFields, Decode(FromNodeFields, c[2]).node_info).num = n
      /\ Decode(AppUserFields,
                Decode(AppNodeFields, Decode(FromNodeFields, c[2]).node_info).user) =
             UserGiven(n)
  BY <1>1, ConfigOfIsTrue, Zenon
<1> QED BY <1>2, <1>3, Zenon

\* At first there is none.
LEMMA ConfigInvAtFirst == HandlerInit => ConfigInv
<1> SUFFICES ASSUME HandlerInit PROVE ConfigInv
  OBVIOUS
<1>1. config = [n \in MeshNodes |-> << >>]
  BY Zenon DEF HandlerInit
<1> QED BY <1>1, Zenon DEF ConfigInv

\* And every step keeps it so.
LEMMA ConfigInvIsKept == ConfigInv /\ [HandlerNext]_handlerVars => ConfigInv'
<1> SUFFICES ASSUME ConfigInv, [HandlerNext]_handlerVars PROVE ConfigInv'
  OBVIOUS
<1>1. ASSUME config' = config PROVE ConfigInv'
  BY <1>1, Zenon DEF ConfigInv
<1>2. ASSUME NEW n \in MeshNodes, NEW c \in {<< >>, ConfigOf(n)},
             config' = [config EXCEPT ![n] = c]
      PROVE  ConfigInv'
  <2>1. config' = [x \in MeshNodes |-> IF x = n THEN c ELSE config[x]]
    BY <1>2, Zenon DEF ConfigInv
  <2>2. config' = [x \in MeshNodes |-> config'[x]]
    BY <2>1, Zenon
  <2>3. ASSUME NEW x \in MeshNodes PROVE config'[x] \in {<< >>, ConfigOf(x)}
    BY <2>1, Zenon DEF ConfigInv
  <2> QED BY <2>2, <2>3, Zenon DEF ConfigInv
<1>3. CASE UNCHANGED handlerVars
  BY <1>1, <1>3, Zenon DEF handlerVars
<1>4. CASE HandlerNext
  <2>1. PICK n \in MeshNodes :
            \/ \E m \in AppMessages : FromApp(n, m)
            \/ \E text \in Texts : CreateText(n, text)
            \/ \E position \in Positions : CreatePosition(n, position)
            \/ \E p \in air : Hear(n, p)
            \/ WantConfig(n, 7)
            \/ MeshRestart(n)
    BY <1>4, Zenon DEF HandlerNext
  <2>2. ASSUME NEW m \in AppMessages, FromApp(n, m) PROVE ConfigInv'
    BY <1>1, <2>2, Zenon DEF FromApp
  <2>3. ASSUME NEW text \in Texts, CreateText(n, text) PROVE ConfigInv'
    BY <1>1, <2>3, Zenon DEF CreateText
  <2>4. ASSUME NEW position \in Positions, CreatePosition(n, position) PROVE ConfigInv'
    BY <1>1, <2>4, Zenon DEF CreatePosition
  <2>5. ASSUME NEW p \in air, Hear(n, p) PROVE ConfigInv'
    BY <1>1, <2>5, Zenon DEF Hear
  <2>6. CASE WantConfig(n, 7)
    <3>1. config' = [config EXCEPT ![n] = ConfigOf(n)]
      BY <2>6, Zenon DEF WantConfig, ConfigOf
    <3> QED BY <1>2, <3>1, Zenon
  <2>7. CASE MeshRestart(n)
    <3>1. config' = [config EXCEPT ![n] = << >>]
      BY <2>7, Zenon DEF MeshRestart
    <3> QED BY <1>2, <3>1, Zenon
  <2> QED BY <2>1, <2>2, <2>3, <2>4, <2>5, <2>6, <2>7, Zenon
<1> QED BY <1>3, <1>4

\* Whatever the numbers of the nodes and the names of their owners, as long as
\* they fit where the code keeps them, a configuration tells an app the truth
\* and no message of it is cut (build_config_response, the encode_ functions).
THEOREM ConfigIsToldTruly == HandlerSpec => []ConfigIsTrue
<1>1. HandlerInit => ConfigInv
  BY ConfigInvAtFirst
<1>2. ConfigInv /\ [HandlerNext]_handlerVars => ConfigInv'
  BY ConfigInvIsKept
<1>3. ConfigInv => ConfigIsTrue
  BY ConfigInvIsEnough
<1> QED BY <1>1, <1>2, <1>3, PTL DEF HandlerSpec

\* A message of an app that the loose parser can read.
Readable(schema, m) ==
    /\ IsSchema(schema) /\ IsMessage(schema, m)
    /\ \A i \in 1 .. Len(schema) : IsLoose(schema[i], m[schema[i].name])

\* The last field of a number is the one that was written with it.
LEMMA LooseValueIs ==
    ASSUME NEW schema, NEW m, Readable(schema, m), NEW i \in 1 .. Len(schema), NEW none
    PROVE  LooseValue(Whole(schema, m), schema[i].number, none) =
               IF IsWritten(schema, m, i) THEN Content(schema[i], m[schema[i].name]) ELSE none
<1> DEFINE n == Len(schema)
           d == Whole(schema, m)
<1>1. IsSchema(schema) /\ IsMessage(schema, m) /\ i \in 1 .. n /\ n \in Nat
  BY Zenon DEF IsSchema, Readable
<1>2. PICK upTo : Pieced(schema, m, upTo) /\ d = upTo[n]
  BY <1>1, WholeIs
<1>3. d \in Seq(Byte)
  <2>1. n \in 0 .. n
    BY <1>1
  <2> QED BY <1>2, <2>1, Zenon DEF Pieced
<1>4. PICK from : LooseLists(d, from) /\ LooseFields(d) = from[1]
  BY <1>3, LooseFieldsAre
<1>5. LooseTransfer(schema, m, upTo, from)
  BY <1>1, <1>2, <1>4, Zenon DEF LooseTransfer, Readable
<1> DEFINE Rec(j) == LooseBack(schema, upTo, j)
           R == {Rec(j) : j \in 1 .. n}
           fields == from[1]
           found == {k \in DOMAIN fields : fields[k].number = schema[i].number}
<1>6. fields \in Seq(R) /\ ToSet(fields) = {Rec(j) : j \in {k \in 1 .. n : IsWritten(schema, m, k)}}
  BY <1>5, LooseAllAreRead
<1>7. \A j \in 1 .. n : IsWritten(schema, m, j) =>
          /\ Rec(j).number = schema[j].number
          /\ SubSeq(d, Rec(j).first, Rec(j).last) = Content(schema[j], m[schema[j].name])
  <2> SUFFICES ASSUME NEW j \in 1 .. Len(schema), IsWritten(schema, m, j)
               PROVE  /\ Rec(j).number = schema[j].number
                      /\ SubSeq(d, Rec(j).first, Rec(j).last) = Content(schema[j], m[schema[j].name])
    BY Zenon
  <2> HIDE DEF d
  <2> HIDE DEF R, fields, found, Rec
  <2>1. IsWritten(schema, m, j) =>
            /\ from[Len(upTo[j - 1]) + 1] =
                  <<LooseBack(schema, upTo, j)>> \o from[Len(upTo[j]) + 1]
            /\ LooseBack(schema, upTo, j).number = schema[j].number
            /\ SubSeq(upTo[Len(schema)], LooseBack(schema, upTo, j).first,
                      LooseBack(schema, upTo, j).last) =
                  Content(schema[j], m[schema[j].name])
    BY <1>5, LooseOneIsRead, ZenonT(60)
  <2> QED BY <1>2, <2>1, Zenon DEF Rec
<1>8. \A j \in 1 .. n : schema[j].number = schema[i].number => j = i
  BY <1>1, Zenon DEF IsSchema
<1>9. LooseValue(d, schema[i].number, none) =
          IF found = {} THEN none ELSE SubSeq(d, fields[Max(found)].first, fields[Max(found)].last)
  BY <1>4, Zenon DEF LooseValue
<1> HIDE DEF Rec, n, d
<1>10. DOMAIN fields = 1 .. Len(fields) /\ Len(fields) \in Nat
  <2> HIDE DEF R, fields
  <2> QED BY <1>6
<1>11. \A k \in DOMAIN fields : \E j \in 1 .. n : IsWritten(schema, m, j) /\ fields[k] = Rec(j)
  <2>1. \A k \in DOMAIN fields : fields[k] \in ToSet(fields)
    BY Zenon DEF ToSet
  <2> QED BY <1>6, <2>1, Zenon
<1>12. \A k \in found : k \in 1 .. Len(fields) /\ IsWritten(schema, m, i) /\ fields[k] = Rec(i)
  <2> SUFFICES ASSUME NEW k \in found
               PROVE  k \in DOMAIN fields /\ IsWritten(schema, m, i) /\ fields[k] = Rec(i)
    BY <1>10, Zenon
  <2>1. k \in DOMAIN fields /\ fields[k].number = schema[i].number
    BY Zenon
  <2>2. PICK j \in 1 .. n : IsWritten(schema, m, j) /\ fields[k] = Rec(j)
    BY <1>11, <2>1, Zenon
  <2>3. schema[j].number = schema[i].number
    BY <1>7, <2>1, <2>2, Zenon
  <2>4. j = i
    BY <1>8, <2>3, Zenon
  <2> QED BY <2>1, <2>2, <2>4, Zenon
<1>13. CASE IsWritten(schema, m, i)
  <2>1. Rec(i) \in ToSet(fields)
    BY <1>1, <1>6, <1>13, Zenon
  <2>2. PICK k \in DOMAIN fields : fields[k] = Rec(i)
    BY <2>1, Zenon DEF ToSet
  <2>3. k \in found
    BY <1>1, <1>7, <1>13, <2>2, Zenon
  <2>4. found \subseteq 1 .. Len(fields) /\ found # {}
    BY <1>12, <2>3, Zenon
  <2>5. Max(found) \in found
    <3> HIDE DEF found, fields
    <3> QED BY <1>10, <2>4, GreatestIsMax
  <2>6. fields[Max(found)] = Rec(i)
    BY <1>12, <2>5, Zenon
  <2>7. SubSeq(d, Rec(i).first, Rec(i).last) = Content(schema[i], m[schema[i].name])
    BY <1>1, <1>7, <1>13, Zenon
  <2> HIDE DEF found, fields
  <2>8. LooseValue(d, schema[i].number, none) = Content(schema[i], m[schema[i].name])
    BY <1>9, <2>4, <2>6, <2>7, Zenon
  <2> QED BY <1>13, <2>8, Zenon DEF d
<1>14. CASE ~ IsWritten(schema, m, i)
  <2>1. found = {}
    BY <1>12, <1>14, Zenon
  <2> HIDE DEF found, fields
  <2>2. LooseValue(d, schema[i].number, none) = none
    BY <1>9, <2>1, Zenon
  <2> QED BY <1>14, <2>2, Zenon DEF d
<1> QED BY <1>13, <1>14, Zenon

\* And a number in it is the number that was written, or the one for none.
LEMMA LooseNumberIs ==
    ASSUME NEW schema, NEW m, Readable(schema, m), NEW i \in 1 .. Len(schema), NEW none,
           schema[i].type # "bytes"
    PROVE  LooseNumber(Whole(schema, m), schema[i].number, none) =
               IF m[schema[i].name] = 0 THEN none ELSE m[schema[i].name]
<1> DEFINE f == schema[i]
           v == m[f.name]
           d == Whole(schema, m)
           bytes == LooseValue(d, f.number, << >>)
<1>1. IsLoose(f, v)
  BY Zenon DEF Readable
<1>2. f.type \notin {"sint", "fixed32", "bytes"} /\ Fits(f.type, v)
  BY <1>1, Zenon DEF IsLoose
<1>3. bytes = IF IsWritten(schema, m, i) THEN Content(f, v) ELSE << >>
  BY LooseValueIs
<1>4. IsWritten(schema, m, i) <=> v # NoneOf(f.type)
  BY Zenon DEF IsWritten
<1>5. LooseNumber(d, f.number, none) =
          IF bytes = << >> THEN none ELSE VarintValue(bytes, 1, Len(bytes))
  BY Zenon DEF LooseNumber
<1> HIDE DEF f, v, d, bytes
<1>6. NoneOf(f.type) = 0 /\ v \in Words /\ Content(f, v) = Varint[v]
  <2>1. NoneOf(f.type) = 0 /\ WordOf(f.type, v) \in Words /\ Content(f, v) = Varint[WordOf(f.type, v)]
    BY <1>2, Encodings, Zenon
  <2>2. WordOf(f.type, v) = v
    BY <1>2, Zenon DEF WordOf
  <2> QED BY <2>1, <2>2, Zenon
<1>7. CASE v = 0
  BY <1>3, <1>4, <1>5, <1>6, <1>7, Zenon DEF f, v, d
<1>8. CASE v # 0
  <2>1. bytes = Varint[v]
    BY <1>3, <1>4, <1>6, <1>8, Zenon
  <2>2. bytes \in Seq(Byte) /\ 1 <= Len(bytes) /\ v \in Nat
    BY <1>6, <2>1, VarintOfWord
  <2>3. bytes # << >>
    BY <2>2
  <2>4. At(bytes, 1, bytes)
    BY <2>2 DEF At
  <2>5. VarintValue(bytes, 1, Len(bytes)) = v
    <3>1. VarintValue(bytes, 1, 1 + Len(bytes) - 1) = v
      BY <2>1, <2>2, <2>4, ValueAt
    <3>2. 1 + Len(bytes) - 1 = Len(bytes)
      BY <2>2
    <3> QED BY <3>1, <3>2, Zenon
  <2> QED BY <1>5, <1>8, <2>3, <2>5, Zenon DEF f, v, d
<1> QED BY <1>7, <1>8, Zenon

\* The schemas of what an app sends.
LEMMA DataSchema ==
    /\ IsSchema(DataFields) /\ Len(DataFields) = 8
    /\ DataFields[1] = Field("port", 1, "port") /\ DataFields[2] = Field("payload", 2, "bytes")
    /\ DataFields[3] = Field("want_response", 3, "bool") /\ DataFields[4] = Field("dest", 4, "uint")
    /\ DataFields[5] = Field("source", 5, "uint")
    /\ \A i \in 1 .. 8 : DataFields[i].number <= 15 /\ DataFields[i].type \notin {"sint", "fixed32"}
                         /\ (DataFields[i].type = "bytes" <=> i = 2)
    /\ \A i \in 3 .. 8 : DataFields[i].name \notin {"port", "payload"}
    /\ \A i \in 6 .. 8 :
          DataFields[i].name \notin {"port", "payload", "want_response", "dest", "source"}
<1>1. Listed(DataFields)
  BY SMT DEF Listed, Field, DataFields
<1>2. IsSchema(DataFields)
  BY <1>1, ListedIsSchema
<1>3. /\ Len(DataFields) = 8
      /\ DataFields[1] = Field("port", 1, "port") /\ DataFields[2] = Field("payload", 2, "bytes")
      /\ DataFields[3] = Field("want_response", 3, "bool") /\ DataFields[4] = Field("dest", 4, "uint")
      /\ DataFields[5] = Field("source", 5, "uint")
  BY SMT DEF DataFields
<1>4. \A i \in 1 .. 8 : DataFields[i].number <= 15 /\ DataFields[i].type \notin {"sint", "fixed32"}
                        /\ (DataFields[i].type = "bytes" <=> i = 2)
  BY SMT DEF DataFields, Field
<1>5. /\ \A i \in 3 .. 8 : DataFields[i].name \notin {"port", "payload"}
      /\ \A i \in 6 .. 8 :
            DataFields[i].name \notin {"port", "payload", "want_response", "dest", "source"}
  BY SMT DEF DataFields, Field
<1> QED BY <1>2, <1>3, <1>4, <1>5

\* The packet that an app puts in its frame.
LEMMA PacketSchema ==
    /\ IsSchema(AppPacketFields) /\ Len(AppPacketFields) = 5
    /\ AppPacketFields[1] = Field("to", 2, "uint") /\ AppPacketFields[2] = Field("channel", 4, "uint")
    /\ AppPacketFields[3] = Field("hop_limit", 6, "uint")
    /\ AppPacketFields[4] = Field("want_ack", 7, "bool") /\ AppPacketFields[5] = Field("data", 8, "bytes")
    /\ \A i \in 1 .. 5 :
          /\ AppPacketFields[i].number <= 15 /\ AppPacketFields[i].type \notin {"sint", "fixed32"}
          /\ (AppPacketFields[i].type = "bytes" <=> i = 5)
<1>1. Listed(AppPacketFields)
  BY SMT DEF Listed, Field, AppPacketFields
<1>2. IsSchema(AppPacketFields)
  BY <1>1, ListedIsSchema
<1>3. /\ Len(AppPacketFields) = 5
      /\ AppPacketFields[1] = Field("to", 2, "uint") /\ AppPacketFields[2] = Field("channel", 4, "uint")
      /\ AppPacketFields[3] = Field("hop_limit", 6, "uint")
      /\ AppPacketFields[4] = Field("want_ack", 7, "bool") /\ AppPacketFields[5] = Field("data", 8, "bytes")
  BY SMT DEF AppPacketFields
<1>4. \A i \in 1 .. 5 :
          /\ AppPacketFields[i].number <= 15 /\ AppPacketFields[i].type \notin {"sint", "fixed32"}
          /\ (AppPacketFields[i].type = "bytes" <=> i = 5)
  BY SMT DEF AppPacketFields, Field
<1> QED BY <1>2, <1>3, <1>4

\* A whole message is as long as any bytes in it.
LEMMA WholeHolds ==
    ASSUME NEW schema, IsSchema(schema), NEW m, IsMessage(schema, m),
           NEW i \in 1 .. Len(schema), schema[i].type = "bytes"
    PROVE  /\ Len(m[schema[i].name]) \in Nat /\ Len(Whole(schema, m)) \in Nat
           /\ Len(m[schema[i].name]) <= Len(Whole(schema, m))
<1> DEFINE f == schema[i]
           v == m[f.name]
           n == Len(schema)
<1>1. PICK upTo : Pieced(schema, m, upTo) /\ Whole(schema, m) = upTo[n]
  BY WholeIs
<1>2. /\ Len(upTo[i]) = Len(upTo[i - 1]) + Len(Piece(schema, m, i))
      /\ Len(upTo[i - 1]) \in Nat /\ Len(upTo[i]) \in Nat /\ upTo[n] \in Seq(Byte)
  BY <1>1, PieceAt
<1>3. Len(upTo[i]) <= Len(upTo[n])
  <2>1. i \in 0 .. Len(schema)
    BY DEF IsSchema
  <2> QED BY <1>1, <2>1, WrittenStays
<1>4. IsField(f) /\ Fits(f.type, v) /\ f.type = "bytes"
  BY Zenon DEF IsSchema, IsMessage
<1>5. Piece(schema, m, i) = Written(f, v)
  BY Zenon DEF Piece
<1> HIDE DEF f, v, n
<1>6. v \in Seq(Byte) /\ NoneOf(f.type) = << >> /\ Content(f, v) = v
  BY <1>4, Encodings, Zenon
<1>7. Preface(f, v) \in Seq(Byte)
  BY <1>4, WrittenBytes
<1>8. Len(v) \in Nat /\ Len(Written(f, v)) \in Nat /\ Len(v) <= Len(Written(f, v))
  <2>1. CASE v = << >>
    <3>1. Written(f, v) = << >>
      BY <1>6, <2>1, Zenon DEF Written
    <3> QED BY <2>1, <3>1
  <2>2. CASE v # << >>
    <3>1. Written(f, v) = Preface(f, v) \o v
      BY <1>6, <2>2, Zenon DEF Written
    <3> DEFINE a == Preface(f, v)
    <3> HIDE DEF a
    <3>2. a \in Seq(Byte) /\ Written(f, v) = a \o v
      BY <1>7, <3>1 DEF a
    <3> QED BY <1>6, <3>2
  <2> QED BY <2>1, <2>2
<1>9. Len(Whole(schema, m)) \in Nat
  BY <1>1, <1>2
<1> DEFINE a == Len(v)
           b == Len(Written(f, v))
           c == Len(upTo[i - 1])
           e == Len(upTo[i])
           w == Len(Whole(schema, m))
<1>10. a \in Nat /\ b \in Nat /\ c \in Nat /\ e \in Nat /\ w \in Nat /\ a <= b /\ e = c + b /\ e <= w
  <2>1. e = c + b
    BY <1>2, <1>5, Zenon
  <2>2. e <= w
    BY <1>1, <1>3, Zenon
  <2> QED BY <1>2, <1>8, <1>9, <2>1, <2>2, Zenon
<1> HIDE DEF a, b, c, e, w
<1>11. a \in Nat /\ w \in Nat /\ a <= w
  BY <1>10
<1> QED BY <1>11, Zenon DEF a, w, f, v

\* What the loose parser can read.
LEMMA ReadableIs ==
    ASSUME NEW schema, IsSchema(schema), NEW m, IsMessage(schema, m),
           \A i \in 1 .. Len(schema) :
              /\ schema[i].number <= 15 /\ schema[i].type \notin {"sint", "fixed32"}
              /\ schema[i].type = "bytes" => Len(m[schema[i].name]) < 128
    PROVE  Readable(schema, m)
  BY Zenon DEF Readable, IsLoose, IsSchema, IsMessage

\* A message that an app may send.
AppOne(m) ==
    /\ m.to \in Words /\ m.port \in Words /\ m.want_ack \in {0, 1}
    /\ m.payload \in Seq(Byte) /\ Len(m.payload) <= 233

\* So are all that the apps send.
LEMMA AppAll == \A m \in AppMessages : AppOne(m)
  BY HandlerAssumption, Zenon DEF HandlerAssumption, AppOne

\* The data of it.
LEMMA AppDataHas ==
    ASSUME NEW m, AppOne(m)
    PROVE  /\ AppData(m)["port"] = m.port /\ AppData(m)["payload"] = m.payload
           /\ \A i \in 3 .. 8 : AppData(m)[DataFields[i].name] = NoneOf(DataFields[i].type)
           /\ IsMessage(DataFields, AppData(m))
<1> DEFINE S == DataFields
           g == [port |-> m.port, payload |-> m.payload]
<1>1. AppData(m) = Message(S, g)
  BY Zenon DEF AppData
<1>2. /\ DOMAIN g = {"port", "payload"} /\ g["port"] = m.port /\ g["payload"] = m.payload
  BY SMT
<1>3. /\ IsSchema(S) /\ Len(S) = 8 /\ S[1].name = "port" /\ S[1].type = "port"
      /\ S[2].name = "payload" /\ S[2].type = "bytes"
      /\ \A i \in 3 .. 8 : S[i].name \notin {"port", "payload"}
  <2> HIDE DEF S
  <2> QED BY DataSchema, SMT DEF Field, S
<1>4. Fits("port", m.port) /\ Fits("bytes", m.payload)
  <2>1. Len(m.payload) \in Nat /\ Len(m.payload) <= 65535
    BY SMT DEF AppOne
  <2>2. Len(m.payload) \in Words
    BY <2>1, SmallWords
  <2> QED BY <2>2, PlainTypes, Zenon DEF Fits, AppOne, Plainly
<1> HIDE DEF S, g
<1>5. \A i \in 1 .. Len(S) : Message(S, g)[S[i].name] =
          IF S[i].name \in DOMAIN g THEN g[S[i].name] ELSE NoneOf(S[i].type)
  BY <1>3, MessageIs
<1>6. 1 \in 1 .. Len(S) /\ 2 \in 1 .. Len(S) /\ \A i \in 3 .. 8 : i \in 1 .. Len(S)
  BY <1>3
<1>7. Message(S, g)["port"] = m.port /\ Message(S, g)["payload"] = m.payload
  <2>1. S[1].name \in DOMAIN g /\ S[2].name \in DOMAIN g
    BY <1>2, <1>3, Zenon
  <2> QED BY <1>2, <1>3, <1>5, <1>6, <2>1, Zenon
<1>8. \A i \in 3 .. 8 : Message(S, g)[S[i].name] = NoneOf(S[i].type)
  BY <1>2, <1>3, <1>5, <1>6, Zenon
<1>9. IsMessage(S, Message(S, g))
  <2>1. \A i \in 1 .. Len(S) : S[i].name \in DOMAIN g => Fits(S[i].type, g[S[i].name])
    <3>1. \A i \in 1 .. Len(S) : i = 1 \/ i = 2 \/ i \in 3 .. 8
      BY <1>3
    <3> QED BY <1>2, <1>3, <1>4, <3>1, Zenon
  <2> QED BY <1>3, <2>1, MessageFromFits
<1> QED BY <1>1, <1>7, <1>8, <1>9, Zenon DEF S

\* The size of the data of a message.
LEMMA AppDataRoom ==
    ASSUME NEW m, AppOne(m)
    PROVE  /\ Whole(DataFields, AppData(m)) \in Seq(Byte)
           /\ Len(Whole(DataFields, AppData(m))) \in Nat
           /\ Len(Whole(DataFields, AppData(m))) <= 242
<1> DEFINE S == DataFields
           d == AppData(m)
           w(i) == Len(Written(S[i], d[S[i].name]))
<1>1. /\ IsSchema(S) /\ IsMessage(S, d) /\ Len(S) = 8
      /\ S[1].name = "port" /\ S[1].type = "port" /\ S[1].number <= 15
      /\ S[2].name = "payload" /\ S[2].type = "bytes" /\ S[2].number <= 15
      /\ d["port"] = m.port /\ d["payload"] = m.payload
      /\ \A i \in 3 .. 8 : d[S[i].name] = NoneOf(S[i].type)
  <2> HIDE DEF S, d
  <2> QED BY DataSchema, AppDataHas, SMT DEF Field, S, d
<1>2. PICK upTo : Grows(S, d, upTo)
  BY <1>1, WholeGrows
<1>3. Whole(S, d) \in Seq(Byte)
  BY <1>1, WholeGrows
<1>4. \A i \in 1 .. 8 : IsField(S[i]) /\ Fits(S[i].type, d[S[i].name])
  BY <1>1, Zenon DEF IsSchema, IsMessage
<1> HIDE DEF S, d
<1>5. w(1) \in Nat /\ w(1) <= 6
  <2>1. IsField(S[1]) /\ Fits(S[1].type, d[S[1].name]) /\ S[1].type \notin {"sint", "fixed32", "bytes"}
    BY <1>1, <1>4
  <2> QED BY <1>1, <2>1, WrittenRoom
<1>6. w(2) \in Nat /\ w(2) <= 236
  <2>1. /\ IsField(S[2]) /\ Fits(S[2].type, d[S[2].name]) /\ S[2].type \notin {"sint", "fixed32"}
        /\ S[2].number <= 15 /\ S[2].type = "bytes"
    BY <1>1, <1>4
  <2>2. /\ w(2) \in Nat /\ Len(d[S[2].name]) \in Nat
        /\ Len(d[S[2].name]) < 16384 => w(2) <= Len(d[S[2].name]) + 3
    BY <2>1, WrittenRoom
  <2>3. Len(d[S[2].name]) <= 233
    BY <1>1, Zenon DEF AppOne
  <2> DEFINE a == w(2)
             b == Len(d[S[2].name])
  <2>4. a \in Nat /\ b \in Nat /\ (b < 16384 => a <= b + 3) /\ b <= 233
    BY <2>2, <2>3
  <2> HIDE DEF a, b
  <2>5. a \in Nat /\ a <= 236
    BY <2>4
  <2> QED BY <2>5 DEF a
<1>7. \A i \in 3 .. 8 : w(i) = 0
  <2>1. ASSUME NEW i \in 3 .. 8 PROVE w(i) = 0
    <3>1. Written(S[i], d[S[i].name]) = << >>
      BY <1>1, Zenon DEF Written
    <3> QED BY <3>1
  <2> QED BY <2>1
<1>8. /\ Whole(S, d) = upTo[8] /\ Len(upTo[0]) = 0
      /\ \A i \in 1 .. 8 : Len(upTo[i]) = Len(upTo[i - 1]) + w(i) /\ Len(upTo[i]) \in Nat
  <2>1. upTo[0] = << >> /\ Whole(S, d) = upTo[8]
    BY <1>1, <1>2, Zenon DEF Grows
  <2>2. \A i \in 1 .. 8 : Len(upTo[i]) = Len(upTo[i - 1]) + w(i) /\ Len(upTo[i]) \in Nat
    BY <1>1, <1>2, Zenon DEF Grows
  <2>3. Len(upTo[0]) = 0
    BY <2>1
  <2> QED BY <2>1, <2>2, <2>3
<1> HIDE DEF w
<1>9. Len(upTo[8]) \in Nat /\ Len(upTo[8]) <= 242
  <2> DEFINE l(i) == Len(upTo[i])
  <2>1. /\ l(0) = 0
        /\ \A i \in 1 .. 8 : l(i) = l(i - 1) + w(i) /\ l(i) \in Nat
    BY <1>8, Zenon
  <2> HIDE DEF l
  <2>2. l(1) = w(1) /\ l(2) = l(1) + w(2) /\ l(3) = l(2) + w(3) /\ l(4) = l(3) + w(4)
        /\ l(5) = l(4) + w(5) /\ l(6) = l(5) + w(6) /\ l(7) = l(6) + w(7) /\ l(8) = l(7) + w(8)
    BY <1>5, <2>1
  <2>3. l(8) \in Nat /\ l(8) <= 242
    BY <1>5, <1>6, <1>7, <2>2
  <2> QED BY <2>3 DEF l
<1> QED BY <1>3, <1>8, <1>9, Zenon DEF S, d

\* The packet around it.
LEMMA AppMessageHas ==
    ASSUME NEW m, AppOne(m)
    PROVE  /\ AppMessage(m)["to"] = m.to /\ AppMessage(m)["want_ack"] = m.want_ack
           /\ AppMessage(m)["hop_limit"] = 3 /\ AppMessage(m)["channel"] = 0
           /\ AppMessage(m)["data"] = Whole(DataFields, AppData(m))
           /\ IsMessage(AppPacketFields, AppMessage(m))
<1> DEFINE S == AppPacketFields
           x == Whole(DataFields, AppData(m))
           g == [to |-> m.to, hop_limit |-> 3, want_ack |-> m.want_ack, data |-> x]
<1>1. AppMessage(m) = Message(S, g)
  BY Zenon DEF AppMessage
<1>2. Fits("uint", m.to) /\ Fits("uint", 3) /\ Fits("bool", m.want_ack) /\ Fits("bytes", x)
  <2>1. x \in Seq(Byte) /\ Len(x) \in Nat /\ Len(x) <= 242
    BY AppDataRoom
  <2> HIDE DEF x
  <2>2. Len(x) <= 65535
    BY <2>1
  <2>3. Len(x) \in Words /\ 3 \in Words
    BY <2>1, <2>2, SmallWords
  <2> QED BY <2>1, <2>3, PlainTypes, Zenon DEF Fits, AppOne, Plainly
<1> HIDE DEF x
<1>3. /\ DOMAIN g = {"to", "hop_limit", "want_ack", "data"}
      /\ g["to"] = m.to /\ g["hop_limit"] = 3 /\ g["want_ack"] = m.want_ack /\ g["data"] = x
  BY SMT
<1>4. /\ IsSchema(S) /\ Len(S) = 5
      /\ S[1].name = "to" /\ S[1].type = "uint" /\ S[2].name = "channel" /\ S[2].type = "uint"
      /\ S[3].name = "hop_limit" /\ S[3].type = "uint"
      /\ S[4].name = "want_ack" /\ S[4].type = "bool" /\ S[5].name = "data" /\ S[5].type = "bytes"
  <2> HIDE DEF S
  <2> QED BY PacketSchema, SMT DEF Field, S
<1> HIDE DEF S, g
<1>5. \A i \in 1 .. Len(S) : Message(S, g)[S[i].name] =
          IF S[i].name \in DOMAIN g THEN g[S[i].name] ELSE NoneOf(S[i].type)
  BY <1>4, MessageIs
<1>6. /\ 1 \in 1 .. Len(S) /\ 2 \in 1 .. Len(S) /\ 3 \in 1 .. Len(S) /\ 4 \in 1 .. Len(S)
      /\ 5 \in 1 .. Len(S)
      /\ \A i \in 1 .. Len(S) : i = 1 \/ i = 2 \/ i = 3 \/ i = 4 \/ i = 5
  BY <1>4
<1>7. /\ S[1].name \in DOMAIN g /\ S[2].name \notin DOMAIN g /\ S[3].name \in DOMAIN g
      /\ S[4].name \in DOMAIN g /\ S[5].name \in DOMAIN g
  BY <1>3, <1>4
<1>8. /\ Message(S, g)["to"] = m.to /\ Message(S, g)["want_ack"] = m.want_ack
      /\ Message(S, g)["hop_limit"] = 3 /\ Message(S, g)["data"] = x
  <2>1. /\ Message(S, g)[S[1].name] = g[S[1].name] /\ Message(S, g)[S[3].name] = g[S[3].name]
        /\ Message(S, g)[S[4].name] = g[S[4].name] /\ Message(S, g)[S[5].name] = g[S[5].name]
    BY <1>5, <1>6, <1>7
  <2> QED BY <1>3, <1>4, <2>1
<1>9. Message(S, g)["channel"] = 0
  <2>1. NoneOf("uint") = 0
    BY Zenon DEF NoneOf
  <2> QED BY <1>4, <1>5, <1>6, <1>7, <2>1, ZenonT(60)
<1>10. IsMessage(S, Message(S, g))
  <2>1. \A i \in 1 .. Len(S) : S[i].name \in DOMAIN g => Fits(S[i].type, g[S[i].name])
    BY <1>2, <1>3, <1>4, <1>6, <1>7, ZenonT(60)
  <2> QED BY <1>4, <2>1, MessageFromFits
<1> QED BY <1>1, <1>8, <1>9, <1>10, Zenon DEF S, x

\* The packet has at most 255 bytes, and its data is not longer.
LEMMA AppPacketRoom ==
    ASSUME NEW m, AppOne(m)
    PROVE  /\ AppPacket(m) \in Seq(Byte) /\ Len(AppPacket(m)) \in Nat /\ Len(AppPacket(m)) <= 255
           /\ Len(Whole(DataFields, AppData(m))) <= Len(AppPacket(m))
           /\ Len(m.payload) <= Len(Whole(DataFields, AppData(m)))
<1> DEFINE S == AppPacketFields
           d == AppMessage(m)
           x == Whole(DataFields, AppData(m))
           w(i) == Len(Written(S[i], d[S[i].name]))
<1>1. /\ IsSchema(S) /\ IsMessage(S, d) /\ Len(S) = 5
      /\ S[1].name = "to" /\ S[1].type = "uint" /\ S[2].name = "channel" /\ S[2].type = "uint"
      /\ S[3].name = "hop_limit" /\ S[3].type = "uint"
      /\ S[4].name = "want_ack" /\ S[4].type = "bool" /\ S[5].name = "data" /\ S[5].type = "bytes"
      /\ \A i \in 1 .. 5 : S[i].number <= 15
      /\ d["hop_limit"] = 3 /\ d["channel"] = 0 /\ d["want_ack"] = m.want_ack /\ d["data"] = x
  <2> HIDE DEF S, d, x
  <2> QED BY PacketSchema, AppMessageHas, SMT DEF Field, S, d, x
<1>2. PICK upTo : Grows(S, d, upTo)
  BY <1>1, WholeGrows
<1>3. Whole(S, d) \in Seq(Byte) /\ AppPacket(m) = Whole(S, d)
  BY <1>1, WholeGrows, Zenon DEF AppPacket
<1>4. \A i \in 1 .. 5 : IsField(S[i]) /\ Fits(S[i].type, d[S[i].name])
  BY <1>1, Zenon DEF IsSchema, IsMessage
<1>5. x \in Seq(Byte) /\ Len(x) \in Nat /\ Len(x) <= 242
  BY AppDataRoom
<1>6. Len(m.payload) <= Len(x)
  <2>1. /\ IsSchema(DataFields) /\ IsMessage(DataFields, AppData(m)) /\ 2 \in 1 .. Len(DataFields)
        /\ DataFields[2].type = "bytes" /\ DataFields[2].name = "payload"
        /\ AppData(m)["payload"] = m.payload
    BY DataSchema, AppDataHas, SMT DEF Field
  <2> QED BY <2>1, WholeHolds
<1>7. Len(x) <= Len(Whole(S, d))
  <2>1. 5 \in 1 .. Len(S)
    BY <1>1
  <2> HIDE DEF S, d, x
  <2>2. Len(d[S[5].name]) <= Len(Whole(S, d))
    BY <1>1, <2>1, WholeHolds
  <2> QED BY <1>1, <2>2, Zenon
<1> HIDE DEF S, d, x
<1>8. w(1) \in Nat /\ w(1) <= 6
  <2>1. /\ IsField(S[1]) /\ Fits(S[1].type, d[S[1].name]) /\ S[1].number <= 15
        /\ S[1].type \notin {"sint", "fixed32", "bytes"}
    BY <1>1, <1>4
  <2> QED BY <2>1, WrittenRoom
<1>9. w(2) \in Nat /\ w(2) = 0
  <2>1. NoneOf("uint") = 0
    BY Zenon DEF NoneOf
  <2>2. Written(S[2], d[S[2].name]) = << >>
    BY <1>1, <2>1, Zenon DEF Written
  <2> QED BY <2>2
<1>10. w(3) \in Nat /\ w(3) <= 2
  <2>1. /\ IsField(S[3]) /\ Fits(S[3].type, d[S[3].name]) /\ S[3].number <= 15
        /\ S[3].type \notin {"sint", "fixed32", "bytes"} /\ d[S[3].name] < 128
    BY <1>1, <1>4
  <2> QED BY <2>1, WrittenRoom
<1>11. w(4) \in Nat /\ w(4) <= 2
  <2>1. /\ IsField(S[4]) /\ Fits(S[4].type, d[S[4].name]) /\ S[4].number <= 15
        /\ S[4].type \notin {"sint", "fixed32", "bytes"} /\ d[S[4].name] < 128
    BY <1>1, <1>4 DEF AppOne
  <2> QED BY <2>1, WrittenRoom
<1>12. w(5) \in Nat /\ w(5) <= 245
  <2>1. /\ IsField(S[5]) /\ Fits(S[5].type, d[S[5].name]) /\ S[5].type \notin {"sint", "fixed32"}
        /\ S[5].number <= 15 /\ S[5].type = "bytes"
    BY <1>1, <1>4
  <2>2. /\ w(5) \in Nat /\ Len(d[S[5].name]) \in Nat
        /\ Len(d[S[5].name]) < 16384 => w(5) <= Len(d[S[5].name]) + 3
    BY <2>1, WrittenRoom
  <2>3. Len(d[S[5].name]) <= 242
    BY <1>1, <1>5, Zenon
  <2> DEFINE a == w(5)
             b == Len(d[S[5].name])
  <2>4. a \in Nat /\ b \in Nat /\ (b < 16384 => a <= b + 3) /\ b <= 242
    BY <2>2, <2>3
  <2> HIDE DEF a, b
  <2>5. a \in Nat /\ a <= 245
    BY <2>4
  <2> QED BY <2>5 DEF a
<1>13. /\ Whole(S, d) = upTo[5] /\ Len(upTo[0]) = 0
       /\ \A i \in 1 .. 5 : Len(upTo[i]) = Len(upTo[i - 1]) + w(i) /\ Len(upTo[i]) \in Nat
  <2>1. upTo[0] = << >> /\ Whole(S, d) = upTo[5]
    BY <1>1, <1>2, Zenon DEF Grows
  <2>2. \A i \in 1 .. 5 : Len(upTo[i]) = Len(upTo[i - 1]) + w(i) /\ Len(upTo[i]) \in Nat
    BY <1>1, <1>2, Zenon DEF Grows
  <2>3. Len(upTo[0]) = 0
    BY <2>1
  <2> QED BY <2>1, <2>2, <2>3
<1> HIDE DEF w
<1>14. Len(upTo[5]) \in Nat /\ Len(upTo[5]) <= 255
  <2> DEFINE l(i) == Len(upTo[i])
  <2>1. /\ l(0) = 0
        /\ \A i \in 1 .. 5 : l(i) = l(i - 1) + w(i) /\ l(i) \in Nat
    BY <1>13, Zenon
  <2> HIDE DEF l
  <2>2. l(1) = w(1) /\ l(2) = l(1) + w(2) /\ l(3) = l(2) + w(3) /\ l(4) = l(3) + w(4)
        /\ l(5) = l(4) + w(5)
    BY <1>8, <2>1
  <2>3. l(5) \in Nat /\ l(5) <= 255
    BY <1>8, <1>9, <1>10, <1>11, <1>12, <2>2
  <2> QED BY <2>3 DEF l
<1> QED BY <1>3, <1>6, <1>7, <1>13, <1>14, Zenon DEF x

\* The bytes from one place to another.
LEMMA CutIs ==
    ASSUME NEW d \in Seq(Byte), NEW p \in Nat \ {0}, NEW e \in Nat, p <= e, e <= Len(d)
    PROVE  /\ SubSeq(d, p, e) \in Seq(Byte) /\ Len(SubSeq(d, p, e)) = e - p + 1
           /\ SubSeq(d, p, e)[1] = d[p]
<1> DEFINE s == SubSeq(d, p, e)
<1>1. Len(d) \in Nat
  OBVIOUS
<1>2. /\ s \in Seq(Byte) /\ Len(s) = e - p + 1
      /\ \A i \in 1 .. (e - p + 1) : s[i] = d[p + i - 1]
  BY <1>1
<1> HIDE DEF s
<1>3. 1 \in 1 .. (e - p + 1) /\ p + 1 - 1 = p
  BY <1>1
<1>4. s[1] = d[p]
  BY <1>2, <1>3
<1> QED BY <1>2, <1>4 DEF s

\* These bytes come from this place on.
ComesFrom(frame, k, P) == \A i \in 1 .. Len(P) : frame[k + i - 1] = P[i]

\* The head of a frame, and what comes behind it.
LEMMA FrameIs ==
    ASSUME NEW v \in Seq(Byte), Len(v) >= 1, NEW P \in Seq(Byte),
           NEW frame, frame = << 10 >> \o v \o P
    PROVE  /\ frame \in Seq(Byte) /\ Len(frame) = 1 + Len(v) + Len(P)
           /\ frame[2] = v[1] /\ (Len(v) >= 2 => frame[3] = v[2])
           /\ ComesFrom(frame, 2 + Len(v), P)
<1> DEFINE h == << 10 >> \o v
           one == << 10 >>
<1>1. one \in Seq(Byte) /\ Len(one) = 1
  <2>1. 10 \in Byte
    BY SMT DEF Byte
  <2> QED BY <2>1
<1>2. h = one \o v /\ frame = h \o P
  OBVIOUS
<1> HIDE DEF one, h
<1>3. /\ h \in Seq(Byte) /\ Len(h) = 1 + Len(v) /\ h[2] = v[1] /\ (Len(v) >= 2 => h[3] = v[2])
  BY <1>1, <1>2
<1>4. Len(v) \in Nat /\ Len(P) \in Nat
  OBVIOUS
<1>5. frame \in Seq(Byte) /\ Len(frame) = Len(h) + Len(P)
  BY <1>2, <1>3
<1>6. \A i \in 1 .. Len(h) : frame[i] = h[i]
  BY <1>2, <1>3
<1>7. \A i \in 1 .. Len(P) : frame[Len(h) + i] = P[i]
  BY <1>2, <1>3
<1>8. ASSUME NEW i \in 1 .. Len(P) PROVE frame[(2 + Len(v)) + i - 1] = P[i]
  <2>1. (2 + Len(v)) + i - 1 = Len(h) + i
    BY <1>3, <1>4
  <2> QED BY <1>7, <2>1
<1>9. 2 \in 1 .. Len(h) /\ (Len(v) >= 2 => 3 \in 1 .. Len(h))
  BY <1>3, <1>4
<1>10. ComesFrom(frame, 2 + Len(v), P)
  BY <1>8, Zenon DEF ComesFrom
<1> QED BY <1>3, <1>4, <1>5, <1>6, <1>9, <1>10

\* The frame of a packet whose length takes one byte.
LEMMA ShortFrame ==
    ASSUME NEW P \in Seq(Byte), Len(P) <= 127, NEW frame, frame = << 10 >> \o Varint[Len(P)] \o P
    PROVE  /\ frame[2] = Len(P) /\ Len(frame) = 2 + Len(P)
           /\ SubSeq(frame, 3, 2 + frame[2]) = P
<1> DEFINE L == Len(P)
           v == Varint[L]
<1>1. L \in Nat /\ L < 128 /\ L <= 127
  OBVIOUS
<1>0. frame = << 10 >> \o v \o P
  OBVIOUS
<1> HIDE DEF L
<1>2. v \in Seq(Byte) /\ Len(v) = 1 /\ v[1] = L
  BY <1>1, VarintLess, VarintIs
<1> HIDE DEF v
<1>3. /\ frame \in Seq(Byte) /\ Len(frame) = 1 + Len(v) + Len(P)
      /\ frame[2] = v[1] /\ (Len(v) >= 2 => frame[3] = v[2])
      /\ ComesFrom(frame, 2 + Len(v), P)
  <2>1. Len(v) >= 1
    BY <1>2
  <2>2. v \in Seq(Byte)
    BY <1>2
  <2> QED BY <1>0, <2>1, <2>2, FrameIs, Zenon
<1>4. 2 + Len(v) = 3 /\ Len(frame) = 2 + L /\ frame[2] = L
  BY <1>1, <1>2, <1>3 DEF L
<1>5. \A i \in 1 .. Len(P) : frame[3 + i - 1] = P[i]
  BY <1>3, <1>4, Zenon DEF ComesFrom
<1>6. CASE L >= 1
  <2>1. At(frame, 3, P)
    <3>1. 3 \in Nat \ {0} /\ 3 + Len(P) - 1 <= Len(frame)
      BY <1>1, <1>4 DEF L
    <3> QED BY <1>5, <3>1, Zenon DEF At
  <2>2. SubSeq(frame, 3, 3 + Len(P) - 1) = P
    BY <1>3, <1>6, <2>1, CutAt DEF L
  <2>3. 3 + Len(P) - 1 = 2 + frame[2]
    BY <1>1, <1>4 DEF L
  <2>4. SubSeq(frame, 3, 2 + frame[2]) = P
    BY <2>2, <2>3, Zenon
  <2> QED BY <1>4, <2>4, Zenon DEF L
<1>7. CASE L < 1
  <2>1. L = 0
    BY <1>1, <1>7
  <2>2. P = << >>
    BY <2>1 DEF L
  <2>3. 2 + frame[2] = 2
    BY <1>4, <2>1
  <2>4. SubSeq(frame, 3, 2) = << >>
    BY <1>3
  <2> QED BY <1>4, <2>2, <2>3, <2>4, Zenon DEF L
<1> QED BY <1>1, <1>6, <1>7, SMTT(30)

\* In a frame of a longer one the parser takes the second byte of the length
\* for the first of the packet.
LEMMA LongFrame ==
    ASSUME NEW P \in Seq(Byte), Len(P) > 127, Len(P) <= 255,
           NEW frame, frame = << 10 >> \o Varint[Len(P)] \o P
    PROVE  /\ SubSeq(frame, 3, 2 + frame[2]) \in Seq(Byte)
           /\ SubSeq(frame, 3, 2 + frame[2])[1] = 1
<1> DEFINE L == Len(P)
           v == Varint[L]
<1>1. L \in Nat /\ L > 127 /\ L <= 255 /\ L >= 128
  OBVIOUS
<1>0. frame = << 10 >> \o v \o P /\ Len(P) = L
  OBVIOUS
<1> HIDE DEF L
<1>2. L \div 128 = 1 /\ (L % 128) + 128 = L
  BY <1>1
<1>3. v \in Seq(Byte) /\ v[1] = L /\ v[2] = 1 /\ Len(v) = 2
  <2>1. /\ Len(v) = 1 + Len(Varint[L \div 128])
        /\ v[1] = (L % 128) + 128
        /\ \A i \in 1 .. Len(Varint[L \div 128]) : v[i + 1] = Varint[L \div 128][i]
    <3>1. L \in Nat /\ L >= 128
      BY <1>1
    <3> QED BY <3>1, VarintMore, ZenonT(60)
  <2>2. Len(Varint[1]) = 1 /\ Varint[1][1] = 1
    <3>1. 1 \in Nat /\ 1 < 128
      OBVIOUS
    <3> QED BY <3>1, VarintLess
  <2> DEFINE w == Varint[1]
  <2>3. Len(v) = 1 + Len(w) /\ \A i \in 1 .. Len(w) : v[i + 1] = w[i]
    BY <1>2, <2>1, Zenon
  <2>4. v \in Seq(Byte)
    BY <1>1, VarintIs
  <2>5. Len(w) = 1 /\ w[1] = 1
    BY <2>2
  <2>8. v[1] = L
    BY <1>2, <2>1
  <2> HIDE DEF v, w
  <2>6. 1 \in 1 .. Len(w) /\ 1 + 1 = 2
    BY <2>5
  <2>7. v[2] = 1
    BY <2>3, <2>5, <2>6
  <2> QED BY <2>3, <2>4, <2>5, <2>7, <2>8
<1> HIDE DEF v
<1>4. /\ frame \in Seq(Byte) /\ Len(frame) = 1 + Len(v) + Len(P)
      /\ frame[2] = v[1] /\ (Len(v) >= 2 => frame[3] = v[2])
  <2>1. Len(v) >= 1
    BY <1>3
  <2> QED BY <1>0, <1>3, <2>1, FrameIs, Zenon
<1>5. Len(frame) = 3 + L /\ frame[2] = L /\ frame[3] = 1
  BY <1>0, <1>1, <1>3, <1>4
<1> DEFINE e == 2 + L
<1>6. e \in Nat /\ 3 <= e /\ e <= Len(frame) /\ 3 \in Nat \ {0} /\ 2 + frame[2] = e
  BY <1>1, <1>5
<1> HIDE DEF e
<1>7. SubSeq(frame, 3, e) \in Seq(Byte) /\ SubSeq(frame, 3, e)[1] = frame[3]
  BY <1>4, <1>6, CutIs
<1> QED BY <1>5, <1>6, <1>7, Zenon

\* Nothing is read of bytes that begin so, nor of none.
LEMMA NothingIsRead ==
    ASSUME NEW d \in Seq(Byte), Len(d) = 0 \/ d[1] = 1, NEW number, NEW none
    PROVE  LooseValue(d, number, none) = none
<1>1. PICK from : LooseLists(d, from) /\ LooseFields(d) = from[1]
  BY LooseFieldsAre
<1>2. Len(d) \in Nat /\ 1 \in 1 .. Len(d) + 1
  OBVIOUS
<1>3. from[1] = << >>
  <2>1. from[1] = IF 1 >= Len(d) THEN << >>
                  ELSE IF LooseField(d, 1).ok
                       THEN <<LooseField(d, 1)>> \o from[LooseField(d, 1).last + 1]
                       ELSE << >>
    BY <1>1, <1>2, Zenon DEF LooseLists
  <2>2. CASE 1 >= Len(d)
    BY <2>1, <2>2, Zenon
  <2>3. CASE ~ (1 >= Len(d))
    <3>1. d[1] = 1 /\ 1 % 8 = 1
      BY <1>2, <2>3
    <3>2. d[1] % 8 \notin {0, 2}
      BY <3>1
    <3>3. ~ LooseField(d, 1).ok
      BY <3>2, Zenon DEF LooseField
    <3> QED BY <2>1, <2>3, <3>3, Zenon
  <2> QED BY <2>2, <2>3, Zenon
<1> DEFINE found == {i \in DOMAIN << >> : (<< >>)[i].number = number}
<1>4. LooseFields(d) = << >>
  BY <1>1, <1>3
<1>5. found = {}
  OBVIOUS
<1> QED BY <1>4, <1>5, SMT DEF LooseValue

\* A name of an enumeration is read as itself.
LEMMA NamedStays ==
    ASSUME NEW n \in Words
    PROVE  AsNamed("port", n) \in Words /\ AsNamed("port", AsNamed("port", n)) = AsNamed("port", n)
<1>1. 0 \in Words
  BY SmallWords
<1>2. StartOf("port") = 0
  BY Zenon DEF StartOf, NoneOf
<1> QED BY <1>1, <1>2, Zenon DEF AsNamed

\* A packet that the loose parser reads whole.
LEMMA ShortIsRead ==
    ASSUME NEW m, AppOne(m), Len(AppPacket(m)) <= 127
    PROVE  LET packet == AppPacket(m)
               data   == LooseValue(packet, 8, << >>)
           IN  /\ LooseNumber(packet, 2, Broadcast) = IF m.to = 0 THEN Broadcast ELSE m.to
               /\ LooseNumber(packet, 7, 0) = m.want_ack
               /\ LooseNumber(data, 1, 0) = m.port
               /\ LooseValue(data, 2, NoData) = IF m.payload = << >> THEN NoData ELSE m.payload
<1> DEFINE P == AppPacketFields
           D == DataFields
           pm == AppMessage(m)
           dm == AppData(m)
           x == Whole(DataFields, AppData(m))
<1>1. /\ IsSchema(P) /\ IsMessage(P, pm) /\ Len(P) = 5
      /\ P[1].name = "to" /\ P[1].type = "uint" /\ P[1].number = 2
      /\ P[4].name = "want_ack" /\ P[4].type = "bool" /\ P[4].number = 7
      /\ P[5].name = "data" /\ P[5].type = "bytes" /\ P[5].number = 8
      /\ \A i \in 1 .. 5 : P[i].number <= 15 /\ P[i].type \notin {"sint", "fixed32"}
                           /\ (P[i].type = "bytes" <=> i = 5)
      /\ pm["to"] = m.to /\ pm["want_ack"] = m.want_ack /\ pm["data"] = x
  <2> HIDE DEF P, pm, x
  <2> QED BY PacketSchema, AppMessageHas, SMT DEF Field, P, pm, x
<1>2. /\ IsSchema(D) /\ IsMessage(D, dm) /\ Len(D) = 8
      /\ D[1].name = "port" /\ D[1].type = "port" /\ D[1].number = 1
      /\ D[2].name = "payload" /\ D[2].type = "bytes" /\ D[2].number = 2
      /\ \A i \in 1 .. 8 : D[i].number <= 15 /\ D[i].type \notin {"sint", "fixed32"}
                           /\ (D[i].type = "bytes" <=> i = 2)
      /\ dm["port"] = m.port /\ dm["payload"] = m.payload
  <2> HIDE DEF D, dm
  <2> QED BY DataSchema, AppDataHas, SMT DEF Field, D, dm
<1>3. x \in Seq(Byte) /\ Len(x) < 128 /\ Len(m.payload) < 128
  <2>1. /\ x \in Seq(Byte) /\ Len(x) \in Nat /\ Len(x) <= Len(AppPacket(m))
        /\ Len(m.payload) <= Len(x) /\ Len(AppPacket(m)) \in Nat
    BY AppDataRoom, AppPacketRoom
  <2>2. Len(m.payload) \in Nat
    BY DEF AppOne
  <2> DEFINE a == Len(x)
             b == Len(AppPacket(m))
             c == Len(m.payload)
  <2>3. a \in Nat /\ b \in Nat /\ c \in Nat /\ a <= b /\ c <= a /\ b <= 127
    BY <2>1, <2>2
  <2> HIDE DEF a, b, c
  <2>4. a < 128 /\ c < 128
    BY <2>3
  <2> QED BY <2>1, <2>4 DEF a, c
<1>4. AppPacket(m) = Whole(P, pm) /\ x = Whole(D, dm)
  BY Zenon DEF AppPacket
<1> HIDE DEF P, D, pm, dm, x
<1>5. Readable(P, pm)
  <2>1. \A i \in 1 .. Len(P) : P[i].type = "bytes" => Len(pm[P[i].name]) < 128
    BY <1>1, <1>3, ZenonT(60)
  <2>2. \A i \in 1 .. Len(P) : P[i].number <= 15 /\ P[i].type \notin {"sint", "fixed32"}
    BY <1>1, Zenon
  <2> QED BY <1>1, <2>1, <2>2, ReadableIs
<1>6. Readable(D, dm)
  <2>1. \A i \in 1 .. Len(D) : D[i].type = "bytes" => Len(dm[D[i].name]) < 128
    BY <1>2, <1>3, Zenon
  <2>2. \A i \in 1 .. Len(D) : D[i].number <= 15 /\ D[i].type \notin {"sint", "fixed32"}
    BY <1>2, Zenon
  <2> QED BY <1>2, <2>1, <2>2, ReadableIs
<1>7. /\ 1 \in 1 .. Len(P) /\ 4 \in 1 .. Len(P) /\ 5 \in 1 .. Len(P)
      /\ 1 \in 1 .. Len(D) /\ 2 \in 1 .. Len(D)
  BY <1>1, <1>2
<1>8. /\ P[1].type # "bytes" /\ P[4].type # "bytes" /\ D[1].type # "bytes"
  BY <1>1, <1>2
<1>9. LooseNumber(AppPacket(m), 2, Broadcast) = IF m.to = 0 THEN Broadcast ELSE m.to
  <2>1. LooseNumber(Whole(P, pm), P[1].number, Broadcast) =
            IF pm[P[1].name] = 0 THEN Broadcast ELSE pm[P[1].name]
    BY <1>5, <1>7, <1>8, LooseNumberIs
  <2> QED BY <1>1, <1>4, <2>1, ZenonT(60)
<1>10. LooseNumber(AppPacket(m), 7, 0) = m.want_ack
  <2>1. LooseNumber(Whole(P, pm), P[4].number, 0) =
            IF pm[P[4].name] = 0 THEN 0 ELSE pm[P[4].name]
    BY <1>5, <1>7, <1>8, LooseNumberIs
  <2> QED BY <1>1, <1>4, <2>1, ZenonT(60)
<1>11. LooseValue(AppPacket(m), 8, << >>) = x
  <2>1. LooseValue(Whole(P, pm), P[5].number, << >>) =
            IF IsWritten(P, pm, 5) THEN Content(P[5], pm[P[5].name]) ELSE << >>
    BY <1>5, <1>7, LooseValueIs
  <2>2. NoneOf("bytes") = << >>
    BY Zenon DEF NoneOf
  <2>3. IsWritten(P, pm, 5) <=> x # << >>
    BY <1>1, <2>2, Zenon DEF IsWritten
  <2>4. Content(P[5], pm[P[5].name]) = x
    BY <1>1, Zenon DEF Content
  <2> QED BY <1>1, <1>4, <2>1, <2>3, <2>4, Zenon
<1>12. LooseNumber(x, 1, 0) = m.port
  <2>1. LooseNumber(Whole(D, dm), D[1].number, 0) =
            IF dm[D[1].name] = 0 THEN 0 ELSE dm[D[1].name]
    BY <1>6, <1>7, <1>8, LooseNumberIs
  <2> QED BY <1>2, <1>4, <2>1, Zenon
<1>13. LooseValue(x, 2, NoData) = IF m.payload = << >> THEN NoData ELSE m.payload
  <2>1. LooseValue(Whole(D, dm), D[2].number, NoData) =
            IF IsWritten(D, dm, 2) THEN Content(D[2], dm[D[2].name]) ELSE NoData
    BY <1>6, <1>7, LooseValueIs
  <2>2. NoneOf("bytes") = << >>
    BY Zenon DEF NoneOf
  <2>3. IsWritten(D, dm, 2) <=> m.payload # << >>
    BY <1>2, <2>2, Zenon DEF IsWritten
  <2>4. Content(D[2], dm[D[2].name]) = m.payload
    BY <1>2, Zenon DEF Content
  <2> QED BY <1>2, <1>4, <2>1, <2>3, <2>4, Zenon
<1> QED BY <1>9, <1>10, <1>11, <1>12, <1>13, Zenon

\* What is found in the frame of a message is what the app asks for.
RequestIsMeant(m, r) ==
    /\ r.to = AskedOf(m).to /\ r.want = AskedOf(m).want /\ r.payload = AskedOf(m).payload
    /\ r.port = AskedOf(m).port

\* It is found unless the packet is long or has no payload.
LEMMA RequestIs ==
    ASSUME NEW m \in AppMessages
    PROVE  /\ Requests[m].found => RequestIsMeant(m, Requests[m]) /\ Requests[m].payload = m.payload
           /\ ~ Requests[m].found => Len(AppPacket(m)) > 127 \/ m.payload = << >>
<1> DEFINE frame == ToRadio(m)
           packet == SubSeq(frame, 3, 2 + frame[2])
           data == LooseValue(packet, 8, << >>)
           r == Requests[m]
<1>1. r = [found   |-> 2 + frame[2] <= Len(frame) /\ LooseValue(data, 2, NoData) # NoData,
           to      |-> LooseNumber(packet, 2, Broadcast),
           port    |-> AsNamed("port", LooseNumber(data, 1, 0)),
           payload |-> LooseValue(data, 2, NoData),
           want    |-> IF LooseNumber(packet, 7, 0) = 0 THEN 0 ELSE 1]
  BY Zenon DEF Requests
<1>2. AppOne(m)
  BY AppAll
<1>3. AppPacket(m) \in Seq(Byte) /\ Len(AppPacket(m)) \in Nat /\ Len(AppPacket(m)) <= 255
  BY <1>2, AppPacketRoom
<1>4. frame = << 10 >> \o Varint[Len(AppPacket(m))] \o AppPacket(m)
  BY Zenon DEF ToRadio
<1> HIDE DEF frame, r
<1>5. /\ r.found <=> (2 + frame[2] <= Len(frame) /\ LooseValue(data, 2, NoData) # NoData)
      /\ r.to = LooseNumber(packet, 2, Broadcast)
      /\ r.port = AsNamed("port", LooseNumber(data, 1, 0))
      /\ r.payload = LooseValue(data, 2, NoData)
      /\ r.want = IF LooseNumber(packet, 7, 0) = 0 THEN 0 ELSE 1
  <2> HIDE DEF packet, data
  <2> QED BY <1>1, Zenon
<1>6. /\ AskedOf(m).to = IF m.to = 0 THEN Broadcast ELSE m.to
      /\ AskedOf(m).port = AsNamed("port", m.port)
      /\ AskedOf(m).payload = m.payload /\ AskedOf(m).want = m.want_ack
  BY Zenon DEF AskedOf, Asked
<1>7. CASE Len(AppPacket(m)) <= 127
  <2>1. packet = AppPacket(m)
    BY <1>3, <1>4, <1>7, ShortFrame
  <2>2. /\ LooseNumber(packet, 2, Broadcast) = IF m.to = 0 THEN Broadcast ELSE m.to
        /\ LooseNumber(packet, 7, 0) = m.want_ack
        /\ LooseNumber(data, 1, 0) = m.port
        /\ LooseValue(data, 2, NoData) = IF m.payload = << >> THEN NoData ELSE m.payload
    BY <1>2, <1>7, <2>1, ShortIsRead, Zenon
  <2>3. 2 + frame[2] <= Len(frame)
    <3>1. frame[2] = Len(AppPacket(m)) /\ Len(frame) = 2 + Len(AppPacket(m))
      BY <1>3, <1>4, <1>7, ShortFrame
    <3> QED BY <1>3, <3>1
  <2>4. m.want_ack = 0 \/ m.want_ack = 1
    BY <1>2, Zenon DEF AppOne
  <2> HIDE DEF packet, data
  <2>5. r.to = AskedOf(m).to /\ r.port = AskedOf(m).port /\ r.want = AskedOf(m).want
    BY <1>5, <1>6, <2>2, <2>4, Zenon
  <2>6. r.found => r.payload = m.payload
    BY <1>5, <2>2, Zenon
  <2>7. ~ r.found => m.payload = << >>
    <3>1. m.payload # NoData
      <4>1. m.payload \in Seq(Byte)
        BY <1>2, Zenon DEF AppOne
      <4>2. NoData \notin Seq(Byte)
        <5> DEFINE nd == <<-1>>
        <5>1. ASSUME nd \in Seq(Byte) PROVE FALSE
          <6>1. Len(nd) = 1 /\ nd[1] = -1
            OBVIOUS
          <6> HIDE DEF nd
          <6>2. nd[1] \in Byte
            BY <5>1, <6>1
          <6> QED BY <6>1, <6>2 DEF Byte
        <5> QED BY <5>1 DEF NoData
      <4> QED BY <4>1, <4>2, Zenon
    <3> QED BY <1>5, <2>2, <2>3, <3>1, Zenon
  <2> QED BY <1>6, <2>5, <2>6, <2>7, Zenon DEF RequestIsMeant, r
<1>8. CASE Len(AppPacket(m)) > 127
  <2>1. packet \in Seq(Byte) /\ packet[1] = 1
    BY <1>3, <1>4, <1>8, LongFrame
  <2>2. data = << >>
    <3> HIDE DEF packet
    <3> QED BY <2>1, NothingIsRead
  <2>3. LooseValue(data, 2, NoData) = NoData
    <3> HIDE DEF data
    <3>1. data \in Seq(Byte) /\ Len(data) = 0
      BY <2>2
    <3> QED BY <3>1, NothingIsRead
  <2> HIDE DEF packet, data
  <2>4. ~ r.found
    BY <1>5, <2>3, Zenon
  <2> QED BY <1>8, <2>4, Zenon DEF r
<1> QED BY <1>3, <1>7, <1>8

\* A request that a packet can be made of.
IsRequest(r) ==
    /\ r.to \in Words /\ r.port \in Words /\ r.want \in {0, 1} /\ r.payload \in Seq(Byte)

RequestData(n, r) == DataOf(n, r.to, r.port, r.payload, r.want)

\* The data create_packet makes of it.
LEMMA RequestDataHas ==
    ASSUME NEW n \in MeshNodes, NEW r, IsRequest(r), Len(r.payload) <= MaxLoraPayload
    PROVE  /\ IsMessage(DataFields, RequestData(n, r))
           /\ RequestData(n, r)["port"] = r.port /\ RequestData(n, r)["payload"] = r.payload
<1> DEFINE S == DataFields
           g == [port |-> r.port, payload |-> r.payload, want_response |-> r.want,
                 source |-> n, dest |-> r.to]
<1>1. RequestData(n, r) = Message(S, g)
  BY Zenon DEF RequestData, DataOf
<1>2. /\ Fits("port", r.port) /\ Fits("bytes", r.payload) /\ Fits("bool", r.want)
      /\ Fits("uint", n) /\ Fits("uint", r.to)
  <2>1. n \in Words
    BY HandlerAssumption, Zenon DEF HandlerAssumption
  <2>2. Len(r.payload) \in Words
    <3>1. Len(r.payload) \in Nat /\ Len(r.payload) <= 65535
      BY DEF IsRequest, MaxLoraPayload
    <3> QED BY <3>1, SmallWords
  <2> QED BY <2>1, <2>2, PlainTypes, Zenon DEF Fits, IsRequest, Plainly
<1>3. /\ DOMAIN g = {"port", "payload", "want_response", "source", "dest"}
      /\ g["port"] = r.port /\ g["payload"] = r.payload /\ g["want_response"] = r.want
      /\ g["source"] = n /\ g["dest"] = r.to
  BY SMT
<1>4. /\ IsSchema(S) /\ Len(S) = 8
      /\ S[1].name = "port" /\ S[1].type = "port" /\ S[2].name = "payload" /\ S[2].type = "bytes"
      /\ S[3].name = "want_response" /\ S[3].type = "bool" /\ S[4].name = "dest" /\ S[4].type = "uint"
      /\ S[5].name = "source" /\ S[5].type = "uint"
      /\ \A i \in 6 .. 8 :
            S[i].name \notin {"port", "payload", "want_response", "dest", "source"}
  <2> HIDE DEF S
  <2> QED BY DataSchema, SMT DEF Field, S
<1> HIDE DEF S, g
<1>5. \A i \in 1 .. Len(S) : Message(S, g)[S[i].name] =
          IF S[i].name \in DOMAIN g THEN g[S[i].name] ELSE NoneOf(S[i].type)
  BY <1>4, MessageIs
<1>6. /\ 1 \in 1 .. Len(S) /\ 2 \in 1 .. Len(S)
      /\ \A i \in 1 .. Len(S) : i = 1 \/ i = 2 \/ i = 3 \/ i = 4 \/ i = 5 \/ i \in 6 .. 8
  BY <1>4
<1>7. Message(S, g)["port"] = r.port /\ Message(S, g)["payload"] = r.payload
  <2>1. S[1].name \in DOMAIN g /\ S[2].name \in DOMAIN g
    BY <1>3, <1>4, Zenon
  <2>2. Message(S, g)[S[1].name] = g[S[1].name] /\ Message(S, g)[S[2].name] = g[S[2].name]
    BY <1>5, <1>6, <2>1, Zenon
  <2> QED BY <1>3, <1>4, <2>2, Zenon
<1>8. \A i \in 1 .. Len(S) : S[i].name \in DOMAIN g => Fits(S[i].type, g[S[i].name])
  <2>1. /\ Fits(S[1].type, g[S[1].name]) /\ Fits(S[2].type, g[S[2].name])
        /\ Fits(S[3].type, g[S[3].name]) /\ Fits(S[4].type, g[S[4].name])
        /\ Fits(S[5].type, g[S[5].name])
    BY <1>2, <1>3, <1>4, Zenon
  <2>2. \A i \in 6 .. 8 : S[i].name \notin DOMAIN g
    BY <1>3, <1>4, Zenon
  <2> QED BY <1>6, <2>1, <2>2, Zenon
<1>9. IsMessage(S, Message(S, g))
  BY <1>4, <1>8, MessageFromFits
<1> QED BY <1>1, <1>7, <1>9, Zenon DEF S

\* When it fits a packet, it is read from the packet.
LEMMA RequestIsRead ==
    ASSUME NEW n \in MeshNodes, NEW r, IsRequest(r), Len(r.payload) <= MaxLoraPayload,
           Len(Whole(DataFields, RequestData(n, r))) <= MaxLoraPayload,
           NEW d, d = Encode(DataFields, RequestData(n, r), MaxLoraPayload)
    PROVE  /\ Decodes(d)
           /\ Decode(DataFields, d).port = AsNamed("port", r.port)
           /\ Decode(DataFields, d).payload = r.payload
<1> DEFINE S == DataFields
           m == RequestData(n, r)
<1>1. /\ IsSchema(S) /\ Len(S) = 8
      /\ S[1].name = "port" /\ S[1].type = "port" /\ S[2].name = "payload" /\ S[2].type = "bytes"
  <2> HIDE DEF S
  <2> QED BY DataSchema, SMT DEF Field, S
<1>2. IsMessage(S, m) /\ m["port"] = r.port /\ m["payload"] = r.payload
  BY RequestDataHas
<1>3. MaxLoraPayload \in Nat
  BY DEF MaxLoraPayload
<1> HIDE DEF S, m
<1>4. d = Whole(S, m)
  <2>1. Len(Whole(S, m)) <= MaxLoraPayload /\ d = Encode(S, m, MaxLoraPayload)
    BY DEF S, m
  <2> QED BY <1>1, <1>2, <1>3, <2>1, EncodeWhole
<1>5. IsReader(S, S)
  BY <1>1, Zenon DEF IsReader, IsSchema
<1>6. /\ Decodes(d)
      /\ \A i \in 1 .. Len(S) : Decode(S, d)[S[i].name] = ReadAs(S[i], S[i], m[S[i].name])
  <2>1. IsSchema(S) /\ IsMessage(S, m)
    BY <1>1, <1>2
  <2>2. \A e : e = Whole(S, m) =>
            /\ Decodes(e)
            /\ \A i \in 1 .. Len(S) : Decode(S, e)[S[i].name] = ReadAs(S[i], S[i], m[S[i].name])
    BY <1>5, <2>1, RoundTrip
  <2> QED BY <1>4, <2>2, Zenon
<1>7. 1 \in 1 .. Len(S) /\ 2 \in 1 .. Len(S)
  BY <1>1
<1>8. Decode(S, d)["port"] = AsNamed("port", r.port)
  <2>1. S[1].type \in Plainly
    BY <1>1, Zenon DEF Plainly
  <2>2. ReadAs(S[1], S[1], m[S[1].name]) = AsNamed(S[1].type, m[S[1].name])
    BY <2>1, PlainIsRead
  <2> QED BY <1>1, <1>2, <1>6, <1>7, <2>2, Zenon
<1>9. Decode(S, d)["payload"] = r.payload
  <2>1. "bytes" \notin DOMAIN Named
    BY SMT DEF Named
  <2>2. AsNamed("bytes", r.payload) = r.payload
    BY <2>1, Zenon DEF AsNamed
  <2>3. S[2].type \in Plainly
    BY <1>1, Zenon DEF Plainly
  <2>4. ReadAs(S[2], S[2], m[S[2].name]) = AsNamed(S[2].type, m[S[2].name])
    BY <2>3, PlainIsRead
  <2> QED BY <1>1, <1>2, <1>6, <1>7, <2>2, <2>4, Zenon
<1> QED BY <1>6, <1>8, <1>9, Zenon DEF S

\* The next identifier is one.
LEMMA NextPacketIdIs ==
    ASSUME NEW id \in 0 .. IdModulus - 1
    PROVE  NextPacketId(id) \in 0 .. IdModulus - 1
<1>1. IdModulus \in Nat /\ IdModulus >= 2
  BY HandlerAssumption, Zenon DEF HandlerAssumption
<1> QED BY <1>1 DEF NextPacketId

\* A packet says what is meant by it.
SaysWhatIsMeant(p, s) ==
    /\ s.from = p.from /\ s.to = p.to /\ s.id = p.id /\ s.want_ack = p.want_ack /\ s.key = p.key
    /\ s.fits => /\ Decodes(p.plain)
                 /\ Decode(DataFields, p.plain).port = s.port
                 /\ Decode(DataFields, p.plain).payload = s.payload

AirIsMeant == \A p \in air : \E s \in meant : SaysWhatIsMeant(p, s)

\* A request to make a packet of, and what is asked by it.
IsAsked(r, asked) ==
    /\ IsRequest(r) /\ r.to = asked.to /\ r.want = asked.want /\ r.payload = asked.payload
    /\ asked.port = AsNamed("port", r.port)

\* create_packet puts on the air what is meant.
LEMMA CreatedIsMeant ==
    ASSUME NEW n \in MeshNodes, NEW r, NEW asked, IsAsked(r, asked), HandlerTypeOK, AirIsMeant,
           CreatePacket(n, r, asked)
    PROVE  /\ lastPacketId' \in [MeshNodes -> 0 .. IdModulus - 1]
           /\ \A p \in air' : Len(p.plain) <= LongestData
           /\ AirIsMeant' /\ meant \subseteq meant'
           /\ \A u \in unsent' :
                 u \in unsent \/ Len(u.payload) > MaxLoraPayload \/ u.size > LongestData
<1> DEFINE id == NextPacketId(lastPacketId[n])
           data == RequestData(n, r)
           new == LoraPacket(n, r.to, id, data, r.want)
           said == [from |-> n, to |-> asked.to, id |-> id, want_ack |-> asked.want,
                    key |-> channelKey[n], port |-> asked.port, payload |-> asked.payload,
                    fits |-> Len(Whole(DataFields, data)) <= LongestData]
           lost == [payload |-> asked.payload, size |-> Len(Whole(DataFields, data))]
           plain == Encode(DataFields, data, MaxLoraPayload)
<1>1. IsRequest(r)
  BY Zenon DEF IsAsked
<1>2. lastPacketId' \in [MeshNodes -> 0 .. IdModulus - 1]
  <2>1. lastPacketId' = [lastPacketId EXCEPT ![n] = id]
    BY Zenon DEF CreatePacket
  <2>2. lastPacketId \in [MeshNodes -> 0 .. IdModulus - 1]
    BY Zenon DEF HandlerTypeOK
  <2>3. id \in 0 .. IdModulus - 1
    BY <2>2, NextPacketIdIs
  <2> HIDE DEF id
  <2> QED BY <2>1, <2>2, <2>3
<1>plain. new.plain = plain
  <2> HIDE DEF id, data
  <2> QED BY SMT DEF LoraPacket
<1>sizes. /\ MaxLoraPayload = 237 /\ LongestData = 236
  BY DEF MaxLoraPayload, LongestData
<1>3. CASE Len(r.payload) > MaxLoraPayload \/ Len(plain) > LongestData
  <2>1. air' = air /\ meant' = meant /\ unsent' = unsent \cup {lost}
    BY <1>3, <1>plain, Zenon DEF CreatePacket, RequestData
  <2>2. lost.payload = r.payload /\ lost.size = Len(Whole(DataFields, data))
    <3>1. r.payload = asked.payload
      BY Zenon DEF IsAsked
    <3> HIDE DEF data
    <3> QED BY <3>1, Zenon
  <2>3. Len(r.payload) > MaxLoraPayload \/ Len(Whole(DataFields, data)) > LongestData
    <3> SUFFICES ASSUME ~ (Len(r.payload) > MaxLoraPayload)
                 PROVE  Len(Whole(DataFields, data)) > LongestData
      BY Zenon
    <3>1. Len(r.payload) <= MaxLoraPayload
      <4>1. Len(r.payload) \in Nat
        BY <1>1 DEF IsRequest
      <4> QED BY <1>sizes, <4>1
    <3>2. IsSchema(DataFields) /\ IsMessage(DataFields, data) /\ MaxLoraPayload \in Nat
      BY <1>1, <1>sizes, <3>1, DataSchema, RequestDataHas, SMT
    <3>3. Len(Whole(DataFields, data)) <= MaxLoraPayload => plain = Whole(DataFields, data)
      BY <3>2, EncodeWhole
    <3>4. Len(Whole(DataFields, data)) \in Nat
      <4>1. Whole(DataFields, data) \in Seq(Byte)
        BY <3>2, WholeGrows
      <4> HIDE DEF data
      <4> QED BY <4>1
    <3>5. Len(plain) > LongestData
      BY <1>3, Zenon
    <3> HIDE DEF plain, data
    <3> QED BY <1>sizes, <3>3, <3>4, <3>5
  <2>4. \A u \in unsent' :
            u \in unsent \/ Len(u.payload) > MaxLoraPayload \/ u.size > LongestData
    <3> HIDE DEF lost, data
    <3> QED BY <2>1, <2>2, <2>3, Zenon
  <2> QED BY <1>2, <2>1, <2>4, Zenon DEF AirIsMeant, HandlerTypeOK
<1>4. CASE ~ (Len(r.payload) > MaxLoraPayload \/ Len(plain) > LongestData)
  <2>1. air' = air \cup {new} /\ meant' = meant \cup {said} /\ unsent' = unsent
    BY <1>4, <1>plain, Zenon DEF CreatePacket, RequestData
  <2>2. Len(r.payload) <= MaxLoraPayload
    <3>1. Len(r.payload) \in Nat
      BY <1>1 DEF IsRequest
    <3> QED BY <1>4, <3>1 DEF MaxLoraPayload
  <2>3. IsSchema(DataFields) /\ IsMessage(DataFields, data) /\ MaxLoraPayload \in Nat
    BY <1>1, <2>2, DataSchema, RequestDataHas, SMT DEF MaxLoraPayload
  <2>4. Len(plain) <= LongestData
    <3>1. Len(plain) \in Nat
      <4>1. plain \in Seq(Byte)
        BY <2>3, EncodeFits
      <4> HIDE DEF plain
      <4> QED BY <4>1
    <3>2. ~ (Len(plain) > LongestData)
      BY <1>4, Zenon
    <3> HIDE DEF plain
    <3> QED BY <1>sizes, <3>1, <3>2
  <2> HIDE DEF id, data
  <2>5. /\ new.from = n /\ new.to = r.to /\ new.id = id /\ new.want_ack = r.want
        /\ new.key = channelKey[n] /\ new.plain = plain
    <3> HIDE DEF plain
    <3> QED BY SMT DEF LoraPacket, plain
  <2>6. /\ said.from = n /\ said.to = asked.to /\ said.id = id /\ said.want_ack = asked.want
        /\ said.key = channelKey[n] /\ said.port = asked.port /\ said.payload = asked.payload
        /\ said.fits <=> Len(Whole(DataFields, data)) <= LongestData
    BY Zenon
  <2> HIDE DEF new, said, plain
  <2>7. r.to = asked.to /\ r.want = asked.want /\ r.payload = asked.payload
        /\ asked.port = AsNamed("port", r.port)
    BY Zenon DEF IsAsked
  <2>8. ASSUME said.fits
        PROVE  /\ Decodes(plain) /\ Decode(DataFields, plain).port = said.port
               /\ Decode(DataFields, plain).payload = said.payload
    <3>1. Len(Whole(DataFields, RequestData(n, r))) <= MaxLoraPayload
      <4>1. Len(Whole(DataFields, data)) <= LongestData
        BY <2>6, <2>8, Zenon
      <4>2. Len(Whole(DataFields, data)) \in Nat
        <5>1. Whole(DataFields, data) \in Seq(Byte)
          BY <2>3, WholeGrows
        <5> QED BY <5>1
      <4>3. Len(Whole(DataFields, data)) <= MaxLoraPayload
        BY <1>sizes, <4>1, <4>2
      <4> QED BY <4>3, Zenon DEF data
    <3>2. plain = Encode(DataFields, RequestData(n, r), MaxLoraPayload)
      BY Zenon DEF plain, data
    <3>3. /\ Decodes(plain)
          /\ Decode(DataFields, plain).port = AsNamed("port", r.port)
          /\ Decode(DataFields, plain).payload = r.payload
      BY <1>1, <2>2, <3>1, <3>2, RequestIsRead
    <3> QED BY <2>6, <2>7, <3>3, Zenon
  <2>9. SaysWhatIsMeant(new, said)
    BY <2>5, <2>6, <2>7, <2>8, Zenon DEF SaysWhatIsMeant
  <2>10. AirIsMeant'
    <3> SUFFICES ASSUME NEW p \in air' PROVE \E s \in meant' : SaysWhatIsMeant(p, s)
      BY Zenon DEF AirIsMeant, SaysWhatIsMeant
    <3>1. CASE p \in air
      BY <2>1, <3>1, Zenon DEF AirIsMeant
    <3>2. CASE p = new
      BY <2>1, <2>9, <3>2, Zenon
    <3> QED BY <2>1, <3>1, <3>2, Zenon
  <2>11. \A p \in air' : Len(p.plain) <= LongestData
    <3> SUFFICES ASSUME NEW p \in air' PROVE Len(p.plain) <= LongestData
      OBVIOUS
    <3>1. p \in air \/ p = new
      BY <2>1, Zenon
    <3> QED BY <2>4, <2>5, <3>1, Zenon DEF HandlerTypeOK
  <2>12. meant \subseteq meant'
    BY <2>1, Zenon
  <2> QED BY <1>2, <2>1, <2>10, <2>11, <2>12, Zenon
<1> QED BY <1>3, <1>4

\* What is on the air says what was meant, and so does what is heard of it.
HandlerInv == HandlerTypeOK /\ AirIsMeant /\ HeardAsMeant

\* At first nothing is on the air, and nothing was told.
LEMMA HandlerInvAtFirst == HandlerInit => HandlerInv
<1> SUFFICES ASSUME HandlerInit PROVE HandlerInv
  OBVIOUS
<1>1. 0 \in 0 .. IdModulus - 1
  <2>1. IdModulus \in Nat /\ IdModulus >= 2
    BY HandlerAssumption, Zenon DEF HandlerAssumption
  <2> QED BY <2>1
<1>2. lastPacketId \in [MeshNodes -> 0 .. IdModulus - 1]
  <2>1. lastPacketId = [n \in MeshNodes |-> 0]
    BY Zenon DEF HandlerInit
  <2> QED BY <1>1, <2>1
<1>3. /\ channelKey \in [MeshNodes -> ChannelKeys]
      /\ air = {} /\ told = {} /\ refused = {} /\ unsent = {}
  BY Zenon DEF HandlerInit
<1> QED BY <1>2, <1>3, Zenon DEF HandlerInv, HandlerTypeOK, AirIsMeant, HeardAsMeant

\* What was told stays true of what was meant.
LEMMA ToldStays ==
    ASSUME HeardAsMeant, meant \subseteq meant', UNCHANGED <<channelKey, told>>,
           \A m \in refused' : m \in refused \/ Len(AppPacket(m)) > 127 \/ m.payload = << >>,
           \A u \in unsent' :
              u \in unsent \/ Len(u.payload) > MaxLoraPayload \/ u.size > LongestData
    PROVE  HeardAsMeant'
<1>1. \A h \in told' : \E s \in meant' :
          /\ s.from = h.from /\ s.to = h.to /\ s.id = h.id /\ s.want_ack = h.want_ack
          /\ s.key = channelKey'[h.at] /\ s.fits =>
                h.message = [decoded |-> TRUE, port |-> s.port, payload |-> s.payload]
  <2> SUFFICES ASSUME NEW h \in told'
               PROVE  \E s \in meant' :
                        /\ s.from = h.from /\ s.to = h.to /\ s.id = h.id /\ s.want_ack = h.want_ack
                        /\ s.key = channelKey'[h.at] /\ s.fits =>
                              h.message = [decoded |-> TRUE, port |-> s.port, payload |-> s.payload]
    BY Zenon
  <2>1. h \in told /\ channelKey' = channelKey
    BY Zenon
  <2>2. PICK s \in meant :
            /\ s.from = h.from /\ s.to = h.to /\ s.id = h.id /\ s.want_ack = h.want_ack
            /\ s.key = channelKey[h.at] /\ s.fits =>
                  h.message = [decoded |-> TRUE, port |-> s.port, payload |-> s.payload]
    BY <2>1, Zenon DEF HeardAsMeant
  <2> QED BY <2>1, <2>2, Zenon
<1>2. \A m \in refused' : Len(AppPacket(m)) > 127 \/ m.payload = << >>
  BY Zenon DEF HeardAsMeant
<1>3. \A u \in unsent' : Len(u.payload) > MaxLoraPayload \/ u.size > LongestData
  BY Zenon DEF HeardAsMeant
<1> QED BY <1>1, <1>2, <1>3, Zenon DEF HeardAsMeant, AppPacket, MaxLoraPayload, LongestData

\* A packet of create_packet.
LEMMA CreateKeeps ==
    ASSUME HandlerInv, NEW n \in MeshNodes, NEW r, NEW asked, IsAsked(r, asked),
           CreatePacket(n, r, asked), UNCHANGED <<channelKey, told, refused>>
    PROVE  HandlerInv'
<1>1. HandlerTypeOK /\ AirIsMeant /\ HeardAsMeant
  BY Zenon DEF HandlerInv
<1>2. /\ lastPacketId' \in [MeshNodes -> 0 .. IdModulus - 1]
      /\ \A p \in air' : Len(p.plain) <= LongestData
      /\ AirIsMeant' /\ meant \subseteq meant'
      /\ \A u \in unsent' :
            u \in unsent \/ Len(u.payload) > MaxLoraPayload \/ u.size > LongestData
  BY <1>1, CreatedIsMeant
<1>3. HandlerTypeOK'
  BY <1>1, <1>2, Zenon DEF HandlerTypeOK, LongestData
<1>4. HeardAsMeant'
  BY <1>1, <1>2, ToldStays
<1> QED BY <1>2, <1>3, <1>4, Zenon DEF HandlerInv

\* A frame of an app.
LEMMA FromAppKeeps ==
    ASSUME HandlerInv, NEW n \in MeshNodes, NEW m \in AppMessages, FromApp(n, m)
    PROVE  HandlerInv'
<1> DEFINE r == Requests[m]
<1>1. /\ r.found => /\ CreatePacket(n, r, AskedOf(m)) /\ UNCHANGED refused
      /\ ~ r.found => refused' = refused \cup {m} /\ UNCHANGED <<lastPacketId, air, meant, unsent>>
      /\ UNCHANGED <<channelKey, told>>
  <2> HIDE DEF r
  <2>1. \E q \in {r} :
          /\ IF q.found
             THEN CreatePacket(n, q, AskedOf(m)) /\ UNCHANGED refused
             ELSE refused' = refused \cup {m} /\ UNCHANGED <<lastPacketId, air, meant, unsent>>
          /\ UNCHANGED <<channelKey, told, config, meshRestarts>>
    BY Zenon DEF FromApp, r
  <2> QED BY <2>1, Zenon
<1>2. /\ r.found => RequestIsMeant(m, r) /\ r.payload = m.payload
      /\ ~ r.found => Len(AppPacket(m)) > 127 \/ m.payload = << >>
  BY RequestIs
<1> HIDE DEF r
<1>3. AppOne(m) /\ Broadcast \in Words
  BY AppAll, HandlerAssumption, Zenon DEF HandlerAssumption
<1>4. CASE r.found
  <2>1. /\ AskedOf(m).to = IF m.to = 0 THEN Broadcast ELSE m.to
        /\ AskedOf(m).port = AsNamed("port", m.port)
        /\ AskedOf(m).payload = m.payload /\ AskedOf(m).want = m.want_ack
    BY Zenon DEF AskedOf, Asked
  <2>2. /\ r.to = AskedOf(m).to /\ r.want = AskedOf(m).want
        /\ r.payload = AskedOf(m).payload /\ r.port = AskedOf(m).port
    BY <1>2, <1>4, Zenon DEF RequestIsMeant
  <2>3. AsNamed("port", m.port) \in Words
        /\ AsNamed("port", AsNamed("port", m.port)) = AsNamed("port", m.port)
    <3>1. m.port \in Words
      BY <1>3, Zenon DEF AppOne
    <3> QED BY <3>1, NamedStays
  <2>4. m.to \in Words /\ m.payload \in Seq(Byte) /\ m.want_ack \in {0, 1}
    BY <1>3, Zenon DEF AppOne
  <2>5. IsRequest(r)
    <3>1. r.to \in Words
      BY <1>3, <2>1, <2>2, <2>4, Zenon
    <3>2. r.port \in Words /\ r.want \in {0, 1} /\ r.payload \in Seq(Byte)
      BY <2>1, <2>2, <2>3, <2>4, Zenon
    <3> QED BY <3>1, <3>2, Zenon DEF IsRequest
  <2>6. IsAsked(r, AskedOf(m))
    BY <2>1, <2>2, <2>3, <2>5, Zenon DEF IsAsked
  <2>7. CreatePacket(n, r, AskedOf(m)) /\ UNCHANGED <<channelKey, told, refused>>
    BY <1>1, <1>4, Zenon
  <2> QED BY <2>6, <2>7, CreateKeeps
<1>5. CASE ~ r.found
  <2>1. /\ refused' = refused \cup {m} /\ lastPacketId' = lastPacketId /\ air' = air /\ meant' = meant
        /\ channelKey' = channelKey /\ told' = told /\ unsent' = unsent
    BY <1>1, <1>5, Zenon
  <2>2. HandlerTypeOK /\ AirIsMeant /\ HeardAsMeant
    BY Zenon DEF HandlerInv
  <2>3. HandlerTypeOK'
    BY <2>1, <2>2, Zenon DEF HandlerTypeOK
  <2>4. AirIsMeant'
    BY <2>1, <2>2, Zenon DEF AirIsMeant
  <2>5. \A x \in refused' : x \in refused \/ Len(AppPacket(x)) > 127 \/ x.payload = << >>
    BY <1>2, <1>5, <2>1, Zenon
  <2>6. HeardAsMeant'
    <3>1. meant \subseteq meant' /\ UNCHANGED <<channelKey, told>> /\ \A u \in unsent' : u \in unsent
      BY <2>1, Zenon
    <3> QED BY <2>2, <2>5, <3>1, ToldStays
  <2> QED BY <2>3, <2>4, <2>6, Zenon DEF HandlerInv
<1> QED BY <1>4, <1>5

\* A packet that is heard.
LEMMA HearKeeps ==
    ASSUME HandlerInv, NEW n \in MeshNodes, NEW p \in air, Hear(n, p)
    PROVE  HandlerInv'
<1>1. HandlerTypeOK /\ AirIsMeant /\ HeardAsMeant
  BY Zenon DEF HandlerInv
<1>2. PICK message \in Decrypted(n, p) :
        told' = told \cup {[at |-> n, from |-> p.from, to |-> p.to, id |-> p.id,
                            want_ack |-> p.want_ack, message |-> message]}
  BY Zenon DEF Hear
<1>3. /\ lastPacketId' = lastPacketId /\ channelKey' = channelKey /\ air' = air
      /\ meant' = meant /\ refused' = refused /\ unsent' = unsent
  BY Zenon DEF Hear
<1>4. HandlerTypeOK'
  BY <1>1, <1>3, Zenon DEF HandlerTypeOK
<1>5. AirIsMeant'
  BY <1>1, <1>3, Zenon DEF AirIsMeant
<1>6. PICK s \in meant : SaysWhatIsMeant(p, s)
  BY <1>1, Zenon DEF AirIsMeant
<1>7. ASSUME s.key = channelKey[n], s.fits
      PROVE  message = [decoded |-> TRUE, port |-> s.port, payload |-> s.payload]
  <2>1. p.key = channelKey[n] /\ Decodes(p.plain)
        /\ Decode(DataFields, p.plain).port = s.port
        /\ Decode(DataFields, p.plain).payload = s.payload
    BY <1>6, <1>7, Zenon DEF SaysWhatIsMeant
  <2>2. Decrypted(n, p) =
            {[decoded |-> TRUE, port |-> Decode(DataFields, p.plain).port,
              payload |-> Decode(DataFields, p.plain).payload]}
    BY <2>1, Zenon DEF Decrypted
  <2> QED BY <2>1, <2>2, Zenon
<1> DEFINE new == [at |-> n, from |-> p.from, to |-> p.to, id |-> p.id,
                   want_ack |-> p.want_ack, message |-> message]
<1>8. /\ new.at = n /\ new.from = p.from /\ new.to = p.to /\ new.id = p.id
      /\ new.want_ack = p.want_ack /\ new.message = message
  BY Zenon
<1>9. told' = told \cup {new}
  BY <1>2
<1> HIDE DEF new
<1>10. /\ s.from = new.from /\ s.to = new.to /\ s.id = new.id /\ s.want_ack = new.want_ack
       /\ s.key = channelKey[new.at] /\ s.fits =>
             new.message = [decoded |-> TRUE, port |-> s.port, payload |-> s.payload]
  <2>1. s.from = p.from /\ s.to = p.to /\ s.id = p.id /\ s.want_ack = p.want_ack
    BY <1>6, Zenon DEF SaysWhatIsMeant
  <2> QED BY <1>7, <1>8, <2>1, Zenon
<1>11. HeardAsMeant'
  <2>1. ASSUME NEW h \in told'
        PROVE  \E t \in meant' :
                 /\ t.from = h.from /\ t.to = h.to /\ t.id = h.id /\ t.want_ack = h.want_ack
                 /\ t.key = channelKey'[h.at] /\ t.fits =>
                       h.message = [decoded |-> TRUE, port |-> t.port, payload |-> t.payload]
    <3>1. CASE h \in told
      <4>1. PICK t \in meant :
                 /\ t.from = h.from /\ t.to = h.to /\ t.id = h.id /\ t.want_ack = h.want_ack
                 /\ t.key = channelKey[h.at] /\ t.fits =>
                       h.message = [decoded |-> TRUE, port |-> t.port, payload |-> t.payload]
        BY <1>1, <3>1, Zenon DEF HeardAsMeant
      <4> QED BY <1>3, <4>1, Zenon
    <3>2. CASE h = new
      BY <1>3, <1>10, <3>2, Zenon
    <3> QED BY <1>9, <3>1, <3>2, Zenon
  <2>2. \A m \in refused' : Len(AppPacket(m)) > 127 \/ m.payload = << >>
    BY <1>1, <1>3, Zenon DEF HeardAsMeant
  <2>3. \A u \in unsent' : Len(u.payload) > MaxLoraPayload \/ u.size > LongestData
    BY <1>1, <1>3, Zenon DEF HeardAsMeant
  <2> QED BY <2>1, <2>2, <2>3, Zenon DEF HeardAsMeant, AppPacket, MaxLoraPayload, LongestData
<1> QED BY <1>4, <1>5, <1>11, Zenon DEF HandlerInv

\* What changes nothing of all this.
LEMMA OtherKeeps ==
    ASSUME HandlerInv, UNCHANGED <<channelKey, air, meant, told, refused, unsent>>,
           lastPacketId' \in [MeshNodes -> 0 .. IdModulus - 1]
    PROVE  HandlerInv'
<1>1. HandlerTypeOK /\ AirIsMeant /\ HeardAsMeant
  BY Zenon DEF HandlerInv
<1>2. HandlerTypeOK'
  BY <1>1, Zenon DEF HandlerTypeOK
<1>3. AirIsMeant'
  BY <1>1, Zenon DEF AirIsMeant
<1>4. HeardAsMeant'
  <2>1. meant \subseteq meant' /\ (\A m \in refused' : m \in refused) /\ \A u \in unsent' : u \in unsent
    BY Zenon
  <2> QED BY <1>1, <2>1, ToldStays
<1> QED BY <1>2, <1>3, <1>4, Zenon DEF HandlerInv

\* Every step keeps the invariant.
LEMMA HandlerInvIsKept == HandlerInv /\ [HandlerNext]_handlerVars => HandlerInv'
<1> SUFFICES ASSUME HandlerInv, [HandlerNext]_handlerVars PROVE HandlerInv'
  OBVIOUS
<1>1. lastPacketId \in [MeshNodes -> 0 .. IdModulus - 1]
  BY Zenon DEF HandlerInv, HandlerTypeOK
<1>2. CASE UNCHANGED handlerVars
  <2>1. UNCHANGED <<lastPacketId, channelKey, air, meant, told, refused, unsent>>
    BY <1>2, Zenon DEF handlerVars
  <2>2. lastPacketId' \in [MeshNodes -> 0 .. IdModulus - 1]
    BY <1>1, <2>1, Zenon
  <2> QED BY <2>1, <2>2, OtherKeeps
<1>3. CASE HandlerNext
  <2>1. PICK n \in MeshNodes :
            \/ \E m \in AppMessages : FromApp(n, m)
            \/ \E text \in Texts : CreateText(n, text)
            \/ \E position \in Positions : CreatePosition(n, position)
            \/ \E p \in air : Hear(n, p)
            \/ WantConfig(n, 7)
            \/ MeshRestart(n)
    BY <1>3, Zenon DEF HandlerNext
  <2>2. ASSUME NEW m \in AppMessages, FromApp(n, m) PROVE HandlerInv'
    BY <2>2, FromAppKeeps
  <2>3. ASSUME NEW text \in Texts, CreateText(n, text) PROVE HandlerInv'
    <3> DEFINE r == Asked(Broadcast, 1, text, 1)
    <3>1. CreatePacket(n, r, r) /\ UNCHANGED <<channelKey, told, refused>>
      BY <2>3, Zenon DEF CreateText
    <3>2. r.to = Broadcast /\ r.port = 1 /\ r.payload = text /\ r.want = 1
      BY Zenon DEF Asked
    <3>3. Broadcast \in Words /\ text \in Seq(Byte)
      BY HandlerAssumption, Zenon DEF HandlerAssumption
    <3>4. 1 \in Words /\ AsNamed("port", 1) = 1
      <4>1. 1 \in Words
        BY SmallWords
      <4>2. 1 \in Named["port"]
        BY SMT DEF Named
      <4> QED BY <4>1, <4>2, Zenon DEF AsNamed
    <3> HIDE DEF r
    <3>5. IsAsked(r, r)
      BY <3>2, <3>3, <3>4, Zenon DEF IsAsked, IsRequest
    <3> QED BY <3>1, <3>5, CreateKeeps
  <2>4. ASSUME NEW position \in Positions, CreatePosition(n, position) PROVE HandlerInv'
    <3> DEFINE bytes == Encode(PositionFields, position, MaxLoraPayload)
               r == Asked(Broadcast, 3, bytes, 0)
    <3>1. CreatePacket(n, r, r) /\ UNCHANGED <<channelKey, told, refused>>
      BY <2>4, Zenon DEF CreatePosition
    <3>2. bytes \in Seq(Byte)
      <4>1. IsSchema(PositionFields)
        <5>1. Listed(PositionFields)
          BY SMT DEF Listed, Field, PositionFields
        <5> QED BY <5>1, ListedIsSchema
      <4>2. IsMessage(PositionFields, position)
        <5>1. \A s \in ToSet(PositionFields) : Fits(s.type, position[s.name])
          BY HandlerAssumption, Zenon DEF HandlerAssumption
        <5>2. \A i \in 1 .. Len(PositionFields) : PositionFields[i] \in ToSet(PositionFields)
          BY <4>1, Zenon DEF ToSet, IsSchema
        <5> QED BY <5>1, <5>2, Zenon DEF IsMessage
      <4>3. MaxLoraPayload \in Nat
        BY DEF MaxLoraPayload
      <4> QED BY <4>1, <4>2, <4>3, EncodeFits
    <3> HIDE DEF bytes
    <3>3. r.to = Broadcast /\ r.port = 3 /\ r.payload = bytes /\ r.want = 0
      BY Zenon DEF Asked
    <3>4. Broadcast \in Words
      BY HandlerAssumption, Zenon DEF HandlerAssumption
    <3>5. 3 \in Words /\ AsNamed("port", 3) = 3
      <4>1. 3 \in Words
        BY SmallWords
      <4>2. 3 \in Named["port"]
        BY SMT DEF Named
      <4> QED BY <4>1, <4>2, Zenon DEF AsNamed
    <3> HIDE DEF r
    <3>6. IsAsked(r, r)
      BY <3>2, <3>3, <3>4, <3>5, Zenon DEF IsAsked, IsRequest
    <3> QED BY <3>1, <3>6, CreateKeeps
  <2>5. ASSUME NEW p \in air, Hear(n, p) PROVE HandlerInv'
    BY <2>5, HearKeeps
  <2>6. CASE WantConfig(n, 7)
    <3>1. UNCHANGED <<channelKey, air, meant, told, refused, unsent>> /\ lastPacketId' = lastPacketId
      BY <2>6, Zenon DEF WantConfig
    <3>2. lastPacketId' \in [MeshNodes -> 0 .. IdModulus - 1]
      BY <1>1, <3>1, Zenon
    <3> QED BY <3>1, <3>2, OtherKeeps
  <2>7. CASE MeshRestart(n)
    <3>1. /\ UNCHANGED <<channelKey, air, meant, told, refused, unsent>>
          /\ lastPacketId' = [lastPacketId EXCEPT ![n] = 0]
      BY <2>7, Zenon DEF MeshRestart
    <3>2. 0 \in 0 .. IdModulus - 1
      <4>1. IdModulus \in Nat /\ IdModulus >= 2
        BY HandlerAssumption, Zenon DEF HandlerAssumption
      <4> QED BY <4>1
    <3>3. lastPacketId' \in [MeshNodes -> 0 .. IdModulus - 1]
      BY <1>1, <3>1, <3>2
    <3> QED BY <3>1, <3>3, OtherKeeps
  <2> QED BY <2>1, <2>2, <2>3, <2>4, <2>5, <2>6, <2>7, Zenon
<1> QED BY <1>2, <1>3

\* It holds in every behaviour.
LEMMA HandlerInvHolds == HandlerSpec => []HandlerInv
<1>1. HandlerInit => HandlerInv
  BY HandlerInvAtFirst
<1>2. HandlerInv /\ [HandlerNext]_handlerVars => HandlerInv'
  BY HandlerInvIsKept
<1> QED BY <1>1, <1>2, PTL DEF HandlerSpec

\* The types of the handlers' state, for any nodes, keys and messages.
THEOREM HandlersKeepTypes == HandlerSpec => []HandlerTypeOK
<1>1. HandlerInv => HandlerTypeOK
  BY Zenon DEF HandlerInv
<1> QED BY <1>1, HandlerInvHolds, PTL

\* What an app asks its node to say is what the apps of the nodes with the same
\* key are told, if its data fit in 236 bytes; and nothing is lost before the air
\* but what the loose parser of the frame cannot read and what does not fit
\* (process_toradio, create_packet, build_lora_packet, process_lora_packet).
THEOREM WhatIsHeardWasMeant == HandlerSpec => []HeardAsMeant
<1>1. HandlerInv => HeardAsMeant
  BY Zenon DEF HandlerInv
<1> QED BY <1>1, HandlerInvHolds, PTL
=============================================================================
