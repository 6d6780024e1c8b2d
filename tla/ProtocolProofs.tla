--------------------------- MODULE ProtocolProofs ---------------------------
(***************************************************************************)
(* Proofs about the protocol (Protocol.tla), for bytes of any size, any    *)
(* messages whose fields fit their widths, and any number of them: the     *)
(* header's integers travel in network byte order and come back as they    *)
(* were; and however send and recv cut the stream, and wherever it breaks, *)
(* what is received are the messages that were sent, whole and in order.   *)
(***************************************************************************)
EXTENDS Protocol, SequenceTheorems, TLAPS

-----------------------------------------------------------------------------
(* Digits.  All integers of the header have four or eight bytes. *)

LEMMA BaseFacts ==
    /\ Base \in Nat /\ Base > 1 /\ Half \in Nat /\ Half > 1
    /\ Half * Half \in Nat
BY ProtocolAssumption DEF Half

(* Division with remainder is unique. *)
LEMMA DivisionUnique ==
    ASSUME NEW n \in Nat, n > 0, NEW p \in Nat, NEW r \in 0 .. n - 1
    PROVE  (p * n + r) \div n = p /\ (p * n + r) % n = r /\ p * n + r \in Nat
OBVIOUS

LEMMA Division ==
    ASSUME NEW n \in Nat, n > 0, NEW x \in Nat
    PROVE  /\ x \div n \in Nat /\ x % n \in 0 .. n - 1
           /\ x = (x \div n) * n + (x % n)
OBVIOUS

LEMMA ByteOff ==
    ASSUME NEW x \in Nat
    PROVE  x \div Base \in Nat /\ x = (x \div Base) * Base + (x % Base)
BY Division, BaseFacts

LEMMA DivisionBound ==
    ASSUME NEW n \in Nat, n > 0, NEW x \in Nat, NEW m \in Nat, x < m * n
    PROVE  x \div n < m
<1>1. /\ x \div n \in Nat /\ x % n \in 0 .. n - 1
      /\ x = (x \div n) * n + (x % n)
  BY Division
<1>2. ASSUME x \div n >= m PROVE FALSE
  <2>1. (x \div n) * n >= m * n
    BY <1>1, <1>2
  <2> QED
    BY <1>1, <2>1
<1> QED
  BY <1>1, <1>2

(* A call of send or recv is asked for no more than is left. *)
LEMMA AsIntAtMost ==
    ASSUME NEW n \in Nat
    PROVE  AsInt(n) \in Nat /\ AsInt(n) <= n
<1>0. PICK M \in Nat : M = IntModulus /\ M > 0
  BY ProtocolAssumption
<1>1. /\ n \div M \in Nat /\ n % M \in 0 .. M - 1
      /\ n = (n \div M) * M + (n % M)
  BY <1>0, Division
<1>2. PICK q \in Nat : q = n \div M
  BY <1>1
<1>3. PICK low \in Nat : low = n % M
  BY <1>0, <1>1
<1>4. n = q * M + low
  BY <1>1, <1>2, <1>3, Zenon
<1>5. q * M \in Nat
  BY <1>0
<1>6. low <= n
  BY <1>4, <1>5
<1>7. AsInt(n) \in {low, 0}
  BY <1>0, <1>3, Zenon DEF AsInt
<1> QED
  BY <1>6, <1>7

(* The bytes in memory are the remainders of repeated division. *)
Over1(x) == x \div Base
Over2(x) == Over1(x) \div Base
Over3(x) == Over2(x) \div Base
Over4(x) == Over3(x) \div Base

LEMMA OverNat ==
    ASSUME NEW x \in Nat
    PROVE  Over1(x) \in Nat /\ Over2(x) \in Nat /\ Over3(x) \in Nat /\ Over4(x) \in Nat
<1>1. Over1(x) \in Nat
  BY ByteOff DEF Over1
<1>2. Over2(x) \in Nat
  BY <1>1, Division, BaseFacts DEF Over2
<1>3. Over3(x) \in Nat
  BY <1>2, Division, BaseFacts DEF Over3
<1>4. Over4(x) \in Nat
  BY <1>3, Division, BaseFacts DEF Over4
<1> QED
  BY <1>1, <1>2, <1>3, <1>4

LEMMA Memory4 ==
    ASSUME NEW x \in Nat
    PROVE  /\ Memory(x, 4) \in [1 .. 4 -> Bytes]
           /\ Memory(x, 4)[1] = x % Base /\ Memory(x, 4)[2] = Over1(x) % Base
           /\ Memory(x, 4)[3] = Over2(x) % Base /\ Memory(x, 4)[4] = Over3(x) % Base
<1> DEFINE D(q) == [i \in 0 .. 4 |-> IF i = 0 THEN x ELSE q[i - 1] \div Base]
           w == [i \in 0 .. 4 |-> CASE i = 0 -> x [] i = 1 -> Over1(x) [] i = 2 -> Over2(x)
                                    [] i = 3 -> Over3(x) [] i = 4 -> Over4(x)]
           c == CHOOSE q : q = D(q)
<1>1. w = D(w)
  BY DEF Over1, Over2, Over3, Over4
<1>2. c = D(c)
  <2> HIDE DEF D, w
  <2> QED
    BY <1>1
<1>3. Memory(x, 4) = [i \in 1 .. 4 |-> c[i - 1] % Base]
  BY DEF Memory
<1> HIDE DEF c
<1>4. c[0] = x /\ c[1] = Over1(x) /\ c[2] = Over2(x) /\ c[3] = Over3(x)
  BY <1>2 DEF Over1, Over2, Over3
<1>5. /\ x % Base \in Bytes /\ Over1(x) % Base \in Bytes /\ Over2(x) % Base \in Bytes
      /\ Over3(x) % Base \in Bytes
  BY OverNat, Division, BaseFacts DEF Bytes
<1> QED
  BY <1>3, <1>4, <1>5

LEMMA Memory8 ==
    ASSUME NEW x \in Nat
    PROVE  /\ Memory(x, 8) \in [1 .. 8 -> Bytes]
           /\ \A i \in 1 .. 4 : /\ Memory(x, 8)[i] = Memory(x, 4)[i]
                                /\ Memory(x, 8)[i + 4] = Memory(Over4(x), 4)[i]
<1> DEFINE D(q) == [i \in 0 .. 8 |-> IF i = 0 THEN x ELSE q[i - 1] \div Base]
           y == Over4(x)
           w == [i \in 0 .. 8 |-> CASE i = 0 -> x [] i = 1 -> Over1(x) [] i = 2 -> Over2(x)
                                    [] i = 3 -> Over3(x) [] i = 4 -> y [] i = 5 -> Over1(y)
                                    [] i = 6 -> Over2(y) [] i = 7 -> Over3(y)
                                    [] i = 8 -> Over4(y)]
           c == CHOOSE q : q = D(q)
<1>1. w = D(w)
  BY DEF Over1, Over2, Over3, Over4
<1>2. c = D(c)
  <2> HIDE DEF D, w
  <2> QED
    BY <1>1
<1>3. Memory(x, 8) = [i \in 1 .. 8 |-> c[i - 1] % Base]
  BY DEF Memory
<1> HIDE DEF c
<1>4. /\ c[0] = x /\ c[1] = Over1(x) /\ c[2] = Over2(x) /\ c[3] = Over3(x) /\ c[4] = y
      /\ c[5] = Over1(y) /\ c[6] = Over2(y) /\ c[7] = Over3(y)
  BY <1>2 DEF Over1, Over2, Over3, Over4
<1> HIDE DEF y
<1>5. y \in Nat
  BY OverNat DEF y
<1>6. /\ x % Base \in Bytes /\ Over1(x) % Base \in Bytes /\ Over2(x) % Base \in Bytes
      /\ Over3(x) % Base \in Bytes
      /\ y % Base \in Bytes /\ Over1(y) % Base \in Bytes /\ Over2(y) % Base \in Bytes
      /\ Over3(y) % Base \in Bytes
  BY <1>5, OverNat, Division, BaseFacts DEF Bytes
<1>7. Memory(x, 8) \in [1 .. 8 -> Bytes]
  BY <1>3, <1>4, <1>6
<1>8. \A i \in 1 .. 4 : Memory(x, 8)[i] = Memory(x, 4)[i]
  BY <1>3, <1>4, Memory4
<1>9. \A i \in 1 .. 4 : Memory(x, 8)[i + 4] = Memory(y, 4)[i]
  BY <1>3, <1>4, <1>5, Memory4
<1> QED
  BY <1>7, <1>8, <1>9 DEF y

(* The value of four, and of eight, bytes. *)
LEMMA BytesOf ==
    ASSUME NEW s \in Seq(Bytes)
    PROVE  \A i \in 1 .. Len(s) : s[i] \in Nat /\ s[i] \in 0 .. Base - 1
BY BaseFacts DEF Bytes

LEMMA Value4 ==
    ASSUME NEW s \in Seq(Bytes), Len(s) = 4
    PROVE  Value(s) = ((s[4] * Base + s[3]) * Base + s[2]) * Base + s[1]
<1> DEFINE D(v) == [i \in 0 .. Len(s) |->
                      IF i = 0 THEN 0 ELSE v[i - 1] * Base + s[Len(s) - i + 1]]
           h1 == s[4]
           h2 == h1 * Base + s[3]
           h3 == h2 * Base + s[2]
           h4 == h3 * Base + s[1]
           w == [i \in 0 .. 4 |-> CASE i = 0 -> 0 [] i = 1 -> h1 [] i = 2 -> h2
                                    [] i = 3 -> h3 [] i = 4 -> h4]
           c == CHOOSE v : v = D(v)
<1>b. \A i \in 1 .. 4 : s[i] \in Nat
  BY BytesOf
<1>0. Base \in Nat /\ s[1] \in Nat /\ s[2] \in Nat /\ s[3] \in Nat /\ s[4] \in Nat
  BY <1>b, BaseFacts
<1>1. w = D(w)
  BY <1>0
<1>2. c = D(c)
  <2> HIDE DEF D, w
  <2> QED
    BY <1>1
<1>3. Value(s) = c[Len(s)]
  BY DEF Value
<1> HIDE DEF c
<1>4. c[0] = 0 /\ c[1] = c[0] * Base + s[4] /\ c[2] = c[1] * Base + s[3]
      /\ c[3] = c[2] * Base + s[2] /\ c[4] = c[3] * Base + s[1]
  BY <1>2
<1>5. c[1] = s[4]
  BY <1>0, <1>4
<1> QED
  BY <1>3, <1>4, <1>5

LEMMA Value8 ==
    ASSUME NEW s \in Seq(Bytes), Len(s) = 8
    PROVE  Value(s) = ((((((( s[8] * Base + s[7]) * Base + s[6]) * Base + s[5]) * Base
                          + s[4]) * Base + s[3]) * Base + s[2]) * Base + s[1])
<1> DEFINE D(v) == [i \in 0 .. Len(s) |->
                      IF i = 0 THEN 0 ELSE v[i - 1] * Base + s[Len(s) - i + 1]]
           h1 == s[8]
           h2 == h1 * Base + s[7]
           h3 == h2 * Base + s[6]
           h4 == h3 * Base + s[5]
           h5 == h4 * Base + s[4]
           h6 == h5 * Base + s[3]
           h7 == h6 * Base + s[2]
           h8 == h7 * Base + s[1]
           w == [i \in 0 .. 8 |-> CASE i = 0 -> 0 [] i = 1 -> h1 [] i = 2 -> h2
                                    [] i = 3 -> h3 [] i = 4 -> h4 [] i = 5 -> h5
                                    [] i = 6 -> h6 [] i = 7 -> h7 [] i = 8 -> h8]
           c == CHOOSE v : v = D(v)
<1>b. \A i \in 1 .. 8 : s[i] \in Nat
  BY BytesOf
<1>0. /\ Base \in Nat /\ s[1] \in Nat /\ s[2] \in Nat /\ s[3] \in Nat /\ s[4] \in Nat
      /\ s[5] \in Nat /\ s[6] \in Nat /\ s[7] \in Nat /\ s[8] \in Nat
  BY <1>b, BaseFacts
<1>1. w = D(w)
  BY <1>0
<1>2. c = D(c)
  <2> HIDE DEF D, w
  <2> QED
    BY <1>1
<1>3. Value(s) = c[Len(s)]
  BY DEF Value
<1> HIDE DEF c
<1>4. c[0] = 0 /\ c[1] = c[0] * Base + s[8] /\ c[2] = c[1] * Base + s[7]
      /\ c[3] = c[2] * Base + s[6] /\ c[4] = c[3] * Base + s[5]
      /\ c[5] = c[4] * Base + s[4] /\ c[6] = c[5] * Base + s[3]
      /\ c[7] = c[6] * Base + s[2] /\ c[8] = c[7] * Base + s[1]
  BY <1>2
<1>5. c[1] = s[8]
  BY <1>0, <1>4
<1> QED
  BY <1>3, <1>4, <1>5

-----------------------------------------------------------------------------
(* Integers and their bytes determine each other. *)

LEMMA FunctionSeq ==
    ASSUME NEW n \in Nat, NEW f \in [1 .. n -> Bytes]
    PROVE  f \in Seq(Bytes) /\ Len(f) = n
<1>1. f \in Seq(Bytes)
  BY SeqDef
<1>2. DOMAIN f = 1 .. n /\ DOMAIN f = 1 .. Len(f) /\ Len(f) \in Nat
  BY <1>1, LenProperties
<1> QED
  BY <1>1, <1>2

LEMMA MemorySeq ==
    ASSUME NEW x \in Nat
    PROVE  /\ Memory(x, 4) \in Seq(Bytes) /\ Len(Memory(x, 4)) = 4
           /\ Memory(x, 8) \in Seq(Bytes) /\ Len(Memory(x, 8)) = 8
<1>1. Memory(x, 4) \in [1 .. 4 -> Bytes] /\ Memory(x, 8) \in [1 .. 8 -> Bytes]
  BY Memory4, Memory8
<1> QED
  BY <1>1, FunctionSeq

LEMMA ReverseSeq ==
    ASSUME NEW s \in Seq(Bytes)
    PROVE  /\ Reverse(s) \in Seq(Bytes) /\ Len(Reverse(s)) = Len(s)
           /\ \A i \in 1 .. Len(s) : Reverse(s)[i] = s[Len(s) - i + 1]
           /\ Reverse(Reverse(s)) = s
<1>1. /\ Reverse(s) \in Seq(Bytes) /\ Len(Reverse(s)) = Len(s)
      /\ \A i \in 1 .. Len(s) : Reverse(s)[i] = s[Len(s) - i + 1]
  BY DEF Reverse
<1>2. /\ Reverse(Reverse(s)) \in Seq(Bytes) /\ Len(Reverse(Reverse(s))) = Len(s)
      /\ \A i \in 1 .. Len(s) : Reverse(Reverse(s))[i] = s[i]
  <2> DEFINE r == Reverse(s)
  <2> HIDE DEF r
  <2>1. r \in Seq(Bytes) /\ Len(r) = Len(s) /\ \A i \in 1 .. Len(s) : r[i] = s[Len(s) - i + 1]
    BY <1>1 DEF r
  <2>2. /\ Reverse(r) \in Seq(Bytes) /\ Len(Reverse(r)) = Len(s)
        /\ \A i \in 1 .. Len(s) : Reverse(r)[i] = r[Len(s) - i + 1]
    BY <2>1 DEF Reverse
  <2>3. \A i \in 1 .. Len(s) : Reverse(r)[i] = s[i]
    BY <2>1, <2>2
  <2> QED
    BY <2>2, <2>3 DEF r
<1> QED
  BY <1>1, <1>2, SeqEqual

(* A 32-bit integer is gone after four divisions. *)
LEMMA Vanishes ==
    ASSUME NEW x \in Nat, x < Half
    PROVE  Over4(x) = 0
<1> DEFINE b == Base
<1>0. b \in Nat /\ b > 0 /\ b * b \in Nat /\ b * b * b \in Nat
  BY BaseFacts
<1>1. Half = (b * b * b) * b /\ b * b * b = (b * b) * b
  BY DEF Half
<1>n. Over1(x) \in Nat /\ Over2(x) \in Nat /\ Over3(x) \in Nat /\ Over4(x) \in Nat
  BY OverNat
<1> HIDE DEF b
<1>2. Over1(x) < b * b * b
  BY <1>0, <1>1, DivisionBound DEF Over1, b
<1>3. Over2(x) < b * b
  BY <1>0, <1>1, <1>2, <1>n, DivisionBound DEF Over2, b
<1>4. Over3(x) < b
  BY <1>0, <1>3, <1>n, DivisionBound DEF Over3, b
<1>5. Over4(x) < 1
  <2>1. Over3(x) < 1 * b
    BY <1>0, <1>4
  <2> QED
    BY <1>0, <2>1, <1>n, DivisionBound DEF Over4, b
<1> QED
  BY <1>5, <1>n

(* Four bytes put together with what is left. *)
LEMMA Horner4 ==
    ASSUME NEW x \in Nat
    PROVE  LET d == Memory(x, 4)
           IN  x = (((Over4(x) * Base + d[4]) * Base + d[3]) * Base + d[2]) * Base + d[1]
<1>n. Over1(x) \in Nat /\ Over2(x) \in Nat /\ Over3(x) \in Nat /\ Over4(x) \in Nat
  BY OverNat
<1>1. x = Over1(x) * Base + (x % Base)
  BY ByteOff DEF Over1
<1>2. Over1(x) = Over2(x) * Base + (Over1(x) % Base)
  BY <1>n, ByteOff DEF Over2
<1>3. Over2(x) = Over3(x) * Base + (Over2(x) % Base)
  BY <1>n, ByteOff DEF Over3
<1>4. Over3(x) = Over4(x) * Base + (Over3(x) % Base)
  BY <1>n, ByteOff DEF Over4
<1> QED
  BY <1>1, <1>2, <1>3, <1>4, Memory4

(* The bytes of an integer have its value. *)
LEMMA ValueOfMemory ==
    ASSUME NEW x \in Nat
    PROVE  /\ x < Half => Value(Memory(x, 4)) = x
           /\ x < Half * Half => Value(Memory(x, 8)) = x
<1>1. ASSUME x < Half PROVE Value(Memory(x, 4)) = x
  <2> DEFINE d == Memory(x, 4)
  <2>1. d \in Seq(Bytes) /\ Len(d) = 4
    BY MemorySeq
  <2>2. x = (((Over4(x) * Base + d[4]) * Base + d[3]) * Base + d[2]) * Base + d[1]
    BY Horner4
  <2>3. Over4(x) * Base + d[4] = d[4]
    BY <1>1, <2>1, Vanishes, BaseFacts, BytesOf
  <2> HIDE DEF d
  <2>4. Value(d) = ((d[4] * Base + d[3]) * Base + d[2]) * Base + d[1]
    BY <2>1, Value4
  <2> QED
    BY <2>2, <2>3, <2>4 DEF d
<1>2. ASSUME x < Half * Half PROVE Value(Memory(x, 8)) = x
  <2> DEFINE d == Memory(x, 8)
             y == Over4(x)
             e == Memory(y, 4)
  <2>0. y \in Nat
    BY OverNat
  <2>1. /\ d \in Seq(Bytes) /\ Len(d) = 8
        /\ d[1] = Memory(x, 4)[1] /\ d[2] = Memory(x, 4)[2]
        /\ d[3] = Memory(x, 4)[3] /\ d[4] = Memory(x, 4)[4]
        /\ d[5] = e[1] /\ d[6] = e[2] /\ d[7] = e[3] /\ d[8] = e[4]
    <3>1. \A i \in 1 .. 4 : d[i] = Memory(x, 4)[i] /\ d[i + 4] = e[i]
      BY Memory8
    <3>2. d[1 + 4] = e[1] /\ d[2 + 4] = e[2] /\ d[3 + 4] = e[3] /\ d[4 + 4] = e[4]
      BY <3>1
    <3> HIDE DEF d, e
    <3>3. d[5] = e[1] /\ d[6] = e[2] /\ d[7] = e[3] /\ d[8] = e[4]
      BY <3>2
    <3>4. d \in Seq(Bytes) /\ Len(d) = 8
      BY MemorySeq DEF d
    <3> QED
      BY <3>1, <3>3, <3>4
  <2>2. x = (((y * Base + d[4]) * Base + d[3]) * Base + d[2]) * Base + d[1]
    BY <2>1, Horner4
  <2>3. y < Half
    <3> DEFINE b == Base
    <3>0. b \in Nat /\ b > 0 /\ b * b \in Nat /\ b * b * b \in Nat /\ Half \in Nat
      BY BaseFacts
    <3>1. Half * Half = (((Half * b) * b) * b) * b
      BY <3>0 DEF Half
    <3>n. Over1(x) \in Nat /\ Over2(x) \in Nat /\ Over3(x) \in Nat
      BY OverNat
    <3>m. Half * b \in Nat /\ (Half * b) * b \in Nat /\ ((Half * b) * b) * b \in Nat
      BY <3>0
    <3> HIDE DEF b
    <3>2. Over1(x) < ((Half * b) * b) * b
      BY <1>2, <3>0, <3>1, <3>m, DivisionBound DEF Over1, b
    <3>3. Over2(x) < (Half * b) * b
      BY <3>0, <3>2, <3>m, <3>n, DivisionBound DEF Over2, b
    <3>4. Over3(x) < Half * b
      BY <3>0, <3>3, <3>m, <3>n, DivisionBound DEF Over3, b
    <3> QED
      BY <3>0, <3>4, <3>m, <3>n, DivisionBound DEF Over4, b
  <2>4. y = ((e[4] * Base + e[3]) * Base + e[2]) * Base + e[1]
    <3>1. y = (((Over4(y) * Base + e[4]) * Base + e[3]) * Base + e[2]) * Base + e[1]
      BY <2>0, Horner4
    <3>2. e \in Seq(Bytes) /\ Len(e) = 4
      BY <2>0, MemorySeq
    <3>3. Over4(y) * Base + e[4] = e[4]
      BY <2>0, <2>3, <3>2, Vanishes, BaseFacts, BytesOf
    <3> HIDE DEF y, e
    <3> QED
      BY <3>1, <3>3
  <2> HIDE DEF d, y, e
  <2>5. Value(d) = ((((((( d[8] * Base + d[7]) * Base + d[6]) * Base + d[5]) * Base
                          + d[4]) * Base + d[3]) * Base + d[2]) * Base + d[1])
    BY <2>1, Value8
  <2> QED
    BY <2>1, <2>2, <2>4, <2>5 DEF d
<1> QED
  BY <1>1, <1>2

(* And what has these bytes is that integer. *)
LEMMA Digits ==
    ASSUME NEW a \in Nat, NEW d \in Seq(Bytes), Len(d) = 4
    PROVE  LET x == (((a * Base + d[4]) * Base + d[3]) * Base + d[2]) * Base + d[1]
           IN  /\ x \in Nat /\ Over4(x) = a
               /\ Memory(x, 4)[1] = d[1] /\ Memory(x, 4)[2] = d[2]
               /\ Memory(x, 4)[3] = d[3] /\ Memory(x, 4)[4] = d[4]
<1> DEFINE x3 == a * Base + d[4]
           x2 == x3 * Base + d[3]
           x1 == x2 * Base + d[2]
           x == x1 * Base + d[1]
<1>0. /\ Base \in Nat /\ Base > 0 /\ d[1] \in 0 .. Base - 1 /\ d[2] \in 0 .. Base - 1
      /\ d[3] \in 0 .. Base - 1 /\ d[4] \in 0 .. Base - 1
  <2>1. \A i \in 1 .. 4 : d[i] \in 0 .. Base - 1
    BY BytesOf
  <2> QED
    BY <2>1, BaseFacts
<1>3. x3 \in Nat /\ x3 \div Base = a /\ x3 % Base = d[4]
  BY <1>0, DivisionUnique
<1> HIDE DEF x3
<1>d. ASSUME NEW p \in Nat, NEW r \in 0 .. Base - 1
      PROVE  p * Base + r \in Nat /\ (p * Base + r) \div Base = p /\ (p * Base + r) % Base = r
  BY <1>0, DivisionUnique
<1>2. x2 \in Nat /\ x2 \div Base = x3 /\ x2 % Base = d[3]
  BY <1>0, <1>3, <1>d
<1> HIDE DEF x2
<1>1. x1 \in Nat /\ x1 \div Base = x2 /\ x1 % Base = d[2]
  BY <1>0, <1>2, <1>d
<1> HIDE DEF x1
<1>4. x \in Nat /\ x \div Base = x1 /\ x % Base = d[1]
  BY <1>0, <1>1, <1>d
<1> HIDE DEF x
<1>5. Over1(x) = x1 /\ Over2(x) = x2 /\ Over3(x) = x3 /\ Over4(x) = a
  BY <1>1, <1>2, <1>3, <1>4 DEF Over1, Over2, Over3, Over4
<1>6. /\ Memory(x, 4)[1] = d[1] /\ Memory(x, 4)[2] = d[2]
      /\ Memory(x, 4)[3] = d[3] /\ Memory(x, 4)[4] = d[4]
  BY <1>1, <1>2, <1>3, <1>4, <1>5, Memory4
<1> QED
  BY <1>4, <1>5, <1>6 DEF x, x1, x2, x3

LEMMA Below ==
    ASSUME NEW m \in Nat, NEW n \in Nat, n > 0, NEW p \in Nat, p < m, NEW r \in 0 .. n - 1
    PROVE  p * n + r < m * n /\ p * n + r \in Nat
<1>1. p + 1 <= m
  OBVIOUS
<1>2. (p + 1) * n <= m * n
  BY <1>1
<1> QED
  BY <1>2

LEMMA MemoryOfValue ==
    ASSUME NEW s \in Seq(Bytes), Len(s) = 4
    PROVE  Value(s) \in Nat /\ Value(s) < Half /\ Memory(Value(s), 4) = s
<1>b. \A i \in 1 .. 4 : s[i] \in Bytes /\ s[i] \in 0 .. Base - 1
  BY BytesOf DEF Bytes
<1>0. /\ s[1] \in Bytes /\ s[2] \in Bytes /\ s[3] \in Bytes /\ s[4] \in Bytes
      /\ s[1] \in 0 .. Base - 1 /\ s[2] \in 0 .. Base - 1 /\ s[3] \in 0 .. Base - 1
      /\ s[4] \in 0 .. Base - 1
  BY <1>b
<1> DEFINE b == Base
           x3 == s[4]
           x2 == x3 * b + s[3]
           x1 == x2 * b + s[2]
           x == x1 * b + s[1]
<1>1. Value(s) = x
  BY Value4
<1>2. /\ b \in Nat /\ b > 0 /\ b * b \in Nat /\ b * b * b \in Nat /\ s[1] \in 0 .. b - 1
      /\ s[2] \in 0 .. b - 1 /\ s[3] \in 0 .. b - 1 /\ x3 \in Nat /\ x3 < b
      /\ Half = (b * b * b) * b
  BY <1>0, BaseFacts DEF Half
<1>3. /\ Over4(x) = 0 /\ Memory(x, 4)[1] = s[1] /\ Memory(x, 4)[2] = s[2]
      /\ Memory(x, 4)[3] = s[3] /\ Memory(x, 4)[4] = s[4]
  <2>0. PICK z \in Nat : z = 0
    OBVIOUS
  <2> DEFINE y == (((z * b + s[4]) * b + s[3]) * b + s[2]) * b + s[1]
  <2>1. /\ Over4(y) = z /\ Memory(y, 4)[1] = s[1] /\ Memory(y, 4)[2] = s[2]
        /\ Memory(y, 4)[3] = s[3] /\ Memory(y, 4)[4] = s[4]
    BY Digits
  <2>2. z * b + s[4] = s[4]
    BY <1>2, <2>0
  <2>3. y = x
    BY <2>2
  <2> HIDE DEF y, x
  <2> QED
    BY <2>0, <2>1, <2>3
<1> HIDE DEF b, x3
<1>4. x2 \in Nat /\ x2 < b * b
  BY <1>2, Below
<1> HIDE DEF x2
<1>5. x1 \in Nat /\ x1 < b * b * b
  BY <1>2, <1>4, Below
<1> HIDE DEF x1
<1>6. x \in Nat /\ x < Half
  BY <1>2, <1>5, Below
<1> HIDE DEF x
<1>7. Memory(x, 4) = s
  <2>1. Memory(x, 4) \in Seq(Bytes) /\ Len(Memory(x, 4)) = 4
    BY <1>6, MemorySeq
  <2>2. \A i \in 1 .. 4 : Memory(x, 4)[i] = s[i]
    BY <1>3
  <2> QED
    BY <2>1, <2>2, SeqEqual
<1> QED
  BY <1>1, <1>6, <1>7

-----------------------------------------------------------------------------
(* Byte order *)

(* htonl reverses the bytes of a 32-bit integer, and undoes itself. *)
LEMMA HtonlReverses ==
    ASSUME NEW x \in Nat
    PROVE  /\ htonl(x) \in Nat /\ htonl(x) < Half
           /\ Memory(htonl(x), 4) = Reverse(Memory(x, 4))
           /\ x < Half => htonl(htonl(x)) = x
<1> DEFINE s == Memory(x, 4)
           r == Reverse(s)
<1>1. s \in Seq(Bytes) /\ Len(s) = 4
  BY MemorySeq
<1> HIDE DEF s
<1>2. r \in Seq(Bytes) /\ Len(r) = 4 /\ Reverse(r) = s
  BY <1>1, ReverseSeq
<1>3. htonl(x) = Value(r)
  BY DEF htonl, s
<1> HIDE DEF r
<1>4. Value(r) \in Nat /\ Value(r) < Half /\ Memory(Value(r), 4) = r
  BY <1>2, MemoryOfValue
<1>5. htonl(Value(r)) = Value(s)
  BY <1>2, <1>4 DEF htonl
<1>6. x < Half => Value(s) = x
  BY ValueOfMemory DEF s
<1> QED
  BY <1>3, <1>4, <1>5, <1>6 DEF r, s

(* The hosts are little-endian: htonll's test finds that htonl(1) is not 1. *)
LEMMA LittleEndian == htonl(1) # 1
<1> DEFINE s == Memory(1, 4)
           r == Reverse(s)
<1>0. PICK one \in Nat : one = 1
  OBVIOUS
<1>1. s \in Seq(Bytes) /\ Len(s) = 4 /\ s[1] = one % Base
  BY <1>0, MemorySeq, Memory4
<1>2. one % Base = 1
  BY <1>0, BaseFacts
<1> HIDE DEF s
<1>3. r \in Seq(Bytes) /\ Len(r) = 4 /\ r[4] = 1
  BY <1>1, <1>2, ReverseSeq
<1>4. htonl(1) = Value(r)
  BY DEF htonl, s
<1> HIDE DEF r
<1>5. Value(r) = ((1 * Base + r[3]) * Base + r[2]) * Base + r[1]
  BY <1>3, Value4
<1>6. \A i \in 1 .. 4 : r[i] \in Nat
  BY <1>3, BytesOf
<1>7. r[3] \in Nat /\ r[2] \in Nat /\ r[1] \in Nat
  BY <1>6
<1>8. 1 * Base + r[3] > 1 /\ 1 * Base + r[3] \in Nat
  BY <1>7, BaseFacts
<1>9. ASSUME NEW p \in Nat, p > 1, NEW q \in Nat PROVE p * Base + q > 1 /\ p * Base + q \in Nat
  BY <1>9, BaseFacts
<1>10. /\ (1 * Base + r[3]) * Base + r[2] > 1 /\ (1 * Base + r[3]) * Base + r[2] \in Nat
  BY <1>7, <1>8, <1>9
<1>11. ((1 * Base + r[3]) * Base + r[2]) * Base + r[1] > 1
  BY <1>7, <1>10, <1>9
<1> QED
  BY <1>4, <1>5, <1>11

(* The bytes of a 64-bit integer are those of its halves. *)
LEMMA Halves ==
    ASSUME NEW a \in Nat, NEW b \in Nat, b < Half
    PROVE  LET x == a * Half + b
           IN  /\ x \in Nat /\ x \div Half = a /\ x % Half = b
               /\ \A i \in 1 .. 4 : /\ Memory(x, 8)[i] = Memory(b, 4)[i]
                                    /\ Memory(x, 8)[i + 4] = Memory(a, 4)[i]
<1> DEFINE x == a * Half + b
           d == Memory(b, 4)
<1>1. x \in Nat /\ x \div Half = a /\ x % Half = b
  BY BaseFacts, DivisionUnique
<1>2. d \in Seq(Bytes) /\ Len(d) = 4
  BY MemorySeq
<1>3. \A i \in 1 .. 4 : d[i] \in Bytes /\ d[i] \in Nat
  BY <1>2, BytesOf DEF Bytes
<1>4. /\ d[1] \in Bytes /\ d[2] \in Bytes /\ d[3] \in Bytes /\ d[4] \in Bytes
      /\ d[1] \in Nat /\ d[2] \in Nat /\ d[3] \in Nat /\ d[4] \in Nat
  BY <1>3
<1>5. b = ((d[4] * Base + d[3]) * Base + d[2]) * Base + d[1]
  <2>1. Value(d) = b
    BY ValueOfMemory
  <2> HIDE DEF d
  <2> QED
    BY <2>1, <1>2, Value4
<1> HIDE DEF d
<1>6. x = (((a * Base + d[4]) * Base + d[3]) * Base + d[2]) * Base + d[1]
  BY <1>4, <1>5, BaseFacts DEF Half
<1>7. /\ Over4(x) = a /\ Memory(x, 4)[1] = d[1] /\ Memory(x, 4)[2] = d[2]
      /\ Memory(x, 4)[3] = d[3] /\ Memory(x, 4)[4] = d[4]
  <2> DEFINE y == (((a * Base + d[4]) * Base + d[3]) * Base + d[2]) * Base + d[1]
  <2>1. /\ Over4(y) = a /\ Memory(y, 4)[1] = d[1] /\ Memory(y, 4)[2] = d[2]
        /\ Memory(y, 4)[3] = d[3] /\ Memory(y, 4)[4] = d[4]
    BY <1>2, Digits
  <2> HIDE DEF y, x
  <2> QED
    BY <2>1, <1>6 DEF y
<1>8. \A i \in 1 .. 4 : Memory(x, 4)[i] = d[i]
  BY <1>7
<1> HIDE DEF x
<1>9. \A i \in 1 .. 4 : /\ Memory(x, 8)[i] = Memory(x, 4)[i]
                        /\ Memory(x, 8)[i + 4] = Memory(Over4(x), 4)[i]
  BY <1>1, Memory8
<1> QED
  BY <1>1, <1>7, <1>8, <1>9 DEF x, d

(* So does htonll. *)
LEMMA HtonllReverses ==
    ASSUME NEW x \in Nat, x < Half * Half
    PROVE  /\ htonll(x) \in Nat /\ htonll(x) < Half * Half
           /\ Memory(htonll(x), 8) = Reverse(Memory(x, 8))
           /\ htonll(htonll(x)) = x
<1> DEFINE a == x \div Half
           b == x % Half
           ra == htonl(a)
           rb == htonl(b)
           y == rb * Half + ra
<1>1. a \in Nat /\ b \in Nat /\ b < Half /\ x = a * Half + b /\ a < Half
  BY BaseFacts, Division, DivisionBound
<1>2. htonll(x) = y
  BY LittleEndian DEF htonll
<1>3. \A i \in 1 .. 4 : Memory(x, 8)[i] = Memory(b, 4)[i] /\ Memory(x, 8)[i + 4] = Memory(a, 4)[i]
  <2> HIDE DEF a, b
  <2>1. LET z == a * Half + b
        IN  \A i \in 1 .. 4 : Memory(z, 8)[i] = Memory(b, 4)[i] /\ Memory(z, 8)[i + 4] = Memory(a, 4)[i]
    BY <1>1, Halves
  <2> QED
    BY <2>1, <1>1
<1> HIDE DEF a, b
<1>4. /\ ra \in Nat /\ ra < Half /\ rb \in Nat /\ rb < Half
      /\ Memory(ra, 4) = Reverse(Memory(a, 4)) /\ Memory(rb, 4) = Reverse(Memory(b, 4))
      /\ htonl(ra) = a /\ htonl(rb) = b
  BY <1>1, HtonlReverses
<1> HIDE DEF ra, rb
<1>5. /\ y \in Nat /\ y \div Half = rb /\ y % Half = ra
      /\ \A i \in 1 .. 4 : Memory(y, 8)[i] = Memory(ra, 4)[i] /\ Memory(y, 8)[i + 4] = Memory(rb, 4)[i]
  BY <1>4, Halves
<1>b. y < Half * Half
  BY <1>4, BaseFacts, Below
<1> HIDE DEF y
<1>6. htonll(y) = x
  BY <1>1, <1>4, <1>5, LittleEndian DEF htonll
<1>7. Memory(y, 8) = Reverse(Memory(x, 8))
  <2> DEFINE s == Memory(x, 8)
             r == Reverse(s)
             t == Memory(y, 8)
             p == Memory(a, 4)
             q == Memory(b, 4)
  <2>1. s \in Seq(Bytes) /\ Len(s) = 8 /\ t \in Seq(Bytes) /\ Len(t) = 8
    BY <1>5, MemorySeq
  <2>2. p \in Seq(Bytes) /\ Len(p) = 4 /\ q \in Seq(Bytes) /\ Len(q) = 4
    BY <1>1, MemorySeq
  <2>3. \A i \in 1 .. 4 : s[i] = q[i] /\ s[i + 4] = p[i]
    BY <1>3
  <2>4. \A i \in 1 .. 4 : t[i] = Reverse(p)[i] /\ t[i + 4] = Reverse(q)[i]
    BY <1>4, <1>5
  <2> HIDE DEF s, t, p, q
  <2>5. \A i \in 1 .. 4 : Reverse(p)[i] = p[5 - i] /\ Reverse(q)[i] = q[5 - i]
    <3>1. /\ \A i \in 1 .. Len(p) : Reverse(p)[i] = p[Len(p) - i + 1]
          /\ \A i \in 1 .. Len(q) : Reverse(q)[i] = q[Len(q) - i + 1]
      BY <2>2, ReverseSeq
    <3>2. \A i \in 1 .. 4 : Len(p) - i + 1 = 5 - i /\ Len(q) - i + 1 = 5 - i
      BY <2>2
    <3> QED
      BY <2>2, <3>1, <3>2
  <2>6. r \in Seq(Bytes) /\ Len(r) = 8 /\ \A i \in 1 .. 8 : r[i] = s[9 - i]
    <3>1. /\ r \in Seq(Bytes) /\ Len(r) = Len(s)
          /\ \A i \in 1 .. Len(s) : r[i] = s[Len(s) - i + 1]
      BY <2>1, ReverseSeq
    <3>2. \A i \in 1 .. 8 : Len(s) - i + 1 = 9 - i
      BY <2>1
    <3> HIDE DEF r
    <3> QED
      BY <2>1, <3>1, <3>2
  <2> HIDE DEF r
  <2>7. ASSUME NEW i \in 1 .. 8 PROVE t[i] = r[i]
    <3>1. CASE i \in 1 .. 4
      <4>1. t[i] = p[5 - i] /\ r[i] = s[9 - i] /\ 5 - i \in 1 .. 4 /\ (5 - i) + 4 = 9 - i
        BY <3>1, <2>4, <2>5, <2>6
      <4> QED
        BY <4>1, <2>3
    <3>2. CASE i \in 5 .. 8
      <4>0. i - 4 \in 1 .. 4 /\ (i - 4) + 4 = i /\ 5 - (i - 4) = 9 - i /\ 9 - i \in 1 .. 4
        BY <3>2
      <4>1. t[(i - 4) + 4] = Reverse(q)[i - 4] /\ Reverse(q)[i - 4] = q[5 - (i - 4)]
        BY <4>0, <2>4, <2>5
      <4>2. r[i] = s[9 - i] /\ s[9 - i] = q[9 - i]
        BY <4>0, <2>3, <2>6
      <4> QED
        BY <4>0, <4>1, <4>2
    <3> QED
      BY <3>1, <3>2
  <2>8. t = r
    BY <2>1, <2>6, <2>7, SeqEqual
  <2> QED
    BY <2>8 DEF t, r, s
<1> QED
  BY <1>2, <1>5, <1>b, <1>6, <1>7

-----------------------------------------------------------------------------
(* The header *)

LEMMA Concat ==
    ASSUME NEW s \in Seq(Bytes), NEW t \in Seq(Bytes)
    PROVE  /\ s \o t \in Seq(Bytes) /\ Len(s \o t) = Len(s) + Len(t)
           /\ \A i \in 1 .. Len(s) : (s \o t)[i] = s[i]
           /\ \A i \in 1 .. Len(t) : (s \o t)[Len(s) + i] = t[i]
OBVIOUS

LEMMA Slices ==
    ASSUME NEW s \in Seq(Bytes), NEW t \in Seq(Bytes), NEW i \in Nat, NEW j \in Nat
    PROVE  /\ 1 <= i /\ j <= Len(s) => SubSeq(s \o t, i, j) = SubSeq(s, i, j)
           /\ i = Len(s) + 1 /\ j = Len(s) + Len(t) => SubSeq(s \o t, i, j) = t
<1>1. ASSUME 1 <= i, j <= Len(s) PROVE SubSeq(s \o t, i, j) = SubSeq(s, i, j)
  BY <1>1
<1>2. ASSUME i = Len(s) + 1, j = Len(s) + Len(t) PROVE SubSeq(s \o t, i, j) = t
  <2>1. /\ SubSeq(s \o t, i, j) \in Seq(Bytes) /\ Len(SubSeq(s \o t, i, j)) = Len(t)
        /\ \A k \in 1 .. Len(t) : SubSeq(s \o t, i, j)[k] = t[k]
    BY <1>2
  <2> HIDE <1>2
  <2> QED
    BY <2>1, SeqEqual
<1> QED
  BY <1>1, <1>2

(* The same facts, with operators that the provers do not expand. *)
Join(s, t) == s \o t
Cut(s, i, j) == SubSeq(s, i, j)

LEMMA JoinCut ==
    ASSUME NEW s \in Seq(Bytes), NEW t \in Seq(Bytes)
    PROVE  /\ Join(s, t) \in Seq(Bytes) /\ Len(Join(s, t)) = Len(s) + Len(t)
           /\ \A i \in Nat, j \in Nat :
                /\ 1 <= i /\ j <= Len(s) => Cut(Join(s, t), i, j) = Cut(s, i, j)
                /\ i = Len(s) + 1 /\ j = Len(s) + Len(t) => Cut(Join(s, t), i, j) = t
BY Slices, Concat DEF Join, Cut

LEMMA JoinAt ==
    ASSUME NEW s \in Seq(Bytes), NEW t \in Seq(Bytes)
    PROVE  /\ \A i \in 1 .. Len(s) : Join(s, t)[i] = s[i]
           /\ \A i \in 1 .. Len(t) : Join(s, t)[Len(s) + i] = t[i]
BY Concat DEF Join

LEMMA JoinAssoc ==
    ASSUME NEW S, NEW a \in Seq(S), NEW b \in Seq(S), NEW c \in Seq(S)
    PROVE  /\ Join(a, b) \in Seq(S)
           /\ Join(Join(a, b), c) = Join(a, Join(b, c))
BY ConcatProperties, ConcatAssociative DEF Join

(* Five fields of 4, 4, 8, 8 and 8 bytes one after the other. *)
LEMMA Fields ==
    ASSUME NEW f1 \in Seq(Bytes), Len(f1) = 4, NEW f2 \in Seq(Bytes), Len(f2) = 4,
           NEW f3 \in Seq(Bytes), Len(f3) = 8, NEW f4 \in Seq(Bytes), Len(f4) = 8,
           NEW f5 \in Seq(Bytes), Len(f5) = 8
    PROVE  LET b == f1 \o f2 \o f3 \o f4 \o f5
           IN  /\ b \in Seq(Bytes) /\ Len(b) = HeaderSize
               /\ Cut(b, 1, 4) = f1 /\ Cut(b, 5, 8) = f2
               /\ Cut(b, 9, 16) = f3 /\ Cut(b, 17, 24) = f4
               /\ Cut(b, 25, 32) = f5
<1> DEFINE b2 == Join(f1, f2)
           b3 == Join(b2, f3)
           b4 == Join(b3, f4)
           b == Join(b4, f5)
<1>1. Cut(f1, 1, 4) = f1
  BY SubSeqFull DEF Cut
<1>2. /\ b2 \in Seq(Bytes) /\ Len(b2) = 8 /\ Cut(b2, 5, 8) = f2
      /\ Cut(b2, 1, 4) = Cut(f1, 1, 4)
  <2>1. /\ b2 \in Seq(Bytes) /\ Len(b2) = Len(f1) + Len(f2)
        /\ \A i \in Nat, j \in Nat :
             /\ 1 <= i /\ j <= Len(f1) => Cut(b2, i, j) = Cut(f1, i, j)
             /\ i = Len(f1) + 1 /\ j = Len(f1) + Len(f2) => Cut(b2, i, j) = f2
    BY JoinCut
  <2> HIDE DEF b2
  <2> QED
    BY <2>1
<1> HIDE DEF b2
<1>3. /\ b3 \in Seq(Bytes) /\ Len(b3) = 16 /\ Cut(b3, 9, 16) = f3
      /\ Cut(b3, 1, 4) = Cut(b2, 1, 4) /\ Cut(b3, 5, 8) = Cut(b2, 5, 8)
  <2>1. /\ b3 \in Seq(Bytes) /\ Len(b3) = Len(b2) + Len(f3)
        /\ \A i \in Nat, j \in Nat :
             /\ 1 <= i /\ j <= Len(b2) => Cut(b3, i, j) = Cut(b2, i, j)
             /\ i = Len(b2) + 1 /\ j = Len(b2) + Len(f3) => Cut(b3, i, j) = f3
    BY <1>2, JoinCut
  <2> HIDE DEF b3
  <2> QED
    BY <1>2, <2>1
<1> HIDE DEF b3
<1>4. /\ b4 \in Seq(Bytes) /\ Len(b4) = 24 /\ Cut(b4, 17, 24) = f4
      /\ Cut(b4, 1, 4) = Cut(b3, 1, 4) /\ Cut(b4, 5, 8) = Cut(b3, 5, 8)
      /\ Cut(b4, 9, 16) = Cut(b3, 9, 16)
  <2>1. /\ b4 \in Seq(Bytes) /\ Len(b4) = Len(b3) + Len(f4)
        /\ \A i \in Nat, j \in Nat :
             /\ 1 <= i /\ j <= Len(b3) => Cut(b4, i, j) = Cut(b3, i, j)
             /\ i = Len(b3) + 1 /\ j = Len(b3) + Len(f4) => Cut(b4, i, j) = f4
    BY <1>3, JoinCut
  <2> HIDE DEF b4
  <2> QED
    BY <1>3, <2>1
<1> HIDE DEF b4
<1>5. /\ b \in Seq(Bytes) /\ Len(b) = 32 /\ Cut(b, 25, 32) = f5
      /\ Cut(b, 1, 4) = Cut(b4, 1, 4) /\ Cut(b, 5, 8) = Cut(b4, 5, 8)
      /\ Cut(b, 9, 16) = Cut(b4, 9, 16) /\ Cut(b, 17, 24) = Cut(b4, 17, 24)
  <2>1. /\ b \in Seq(Bytes) /\ Len(b) = Len(b4) + Len(f5)
        /\ \A i \in Nat, j \in Nat :
             /\ 1 <= i /\ j <= Len(b4) => Cut(b, i, j) = Cut(b4, i, j)
             /\ i = Len(b4) + 1 /\ j = Len(b4) + Len(f5) => Cut(b, i, j) = f5
    BY <1>4, JoinCut
  <2> HIDE DEF b
  <2> QED
    BY <1>4, <2>1
<1> HIDE DEF b
<1>6. /\ b \in Seq(Bytes) /\ Len(b) = HeaderSize
      /\ Cut(b, 1, 4) = f1 /\ Cut(b, 5, 8) = f2
      /\ Cut(b, 9, 16) = f3 /\ Cut(b, 17, 24) = f4
      /\ Cut(b, 25, 32) = f5
  BY <1>1, <1>2, <1>3, <1>4, <1>5 DEF HeaderSize
<1>7. b = f1 \o f2 \o f3 \o f4 \o f5
  BY DEF b, b4, b3, b2, Join
<1> QED
  BY <1>6, <1>7

(* What a message is made of. *)
LEMMA MessageFields ==
    ASSUME NEW m \in Messages
    PROVE  /\ m.meta \in BOOLEAN
           /\ m.command \in Nat /\ m.command < Half /\ m.status \in Nat /\ m.status < Half
           /\ m.payload_length \in Nat /\ m.payload_length < Half * Half
           /\ m.username \in Seq(Bytes) /\ Len(m.username) < Half * Half
           /\ m.filename \in Seq(Bytes) /\ Len(m.filename) < Half * Half
           /\ m.payload \in Seq(Bytes)
           /\ Len(m.payload) = IF m.meta THEN 0 ELSE m.payload_length
<1>1. m \in [meta : BOOLEAN, command : 0 .. (Half - 1), status : 0 .. (Half - 1),
              payload_length : 0 .. (Half * Half - 1),
              username : Seq(Bytes), filename : Seq(Bytes), payload : Seq(Bytes)]
  BY ProtocolAssumption
<1>2. /\ Len(m.username) < Half * Half /\ Len(m.filename) < Half * Half
      /\ Len(m.payload) = IF m.meta THEN 0 ELSE m.payload_length
  BY ProtocolAssumption
<1>3. Half \in Nat /\ Half * Half \in Nat
  BY BaseFacts
<1> QED
  BY <1>1, <1>2, <1>3

(* The header on the wire has every field with its highest byte first. *)
LEMMA HeaderBigEndian ==
    ASSUME NEW m \in Messages
    PROVE  /\ send_header(m) = Header(m)
           /\ send_header(m) \in Seq(Bytes) /\ Len(send_header(m)) = HeaderSize
<1>0. /\ m.command \in Nat /\ m.command < Half /\ m.status \in Nat /\ m.status < Half
      /\ m.payload_length \in Nat /\ m.payload_length < Half * Half
      /\ Len(m.username) \in Nat /\ Len(m.username) < Half * Half
      /\ Len(m.filename) \in Nat /\ Len(m.filename) < Half * Half
  BY MessageFields
<1> DEFINE f1 == Memory(htonl(m.command), 4)
           f2 == Memory(htonl(m.status), 4)
           f3 == Memory(htonll(m.payload_length), 8)
           f4 == Memory(htonll(Len(m.filename)), 8)
           f5 == Memory(htonll(Len(m.username)), 8)
<1>1. f1 = BigEndian(m.command, 4) /\ f2 = BigEndian(m.status, 4)
  BY <1>0, HtonlReverses DEF BigEndian
<1>2. /\ f3 = BigEndian(m.payload_length, 8) /\ f4 = BigEndian(Len(m.filename), 8)
      /\ f5 = BigEndian(Len(m.username), 8)
  BY <1>0, HtonllReverses DEF BigEndian
<1>3. f1 \in Seq(Bytes) /\ Len(f1) = 4 /\ f2 \in Seq(Bytes) /\ Len(f2) = 4
  BY <1>0, HtonlReverses, MemorySeq
<1>4. /\ f3 \in Seq(Bytes) /\ Len(f3) = 8 /\ f4 \in Seq(Bytes) /\ Len(f4) = 8
      /\ f5 \in Seq(Bytes) /\ Len(f5) = 8
  BY <1>0, HtonllReverses, MemorySeq
<1>5. send_header(m) = f1 \o f2 \o f3 \o f4 \o f5
  BY DEF send_header
<1> HIDE DEF f1, f2, f3, f4, f5
<1>6. LET b == f1 \o f2 \o f3 \o f4 \o f5 IN b \in Seq(Bytes) /\ Len(b) = HeaderSize
  BY <1>3, <1>4, Fields
<1> QED
  BY <1>1, <1>2, <1>5, <1>6 DEF Header

(***************************************************************************)
(* The header survives the conversions: what recv_header makes of the      *)
(* bytes send_header writes, through htonl and the two halves of htonll    *)
(* and back, are the command, the status and the three lengths.            *)
(***************************************************************************)
THEOREM HeaderRoundTrip ==
    ASSUME NEW m \in Messages
    PROVE  recv_header(send_header(m)) =
             [command |-> m.command, status |-> m.status, payload |-> m.payload_length,
              filename |-> Len(m.filename), username |-> Len(m.username)]
<1>0. /\ m.command \in Nat /\ m.command < Half /\ m.status \in Nat /\ m.status < Half
      /\ m.payload_length \in Nat /\ m.payload_length < Half * Half
      /\ Len(m.username) \in Nat /\ Len(m.username) < Half * Half
      /\ Len(m.filename) \in Nat /\ Len(m.filename) < Half * Half
  BY MessageFields
<1> DEFINE f1 == Memory(htonl(m.command), 4)
           f2 == Memory(htonl(m.status), 4)
           f3 == Memory(htonll(m.payload_length), 8)
           f4 == Memory(htonll(Len(m.filename)), 8)
           f5 == Memory(htonll(Len(m.username)), 8)
           b == f1 \o f2 \o f3 \o f4 \o f5
<1>1. /\ f1 \in Seq(Bytes) /\ Len(f1) = 4 /\ ntohl(Value(f1)) = m.command
      /\ f2 \in Seq(Bytes) /\ Len(f2) = 4 /\ ntohl(Value(f2)) = m.status
  <2>1. ASSUME NEW x \in Nat, x < Half
        PROVE  LET f == Memory(htonl(x), 4)
               IN  f \in Seq(Bytes) /\ Len(f) = 4 /\ ntohl(Value(f)) = x
    BY <2>1, HtonlReverses, MemorySeq, ValueOfMemory DEF ntohl
  <2> QED
    BY <1>0, <2>1
<1>2. /\ f3 \in Seq(Bytes) /\ Len(f3) = 8 /\ ntohll(Value(f3)) = m.payload_length
      /\ f4 \in Seq(Bytes) /\ Len(f4) = 8 /\ ntohll(Value(f4)) = Len(m.filename)
      /\ f5 \in Seq(Bytes) /\ Len(f5) = 8 /\ ntohll(Value(f5)) = Len(m.username)
  <2>1. ASSUME NEW x \in Nat, x < Half * Half
        PROVE  LET f == Memory(htonll(x), 8)
               IN  f \in Seq(Bytes) /\ Len(f) = 8 /\ ntohll(Value(f)) = x
    <3>1. htonll(x) \in Nat /\ htonll(x) < Half * Half /\ htonll(htonll(x)) = x
      BY <2>1, HtonllReverses
    <3> QED
      BY <3>1, MemorySeq, ValueOfMemory DEF ntohll
  <2> QED
    BY <1>0, <2>1
<1>3. send_header(m) = b
  BY DEF send_header
<1> HIDE DEF f1, f2, f3, f4, f5
<1>4. /\ Cut(b, 1, 4) = f1 /\ Cut(b, 5, 8) = f2
      /\ Cut(b, 9, 16) = f3 /\ Cut(b, 17, 24) = f4
      /\ Cut(b, 25, 32) = f5
  BY <1>1, <1>2, Fields
<1> HIDE DEF b
<1>5. recv_header(b) =
        [command |-> ntohl(Value(Cut(b, 1, 1 + 3))), status |-> ntohl(Value(Cut(b, 5, 5 + 3))),
         payload |-> ntohll(Value(Cut(b, 9, 9 + 7))),
         filename |-> ntohll(Value(Cut(b, 17, 17 + 7))),
         username |-> ntohll(Value(Cut(b, 25, 25 + 7)))]
  BY Zenon DEF recv_header, Cut
<1>6. 1 + 3 = 4 /\ 5 + 3 = 8 /\ 9 + 7 = 16 /\ 17 + 7 = 24 /\ 25 + 7 = 32
  OBVIOUS
<1> QED
  BY <1>1, <1>2, <1>3, <1>4, <1>5, <1>6

-----------------------------------------------------------------------------
(* The sections of a message, and what send_all has still to send from one on. *)

Section(m, k) ==
    CASE k = 1 -> Header(m) [] k = 2 -> m.username [] k = 3 -> m.filename
      [] k = 4 -> m.payload

Offset(m, k) ==
    CASE k = 1 -> 0 [] k = 2 -> HeaderSize [] k = 3 -> HeaderSize + Len(m.username)
      [] k = 4 -> HeaderSize + Len(m.username) + Len(m.filename) [] k = 5 -> Length(m)

Rest(m, k) ==
    CASE k = 1 -> <<Header(m)>> \o (Part(m.username) \o (Part(m.filename) \o Part(m.payload)))
      [] k = 2 -> Part(m.username) \o (Part(m.filename) \o Part(m.payload))
      [] k = 3 -> Part(m.filename) \o Part(m.payload)
      [] k = 4 -> Part(m.payload)
      [] k = 5 -> <<>>

(* The section recv_all is reading. *)
Reading ==
    CASE field = "header" -> 1 [] field = "username" -> 2 [] field = "filename" -> 3
      [] field = "payload" -> 4 [] field = "failed" -> 0

HeaderOf(m) ==
    [command |-> m.command, status |-> m.status, payload |-> m.payload_length,
     filename |-> Len(m.filename), username |-> Len(m.username)]

-----------------------------------------------------------------------------
(* The inductive invariant *)

Typed ==
    /\ script \in Seq(Messages) /\ begins \in Seq(Nat) /\ Len(begins) <= Len(script)
    /\ turn \in 1 .. (Len(script) + 1)
    /\ sending \in Seq(Seq(Bytes)) /\ total_sent \in Nat
    /\ wire \in Seq(Bytes) /\ taken \in 0 .. Len(wire)
    /\ field \in {"header", "username", "filename", "payload", "failed"}
    /\ buffer \in Seq(Bytes)
    /\ got \in [username : Seq(Bytes), filename : Seq(Bytes)]
    /\ up \in BOOLEAN

(* Messages that were followed by another one are whole on the wire. *)
Whole == \A i \in 1 .. (Len(begins) - 1) : begins[i] + Length(script[i]) <= Len(wire)

(* The sender is between two messages, in a section of one, or gave up. *)
Idle ==
    /\ turn = Len(begins) + 1 /\ sending = <<>> /\ total_sent = 0
    /\ Len(wire) = StartOf(Len(begins) + 1)
Busy(k) ==
    /\ Len(begins) > 0 /\ turn = Len(begins) + 1
    /\ LET m == script[Len(begins)]
       IN  /\ sending = Rest(m, k) /\ total_sent < Len(Section(m, k))
           /\ Len(wire) = begins[Len(begins)] + Offset(m, k) + total_sent
GaveUp ==
    /\ turn = Len(script) + 1 /\ sending = <<>> /\ total_sent = 0
SenderAt == Idle \/ GaveUp \/ \E k \in 1 .. 4 : Busy(k)

(* The receiver has whole messages, and of the next one what it took. *)
Heard ==
    /\ received \in Seq(Messages) /\ Len(received) <= Len(begins)
    /\ \A i \in 1 .. Len(received) : received[i] = script[i]
Waiting ==
    field = "header" /\ buffer = <<>> /\ taken = StartOf(Len(received) + 1)
Partial(m, k) ==
    /\ taken = StartOf(Len(received) + 1) + Offset(m, k) + Len(buffer)
    /\ Len(buffer) <= Len(Section(m, k))
    /\ \A j \in 1 .. Len(buffer) : buffer[j] = Section(m, k)[j]
    /\ k > 1 => hdr = HeaderOf(m)
    /\ k > 2 => got.username = m.username
    /\ k > 3 => got.filename = m.filename
ReceiverAt ==
    field # "failed" =>
        IF Len(received) = Len(begins) THEN Waiting
        ELSE Partial(script[Len(received) + 1], Reading)

WireInv == Typed /\ NetworkByteOrder /\ Whole /\ SenderAt /\ Heard /\ ReceiverAt

-----------------------------------------------------------------------------
(* Facts about the sections *)

LEMMA SectionSeq ==
    ASSUME NEW m \in Messages
    PROVE  /\ \A k \in 1 .. 4 : Section(m, k) \in Seq(Bytes)
           /\ Len(Section(m, 1)) = HeaderSize
           /\ Section(m, 2) = m.username /\ Section(m, 3) = m.filename
           /\ Section(m, 4) = m.payload /\ Section(m, 1) = Header(m)
<1>1. Header(m) \in Seq(Bytes) /\ Len(Header(m)) = HeaderSize
  BY HeaderBigEndian
<1>2. m.username \in Seq(Bytes) /\ m.filename \in Seq(Bytes) /\ m.payload \in Seq(Bytes)
  BY MessageFields
<1> QED
  BY <1>1, <1>2 DEF Section

LEMMA OffsetSum ==
    ASSUME NEW m \in Messages
    PROVE  /\ Length(m) \in Nat /\ Offset(m, 1) = 0 /\ Offset(m, 5) = Length(m)
           /\ \A k \in 1 .. 4 :
                /\ Offset(m, k) \in Nat /\ Len(Section(m, k)) \in Nat
                /\ Offset(m, k + 1) = Offset(m, k) + Len(Section(m, k))
                /\ Offset(m, k) + Len(Section(m, k)) <= Length(m)
<1>1. /\ Len(m.username) \in Nat /\ Len(m.filename) \in Nat /\ Len(m.payload) \in Nat
  BY MessageFields
<1>2. HeaderSize \in Nat
  BY DEF HeaderSize
<1>3. Offset(m, 1) = 0 /\ Offset(m, 5) = Length(m) /\ Length(m) \in Nat
  BY <1>1, <1>2 DEF Offset, Length
<1>4. ASSUME NEW k \in 1 .. 4
      PROVE  /\ Offset(m, k) \in Nat /\ Len(Section(m, k)) \in Nat
             /\ Offset(m, k + 1) = Offset(m, k) + Len(Section(m, k))
             /\ Offset(m, k) + Len(Section(m, k)) <= Length(m)
  <2>1. CASE k = 1
    BY <2>1, <1>1, <1>2, SectionSeq DEF Offset, Length
  <2>2. CASE k = 2
    BY <2>2, <1>1, <1>2, SectionSeq DEF Offset, Length
  <2>3. CASE k = 3
    BY <2>3, <1>1, <1>2, SectionSeq DEF Offset, Length
  <2>4. CASE k = 4
    BY <2>4, <1>1, <1>2, SectionSeq DEF Offset, Length
  <2> QED
    BY <2>1, <2>2, <2>3, <2>4
<1> QED
  BY <1>3, <1>4

(* The encoding has the sections at their offsets. *)
LEMMA EncodingSections ==
    ASSUME NEW m \in Messages, NEW k \in 1 .. 4, NEW j \in 1 .. Len(Section(m, k))
    PROVE  Encoding(m)[Offset(m, k) + j] = Section(m, k)[j]
<1> DEFINE h == Header(m)
           u == m.username
           f == m.filename
           p == m.payload
           hu == Join(h, u)
           huf == Join(hu, f)
           e == Join(huf, p)
<1>0. e = Encoding(m)
  BY DEF Join, Encoding
<1>1. /\ h \in Seq(Bytes) /\ u \in Seq(Bytes) /\ f \in Seq(Bytes) /\ p \in Seq(Bytes)
      /\ Len(h) = HeaderSize
  BY SectionSeq, MessageFields
<1>2. /\ hu \in Seq(Bytes) /\ Len(hu) = HeaderSize + Len(u)
      /\ \A i \in 1 .. Len(h) : hu[i] = h[i]
      /\ \A i \in 1 .. Len(u) : hu[HeaderSize + i] = u[i]
  BY <1>1, Concat DEF Join
<1>3. /\ huf \in Seq(Bytes) /\ Len(huf) = HeaderSize + Len(u) + Len(f)
      /\ \A i \in 1 .. Len(hu) : huf[i] = hu[i]
      /\ \A i \in 1 .. Len(f) : huf[HeaderSize + Len(u) + i] = f[i]
  <2> HIDE DEF hu
  <2>1. /\ huf \in Seq(Bytes) /\ Len(huf) = Len(hu) + Len(f)
        /\ \A i \in 1 .. Len(hu) : huf[i] = hu[i]
        /\ \A i \in 1 .. Len(f) : huf[Len(hu) + i] = f[i]
    BY <1>1, <1>2, JoinCut, JoinAt
  <2> HIDE DEF huf, f
  <2> QED
    BY <1>2, <2>1
<1>4. /\ \A i \in 1 .. Len(huf) : e[i] = huf[i]
      /\ \A i \in 1 .. Len(p) : e[HeaderSize + Len(u) + Len(f) + i] = p[i]
  <2> HIDE DEF huf
  <2>1. /\ \A i \in 1 .. Len(huf) : e[i] = huf[i]
        /\ \A i \in 1 .. Len(p) : e[Len(huf) + i] = p[i]
    BY <1>1, <1>3, JoinAt
  <2> HIDE DEF e, p
  <2> QED
    BY <1>3, <2>1
<1> HIDE DEF e, huf, hu
<1>n. /\ Len(u) \in Nat /\ Len(f) \in Nat /\ Len(p) \in Nat /\ Len(h) \in Nat
      /\ HeaderSize \in Nat /\ HeaderSize > 0
  BY <1>1 DEF HeaderSize
<1>5. CASE k = 1
  <2>1. Offset(m, k) = 0 /\ Section(m, k) = h /\ j \in 1 .. Len(h)
    BY <1>5, SectionSeq DEF Offset
  <2> HIDE DEF h
  <2>a. j \in Nat /\ 1 <= j /\ j <= HeaderSize
    BY <2>1, <1>1, <1>n
  <2>b. Offset(m, k) + j = j
    BY <2>1, <2>a
  <2> HIDE DEF u, f
  <2>l. Len(hu) = HeaderSize + Len(u) /\ Len(huf) = HeaderSize + Len(u) + Len(f)
    BY <1>2, <1>3
  <2>c. /\ Len(hu) \in Nat /\ HeaderSize <= Len(hu)
        /\ Len(huf) \in Nat /\ HeaderSize <= Len(huf)
    BY <2>l, <1>n
  <2>d. j \in 1 .. Len(hu) /\ j \in 1 .. Len(huf)
    BY <2>a, <2>c, <1>n
  <2>2. /\ j \in 1 .. Len(hu) /\ j \in 1 .. Len(huf) /\ Offset(m, k) + j = j
    BY <2>b, <2>d
  <2> QED
    BY <2>1, <2>2, <1>0, <1>2, <1>3, <1>4
<1>6. CASE k = 2
  <2>1. Offset(m, k) = HeaderSize /\ Section(m, k) = u /\ j \in 1 .. Len(u)
    BY <1>6, SectionSeq DEF Offset
  <2> HIDE DEF u
  <2>2. HeaderSize + j \in 1 .. Len(hu) /\ HeaderSize + j \in 1 .. Len(huf)
    BY <2>1, <1>2, <1>3, <1>n
  <2> QED
    BY <2>1, <2>2, <1>0, <1>2, <1>3, <1>4
<1>7. CASE k = 3
  <2>1. Offset(m, k) = HeaderSize + Len(u) /\ Section(m, k) = f /\ j \in 1 .. Len(f)
    BY <1>7, SectionSeq DEF Offset
  <2> HIDE DEF f, u
  <2>2. HeaderSize + Len(u) + j \in 1 .. Len(huf)
    BY <2>1, <1>3, <1>n
  <2> QED
    BY <2>1, <2>2, <1>0, <1>3, <1>4
<1>8. CASE k = 4
  <2>1. /\ Offset(m, k) = HeaderSize + Len(u) + Len(f) /\ Section(m, k) = p
        /\ j \in 1 .. Len(p)
    BY <1>8, SectionSeq DEF Offset
  <2> HIDE DEF f, u, p
  <2> QED
    BY <2>1, <1>0, <1>4
<1> QED
  BY <1>5, <1>6, <1>7, <1>8

LEMMA PartSeq ==
    ASSUME NEW b \in Seq(Bytes), NEW r \in Seq(Seq(Bytes))
    PROVE  /\ Part(b) \in Seq(Seq(Bytes)) /\ Part(b) \o r \in Seq(Seq(Bytes))
           /\ b = <<>> => Part(b) \o r = r
           /\ b # <<>> => /\ Part(b) \o r # <<>> /\ Head(Part(b) \o r) = b
                          /\ Tail(Part(b) \o r) = r
<1>1. CASE b = <<>>
  <2>1. Part(b) = <<>>
    BY <1>1 DEF Part
  <2>2. <<>> \o r = r /\ <<>> \in Seq(Seq(Bytes))
    BY ConcatEmptySeq, EmptySeq
  <2> QED
    BY <1>1, <2>1, <2>2
<1>2. CASE b # <<>>
  <2>1. Part(b) = <<b>>
    BY <1>2 DEF Part
  <2>2. <<b>> \in Seq(Seq(Bytes)) /\ Len(<<b>>) = 1 /\ <<b>>[1] = b
    OBVIOUS
  <2>3. /\ <<b>> \o r \in Seq(Seq(Bytes)) /\ Len(<<b>> \o r) = 1 + Len(r)
        /\ (<<b>> \o r)[1] = b
    BY <2>2, ConcatProperties
  <2>4. <<b>> \o r # <<>> /\ Head(<<b>> \o r) = b
    BY <2>3
  <2>5. Tail(<<b>> \o r) = r
    <3>1. /\ Tail(<<b>> \o r) \in Seq(Seq(Bytes)) /\ Len(Tail(<<b>> \o r)) = Len(r)
          /\ \A i \in 1 .. Len(r) : Tail(<<b>> \o r)[i] = r[i]
      OBVIOUS
    <3> QED
      BY <3>1, SeqEqual
  <2> QED
    BY <1>2, <2>1, <2>2, <2>3, <2>4, <2>5
<1> QED
  BY <1>1, <1>2

(* Taking the first buffer off leaves the sections after it. *)
LEMMA RestFacts ==
    ASSUME NEW m \in Messages
    PROVE  /\ Rest(m, 5) = <<>> /\ Buffers(m) = Rest(m, 1)
           /\ \A k \in 1 .. 5 : Rest(m, k) \in Seq(Seq(Bytes))
           /\ \A k \in 1 .. 4 :
                /\ Section(m, k) = <<>> => Rest(m, k) = Rest(m, k + 1)
                /\ Section(m, k) # <<>> =>
                     /\ Rest(m, k) # <<>> /\ Head(Rest(m, k)) = Section(m, k)
                     /\ Tail(Rest(m, k)) = Rest(m, k + 1)
<1> DEFINE h == Header(m)
           u == m.username
           f == m.filename
           p == m.payload
           r4 == Part(p)
           r3 == Part(f) \o r4
           r2 == Part(u) \o r3
           r1 == Part(h) \o r2
           e == <<>>
<1>1. h \in Seq(Bytes) /\ u \in Seq(Bytes) /\ f \in Seq(Bytes) /\ p \in Seq(Bytes)
  BY SectionSeq, MessageFields
<1>2. h # <<>>
  <2>1. Len(h) = 32
    BY SectionSeq DEF HeaderSize
  <2> QED
    BY <2>1
<1>3. /\ Rest(m, 1) = r1 /\ Rest(m, 2) = r2 /\ Rest(m, 3) = r3 /\ Rest(m, 4) = r4
      /\ Rest(m, 5) = e
  <2>1. Part(h) = <<h>>
    BY <1>2 DEF Part
  <2> QED
    BY <2>1 DEF Rest
<1>4. /\ Section(m, 1) = h /\ Section(m, 2) = u /\ Section(m, 3) = f /\ Section(m, 4) = p
  BY SectionSeq
<1>5. e \in Seq(Seq(Bytes))
  OBVIOUS
<1>6. /\ r4 \in Seq(Seq(Bytes)) /\ r4 \o e = r4
  BY <1>1, <1>5, PartSeq, ConcatEmptySeq
<1>7. /\ p = <<>> => r4 = e
      /\ p # <<>> => r4 # <<>> /\ Head(r4) = p /\ Tail(r4) = e
  BY <1>1, <1>5, <1>6, PartSeq
<1> HIDE DEF r4
<1>8. /\ f = <<>> => r3 = r4
      /\ f # <<>> => r3 # <<>> /\ Head(r3) = f /\ Tail(r3) = r4
  BY <1>1, <1>6, PartSeq
<1>8a. r3 \in Seq(Seq(Bytes))
  BY <1>1, <1>6, PartSeq
<1> HIDE DEF r3
<1>9. /\ r2 \in Seq(Seq(Bytes))
      /\ u = <<>> => r2 = r3
      /\ u # <<>> => r2 # <<>> /\ Head(r2) = u /\ Tail(r2) = r3
  BY <1>1, <1>8a, PartSeq
<1> HIDE DEF r2
<1>10. /\ r1 \in Seq(Seq(Bytes)) /\ r1 # <<>> /\ Head(r1) = h /\ Tail(r1) = r2
  BY <1>1, <1>2, <1>9, PartSeq
<1> HIDE DEF r1
<1>11. Buffers(m) = Rest(m, 1)
  <2>1. m.payload = IF m.meta THEN <<>> ELSE m.payload
    <3>1. CASE m.meta
      BY <3>1, MessageFields
    <3>2. CASE ~m.meta
      BY <3>2
    <3> QED
      BY <3>1, <3>2
  <2>2. Buffers(m) = ((<<h>> \o Part(u)) \o Part(f)) \o Part(p)
    BY <2>1, HeaderBigEndian DEF Buffers
  <2>a. <<h>> \in Seq(Seq(Bytes))
    BY <1>1
  <2>3. /\ <<h>> \in Seq(Seq(Bytes)) /\ Part(u) \in Seq(Seq(Bytes))
        /\ Part(f) \in Seq(Seq(Bytes)) /\ Part(p) \in Seq(Seq(Bytes))
    BY <2>a, <1>1, <1>5, PartSeq
  <2>4. ((<<h>> \o Part(u)) \o Part(f)) \o Part(p) = <<h>> \o (Part(u) \o (Part(f) \o Part(p)))
    <3>1. ASSUME NEW a \in Seq(Seq(Bytes)), NEW b \in Seq(Seq(Bytes)),
                 NEW c \in Seq(Seq(Bytes)), NEW d \in Seq(Seq(Bytes))
          PROVE  Join(Join(Join(a, b), c), d) = Join(a, Join(b, Join(c, d)))
      <4>1. Join(a, b) \in Seq(Seq(Bytes)) /\ Join(c, d) \in Seq(Seq(Bytes))
        BY JoinAssoc
      <4>2. Join(Join(Join(a, b), c), d) = Join(Join(a, b), Join(c, d))
        BY <4>1, JoinAssoc
      <4>3. Join(Join(a, b), Join(c, d)) = Join(a, Join(b, Join(c, d)))
        BY <4>1, JoinAssoc
      <4> QED
        BY <4>2, <4>3
    <3>2. Join(Join(Join(<<h>>, Part(u)), Part(f)), Part(p))
            = Join(<<h>>, Join(Part(u), Join(Part(f), Part(p))))
      <4> DEFINE a == <<h>>
                 b == Part(u)
                 c == Part(f)
                 d == Part(p)
      <4>1. /\ a \in Seq(Seq(Bytes)) /\ b \in Seq(Seq(Bytes))
            /\ c \in Seq(Seq(Bytes)) /\ d \in Seq(Seq(Bytes))
        BY <2>3
      <4> HIDE DEF a, b, c, d
      <4>2. Join(Join(Join(a, b), c), d) = Join(a, Join(b, Join(c, d)))
        BY <4>1, <3>1
      <4> QED
        BY <4>2 DEF a, b, c, d
    <3> QED
      BY <3>2, Zenon DEF Join
  <2> QED
    BY <2>2, <2>4 DEF Rest
<1>12. \A k \in 1 .. 5 : Rest(m, k) \in Seq(Seq(Bytes))
  <2> HIDE DEF e
  <2>1. /\ Rest(m, 1) \in Seq(Seq(Bytes)) /\ Rest(m, 2) \in Seq(Seq(Bytes))
        /\ Rest(m, 3) \in Seq(Seq(Bytes)) /\ Rest(m, 4) \in Seq(Seq(Bytes))
        /\ Rest(m, 5) \in Seq(Seq(Bytes))
    BY <1>3, <1>5, <1>6, <1>8a, <1>9, <1>10, Zenon
  <2>2. \A k \in 1 .. 5 : k = 1 \/ k = 2 \/ k = 3 \/ k = 4 \/ k = 5
    OBVIOUS
  <2> QED
    BY <2>1, <2>2, Zenon
<1>13. ASSUME NEW k \in 1 .. 4
       PROVE  /\ Section(m, k) = <<>> => Rest(m, k) = Rest(m, k + 1)
              /\ Section(m, k) # <<>> =>
                   /\ Rest(m, k) # <<>> /\ Head(Rest(m, k)) = Section(m, k)
                   /\ Tail(Rest(m, k)) = Rest(m, k + 1)
  <2> HIDE DEF h, u, f, p, e
  <2>1. CASE k = 1
    BY <2>1, <1>2, <1>3, <1>4, <1>10
  <2>2. CASE k = 2
    BY <2>2, <1>3, <1>4, <1>9
  <2>3. CASE k = 3
    BY <2>3, <1>3, <1>4, <1>8
  <2>4. CASE k = 4
    BY <2>4, <1>3, <1>4, <1>7
  <2> QED
    BY <2>1, <2>2, <2>3, <2>4
<1> QED
  BY <1>3, <1>11, <1>12, <1>13

(* Where the sender is when a section is sent: at the next one that is not empty. *)
LEMMA RestNext ==
    ASSUME NEW m \in Messages, NEW k \in 1 .. 5
    PROVE  \E j \in 1 .. 5 : /\ Rest(m, j) = Rest(m, k) /\ Offset(m, j) = Offset(m, k)
                             /\ j < 5 => Len(Section(m, j)) > 0
<1> DEFINE P(i) == \E j \in 1 .. 5 : /\ Rest(m, j) = Rest(m, i) /\ Offset(m, j) = Offset(m, i)
                                     /\ j < 5 => Len(Section(m, j)) > 0
<1>1. P(5)
  OBVIOUS
<1>2. ASSUME NEW i \in 1 .. 4, P(i + 1) PROVE P(i)
  <2>0. Section(m, i) \in Seq(Bytes)
    BY SectionSeq
  <2>1. CASE Section(m, i) = <<>>
    <3>1. Rest(m, i) = Rest(m, i + 1)
      BY <2>1, RestFacts
    <3>2. Offset(m, i) \in Nat /\ Offset(m, i + 1) = Offset(m, i) + Len(Section(m, i))
      BY OffsetSum
    <3>3. Len(Section(m, i)) = 0
      BY <2>1
    <3>4. Offset(m, i + 1) = Offset(m, i)
      BY <3>2, <3>3
    <3> QED
      BY <3>1, <3>4, <1>2, Zenon
  <2>2. CASE Section(m, i) # <<>>
    <3>1. Len(Section(m, i)) > 0
      BY <2>0, <2>2, EmptySeq
    <3>2. i \in 1 .. 5
      OBVIOUS
    <3> QED
      BY <3>1, <3>2
  <2> QED
    BY <2>1, <2>2
<1> HIDE DEF P
<1>3. P(4) /\ P(3) /\ P(2) /\ P(1)
  <2>1. P(4)
    BY <1>1, <1>2
  <2>2. P(3)
    BY <2>1, <1>2
  <2>3. P(2)
    BY <2>2, <1>2
  <2> QED
    BY <2>1, <2>2, <2>3, <1>2
<1>4. k = 1 \/ k = 2 \/ k = 3 \/ k = 4 \/ k = 5
  OBVIOUS
<1>5. P(k)
  BY <1>1, <1>3, <1>4
<1> QED
  BY <1>5 DEF P

-----------------------------------------------------------------------------
(* The initial states *)

LEMMA InvInit == WireInit => WireInv
<1> SUFFICES ASSUME WireInit PROVE WireInv
  OBVIOUS
<1>1. script \in Seq(Messages)
  BY ProtocolAssumption DEF WireInit
<1>2. /\ wire = <<>> /\ begins = <<>> /\ sending = <<>> /\ received = <<>> /\ buffer = <<>>
      /\ Len(wire) = 0 /\ Len(begins) = 0 /\ Len(received) = 0
  BY DEF WireInit
<1>e. /\ wire \in Seq(Bytes) /\ begins \in Seq(Nat) /\ sending \in Seq(Seq(Bytes))
      /\ received \in Seq(Messages) /\ buffer \in Seq(Bytes)
  BY <1>2
<1>g. got \in [username : Seq(Bytes), filename : Seq(Bytes)]
  <2>1. <<>> \in Seq(Bytes)
    OBVIOUS
  <2> QED
    BY <2>1 DEF WireInit, NoNames
<1>3. Typed
  BY <1>1, <1>2, <1>e, <1>g DEF WireInit, Typed
<1>4. StartOf(Len(begins) + 1) = 0 /\ StartOf(Len(received) + 1) = 0
  BY <1>2 DEF StartOf
<1>5. NetworkByteOrder
  BY <1>2, <1>4 DEF NetworkByteOrder
<1>6. Whole
  BY <1>2 DEF Whole
<1>7. SenderAt
  BY <1>2, <1>4 DEF SenderAt, Idle, WireInit
<1>8. Heard
  BY <1>2, <1>e DEF Heard
<1>9. ReceiverAt
  BY <1>2, <1>4 DEF ReceiverAt, Waiting, WireInit
<1> QED
  BY <1>3, <1>5, <1>6, <1>7, <1>8, <1>9 DEF WireInv

-----------------------------------------------------------------------------
(* What every state has *)

LEMMA InvFacts ==
    ASSUME WireInv
    PROVE  /\ Len(begins) \in Nat /\ Len(script) \in Nat /\ Len(wire) \in Nat
           /\ Len(received) \in Nat /\ Len(buffer) \in Nat
           /\ \A i \in 1 .. Len(script) : script[i] \in Messages
           /\ \A i \in 1 .. Len(begins) : begins[i] \in Nat /\ Length(script[i]) \in Nat
           /\ \A i \in 1 .. (Len(begins) + 1) : StartOf(i) \in Nat
<1>1. /\ Len(begins) \in Nat /\ Len(script) \in Nat /\ Len(wire) \in Nat
      /\ Len(received) \in Nat /\ Len(buffer) \in Nat /\ Len(begins) <= Len(script)
  BY DEF WireInv, Typed, Heard
<1>2. \A i \in 1 .. Len(script) : script[i] \in Messages
  BY DEF WireInv, Typed
<1>3. \A i \in 1 .. Len(begins) : begins[i] \in Nat
  BY DEF WireInv, Typed
<1>4. ASSUME NEW i \in 1 .. Len(begins) PROVE Length(script[i]) \in Nat
  <2>1. script[i] \in Messages
    BY <1>1, <1>2
  <2> QED
    BY <2>1, OffsetSum
<1>5. ASSUME NEW i \in 1 .. (Len(begins) + 1) PROVE StartOf(i) \in Nat
  <2>1. CASE i = 1
    BY <2>1 DEF StartOf
  <2>2. CASE i # 1
    <3>1. i - 1 \in 1 .. Len(begins)
      BY <2>2, <1>1
    <3>2. begins[i - 1] \in Nat /\ Length(script[i - 1]) \in Nat
      BY <3>1, <1>3, <1>4
    <3> QED
      BY <2>2, <3>2 DEF StartOf
  <2> QED
    BY <2>1, <2>2
<1> QED
  BY <1>1, <1>2, <1>3, <1>4, <1>5

(* What the sender does leaves the receiver's state, and the other way round. *)
LEMMA ReceiverKeeps ==
    ASSUME WireInv, UNCHANGED <<script, begins, recvVars>>
    PROVE  Heard' /\ ReceiverAt'
<1>1. /\ script' = script /\ begins' = begins /\ taken' = taken /\ field' = field
      /\ buffer' = buffer /\ hdr' = hdr /\ got' = got /\ received' = received
  BY DEF recvVars
<1>2. Heard'
  BY <1>1 DEF WireInv, Heard
<1>3. Reading' = Reading
  BY <1>1 DEF Reading
<1>4. StartOf(Len(received) + 1)' = StartOf(Len(received) + 1)
  BY <1>1 DEF StartOf
<1>5. ReceiverAt'
  BY <1>1, <1>3, <1>4 DEF WireInv, ReceiverAt, Waiting, Partial
<1> QED
  BY <1>2, <1>5

LEMMA SenderKeeps ==
    ASSUME WireInv, UNCHANGED sendVars
    PROVE  NetworkByteOrder' /\ Whole' /\ SenderAt'
<1>1. /\ script' = script /\ begins' = begins /\ turn' = turn /\ sending' = sending
      /\ total_sent' = total_sent /\ wire' = wire
  BY DEF sendVars
<1>2. \A i : StartOf(i)' = StartOf(i)
  BY <1>1 DEF StartOf
<1>3. NetworkByteOrder'
  BY <1>1, <1>2 DEF WireInv, NetworkByteOrder
<1>4. Whole'
  BY <1>1 DEF WireInv, Whole
<1>5. SenderAt'
  BY <1>1, <1>2 DEF WireInv, SenderAt, Idle, Busy, GaveUp
<1> QED
  BY <1>3, <1>4, <1>5

-----------------------------------------------------------------------------
(* The sender's steps *)

LEMMA SendingMeansBusy ==
    ASSUME WireInv
    PROVE  /\ sending # <<>> => \E k \in 1 .. 4 : Busy(k)
           /\ \A k \in 1 .. 4 : Busy(k) =>
                LET m == script[Len(begins)]
                IN  /\ m \in Messages /\ Section(m, k) \in Seq(Bytes)
                    /\ sending # <<>> /\ Head(sending) = Section(m, k)
                    /\ Tail(sending) = Rest(m, k + 1)
<1>1. sending # <<>> => \E k \in 1 .. 4 : Busy(k)
  BY DEF WireInv, SenderAt, Idle, GaveUp
<1>2. ASSUME NEW k \in 1 .. 4, Busy(k)
      PROVE  LET m == script[Len(begins)]
             IN  /\ m \in Messages /\ Section(m, k) \in Seq(Bytes)
                 /\ sending # <<>> /\ Head(sending) = Section(m, k)
                 /\ Tail(sending) = Rest(m, k + 1)
  <2> DEFINE m == script[Len(begins)]
  <2>0. Len(begins) \in 1 .. Len(script)
    BY <1>2, InvFacts DEF WireInv, Typed, Busy
  <2>1. m \in Messages
    BY <2>0, InvFacts
  <2>2. sending = Rest(m, k) /\ total_sent < Len(Section(m, k)) /\ total_sent \in Nat
    BY <1>2 DEF Busy, WireInv, Typed
  <2> HIDE DEF m
  <2>3. Section(m, k) \in Seq(Bytes) /\ Section(m, k) # <<>>
    <3>1. Section(m, k) \in Seq(Bytes)
      BY <2>1, SectionSeq
    <3>2. Len(Section(m, k)) > 0
      BY <2>2, <3>1
    <3> QED
      BY <3>1, <3>2
  <2>4. Rest(m, k) # <<>> /\ Head(Rest(m, k)) = Section(m, k) /\ Tail(Rest(m, k)) = Rest(m, k + 1)
    BY <2>1, <2>3, RestFacts
  <2> QED
    BY <2>1, <2>2, <2>3, <2>4 DEF m
<1> QED
  BY <1>1, <1>2

LEMMA SendMessageKeeps == WireInv /\ send_message => WireInv'
<1> SUFFICES ASSUME WireInv, send_message PROVE WireInv'
  OBVIOUS
<1>n. PICK n \in Nat : n = Len(begins)
  BY InvFacts
<1>m. PICK m : m = script[n + 1]
  OBVIOUS
<1>0. /\ sending = <<>> /\ turn <= Len(script) /\ sending' = Buffers(script[turn])
      /\ turn' = turn + 1 /\ begins' = Append(begins, Len(wire))
      /\ script' = script /\ total_sent' = total_sent /\ wire' = wire /\ up' = up
      /\ taken' = taken /\ field' = field /\ buffer' = buffer /\ hdr' = hdr /\ got' = got
      /\ received' = received
  BY DEF send_message, recvVars
<1>t. Typed
  BY DEF WireInv
<1>1. Idle
  <2>1. \A k \in 1 .. 4 : ~Busy(k)
    BY <1>0, SendingMeansBusy
  <2>2. ~GaveUp
    BY <1>0, <1>t DEF GaveUp, Typed
  <2> QED
    BY <2>1, <2>2 DEF WireInv, SenderAt
<1>2. turn = n + 1 /\ total_sent = 0 /\ Len(wire) = StartOf(n + 1) /\ n \in Nat /\ n + 1 <= Len(script)
  BY <1>n, <1>0, <1>1, InvFacts DEF Idle
<1>3. m \in Messages
  BY <1>2, <1>m, InvFacts
<1>4. /\ begins' \in Seq(Nat) /\ Len(begins') = n + 1 /\ begins'[n + 1] = Len(wire)
      /\ \A i \in 1 .. n : begins'[i] = begins[i]
  BY <1>n, <1>0, <1>t, InvFacts DEF Typed
<1>5. sending' = Rest(m, 1) /\ sending' \in Seq(Seq(Bytes))
  BY <1>m, <1>0, <1>2, <1>3, RestFacts
<1>6. Typed'
  BY <1>0, <1>2, <1>4, <1>5, <1>t DEF Typed
<1>7. ASSUME NEW i \in 1 .. (n + 1) PROVE StartOf(i)' = StartOf(i)
  <2>1. CASE i = 1
    BY <2>1 DEF StartOf
  <2>2. CASE i # 1
    <3>1. i - 1 \in 1 .. n
      BY <2>2, <1>2
    <3> QED
      BY <2>2, <3>1, <1>0, <1>4 DEF StartOf
  <2> QED
    BY <2>1, <2>2
<1>8. StartOf(n + 2)' = Len(wire) + Length(m)
  <2>1. n + 2 # 1 /\ (n + 2) - 1 = n + 1
    BY <1>2
  <2>2. StartOf(n + 2)' = begins'[(n + 2) - 1] + Length(script'[(n + 2) - 1])
    BY <2>1 DEF StartOf, Length
  <2> QED
    BY <2>1, <2>2, <1>0, <1>4, <1>m
<1>9. Length(m) \in Nat /\ Offset(m, 1) = 0 /\ Len(Section(m, 1)) = 32
  BY <1>3, OffsetSum, SectionSeq DEF HeaderSize
<1>10. NetworkByteOrder'
  <2>1. Len(wire') <= StartOf(n + 2)'
    BY <1>0, <1>8, <1>9, InvFacts
  <2>2. ASSUME NEW i \in 1 .. n
        PROVE  /\ begins'[i] = StartOf(i)'
               /\ \A j \in 1 .. Length(script[i]) :
                    begins'[i] + j <= Len(wire) => wire[begins'[i] + j] = Encoding(script[i])[j]
    <3>1. /\ begins[i] = StartOf(i)
          /\ \A j \in 1 .. Length(script[i]) :
               begins[i] + j <= Len(wire) => wire[begins[i] + j] = Encoding(script[i])[j]
      BY <1>n DEF WireInv, NetworkByteOrder
    <3>2. begins'[i] = begins[i] /\ StartOf(i)' = StartOf(i)
      BY <1>4, <1>7
    <3> QED
      BY <3>1, <3>2
  <2>3. /\ begins'[n + 1] = StartOf(n + 1)'
        /\ \A j \in 1 .. Length(m) : ~(begins'[n + 1] + j <= Len(wire))
    BY <1>2, <1>4, <1>7, <1>9, InvFacts
  <2>4. (n + 1) + 1 = n + 2 /\ \A i \in 1 .. (n + 1) : i \in 1 .. n \/ i = n + 1
    BY <1>2
  <2> QED
    BY <2>1, <2>2, <2>3, <2>4, <1>0, <1>4, <1>m DEF NetworkByteOrder
<1>11. Whole'
  <2>1. ASSUME NEW i \in 1 .. n PROVE begins[i] + Length(script[i]) <= Len(wire)
    <3>1. CASE i = n
      <4>1. StartOf(n + 1) = begins[n] + Length(script[n])
        BY <3>1, <1>2 DEF StartOf
      <4> QED
        BY <4>1, <3>1, <1>2, InvFacts
    <3>2. CASE i # n
      BY <3>2, <1>2, <1>n DEF WireInv, Whole
    <3> QED
      BY <3>1, <3>2
  <2> QED
    BY <2>1, <1>0, <1>2, <1>4 DEF Whole
<1>12. SenderAt'
  <2>1. Len(begins') > 0 /\ turn' = Len(begins') + 1 /\ script'[Len(begins')] = m
    BY <1>0, <1>2, <1>4, <1>m
  <2>2. total_sent' < Len(Section(m, 1))
    <3>1. total_sent' = 0 /\ Len(Section(m, 1)) = 32
      BY <1>0, <1>2, <1>9
    <3>2. \A x, y : x = 0 /\ y = 32 => x < y
      OBVIOUS
    <3> QED
      BY <3>1, <3>2
  <2>3. Len(wire') = begins'[Len(begins')] + Offset(m, 1) + total_sent'
    BY <1>0, <1>2, <1>4, <1>9, InvFacts
  <2>4. Busy(1)'
    BY <2>1, <2>2, <2>3, <1>5, Zenon DEF Busy
  <2> QED
    BY <2>4 DEF SenderAt
<1>13. Heard'
  BY <1>n, <1>0, <1>2, <1>4, InvFacts DEF WireInv, Heard
<1>14. ReceiverAt'
  <2> SUFFICES ASSUME field # "failed"
               PROVE  IF Len(received) = n + 1 THEN Waiting'
                      ELSE Partial(script[Len(received) + 1], Reading)'
    BY <1>0, <1>4 DEF ReceiverAt
  <2>0. Len(received) \in Nat /\ Len(received) <= n
    BY <1>n, InvFacts DEF WireInv, Heard
  <2>r. Reading' = Reading
    BY <1>0 DEF Reading
  <2>s. StartOf(Len(received) + 1)' = StartOf(Len(received) + 1)
    <3>1. PICK i \in 1 .. (n + 1) : i = Len(received) + 1
      BY <2>0, <1>2
    <3>2. StartOf(i)' = StartOf(i) /\ i = Len(received') + 1
      BY <3>1, <1>7, <1>0
    <3> QED
      BY <3>1, <3>2 DEF StartOf
  <2>1. CASE Len(received) = n
    <3>1. field = "header" /\ buffer = <<>> /\ taken = StartOf(n + 1)
      BY <2>1, <1>n DEF WireInv, ReceiverAt, Waiting
    <3>2. Reading = 1 /\ Len(buffer) = 0
      BY <3>1 DEF Reading
    <3>3. StartOf(n + 1) \in Nat
      BY <1>2, <1>n, InvFacts
    <3>4. Partial(script[Len(received) + 1], Reading)'
      BY <3>1, <3>2, <3>3, <2>1, <2>r, <2>s, <1>0, <1>9, <1>m DEF Partial
    <3> QED
      BY <3>4, <2>1, <1>2
  <2>2. CASE Len(received) # n
    <3>1. Partial(script[Len(received) + 1], Reading)
      BY <2>2, <1>n DEF WireInv, ReceiverAt
    <3>2. Partial(script[Len(received) + 1], Reading)'
      BY <3>1, <2>r, <2>s, <1>0 DEF Partial
    <3> QED
      BY <3>2, <2>0, <1>2
  <2> QED
    BY <2>1, <2>2
<1> QED
  BY <1>6, <1>10, <1>11, <1>12, <1>13, <1>14 DEF WireInv

LEMMA SendFailsKeeps == WireInv /\ SendFails => WireInv'
<1> SUFFICES ASSUME WireInv, SendFails PROVE WireInv'
  OBVIOUS
<1>0. /\ sending' = <<>> /\ total_sent' = 0 /\ turn' = Len(script) + 1
      /\ script' = script /\ wire' = wire /\ begins' = begins /\ up' = FALSE
      /\ UNCHANGED recvVars
  BY DEF SendFails
<1>1. Heard' /\ ReceiverAt'
  BY <1>0, ReceiverKeeps
<1>2. <<>> \in Seq(Seq(Bytes))
  OBVIOUS
<1>3. Typed'
  <2>1. turn' \in 1 .. (Len(script') + 1) /\ up' \in BOOLEAN /\ total_sent' \in Nat
    <3>n. PICK n \in Nat : n = Len(script)
      BY InvFacts
    <3>1. n + 1 \in 1 .. (n + 1)
      OBVIOUS
    <3>2. turn' \in 1 .. (Len(script') + 1)
      BY <3>n, <3>1, <1>0, Zenon
    <3>3. up' \in BOOLEAN
      BY <1>0, Zenon
    <3> QED
      BY <1>0, <3>2, <3>3
  <2>2. sending' \in Seq(Seq(Bytes))
    BY <1>0, <1>2, Zenon
  <2>3. /\ wire' = wire /\ taken' = taken /\ field' = field /\ buffer' = buffer /\ got' = got
    BY <1>0 DEF recvVars
  <2> QED
    BY <1>0, <2>1, <2>2, <2>3 DEF WireInv, Typed
<1>4. \A i : StartOf(i)' = StartOf(i)
  BY <1>0 DEF StartOf
<1>5. NetworkByteOrder'
  BY <1>0, <1>4 DEF WireInv, NetworkByteOrder
<1>6. Whole'
  BY <1>0 DEF WireInv, Whole
<1>7. SenderAt'
  BY <1>0 DEF SenderAt, GaveUp
<1> QED
  BY <1>1, <1>3, <1>5, <1>6, <1>7 DEF WireInv

LEMMA SendAllKeeps == WireInv /\ send_all => WireInv'
<1> SUFFICES ASSUME WireInv, send_all PROVE WireInv'
  OBVIOUS
<1>0. /\ sending # <<>> /\ script' = script /\ turn' = turn /\ begins' = begins /\ up' = up
      /\ UNCHANGED recvVars
  BY DEF send_all
<1>t. Typed
  BY DEF WireInv
<1>1. Heard' /\ ReceiverAt'
  BY <1>0, ReceiverKeeps
<1>k. PICK k \in 1 .. 4 : Busy(k)
  BY <1>0, SendingMeansBusy
<1>n. PICK n \in Nat : n = Len(begins)
  BY InvFacts
<1>m. PICK m : m = script[n]
  OBVIOUS
<1>b. PICK b : b = Section(m, k)
  OBVIOUS
<1>2. /\ m \in Messages /\ b \in Seq(Bytes) /\ Head(sending) = b /\ Tail(sending) = Rest(m, k + 1)
      /\ n > 0 /\ turn = n + 1 /\ sending = Rest(m, k) /\ total_sent < Len(b)
      /\ Len(wire) = begins[n] + Offset(m, k) + total_sent
  BY <1>k, <1>n, <1>m, <1>b, SendingMeansBusy DEF Busy
<1>c. PICK c \in 1 .. Len(b) :
        /\ c <= Len(b) - total_sent
        /\ wire' = wire \o SubSeq(b, total_sent + 1, total_sent + c)
        /\ IF total_sent + c = Len(b) THEN sending' = Tail(sending) /\ total_sent' = 0
           ELSE total_sent' = total_sent + c /\ sending' = sending
  <2>1. PICK c \in 1 .. Len(b) :
        /\ c <= AsInt(LeftToSend)
        /\ wire' = wire \o SubSeq(b, total_sent + 1, total_sent + c)
        /\ IF total_sent + c = Len(b) THEN sending' = Tail(sending) /\ total_sent' = 0
           ELSE total_sent' = total_sent + c /\ sending' = sending
    BY <1>2 DEF send_all, SendPart
  <2>n. total_sent \in Nat
    BY <1>t DEF Typed
  <2>l. PICK l \in Nat : l = Len(b)
    BY <1>2
  <2>2. PICK left \in Nat : left = LeftToSend /\ left = Len(b) - total_sent
    <3>1. LeftToSend = l - total_sent /\ total_sent < l
      BY <1>2, <2>l, Zenon DEF LeftToSend
    <3>2. l - total_sent \in Nat
      BY <3>1, <2>n
    <3> QED
      BY <3>1, <3>2, <2>l
  <2>3. AsInt(left) \in Nat /\ AsInt(left) <= left
    BY AsIntAtMost
  <2>4. c <= Len(b) - total_sent
    BY <2>1, <2>2, <2>3
  <2> QED
    BY <2>1, <2>4
<1>l. PICK l \in Nat : l = Len(b)
  BY <1>2
<1>w. PICK w \in Nat : w = Len(wire)
  BY InvFacts
<1>o. PICK o \in Nat : o = Offset(m, k)
  BY <1>2, OffsetSum
<1>g. PICK g \in Nat : g = begins[n]
  <2>1. n \in 1 .. Len(begins)
    BY <1>n, <1>2
  <2> QED
    BY <2>1, InvFacts
<1>u. total_sent \in Nat /\ wire \in Seq(Bytes)
  BY <1>t DEF Typed
<1>v. c \in 1 .. l /\ c <= l - total_sent /\ total_sent < l /\ w = g + o + total_sent
  BY <1>2, <1>c, <1>l, <1>w, <1>o, <1>g, Zenon
<1>3. c \in Nat /\ c > 0 /\ total_sent + c <= l
  BY <1>u, <1>v
<1>4. /\ wire' \in Seq(Bytes) /\ Len(wire') = w + c
      /\ \A i \in 1 .. w : wire'[i] = wire[i]
      /\ \A i \in 1 .. c : wire'[w + i] = b[total_sent + i]
  <2>s. PICK s : s = SubSeq(b, total_sent + 1, total_sent + c)
    OBVIOUS
  <2>1. /\ s \in Seq(Bytes) /\ Len(s) = c
        /\ \A i \in 1 .. c : s[i] = b[total_sent + i]
    <3>1. \A i \in (total_sent + 1) .. (total_sent + c) : b[i] \in Bytes
      BY <1>2, <1>l, <1>u, <1>3
    <3>2. /\ s \in Seq(Bytes)
          /\ Len(s) = IF total_sent + 1 <= total_sent + c
                        THEN (total_sent + c) - (total_sent + 1) + 1 ELSE 0
          /\ \A i \in 1 .. (total_sent + c) - (total_sent + 1) + 1 :
               s[i] = b[(total_sent + 1) + i - 1]
      BY <3>1, <2>s, <1>u, <1>3, SubSeqProperties
    <3>3. /\ total_sent + 1 <= total_sent + c
          /\ (total_sent + c) - (total_sent + 1) + 1 = c
          /\ \A i \in 1 .. c : (total_sent + 1) + i - 1 = total_sent + i
      BY <1>u, <1>3
    <3> QED
      BY <3>2, <3>3
  <2>2. wire' = Join(wire, s)
    BY <1>c, <2>s DEF Join
  <2>3. /\ wire' \in Seq(Bytes) /\ Len(wire') = Len(wire) + Len(s)
        /\ \A i \in 1 .. Len(wire) : wire'[i] = wire[i]
        /\ \A i \in 1 .. Len(s) : wire'[Len(wire) + i] = s[i]
    BY <2>1, <2>2, <1>u, JoinCut, JoinAt
  <2> QED
    BY <2>1, <2>3, <1>w
<1>x. PICK x \in Nat : x = Length(m)
  BY <1>2, OffsetSum
<1>5. Offset(m, k + 1) = o + l /\ o + l <= x
  BY <1>2, <1>b, <1>l, <1>o, <1>x, OffsetSum
<1>6. \A i : StartOf(i)' = StartOf(i)
  BY <1>0 DEF StartOf
<1>s. StartOf(n + 1) = g + x
  <2>1. n + 1 # 1 /\ (n + 1) - 1 = n
    BY <1>2
  <2> QED
    BY <2>1, <1>m, <1>g, <1>x DEF StartOf
<1>7. Typed'
  <2>1. sending' \in Seq(Seq(Bytes)) /\ total_sent' \in Nat
    <3>0. k + 1 \in 1 .. 5
      OBVIOUS
    <3>1. Rest(m, k + 1) \in Seq(Seq(Bytes)) /\ sending \in Seq(Seq(Bytes))
      BY <3>0, <1>2, <1>t, RestFacts DEF Typed
    <3>2. total_sent + c \in Nat /\ 0 \in Nat
      BY <1>u, <1>3
    <3> QED
      BY <3>1, <3>2, <1>2, <1>c, Zenon
  <2>2. taken \in 0 .. Len(wire')
    BY <1>w, <1>4, <1>3, <1>t DEF Typed
  <2> QED
    BY <2>1, <2>2, <1>0, <1>4, <1>t DEF Typed, recvVars
<1>8. NetworkByteOrder'
  <2>1. Len(wire') <= StartOf(n + 1)'
    <3>1. w + c <= g + x
      BY <1>u, <1>v, <1>3, <1>5
    <3> QED
      BY <3>1, <1>4, <1>6, <1>s
  <2>2. ASSUME NEW i \in 1 .. n, NEW j \in 1 .. Length(script[i]), begins[i] + j <= Len(wire')
        PROVE  wire'[begins[i] + j] = Encoding(script[i])[j]
    <3>0. begins[i] \in Nat /\ Length(script[i]) \in Nat
      BY <1>n, InvFacts
    <3>1. CASE begins[i] + j <= Len(wire)
      <4>1. wire[begins[i] + j] = Encoding(script[i])[j]
        BY <3>1, <1>n DEF WireInv, NetworkByteOrder
      <4>2. begins[i] + j \in 1 .. w
        BY <3>0, <3>1, <1>w
      <4> QED
        BY <4>1, <4>2, <1>4
    <3>2. CASE begins[i] + j > Len(wire)
      <4>1. i = n
        <5>1. i # n => begins[i] + Length(script[i]) <= Len(wire)
          BY <1>n DEF WireInv, Whole
        <5> QED
          BY <5>1, <3>0, <3>2, <1>w
      <4>2. g + j > w /\ g + j <= w + c /\ j \in Nat
        BY <4>1, <3>0, <3>2, <2>2, <1>g, <1>w, <1>4
      <4>3. PICK y \in 1 .. c : g + j = w + y
        <5>1. (g + j) - w \in 1 .. c /\ g + j = w + ((g + j) - w)
          BY <4>2, <1>3
        <5> QED
          BY <5>1
      <4>4. total_sent + y \in 1 .. l /\ j = o + (total_sent + y)
        BY <4>2, <4>3, <1>u, <1>v, <1>3
      <4>5. Encoding(m)[o + (total_sent + y)] = b[total_sent + y]
        BY <4>4, <1>b, <1>l, <1>o, <1>2, EncodingSections
      <4>6. wire'[w + y] = b[total_sent + y]
        BY <1>4
      <4> QED
        BY <4>1, <4>3, <4>4, <4>5, <4>6, <1>m, <1>g
    <3> QED
      BY <3>0, <3>1, <3>2, <1>w
  <2>3. \A i \in 1 .. n : begins[i] = StartOf(i)
    BY <1>n DEF WireInv, NetworkByteOrder
  <2> QED
    BY <2>1, <2>2, <2>3, <1>0, <1>6, <1>n DEF NetworkByteOrder
<1>9. Whole'
  <2>1. ASSUME NEW i \in 1 .. (n - 1) PROVE begins[i] + Length(script[i]) <= Len(wire')
    <3>1. begins[i] + Length(script[i]) <= Len(wire)
      BY <1>n DEF WireInv, Whole
    <3>2. begins[i] \in Nat /\ Length(script[i]) \in Nat
      BY <1>n, InvFacts
    <3> QED
      BY <3>1, <3>2, <1>w, <1>3, <1>4
  <2> QED
    BY <2>1, <1>0, <1>n DEF Whole
<1>10. SenderAt'
  <2>1. CASE total_sent + c = l
    <3>1. sending' = Rest(m, k + 1) /\ total_sent' = 0
      BY <2>1, <1>2, <1>c, <1>l
    <3>2. Len(wire') = g + Offset(m, k + 1)
      <4>1. w + c = g + (o + l)
        BY <2>1, <1>u, <1>v, <1>3
      <4> QED
        BY <4>1, <1>4, <1>5
    <3>3. PICK j \in 1 .. 5 : /\ Rest(m, j) = Rest(m, k + 1) /\ Offset(m, j) = Offset(m, k + 1)
                              /\ j < 5 => Len(Section(m, j)) > 0
      <4>1. k + 1 \in 1 .. 5
        OBVIOUS
      <4> QED
        BY <4>1, <1>2, RestNext
    <3>4. CASE j = 5
      <4>1. sending' = <<>> /\ Offset(m, k + 1) = Length(m)
        BY <3>1, <3>3, <3>4, <1>2, RestFacts, OffsetSum
      <4>2. Len(wire') = StartOf(n + 1)'
        BY <4>1, <3>2, <1>6, <1>s, <1>x
      <4>3. turn' = Len(begins') + 1 /\ Len(begins') = n
        BY <1>0, <1>2, <1>n
      <4>4. Idle'
        BY <4>1, <4>2, <4>3, <3>1 DEF Idle
      <4> QED
        BY <4>4 DEF SenderAt
    <3>5. CASE j < 5
      <4>1. total_sent' < Len(Section(m, j))
        BY <3>1, <3>3, <3>5
      <4>2. Offset(m, j) \in Nat
        <5>1. j \in 1 .. 4
          BY <3>5
        <5> QED
          BY <5>1, <1>2, OffsetSum
      <4>3. Len(wire') = begins[n] + Offset(m, j) + total_sent'
        <5>1. Len(wire') = g + Offset(m, j) /\ g + Offset(m, j) + 0 = g + Offset(m, j)
          BY <4>2, <3>2, <3>3
        <5> QED
          BY <5>1, <3>1, <1>g
      <4>4. /\ Len(begins') > 0 /\ turn' = Len(begins') + 1 /\ script'[Len(begins')] = m
            /\ begins'[Len(begins')] = begins[n] /\ sending' = Rest(m, j)
        BY <3>1, <3>3, <1>0, <1>2, <1>n, <1>m
      <4>5. Busy(j)'
        BY <4>1, <4>3, <4>4, Zenon DEF Busy
      <4>6. j \in 1 .. 4
        BY <3>5
      <4> QED
        BY <4>5, <4>6 DEF SenderAt
    <3> QED
      BY <3>4, <3>5
  <2>2. CASE total_sent + c # l
    <3>1. sending' = sending /\ total_sent' = total_sent + c
      BY <2>2, <1>c, <1>l
    <3>2. Len(wire') = begins[n] + Offset(m, k) + total_sent'
      <4>1. w + c = g + o + (total_sent + c)
        BY <1>u, <1>v, <1>3
      <4> QED
        BY <4>1, <3>1, <1>4, <1>g, <1>o
    <3>3. total_sent' < Len(Section(m, k))
      <4>1. total_sent + c < l
        BY <2>2, <1>u, <1>3
      <4> QED
        BY <4>1, <3>1, <1>b, <1>l
    <3>4. /\ Len(begins') > 0 /\ turn' = Len(begins') + 1 /\ script'[Len(begins')] = m
          /\ begins'[Len(begins')] = begins[n] /\ sending' = Rest(m, k)
      BY <3>1, <1>0, <1>2, <1>n, <1>m
    <3>5. Busy(k)'
      BY <3>2, <3>3, <3>4, Zenon DEF Busy
    <3> QED
      BY <3>5 DEF SenderAt
  <2> QED
    BY <2>1, <2>2
<1> QED
  BY <1>1, <1>7, <1>8, <1>9, <1>10 DEF WireInv

-----------------------------------------------------------------------------
(* The receiver's steps *)

LEMMA Receiving ==
    ASSUME WireInv, field # "failed", Len(received) # Len(begins)
    PROVE  LET m == Expected
           IN  /\ m \in Messages /\ Reading \in 1 .. 4 /\ Partial(m, Reading)
               /\ Need = Len(Section(m, Reading))
               /\ Len(received) + 1 \in 1 .. Len(begins)
               /\ StartOf(Len(received) + 1) = begins[Len(received) + 1]
<1> DEFINE m == Expected
<1>1. Len(received) + 1 \in 1 .. Len(begins) /\ Len(received) + 1 \in 1 .. Len(script)
  BY InvFacts DEF WireInv, Heard, Typed
<1>2. m \in Messages
  BY <1>1, InvFacts DEF Expected
<1>3. Partial(m, Reading)
  BY DEF WireInv, ReceiverAt, Expected
<1>4. StartOf(Len(received) + 1) = begins[Len(received) + 1]
  BY <1>1 DEF WireInv, NetworkByteOrder
<1>5. Reading \in 1 .. 4
  BY DEF WireInv, Typed, Reading
<1>6. Need = Len(Section(m, Reading))
  <2>1. Reading # 1 => hdr = HeaderOf(m)
    BY <1>3, <1>5 DEF Partial
  <2>s. /\ Section(m, 2) = m.username /\ Section(m, 3) = m.filename /\ Section(m, 4) = m.payload
        /\ Len(Section(m, 1)) = HeaderSize
    BY <1>2, SectionSeq
  <2>2. CASE field = "header"
    BY <2>2, <2>s DEF Need, Reading
  <2>3. CASE field = "username"
    <3>1. Reading = 2
      BY <2>3 DEF Reading
    <3> QED
      BY <3>1, <2>1, <2>3, <2>s DEF Need, HeaderOf
  <2>4. CASE field = "filename"
    <3>1. Reading = 3
      BY <2>4 DEF Reading
    <3> QED
      BY <3>1, <2>1, <2>4, <2>s DEF Need, HeaderOf
  <2>5. CASE field = "payload"
    <3>1. Reading = 4
      BY <2>5 DEF Reading
    <3>2. Len(m.payload) = IF m.meta THEN 0 ELSE m.payload_length
      BY <1>2, MessageFields
    <3> QED
      BY <3>1, <3>2, <2>1, <2>5, <2>s DEF Need, HeaderOf
  <2> QED
    BY <2>2, <2>3, <2>4, <2>5 DEF WireInv, Typed
<1> QED
  BY <1>1, <1>2, <1>3, <1>4, <1>5, <1>6

LEMMA RecvAllKeeps == WireInv /\ recv_all => WireInv'
<1> SUFFICES ASSUME WireInv, recv_all PROVE WireInv'
  OBVIOUS
<1>t. Typed
  BY DEF WireInv
<1>0. /\ UNCHANGED sendVars /\ script' = script /\ begins' = begins /\ wire' = wire
      /\ up' = up /\ field' = field /\ hdr' = hdr /\ got' = got /\ received' = received
  BY DEF recv_all, sendVars
<1>1. NetworkByteOrder' /\ Whole' /\ SenderAt'
  BY <1>0, SenderKeeps
<1>c. PICK c \in 1 .. (Len(wire) - taken) :
        /\ Len(buffer) < Need
        /\ c <= AsInt(Need - Len(buffer))
        /\ buffer' = buffer \o SubSeq(wire, taken + 1, taken + c)
        /\ taken' = taken + c
  BY DEF recv_all, RecvPart
<1>w. PICK w \in Nat : w = Len(wire)
  BY InvFacts
<1>l. PICK l \in Nat : l = Len(buffer)
  BY InvFacts
<1>u. taken \in Nat /\ wire \in Seq(Bytes) /\ buffer \in Seq(Bytes)
  BY <1>t DEF Typed
<1>2. c \in Nat /\ c > 0 /\ taken + c <= w
  BY <1>c, <1>w, <1>u
<1>3. field # "failed"
  <2>1. field = "failed" => Need = 0
    BY DEF Need
  <2>2. ~(l < 0)
    OBVIOUS
  <2> QED
    BY <2>1, <2>2, <1>c, <1>l
<1>4. Len(received) # Len(begins)
  <2>1. ASSUME Len(received) = Len(begins) PROVE FALSE
    <3>1. taken = StartOf(Len(begins) + 1) /\ Len(wire) <= StartOf(Len(begins) + 1)
      BY <2>1, <1>3 DEF WireInv, ReceiverAt, Waiting, NetworkByteOrder
    <3> QED
      BY <3>1, <1>2, <1>w, <1>u
  <2> QED
    BY <2>1
<1>m. PICK m : m = Expected
  OBVIOUS
<1>k. PICK k : k = Reading
  OBVIOUS
<1>r. PICK r : r = Len(received)
  OBVIOUS
<1>5. /\ m \in Messages /\ k \in 1 .. 4 /\ Partial(m, k) /\ Need = Len(Section(m, k))
      /\ r + 1 \in 1 .. Len(begins) /\ StartOf(r + 1) = begins[r + 1] /\ m = script[r + 1]
  BY <1>3, <1>4, <1>m, <1>k, <1>r, Receiving DEF Expected
<1>b. PICK b : b = Section(m, k)
  OBVIOUS
<1>d. PICK d \in Nat : d = Len(b)
  BY <1>5, <1>b, SectionSeq
<1>o. PICK o \in Nat : o = Offset(m, k)
  BY <1>5, OffsetSum
<1>g. PICK g \in Nat : g = begins[r + 1]
  BY <1>5, InvFacts
<1>x. PICK x \in Nat : x = Length(m)
  BY <1>5, OffsetSum
<1>a. c <= d - l
  <2>1. Need = d /\ l < d /\ c <= AsInt(d - l)
    BY <1>5, <1>b, <1>c, <1>d, <1>l, Zenon
  <2>2. PICK left \in Nat : left = d - l
    BY <2>1
  <2>3. AsInt(left) \in Nat /\ AsInt(left) <= left
    BY AsIntAtMost
  <2>4. c <= AsInt(left)
    BY <2>1, <2>2, Zenon
  <2>5. c <= left
    BY <2>3, <2>4, <1>2
  <2> QED
    BY <2>2, <2>5
<1>6. /\ taken = g + o + l /\ c <= d - l /\ o + d <= x
      /\ \A j \in 1 .. l : buffer[j] = b[j]
  <2>1. /\ taken = StartOf(Len(received) + 1) + Offset(m, k) + Len(buffer)
        /\ \A j \in 1 .. Len(buffer) : buffer[j] = Section(m, k)[j]
    BY <1>5 DEF Partial
  <2>2. Offset(m, k) + Len(Section(m, k)) <= Length(m)
    BY <1>5, OffsetSum
  <2> QED
    BY <2>1, <2>2, <1>5, <1>a, <1>b, <1>d, <1>g, <1>l, <1>o, <1>r, <1>x, Zenon
<1>s. PICK s : s = SubSeq(wire, taken + 1, taken + c)
  OBVIOUS
<1>7. /\ s \in Seq(Bytes) /\ Len(s) = c
      /\ \A i \in 1 .. c : s[i] = wire[taken + i]
  <2>1. \A i \in (taken + 1) .. (taken + c) : wire[i] \in Bytes
    BY <1>u, <1>w, <1>2
  <2>2. /\ s \in Seq(Bytes)
        /\ Len(s) = IF taken + 1 <= taken + c THEN (taken + c) - (taken + 1) + 1 ELSE 0
        /\ \A i \in 1 .. (taken + c) - (taken + 1) + 1 : s[i] = wire[(taken + 1) + i - 1]
    BY <2>1, <1>s, <1>u, <1>2, SubSeqProperties
  <2>3. /\ taken + 1 <= taken + c /\ (taken + c) - (taken + 1) + 1 = c
        /\ \A i \in 1 .. c : (taken + 1) + i - 1 = taken + i
    BY <1>u, <1>2
  <2> QED
    BY <2>2, <2>3
<1>8. /\ buffer' \in Seq(Bytes) /\ Len(buffer') = l + c
      /\ \A i \in 1 .. l : buffer'[i] = buffer[i]
      /\ \A i \in 1 .. c : buffer'[l + i] = s[i]
  <2>1. buffer' = Join(buffer, s)
    BY <1>c, <1>s DEF Join
  <2>2. /\ buffer' \in Seq(Bytes) /\ Len(buffer') = Len(buffer) + Len(s)
        /\ \A i \in 1 .. Len(buffer) : buffer'[i] = buffer[i]
        /\ \A i \in 1 .. Len(s) : buffer'[Len(buffer) + i] = s[i]
    BY <2>1, <1>7, <1>u, JoinCut, JoinAt
  <2> QED
    BY <2>2, <1>7, <1>l
<1>9. ASSUME NEW i \in 1 .. c PROVE s[i] = b[l + i]
  <2>1. /\ l + i \in 1 .. d /\ o + (l + i) \in 1 .. x /\ taken + i = g + (o + (l + i))
        /\ taken + i <= w
    BY <1>6, <1>2
  <2>2. wire[begins[r + 1] + (o + (l + i))] = Encoding(m)[o + (l + i)]
    BY <2>1, <1>5, <1>g, <1>w, <1>x DEF WireInv, NetworkByteOrder
  <2>3. Encoding(m)[o + (l + i)] = b[l + i]
    BY <2>1, <1>5, <1>b, <1>d, <1>o, EncodingSections
  <2> QED
    BY <2>1, <2>2, <2>3, <1>7, <1>g
<1>10. \A j \in 1 .. (l + c) : buffer'[j] = b[j]
  <2>1. ASSUME NEW j \in 1 .. (l + c) PROVE buffer'[j] = b[j]
    <3>1. CASE j <= l
      <4>1. j \in 1 .. l
        BY <3>1, <1>2
      <4> QED
        BY <4>1, <1>6, <1>8
    <3>2. CASE j > l
      <4>1. PICK i \in 1 .. c : j = l + i
        <5>1. j - l \in 1 .. c /\ j = l + (j - l)
          BY <3>2, <1>2
        <5> QED
          BY <5>1
      <4> QED
        BY <4>1, <1>8, <1>9
    <3> QED
      BY <3>1, <3>2, <1>2
  <2> QED
    BY <2>1
<1>11. Typed'
  <2>1. taken' \in 0 .. Len(wire')
    BY <1>0, <1>c, <1>2, <1>u, <1>w
  <2> QED
    BY <2>1, <1>0, <1>8, <1>t DEF Typed, sendVars
<1>12. Heard'
  BY <1>0 DEF WireInv, Heard
<1>13. ReceiverAt'
  <2>1. Reading' = k
    BY <1>0, <1>k DEF Reading
  <2>2. StartOf(Len(received) + 1)' = g
    <3>1. StartOf(Len(received) + 1)' = StartOf(Len(received) + 1)
      BY <1>0 DEF StartOf
    <3> QED
      BY <3>1, <1>5, <1>g, <1>r
  <2>3. taken + c = g + o + (l + c) /\ l + c <= d
    BY <1>6, <1>2
  <2>4. Partial(m, k)'
    <3>1. taken' = StartOf(Len(received) + 1)' + Offset(m, k) + Len(buffer')
      BY <2>2, <2>3, <1>8, <1>c, <1>o
    <3>2. Len(buffer') <= Len(Section(m, k))
      BY <2>3, <1>8, <1>b, <1>d
    <3>3. \A j \in 1 .. Len(buffer') : buffer'[j] = Section(m, k)[j]
      BY <1>8, <1>10, <1>b
    <3> QED
      BY <3>1, <3>2, <3>3, <1>0, <1>5 DEF Partial
  <2>5. Partial(script[Len(received) + 1], Reading)'
    BY <2>1, <2>4, <1>0, <1>5, <1>r DEF Partial
  <2> QED
    BY <2>5, <1>0, <1>4 DEF ReceiverAt
<1> QED
  BY <1>1, <1>11, <1>12, <1>13 DEF WireInv

(* recv_all returns: the buffer is the section. *)
LEMMA SectionTaken ==
    ASSUME WireInv, Ready
    PROVE  LET m == Expected
           IN  /\ Len(received) # Len(begins) /\ m \in Messages
               /\ Reading \in 1 .. 4 /\ Partial(m, Reading)
               /\ buffer = Section(m, Reading)
               /\ taken = StartOf(Len(received) + 1) + Offset(m, Reading + 1)
               /\ StartOf(Len(received) + 1) \in Nat
               /\ Len(received) + 1 \in 1 .. Len(begins)
               /\ StartOf(Len(received) + 1) = begins[Len(received) + 1]
<1>0. field # "failed" /\ Len(buffer) = Need
  BY DEF Ready
<1>1. Len(received) # Len(begins)
  <2>1. ASSUME Len(received) = Len(begins) PROVE FALSE
    <3>1. field = "header" /\ buffer = <<>>
      BY <2>1, <1>0 DEF WireInv, ReceiverAt, Waiting
    <3>2. Need = 32 /\ Len(buffer) = 0
      BY <3>1 DEF Need, HeaderSize
    <3> QED
      BY <3>2, <1>0
  <2> QED
    BY <2>1
<1>m. PICK m : m = Expected
  OBVIOUS
<1>k. PICK k : k = Reading
  OBVIOUS
<1>2. /\ m \in Messages /\ k \in 1 .. 4 /\ Partial(m, k) /\ Need = Len(Section(m, k))
      /\ Len(received) + 1 \in 1 .. Len(begins)
      /\ StartOf(Len(received) + 1) = begins[Len(received) + 1]
  BY <1>0, <1>1, <1>m, <1>k, Receiving
<1>3. buffer = Section(m, k)
  <2>1. buffer \in Seq(Bytes) /\ Section(m, k) \in Seq(Bytes) /\ Len(buffer) = Len(Section(m, k))
    BY <1>0, <1>2, SectionSeq DEF WireInv, Typed
  <2>2. \A j \in 1 .. Len(buffer) : buffer[j] = Section(m, k)[j]
    BY <1>2 DEF Partial
  <2> QED
    BY <2>1, <2>2, SeqEqual
<1>4. StartOf(Len(received) + 1) \in Nat
  BY <1>2, InvFacts
<1>5. taken = StartOf(Len(received) + 1) + Offset(m, k + 1)
  <2>1. taken = StartOf(Len(received) + 1) + Offset(m, k) + Len(buffer)
    BY <1>2 DEF Partial
  <2>2. /\ Offset(m, k) \in Nat /\ Len(Section(m, k)) \in Nat
        /\ Offset(m, k + 1) = Offset(m, k) + Len(Section(m, k))
    BY <1>2, OffsetSum
  <2> QED
    BY <2>1, <2>2, <1>3, <1>4
<1> QED
  BY <1>1, <1>2, <1>3, <1>4, <1>5, <1>m, <1>k

(* A section is taken and the next one begins. *)
LEMMA NextSection ==
    ASSUME WireInv, Ready, UNCHANGED <<sendVars, up, taken, received>>, buffer' = <<>>,
           field' \in {"header", "username", "filename", "payload"},
           Reading' = Reading + 1,
           got' \in [username : Seq(Bytes), filename : Seq(Bytes)],
           hdr' = HeaderOf(Expected),
           Reading + 1 > 2 => got'.username = Expected.username,
           Reading + 1 > 3 => got'.filename = Expected.filename
    PROVE  WireInv'
<1>0. /\ UNCHANGED sendVars /\ script' = script /\ begins' = begins /\ wire' = wire /\ up' = up
      /\ taken' = taken /\ received' = received
  BY DEF sendVars
<1>1. NetworkByteOrder' /\ Whole' /\ SenderAt'
  BY <1>0, SenderKeeps
<1>m. PICK m : m = Expected
  OBVIOUS
<1>k. PICK k : k = Reading + 1
  OBVIOUS
<1>2. /\ Len(received) # Len(begins) /\ m \in Messages /\ Reading \in 1 .. 4
      /\ taken = StartOf(Len(received) + 1) + Offset(m, k)
      /\ StartOf(Len(received) + 1) \in Nat
  BY <1>m, <1>k, SectionTaken
<1>3. Reading' = k /\ k \in 1 .. 4
  <2>1. field' # "failed"
    OBVIOUS
  <2>2. Reading' \in 1 .. 4
    BY DEF Reading
  <2> QED
    BY <2>2, <1>k
<1>4. Typed'
  <2>1. <<>> \in Seq(Bytes)
    OBVIOUS
  <2> QED
    BY <2>1, <1>0 DEF WireInv, Typed, sendVars
<1>5. Heard'
  BY <1>0 DEF WireInv, Heard
<1>6. StartOf(Len(received) + 1)' = StartOf(Len(received) + 1)
  BY <1>0 DEF StartOf
<1>7. Partial(m, k)'
  <2>0. Len(buffer') = 0 /\ Offset(m, k) \in Nat /\ Len(Section(m, k)) \in Nat
    BY <1>2, <1>3, OffsetSum
  <2>1. taken' = StartOf(Len(received) + 1)' + Offset(m, k) + Len(buffer')
    <3>1. \A x \in Nat, y \in Nat : x + y + 0 = x + y
      OBVIOUS
    <3>2. StartOf(Len(received) + 1) + Offset(m, k) + 0 = StartOf(Len(received) + 1) + Offset(m, k)
      BY <3>1, <2>0, <1>2
    <3> QED
      BY <3>2, <2>0, <1>0, <1>2, <1>6
  <2>2. Len(buffer') <= Len(Section(m, k))
    BY <2>0
  <2>3. \A j \in 1 .. Len(buffer') : buffer'[j] = Section(m, k)[j]
    BY <2>0
  <2>5. hdr' = HeaderOf(m)
    BY <1>m
  <2>6. k > 3 => got'.filename = m.filename
    BY <1>m, <1>k
  <2>7. k > 2 => got'.username = m.username
    BY <1>m, <1>k
  <2> QED
    BY <2>1, <2>2, <2>3, <2>5, <2>6, <2>7 DEF Partial
<1>8. Partial(script[Len(received) + 1], Reading)'
  BY <1>0, <1>3, <1>7, <1>m DEF Partial, Expected
<1>9. ReceiverAt'
  BY <1>0, <1>2, <1>8 DEF ReceiverAt
<1> QED
  BY <1>1, <1>4, <1>5, <1>9 DEF WireInv

LEMMA TakeHeaderKeeps == WireInv /\ TakeHeader => WireInv'
<1> SUFFICES ASSUME WireInv, TakeHeader PROVE WireInv'
  OBVIOUS
<1>1. /\ Ready /\ UNCHANGED <<sendVars, up, taken, received>> /\ buffer' = <<>> /\ got' = got
      /\ field = "header" /\ field' = "username" /\ hdr' = recv_header(buffer)
  BY DEF TakeHeader
<1>2. Reading = 1 /\ Reading' = Reading + 1
  BY <1>1 DEF Reading
<1>3. Expected \in Messages /\ buffer = Section(Expected, 1)
  BY <1>1, <1>2, SectionTaken
<1>4. hdr' = HeaderOf(Expected)
  <2>1. buffer = send_header(Expected)
    BY <1>3, SectionSeq, HeaderBigEndian
  <2> QED
    BY <2>1, <1>1, <1>3, HeaderRoundTrip DEF HeaderOf
<1>5. got \in [username : Seq(Bytes), filename : Seq(Bytes)]
  BY DEF WireInv, Typed
<1>6. ~(Reading + 1 > 2) /\ ~(Reading + 1 > 3)
  BY <1>2
<1> QED
  BY <1>1, <1>2, <1>4, <1>5, <1>6, NextSection

LEMMA TakeNameKeeps == WireInv /\ TakeName => WireInv'
<1> SUFFICES ASSUME WireInv, TakeName PROVE WireInv'
  OBVIOUS
<1>1. /\ Ready /\ UNCHANGED <<sendVars, up, taken, received>> /\ buffer' = <<>> /\ hdr' = hdr
      /\ field \in {"username", "filename"} /\ got' = [got EXCEPT ![field] = buffer]
      /\ field' = IF field = "username" THEN "filename" ELSE "payload"
  BY DEF TakeName
<1>m. PICK m : m = Expected
  OBVIOUS
<1>2. /\ m \in Messages /\ Partial(m, Reading) /\ buffer = Section(m, Reading)
  BY <1>1, <1>m, SectionTaken
<1>3. /\ got \in [username : Seq(Bytes), filename : Seq(Bytes)] /\ buffer \in Seq(Bytes)
  BY DEF WireInv, Typed
<1>4. got' \in [username : Seq(Bytes), filename : Seq(Bytes)]
  BY <1>1, <1>3
<1>5. CASE field = "username"
  <2>1. Reading = 2 /\ Reading' = Reading + 1 /\ field' = "filename"
    BY <1>1, <1>5 DEF Reading
  <2>2. hdr' = HeaderOf(m)
    BY <1>1, <1>2, <2>1 DEF Partial
  <2>3. got'.username = m.username
    BY <1>1, <1>2, <1>3, <1>5, <2>1, SectionSeq
  <2>4. ~(Reading + 1 > 3)
    BY <2>1
  <2> QED
    BY <2>1, <2>2, <2>3, <2>4, <1>1, <1>4, <1>m, NextSection
<1>6. CASE field = "filename"
  <2>1. Reading = 3 /\ Reading' = Reading + 1 /\ field' = "payload"
    BY <1>1, <1>6 DEF Reading
  <2>2. hdr' = HeaderOf(m) /\ got.username = m.username
    BY <1>1, <1>2, <2>1 DEF Partial
  <2>3. got'.username = m.username /\ got'.filename = m.filename
    BY <1>1, <1>2, <1>3, <1>6, <2>1, <2>2, SectionSeq
  <2> QED
    BY <2>1, <2>2, <2>3, <1>1, <1>4, <1>m, NextSection
<1> QED
  BY <1>1, <1>5, <1>6

(* What recv_message hands over is the message that was sent. *)
LEMMA PayloadTaken ==
    ASSUME WireInv, TakePayload
    PROVE  /\ Len(received) < Len(begins) /\ Expected \in Messages
           /\ received' = Append(received, script[Len(received) + 1])
<1>1. /\ Ready /\ field = "payload"
      /\ received' = Append(received,
            [meta |-> Expected.meta, command |-> hdr.command, status |-> hdr.status,
             payload_length |-> hdr.payload, username |-> got.username,
             filename |-> got.filename, payload |-> buffer])
  BY DEF TakePayload
<1>m. PICK m : m = Expected
  OBVIOUS
<1>2. Reading = 4
  BY <1>1 DEF Reading
<1>3. /\ m \in Messages /\ Partial(m, 4) /\ buffer = Section(m, 4)
      /\ Len(received) + 1 \in 1 .. Len(begins)
  BY <1>1, <1>2, <1>m, SectionTaken
<1>4. /\ hdr = HeaderOf(m) /\ got.username = m.username /\ got.filename = m.filename
      /\ buffer = m.payload
  BY <1>3, SectionSeq DEF Partial
<1>5. m \in [meta : BOOLEAN, command : 0 .. (Half - 1), status : 0 .. (Half - 1),
             payload_length : 0 .. (Half * Half - 1),
             username : Seq(Bytes), filename : Seq(Bytes), payload : Seq(Bytes)]
  BY <1>3, ProtocolAssumption
<1>6. m = [meta |-> m.meta, command |-> m.command, status |-> m.status,
           payload_length |-> m.payload_length, username |-> m.username,
           filename |-> m.filename, payload |-> m.payload]
  BY <1>5
<1>7. hdr.command = m.command /\ hdr.status = m.status /\ hdr.payload = m.payload_length
  BY <1>4 DEF HeaderOf
<1>8. received' = Append(received, m)
  BY <1>1, <1>4, <1>6, <1>7, <1>m, Zenon
<1>9. Len(received) < Len(begins)
  BY <1>3, InvFacts
<1> QED
  BY <1>3, <1>8, <1>9, <1>m DEF Expected

LEMMA TakePayloadKeeps == WireInv /\ TakePayload => WireInv'
<1> SUFFICES ASSUME WireInv, TakePayload PROVE WireInv'
  OBVIOUS
<1>0. /\ UNCHANGED sendVars /\ script' = script /\ begins' = begins /\ wire' = wire /\ up' = up
      /\ taken' = taken /\ field' = "header" /\ buffer' = <<>> /\ hdr' = hdr /\ got' = got
      /\ Ready /\ field = "payload"
  BY DEF TakePayload, sendVars
<1>1. NetworkByteOrder' /\ Whole' /\ SenderAt'
  BY <1>0, SenderKeeps
<1>m. PICK m : m = Expected
  OBVIOUS
<1>r. PICK r \in Nat : r = Len(received)
  BY InvFacts
<1>2. r < Len(begins) /\ m \in Messages /\ received' = Append(received, m) /\ m = script[r + 1]
  BY <1>m, <1>r, PayloadTaken DEF Expected
<1>3. /\ received' \in Seq(Messages) /\ Len(received') = r + 1
      /\ \A i \in 1 .. r : received'[i] = received[i]
      /\ received'[r + 1] = m
  <2>1. received \in Seq(Messages)
    BY DEF WireInv, Heard
  <2> QED
    BY <2>1, <1>2, <1>r
<1>4. Typed'
  <2>1. <<>> \in Seq(Bytes)
    OBVIOUS
  <2> QED
    BY <2>1, <1>0 DEF WireInv, Typed, sendVars
<1>5. Heard'
  <2>1. \A i \in 1 .. r : received[i] = script[i]
    BY <1>r DEF WireInv, Heard
  <2>2. \A i \in 1 .. (r + 1) : i \in 1 .. r \/ i = r + 1
    OBVIOUS
  <2>3. \A i \in 1 .. (r + 1) : received'[i] = script[i]
    BY <2>1, <2>2, <1>2, <1>3
  <2>4. r + 1 <= Len(begins)
    BY <1>2, InvFacts
  <2> QED
    BY <2>3, <2>4, <1>0, <1>3 DEF Heard
<1>6. taken = begins[r + 1] + Length(m)
  <2>1. Reading = 4
    BY <1>0 DEF Reading
  <2>2. taken = begins[r + 1] + Offset(m, 4 + 1)
    BY <2>1, <1>0, <1>m, <1>r, SectionTaken
  <2>3. Offset(m, 4 + 1) = Length(m)
    BY <1>2, OffsetSum
  <2> QED
    BY <2>2, <2>3
<1>7. StartOf(r + 2)' = begins[r + 1] + Length(m)
  <2>1. r + 2 # 1 /\ (r + 2) - 1 = r + 1
    OBVIOUS
  <2> QED
    BY <2>1, <1>0, <1>2 DEF StartOf
<1>8. taken' = StartOf(Len(received) + 1)'
  <2>1. Len(received') + 1 = r + 2
    BY <1>3
  <2> QED
    BY <2>1, <1>0, <1>6, <1>7 DEF StartOf
<1>9. ReceiverAt'
  <2>1. CASE Len(received') = Len(begins')
    BY <2>1, <1>0, <1>8 DEF ReceiverAt, Waiting
  <2>2. CASE Len(received') # Len(begins')
    <3>m. PICK x : x = script'[Len(received') + 1]
      OBVIOUS
    <3>1. x \in Messages
      <4>1. r + 2 \in 1 .. Len(script)
        <5>1. PICK n \in Nat : n = Len(begins)
          BY InvFacts
        <5>2. r < n /\ r + 1 # n
          BY <5>1, <2>2, <1>0, <1>2, <1>3
        <5>3. r + 2 <= n
          BY <5>2
        <5>4. n <= Len(script) /\ Len(script) \in Nat
          BY <5>1, InvFacts DEF WireInv, Typed
        <5> QED
          BY <5>3, <5>4
      <4>2. Len(received') + 1 = r + 2
        BY <1>3
      <4> QED
        BY <4>1, <4>2, <3>m, <1>0, InvFacts
    <3>2. Reading' = 1 /\ Len(buffer') = 0
      BY <1>0 DEF Reading
    <3>3. Offset(x, 1) = 0 /\ Len(Section(x, 1)) \in Nat
      BY <3>1, OffsetSum
    <3>4. taken \in Nat
      BY DEF WireInv, Typed
    <3>5. taken' = StartOf(Len(received) + 1)' + Offset(x, 1) + Len(buffer')
      <4>1. \A y \in Nat : y + 0 + 0 = y
        OBVIOUS
      <4> QED
        BY <4>1, <3>2, <3>3, <3>4, <1>0, <1>8
    <3>6. Len(buffer') <= Len(Section(x, 1)) /\ \A j \in 1 .. Len(buffer') : FALSE
      BY <3>2, <3>3
    <3>7. Partial(x, 1)'
      BY <3>5, <3>6 DEF Partial
    <3>8. Partial(script[Len(received) + 1], Reading)'
      BY <3>7, <3>2, <3>m DEF Partial
    <3> QED
      BY <3>8, <2>2 DEF ReceiverAt
  <2> QED
    BY <2>1, <2>2
<1> QED
  BY <1>1, <1>4, <1>5, <1>9 DEF WireInv

LEMMA OthersKeep ==
    ASSUME WireInv, RecvFails \/ Break \/ UNCHANGED wireVars
    PROVE  WireInv'
<1>1. CASE RecvFails
  <2>0. /\ UNCHANGED sendVars /\ script' = script /\ begins' = begins /\ wire' = wire /\ up' = FALSE
        /\ taken' = taken /\ field' = "failed" /\ buffer' = buffer /\ got' = got
        /\ received' = received
    BY <1>1 DEF RecvFails, sendVars
  <2>1. NetworkByteOrder' /\ Whole' /\ SenderAt'
    BY <2>0, SenderKeeps
  <2>2. Typed'
    BY <2>0 DEF WireInv, Typed, sendVars
  <2>3. Heard' /\ ReceiverAt'
    BY <2>0 DEF WireInv, Heard, ReceiverAt
  <2> QED
    BY <2>1, <2>2, <2>3 DEF WireInv
<1>2. CASE Break \/ UNCHANGED wireVars
  <2>0. UNCHANGED sendVars /\ UNCHANGED recvVars /\ up' \in BOOLEAN
    BY <1>2 DEF Break, wireVars, WireInv, Typed
  <2>1. NetworkByteOrder' /\ Whole' /\ SenderAt'
    BY <2>0, SenderKeeps
  <2>2. Heard' /\ ReceiverAt'
    BY <2>0, ReceiverKeeps DEF sendVars
  <2>3. Typed'
    BY <2>0 DEF WireInv, Typed, sendVars, recvVars
  <2> QED
    BY <2>1, <2>2, <2>3 DEF WireInv
<1> QED
  BY <1>1, <1>2

-----------------------------------------------------------------------------
(* Theorems *)

(***************************************************************************)
(* The inductive invariant: the wire holds the encodings of the messages   *)
(* begun, one after the other; the sender stands at a section of the last  *)
(* one, between two, or gave up; the receiver has the first messages, and  *)
(* its buffer is the beginning of a section of the next one.               *)
(***************************************************************************)
THEOREM WireInvariant == WireSpec => []WireInv
<1>1. WireInv /\ [WireNext]_wireVars => WireInv'
  BY SendMessageKeeps, SendAllKeeps, SendFailsKeeps, RecvAllKeeps, TakeHeaderKeeps,
     TakeNameKeeps, TakePayloadKeeps, OthersKeep
     DEF WireNext, Sender, Receiver, Over
<1> QED
  BY InvInit, <1>1, PTL DEF WireSpec

(* recv_all never asks for more than is left of its buffer: the type invariant. *)
THEOREM WireTypeCorrect == WireSpec => []WireTypeOK
<1>1. WireInv => WireTypeOK
  <2> SUFFICES ASSUME WireInv PROVE WireTypeOK
    OBVIOUS
  <2>1. Len(received) < Len(script) /\ field # "failed" => Len(buffer) <= Need
    <3> SUFFICES ASSUME field # "failed" PROVE Len(buffer) <= Need
      OBVIOUS
    <3>1. CASE Len(received) = Len(begins)
      <4>1. field = "header" /\ buffer = <<>>
        BY <3>1 DEF WireInv, ReceiverAt, Waiting
      <4>2. Need = 32 /\ Len(buffer) = 0
        BY <4>1 DEF Need, HeaderSize
      <4> QED
        BY <4>2
    <3>2. CASE Len(received) # Len(begins)
      <4>1. Partial(Expected, Reading) /\ Need = Len(Section(Expected, Reading))
        BY <3>2, Receiving
      <4> QED
        BY <4>1 DEF Partial
    <3> QED
      BY <3>1, <3>2
  <2> QED
    BY <2>1 DEF WireInv, Typed, WireTypeOK
<1> QED
  BY <1>1, WireInvariant, PTL

(***************************************************************************)
(* README, Network Byte Order: whatever pieces send takes and wherever the *)
(* connection breaks, the wire holds big-endian headers, each followed by  *)
(* exactly what its lengths announce and then by the next one.             *)
(***************************************************************************)
THEOREM WireInNetworkOrder == WireSpec => []NetworkByteOrder
<1>1. WireInv => NetworkByteOrder
  BY DEF WireInv
<1> QED
  BY <1>1, WireInvariant, PTL

(***************************************************************************)
(* README, Message Framing: the byte stream implements the safety part of  *)
(* a channel of messages: what recv_message hands over are the messages    *)
(* that send_message was given, whole, unchanged, in order, at most once.  *)
(***************************************************************************)
THEOREM FramesMessages == WireSpec => Channel!Safe
<1>1. WireInit => Channel!Init
  <2> SUFFICES ASSUME WireInit PROVE Channel!Init
    OBVIOUS
  <2>1. begins = <<>> /\ received = <<>> /\ up = TRUE
    BY DEF WireInit
  <2>2. SubSeq(script, 1, Len(begins)) = <<>>
    <3>1. Len(begins) = 0
      BY <2>1
    <3> QED
      BY <3>1, SubSeqEmpty
  <2> QED
    BY <2>1, <2>2 DEF Channel!Init
<1>2. WireInv /\ WireInv' /\ [WireNext]_wireVars
        => [Channel!Next]_<<SubSeq(script, 1, Len(begins)), received, up>>
  <2> SUFFICES ASSUME WireInv, WireInv', [WireNext]_wireVars
               PROVE  [Channel!Next]_<<SubSeq(script, 1, Len(begins)), received, up>>
    OBVIOUS
  <2>1. CASE send_message
    <3>1. /\ script' = script /\ begins' = Append(begins, Len(wire)) /\ received' = received
          /\ up' = up
      BY <2>1 DEF send_message, recvVars
    <3>n. PICK n \in Nat : n = Len(begins)
      BY InvFacts
    <3>2. Len(begins') = n + 1 /\ n + 1 <= Len(script) /\ script \in Seq(Messages)
      BY <3>1, <3>n DEF WireInv, Typed
    <3>3. SubSeq(script, 1, n + 1) = Append(SubSeq(script, 1, n), script[n + 1])
      <4>1. /\ SubSeq(script, 1, n + 1) \in Seq(Messages)
            /\ Len(SubSeq(script, 1, n + 1)) = n + 1
            /\ \A i \in 1 .. (n + 1) : SubSeq(script, 1, n + 1)[i] = script[i]
        BY <3>2
      <4>2. /\ SubSeq(script, 1, n) \in Seq(Messages)
            /\ Len(SubSeq(script, 1, n)) = n
            /\ \A i \in 1 .. n : SubSeq(script, 1, n)[i] = script[i]
        BY <3>2
      <4>3. script[n + 1] \in Messages
        BY <3>2
      <4>4. PICK s : s = SubSeq(script, 1, n)
        OBVIOUS
      <4>5. PICK t : t = SubSeq(script, 1, n + 1)
        OBVIOUS
      <4>6. /\ s \in Seq(Messages) /\ Len(s) = n /\ t \in Seq(Messages) /\ Len(t) = n + 1
            /\ \A i \in 1 .. n : s[i] = script[i]
            /\ \A i \in 1 .. (n + 1) : t[i] = script[i]
        BY <4>1, <4>2, <4>4, <4>5
      <4>7. t = Append(s, script[n + 1])
        BY <4>3, <4>6
      <4> QED
        BY <4>4, <4>5, <4>7
    <3>4. script[n + 1] \in Messages
      BY <3>2
    <3>5. /\ SubSeq(script, 1, Len(begins))' = SubSeq(script, 1, n + 1)
          /\ SubSeq(script, 1, Len(begins)) = SubSeq(script, 1, n)
      BY <3>1, <3>2, <3>n
    <3>6. Channel!Send
      BY <3>1, <3>3, <3>4, <3>5 DEF Channel!Send
    <3> QED
      BY <3>6 DEF Channel!Next
  <2>2. CASE TakePayload
    <3>1. /\ script' = script /\ begins' = begins /\ up' = up
      BY <2>2 DEF TakePayload, sendVars
    <3>2. /\ Len(received) < Len(begins)
          /\ received' = Append(received, script[Len(received) + 1])
      BY <2>2, PayloadTaken
    <3>3. /\ Len(SubSeq(script, 1, Len(begins))) = Len(begins)
          /\ SubSeq(script, 1, Len(begins))[Len(received) + 1] = script[Len(received) + 1]
      <4>1. PICK n \in Nat : n = Len(begins)
        BY InvFacts
      <4>2. PICK r \in Nat : r = Len(received)
        BY InvFacts
      <4>3. r < n /\ n <= Len(script) /\ script \in Seq(Messages)
        BY <3>2, <4>1, <4>2 DEF WireInv, Typed
      <4>4. /\ Len(SubSeq(script, 1, n)) = n
            /\ \A i \in 1 .. n : SubSeq(script, 1, n)[i] = script[i]
        BY <4>3
      <4>5. r + 1 \in 1 .. n
        BY <4>3
      <4> QED
        BY <4>1, <4>2, <4>4, <4>5
    <3>4. SubSeq(script, 1, Len(begins))' = SubSeq(script, 1, Len(begins))
      BY <3>1
    <3>5. Channel!Deliver
      BY <3>1, <3>2, <3>3, <3>4 DEF Channel!Deliver
    <3> QED
      BY <3>5 DEF Channel!Next
  <2>3. CASE Break \/ SendFails \/ RecvFails
    <3>1. script' = script /\ begins' = begins /\ received' = received /\ up' = FALSE
      BY <2>3 DEF Break, SendFails, RecvFails, sendVars, recvVars
    <3>2. Channel!Break
      BY <3>1 DEF Channel!Break
    <3> QED
      BY <3>2 DEF Channel!Next
  <2>4. CASE \/ send_all \/ recv_all \/ TakeHeader \/ TakeName
             \/ Over \/ UNCHANGED wireVars
    <3>1. script' = script /\ begins' = begins /\ received' = received /\ up' = up
      BY <2>4 DEF send_all, recv_all, TakeHeader, TakeName, Over,
                  wireVars, sendVars, recvVars
    <3> QED
      BY <3>1
  <2> QED
    BY <2>1, <2>2, <2>3, <2>4 DEF WireNext, Sender, Receiver
<1> QED
  BY <1>1, <1>2, WireInvariant, PTL DEF WireSpec, Channel!Safe
=============================================================================
