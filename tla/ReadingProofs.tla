---------------------------- MODULE ReadingProofs ---------------------------
(***************************************************************************)
(* Theorems about Framing, for every frame, text, body, limit and division *)
(* of the stream: what is encoded is decoded, whatever follows it and      *)
(* wherever it is cut, and a body is the pieces it is sent in.  Then       *)
(* theorems about Reading, which rest on them: what the read loop hands    *)
(* over is what was said, whatever the codec makes of a payload.           *)
(***************************************************************************)
EXTENDS Reading, SequenceTheorems, TLAPS

Octets == 0..255

\* A number without its last octet, that octet, and the two together.
Hi(n) == n \div 256
Lo(n) == n % 256
Cat(x, b) == 256 * x + b

-----------------------------------------------------------------------------
(* Integers of two and four octets. *)

\* upTo in FromBytes.
Upto(s) == CHOOSE g : g = [i \in 0..Len(s) |-> IF i = 0 THEN 0 ELSE 256 * g[i - 1] + s[i]]

LEMMA FromUpto ==
  ASSUME NEW s
  PROVE  FromBytes(s) = Upto(s)[Len(s)]
  BY DEF FromBytes, Upto

Reads(s, k, g) == g = [i \in 0..k |-> IF i = 0 THEN 0 ELSE 256 * g[i - 1] + s[i]]

\* If the recursion of FromBytes has a solution w, upTo is one.
LEMMA UptoIs ==
  ASSUME NEW s, NEW k \in Nat, Len(s) = k, NEW w, Reads(s, k, w)
  PROVE  /\ Upto(s)[0] = 0
         /\ \A i \in 0..(k - 1) : Upto(s)[i + 1] = 256 * Upto(s)[i] + s[i + 1]
<1>1. \E g : Reads(s, k, g)
  BY Zenon
<1>2. Upto(s) = CHOOSE g : Reads(s, k, g)
  BY DEF Upto, Reads
<1>3. Reads(s, k, Upto(s))
  BY <1>1, <1>2
<1>4. \A i \in 0..k : Upto(s)[i] = IF i = 0 THEN 0 ELSE 256 * Upto(s)[i - 1] + s[i]
  BY <1>3 DEF Reads
<1>5. 0 \in 0..k /\ \A i \in 0..(k - 1) : i + 1 \in 0..k /\ i + 1 # 0 /\ (i + 1) - 1 = i
  OBVIOUS
<1> QED
  BY <1>4, <1>5

LEMMA FromTwo ==
  ASSUME NEW s, Len(s) = 2, s[1] \in Int, s[2] \in Int
  PROVE  FromBytes(s) = Cat(s[1], s[2])
<1> DEFINE w == [i \in 0..2 |-> IF i = 0 THEN 0 ELSE IF i = 1 THEN s[1] ELSE 256 * s[1] + s[2]]
<1> DEFINE v == [i \in 0..2 |-> IF i = 0 THEN 0 ELSE 256 * w[i - 1] + s[i]]
<1>1. w[0] = 0 /\ w[1] = s[1] /\ w[2] = 256 * s[1] + s[2]
  OBVIOUS
<1>2. v[0] = 0 /\ v[1] = 256 * w[0] + s[1] /\ v[2] = 256 * w[1] + s[2]
  <2> HIDE DEF w
  <2> QED
    OBVIOUS
<1>3. w = [i \in 0..2 |-> w[i]] /\ v = [i \in 0..2 |-> v[i]]
  OBVIOUS
<1>4. 0..2 = {0, 1, 2}
  OBVIOUS
<1>5. w = v
  <2> HIDE DEF w, v
  <2>1. \A i \in 0..2 : w[i] = v[i]
    BY <1>1, <1>2, <1>4
  <2> QED
    BY <1>3, <2>1, Zenon
<1>6. Reads(s, 2, w)
  <2> HIDE DEF w
  <2> QED
    BY <1>5, Zenon DEF Reads
<1> HIDE DEF w, v
<1>7. Upto(s)[0] = 0 /\ \A i \in 0..(2 - 1) : Upto(s)[i + 1] = 256 * Upto(s)[i] + s[i + 1]
  <2>1. 2 \in Nat
    OBVIOUS
  <2> QED
    BY <1>6, <2>1, UptoIs, Zenon
<1>8. /\ Upto(s)[0 + 1] = 256 * Upto(s)[0] + s[0 + 1]
      /\ Upto(s)[1 + 1] = 256 * Upto(s)[1] + s[1 + 1]
  <2>1. 0 \in 0..(2 - 1) /\ 1 \in 0..(2 - 1)
    OBVIOUS
  <2> QED
    BY <1>7, <2>1, Zenon
<1>9. Upto(s)[2] = 256 * s[1] + s[2]
  BY <1>7, <1>8
<1> QED
  BY <1>9, FromUpto DEF Cat

LEMMA FromFour ==
  ASSUME NEW s, Len(s) = 4, s[1] \in Int, s[2] \in Int, s[3] \in Int, s[4] \in Int
  PROVE  FromBytes(s) = Cat(Cat(Cat(s[1], s[2]), s[3]), s[4])
<1> DEFINE a == s[1]
<1> DEFINE b == 256 * a + s[2]
<1> DEFINE c == 256 * b + s[3]
<1> DEFINE d == 256 * c + s[4]
<1> DEFINE w == [i \in 0..4 |-> IF i = 0 THEN 0 ELSE IF i = 1 THEN a ELSE IF i = 2 THEN b
                                ELSE IF i = 3 THEN c ELSE d]
<1> DEFINE v == [i \in 0..4 |-> IF i = 0 THEN 0 ELSE 256 * w[i - 1] + s[i]]
<1>1. w[0] = 0 /\ w[1] = a /\ w[2] = b /\ w[3] = c /\ w[4] = d
  <2> HIDE DEF a, b, c, d
  <2> QED
    OBVIOUS
<1>2. /\ v[0] = 0 /\ v[1] = 256 * w[0] + s[1] /\ v[2] = 256 * w[1] + s[2]
      /\ v[3] = 256 * w[2] + s[3] /\ v[4] = 256 * w[3] + s[4]
  <2> HIDE DEF w
  <2> QED
    OBVIOUS
<1>3. w = [i \in 0..4 |-> w[i]] /\ v = [i \in 0..4 |-> v[i]]
  <2> HIDE DEF a, b, c, d
  <2> QED
    OBVIOUS
<1>4. 0..4 = {0, 1, 2, 3, 4}
  OBVIOUS
<1>5. w = v
  <2> HIDE DEF w, v
  <2>1. v[0] = w[0] /\ v[1] = w[1] /\ v[2] = w[2] /\ v[3] = w[3] /\ v[4] = w[4]
    BY <1>1, <1>2
  <2>2. \A i \in 0..4 : w[i] = v[i]
    BY <1>4, <2>1, Zenon
  <2> QED
    BY <1>3, <2>2, Zenon
<1>6. Reads(s, 4, w)
  <2> HIDE DEF w
  <2> QED
    BY <1>5, Zenon DEF Reads
<1> HIDE DEF w, v
<1>7. Upto(s)[0] = 0 /\ \A i \in 0..(4 - 1) : Upto(s)[i + 1] = 256 * Upto(s)[i] + s[i + 1]
  <2> HIDE DEF a, b, c, d
  <2>1. 4 \in Nat
    OBVIOUS
  <2> QED
    BY <1>6, <2>1, UptoIs, Zenon
<1>8. /\ Upto(s)[0 + 1] = 256 * Upto(s)[0] + s[0 + 1]
      /\ Upto(s)[1 + 1] = 256 * Upto(s)[1] + s[1 + 1]
      /\ Upto(s)[2 + 1] = 256 * Upto(s)[2] + s[2 + 1]
      /\ Upto(s)[3 + 1] = 256 * Upto(s)[3] + s[3 + 1]
  <2>1. 0 \in 0..(4 - 1) /\ 1 \in 0..(4 - 1) /\ 2 \in 0..(4 - 1) /\ 3 \in 0..(4 - 1)
    OBVIOUS
  <2> QED
    BY <1>7, <2>1, Zenon
<1>9. Upto(s)[4] = 256 * (256 * (256 * s[1] + s[2]) + s[3]) + s[4]
  BY <1>7, <1>8
<1> QED
  BY <1>9, FromUpto DEF Cat

LEMMA FourIndices ==
  /\ 1 \in 1..4 /\ 2 \in 1..4 /\ 3 \in 1..4 /\ 4 \in 1..4
  /\ 1..4 = {1, 2, 3, 4}
  OBVIOUS

\* What two and four octets can say.
Short == {n \in Nat : Hi(n) \in Octets}
Long == {n \in Nat : Hi(Hi(Hi(n))) \in Octets}

LEMMA Division ==
  /\ \A n \in Nat :
       /\ Hi(n) \in Nat /\ Lo(n) \in Octets /\ Cat(Hi(n), Lo(n)) = n
       /\ Octet(n, 0) = Lo(n) /\ Octet(n, 1) = Lo(Hi(n))
       /\ Octet(n, 2) = Lo(Hi(Hi(n))) /\ Octet(n, 3) = Lo(Hi(Hi(Hi(n))))
  /\ \A n \in Octets : n \in Nat /\ Lo(n) = n
<1>1. ASSUME NEW n \in Nat
      PROVE  /\ Hi(n) \in Nat /\ Lo(n) \in Octets /\ Cat(Hi(n), Lo(n)) = n
  BY SMT DEF Octets, Hi, Lo, Cat
<1>2. ASSUME NEW n \in Nat
      PROVE  /\ n \div 256^0 = n /\ n \div 256^1 = n \div 256
             /\ n \div 256^2 = (n \div 256) \div 256
             /\ n \div 256^3 = ((n \div 256) \div 256) \div 256
  BY SMT
<1>3. ASSUME NEW n \in Nat
      PROVE  /\ Octet(n, 0) = Lo(n) /\ Octet(n, 1) = Lo(Hi(n))
             /\ Octet(n, 2) = Lo(Hi(Hi(n))) /\ Octet(n, 3) = Lo(Hi(Hi(Hi(n))))
  BY <1>2, SMT DEF Octet, Hi, Lo
<1>4. \A n \in Octets : n \in Nat /\ Lo(n) = n
  BY SMT DEF Octets, Lo
<1> QED
  BY <1>1, <1>3, <1>4, Zenon

LEMMA ToTwo ==
  ASSUME NEW n \in Short
  PROVE  /\ ToBytes(n, 2) = <<Hi(n), Lo(n)>>
         /\ Hi(n) \in Octets /\ Lo(n) \in Octets /\ Cat(Hi(n), Lo(n)) = n
<1>1. n \in Nat /\ Hi(n) \in Octets
  BY Zenon DEF Short
<1>2. n < 256^2
  BY <1>1, SMT DEF Hi, Octets
<1>3. Octet(n, 1) = Hi(n) /\ Octet(n, 0) = Lo(n)
  BY <1>1, Division, Zenon
<1>4. ToBytes(n, 2) = SignedBytes(n, 2)
  BY <1>1, <1>2, SMT DEF ToBytes
<1>5. SignedBytes(n, 2) = [i \in 1..2 |-> Octet(n, 2 - i)]
  BY DEF SignedBytes
<1>6. ToBytes(n, 2) = <<Octet(n, 1), Octet(n, 0)>>
  BY <1>4, <1>5
<1> QED
  BY <1>1, <1>3, <1>6, Division, Zenon

\* The octets of n, the most significant first.
Four(n) == <<Hi(Hi(Hi(n))), Lo(Hi(Hi(n))), Lo(Hi(n)), Lo(n)>>

LEMMA ToFour ==
  ASSUME NEW n \in Long
  PROVE  /\ ToBytes(n, 4) = Four(n)
         /\ \A i \in 1..4 : Four(n)[i] \in Octets
         /\ Cat(Cat(Cat(Four(n)[1], Four(n)[2]), Four(n)[3]), Four(n)[4]) = n
<1> DEFINE l == Hi(n)
<1> DEFINE m == Hi(l)
<1> DEFINE a == Hi(m)
<1>1. n \in Nat /\ a \in Octets
  BY Zenon DEF Long
<1>2. l \in Nat /\ m \in Nat /\ a \in Nat
  BY <1>1, Division, Zenon
<1>3. /\ Lo(n) \in Octets /\ Cat(l, Lo(n)) = n
      /\ Lo(l) \in Octets /\ Cat(m, Lo(l)) = l
      /\ Lo(m) \in Octets /\ Cat(a, Lo(m)) = m
      /\ Lo(a) = a
  BY <1>1, <1>2, Division, Zenon
<1>4. Octet(n, 3) = Lo(a) /\ Octet(n, 2) = Lo(m) /\ Octet(n, 1) = Lo(l) /\ Octet(n, 0) = Lo(n)
  BY <1>1, Division, Zenon
<1>5. Four(n) = <<a, Lo(m), Lo(l), Lo(n)>>
  BY Zenon DEF Four
<1> HIDE DEF a, m, l
<1>6. ToBytes(n, 4) = SignedBytes(n, 4)
  BY <1>1 DEF ToBytes
<1>7. SignedBytes(n, 4) = [i \in 1..4 |-> Octet(n, 4 - i)]
  BY DEF SignedBytes
<1>8. ToBytes(n, 4) = <<Octet(n, 3), Octet(n, 2), Octet(n, 1), Octet(n, 0)>>
  BY <1>6, <1>7
<1>9. Four(n)[1] = a /\ Four(n)[2] = Lo(m) /\ Four(n)[3] = Lo(l) /\ Four(n)[4] = Lo(n)
  BY <1>5
<1>10. \A i \in 1..4 : Four(n)[i] \in Octets
  BY <1>1, <1>3, <1>9, FourIndices
<1>11. Cat(Cat(Cat(Four(n)[1], Four(n)[2]), Four(n)[3]), Four(n)[4]) = n
  BY <1>3, <1>9, Zenon
<1>12. ToBytes(n, 4) = Four(n)
  BY <1>3, <1>4, <1>5, <1>8, Zenon
<1> QED
  BY <1>10, <1>11, <1>12, Zenon

LEMMA TwoRead ==
  ASSUME NEW n \in Short, NEW s, Len(s) = 2, s[1] = Hi(n), s[2] = Lo(n)
  PROVE  FromBytes(s) = n
<1>1. s[1] \in Octets /\ s[2] \in Octets /\ Cat(s[1], s[2]) = n
  BY ToTwo, Zenon
<1>2. s[1] \in Int /\ s[2] \in Int
  BY <1>1 DEF Octets
<1> QED
  BY <1>1, <1>2, FromTwo

LEMMA FourRead ==
  ASSUME NEW n \in Long, NEW s, Len(s) = 4, \A i \in 1..4 : s[i] = Four(n)[i]
  PROVE  FromBytes(s) = n
<1>1. s[1] = Four(n)[1] /\ s[2] = Four(n)[2] /\ s[3] = Four(n)[3] /\ s[4] = Four(n)[4]
  BY FourIndices, Zenon
<1>2. /\ s[1] \in Octets /\ s[2] \in Octets /\ s[3] \in Octets /\ s[4] \in Octets
      /\ Cat(Cat(Cat(s[1], s[2]), s[3]), s[4]) = n
  BY <1>1, FourIndices, ToFour, Zenon
<1>3. s[1] \in Int /\ s[2] \in Int /\ s[3] \in Int /\ s[4] \in Int
  BY <1>2 DEF Octets
<1> QED
  BY <1>2, <1>3, FromFour

-----------------------------------------------------------------------------
(* Sequences. *)

\* c is a and then b.
IsJoin(c, a, b) ==
  /\ Len(c) = Len(a) + Len(b)
  /\ \A i \in 1..Len(a) : c[i] = a[i]
  /\ \A i \in 1..Len(b) : c[Len(a) + i] = b[i]

LEMMA Joined ==
  ASSUME NEW S, NEW a \in Seq(S), NEW b \in Seq(S)
  PROVE  a \o b \in Seq(S) /\ IsJoin(a \o b, a, b)
<1> DEFINE c == a \o b
<1> DEFINE m == Len(a)
<1> DEFINE n == Len(b)
<1>1. m \in Nat /\ n \in Nat
  BY LenProperties
<1>2. /\ c \in Seq(S) /\ Len(c) = m + n
      /\ \A i \in 1..(m + n) : c[i] = IF i <= m THEN a[i] ELSE b[i - m]
  BY ConcatProperties
<1> HIDE DEF c, m, n
<1>3. \A i \in 1..m : i \in 1..(m + n) /\ i <= m
  BY <1>1
<1>4. \A i \in 1..n : m + i \in 1..(m + n) /\ ~ (m + i <= m) /\ (m + i) - m = i
  BY <1>1
<1>5. \A i \in 1..m : c[i] = a[i]
  BY <1>2, <1>3, Zenon
<1>6. \A i \in 1..n : c[m + i] = b[i]
  BY <1>2, <1>4, Zenon
<1> QED
  BY <1>1, <1>2, <1>5, <1>6, Zenon DEF IsJoin, c, m, n

\* c is the n elements of s from p on.
IsPiece(c, s, p, n) == Len(c) = n /\ \A i \in 1..n : c[i] = s[p + i - 1]

LEMMA Piece ==
  ASSUME NEW S, NEW s \in Seq(S), NEW p \in Nat \ {0}, NEW n \in Nat, NEW q \in Int,
         q = p + n - 1, q <= Len(s)
  PROVE  SubSeq(s, p, q) \in Seq(S) /\ IsPiece(SubSeq(s, p, q), s, p, n)
<1> DEFINE k == Len(s)
<1>1. k \in Nat
  BY LenProperties
<1>2. \A i \in 1..k : s[i] \in S
  BY ElementOfSeq
<1>3. q \in Int /\ p \in Int /\ q <= k
  BY <1>1
<1> HIDE DEF k
<1>4. \A i \in p..q : i \in 1..k
  BY <1>1, <1>3
<1>5. \A i \in p..q : s[i] \in S
  BY <1>2, <1>4, Zenon
<1>6. (IF p <= q THEN q - p + 1 ELSE 0) = n /\ q - p + 1 = n
  BY <1>3
<1>7. /\ SubSeq(s, p, q) \in Seq(S)
      /\ Len(SubSeq(s, p, q)) = IF p <= q THEN q - p + 1 ELSE 0
      /\ \A i \in 1..(q - p + 1) : SubSeq(s, p, q)[i] = s[p + i - 1]
  <2>1. \A i, j \in Int : (\A x \in i..j : s[x] \in S)
          => /\ SubSeq(s, i, j) \in Seq(S)
             /\ Len(SubSeq(s, i, j)) = IF i <= j THEN j - i + 1 ELSE 0
             /\ \A x \in 1..(j - i + 1) : SubSeq(s, i, j)[x] = s[i + x - 1]
    BY SubSeqProperties
  <2> QED
    BY <1>3, <1>5, <2>1, Zenon
<1>8. Len(SubSeq(s, p, q)) = n
  BY <1>6, <1>7, Zenon
<1>9. \A i \in 1..n : SubSeq(s, p, q)[i] = s[p + i - 1]
  BY <1>6, <1>7, Zenon
<1> QED
  BY <1>7, <1>8, <1>9, Zenon DEF IsPiece

LEMMA Shifted ==
  \A x \in Nat, b \in Octets : Cat(x, b) \in Nat /\ Hi(Cat(x, b)) = x /\ Lo(Cat(x, b)) = b
BY SMT DEF Cat, Hi, Lo, Octets

\* What four octets are read as, four octets can say.
LEMMA ReadLong ==
  ASSUME NEW s, Len(s) = 4, s[1] \in Octets, s[2] \in Octets, s[3] \in Octets, s[4] \in Octets
  PROVE  FromBytes(s) \in Long /\ \A i \in 1..4 : Four(FromBytes(s))[i] = s[i]
<1> DEFINE x == Cat(s[1], s[2])
<1> DEFINE y == Cat(x, s[3])
<1> DEFINE z == Cat(y, s[4])
<1>1. \A b \in Octets : b \in Nat
  BY DEF Octets
<1>2. FromBytes(s) = z
  <2>1. s[1] \in Int /\ s[2] \in Int /\ s[3] \in Int /\ s[4] \in Int
    BY DEF Octets
  <2> QED
    BY <2>1, FromFour
<1>3. x \in Nat /\ Hi(x) = s[1] /\ Lo(x) = s[2]
  BY <1>1, Shifted, Zenon
<1>4. y \in Nat /\ Hi(y) = x /\ Lo(y) = s[3]
  BY <1>3, Shifted, Zenon
<1>5. z \in Nat /\ Hi(z) = y /\ Lo(z) = s[4]
  BY <1>4, Shifted, Zenon
<1> HIDE DEF x, y, z
<1>6. z \in Long
  BY <1>3, <1>4, <1>5, Zenon DEF Long
<1>7. Four(z) = <<s[1], s[2], s[3], s[4]>>
  BY <1>3, <1>4, <1>5, Zenon DEF Four
<1>8. \A i \in 1..4 : Four(z)[i] = s[i]
  BY <1>7, FourIndices
<1> QED
  BY <1>2, <1>6, <1>8, Zenon

LEMMA ReadShort ==
  ASSUME NEW s, Len(s) = 2, s[1] \in Octets, s[2] \in Octets
  PROVE  /\ FromBytes(s) \in Short
         /\ Hi(FromBytes(s)) = s[1] /\ Lo(FromBytes(s)) = s[2]
<1> DEFINE x == Cat(s[1], s[2])
<1>1. s[1] \in Nat /\ s[1] \in Int /\ s[2] \in Int
  BY DEF Octets
<1>2. FromBytes(s) = x
  BY <1>1, FromTwo
<1>3. x \in Nat /\ Hi(x) = s[1] /\ Lo(x) = s[2]
  BY <1>1, Shifted, Zenon
<1> HIDE DEF x
<1>4. x \in Short
  BY <1>3, Zenon DEF Short
<1> QED
  BY <1>2, <1>3, <1>4, Zenon

LEMMA LongDown ==
  ASSUME NEW m \in Long, NEW n \in Nat, n <= m
  PROVE  n \in Long
<1>1. \A i, j \in Nat : i <= j => Hi(i) \in Nat /\ Hi(j) \in Nat /\ Hi(i) <= Hi(j)
  BY SMT DEF Hi
<1>2. m \in Nat /\ Hi(Hi(Hi(m))) \in Octets
  BY Zenon DEF Long
<1>3. Hi(Hi(Hi(n))) \in Nat /\ Hi(Hi(Hi(m))) \in Nat /\ Hi(Hi(Hi(n))) <= Hi(Hi(Hi(m)))
  BY <1>1, <1>2, Zenon
<1>4. \A i, j \in Nat : j \in Octets /\ i <= j => i \in Octets
  BY DEF Octets
<1>5. Hi(Hi(Hi(n))) \in Octets
  BY <1>2, <1>3, <1>4, Zenon
<1> QED
  BY <1>5, Zenon DEF Long

-----------------------------------------------------------------------------
(* Frames. *)

\* What the library sends as one frame.
FrameSet ==
  [type : {METHOD, HEADER, BODY, HEARTBEAT}, channel : Short, payload : Seq(Octets)]

Fits(f, m) == Len(f.payload) <= max_frame_payload(m)

\* s begins with the octets of f.
Begins(s, f) ==
  /\ Len(s) >= Len(f.payload) + 8
  /\ s[1] = f.type
  /\ s[2] = Hi(f.channel) /\ s[3] = Lo(f.channel)
  /\ \A i \in 1..4 : s[3 + i] = Four(Len(f.payload))[i]
  /\ \A i \in 1..Len(f.payload) : s[7 + i] = f.payload[i]
  /\ s[Len(f.payload) + 8] = FRAME_END

LEMMA FrameOctets ==
  ASSUME NEW f \in FrameSet, NEW m \in Long, Fits(f, m)
  PROVE  /\ encode_frame(f, m) \in Seq(Octets)
         /\ Len(encode_frame(f, m)) = Len(f.payload) + 8
         /\ Begins(encode_frame(f, m), f)
<1> DEFINE p == f.payload
<1> DEFINE n == Len(p)
<1> DEFINE h == ToBytes(f.channel, 2)
<1> DEFINE l == ToBytes(n, 4)
<1> DEFINE u == <<f.type>> \o h
<1> DEFINE v == u \o l
<1> DEFINE w == v \o p
<1> DEFINE e == w \o <<FRAME_END>>
<1>0. /\ f.channel \in Short /\ p \in Seq(Octets)
      /\ f.type \in {METHOD, HEADER, BODY, HEARTBEAT}
  BY Zenon DEF FrameSet
<1>1. n \in Nat
  BY <1>0, LenProperties, Zenon
<1>2. m \in Nat /\ n <= m - 8
  BY DEF Long, Fits, max_frame_payload, FRAME_OVERHEAD
<1>3. n \in Long
  <2> HIDE DEF n
  <2>1. n <= m
    BY <1>1, <1>2
  <2> QED
    BY <1>1, <2>1, LongDown
<1>4. h = <<Hi(f.channel), Lo(f.channel)>> /\ Hi(f.channel) \in Octets /\ Lo(f.channel) \in Octets
  BY <1>0, ToTwo, Zenon
<1>5. l = Four(n) /\ \A i \in 1..4 : l[i] \in Octets
  BY <1>3, ToFour, Zenon
<1>6. f.type \in Octets /\ FRAME_END \in Octets
  <2> HIDE DEF p, n, h, l, u, v, w, e
  <2> QED
    BY <1>0 DEF METHOD, HEADER, BODY, HEARTBEAT, FRAME_END, Octets
<1>7. e = encode_frame(f, m)
  <2>1. ~ (Len(f.payload) > max_frame_payload(m))
    BY <1>1, <1>2 DEF max_frame_payload, FRAME_OVERHEAD
  <2> QED
    BY <2>1, Zenon DEF encode_frame, frame_header
<1> HIDE DEF n, p, h, l, u, v, w, e
<1>8. h \in Seq(Octets) /\ Len(h) = 2 /\ h[1] = Hi(f.channel) /\ h[2] = Lo(f.channel)
  BY <1>4
<1>9. l \in Seq(Octets) /\ Len(l) = 4
  <2>1. l = <<l[1], l[2], l[3], l[4]>>
    BY <1>5 DEF Four
  <2>2. l[1] \in Octets /\ l[2] \in Octets /\ l[3] \in Octets /\ l[4] \in Octets
    BY <1>5, FourIndices, Zenon
  <2>3. \A b1, b2, b3, b4 \in Octets : <<b1, b2, b3, b4>> \in Seq(Octets) /\ Len(<<b1, b2, b3, b4>>) = 4
    OBVIOUS
  <2>4. PICK q : q = <<l[1], l[2], l[3], l[4]>>
    OBVIOUS
  <2>5. q \in Seq(Octets) /\ Len(q) = 4
    BY <2>2, <2>3, <2>4, Zenon
  <2>6. l = q
    BY <2>1, <2>4, Zenon
  <2> QED
    BY <2>5, <2>6, Zenon
<1>10. \A b \in Octets : <<b>> \in Seq(Octets) /\ Len(<<b>>) = 1 /\ <<b>>[1] = b
  OBVIOUS
<1>11. 1 \in 1..1 /\ 1 \in 1..2 /\ 2 \in 1..2 /\ 1 + 1 = 2 /\ 1 + 2 = 3
  OBVIOUS
<1>12. /\ u \in Seq(Octets) /\ Len(u) = 3
       /\ u[1] = f.type /\ u[2] = h[1] /\ u[3] = h[2]
  <2>1. /\ u \in Seq(Octets) /\ Len(u) = 1 + 2
        /\ \A i \in 1..1 : u[i] = <<f.type>>[i]
        /\ \A i \in 1..2 : u[1 + i] = h[i]
    <3>1. /\ <<f.type>> \in Seq(Octets) /\ Len(<<f.type>>) = 1
          /\ h \in Seq(Octets) /\ Len(h) = 2
      BY <1>6, <1>8, <1>10, Zenon
    <3>2. u \in Seq(Octets) /\ IsJoin(u, <<f.type>>, h)
      BY <3>1, Joined, Zenon DEF u
    <3> QED
      BY <3>1, <3>2, Zenon DEF IsJoin
  <2>2. 1 + 2 = 3
    OBVIOUS
  <2> QED
    BY <1>6, <1>10, <1>11, <2>1, <2>2, Zenon
<1>13. /\ v \in Seq(Octets) /\ Len(v) = 7
       /\ \A i \in 1..3 : v[i] = u[i]
       /\ \A i \in 1..4 : v[3 + i] = l[i]
  <2>1. /\ v \in Seq(Octets) /\ Len(v) = 3 + 4
        /\ \A i \in 1..3 : v[i] = u[i]
        /\ \A i \in 1..4 : v[3 + i] = l[i]
    <3>1. /\ u \in Seq(Octets) /\ Len(u) = 3
          /\ l \in Seq(Octets) /\ Len(l) = 4
      BY <1>9, <1>12, Zenon
    <3>2. v \in Seq(Octets) /\ IsJoin(v, u, l)
      BY <3>1, Joined, Zenon DEF v
    <3> QED
      BY <3>1, <3>2, Zenon DEF IsJoin
  <2>2. 3 + 4 = 7
    OBVIOUS
  <2> QED
    BY <2>1, <2>2, Zenon
<1>14. /\ w \in Seq(Octets) /\ Len(w) = 7 + n
       /\ \A i \in 1..7 : w[i] = v[i]
       /\ \A i \in 1..n : w[7 + i] = p[i]
  <2>1. /\ w \in Seq(Octets) /\ Len(w) = 7 + n
        /\ \A i \in 1..7 : w[i] = v[i]
        /\ \A i \in 1..n : w[7 + i] = p[i]
    <3>1. /\ v \in Seq(Octets) /\ Len(v) = 7
          /\ p \in Seq(Octets) /\ Len(p) = n
      BY <1>0, <1>13, Zenon DEF n
    <3>2. w \in Seq(Octets) /\ IsJoin(w, v, p)
      BY <3>1, Joined, Zenon DEF w
    <3> QED
      BY <3>1, <3>2, Zenon DEF IsJoin
  <2> QED
    BY <2>1, Zenon
<1>15. /\ e \in Seq(Octets) /\ Len(e) = (7 + n) + 1
       /\ \A i \in 1..(7 + n) : e[i] = w[i]
       /\ e[(7 + n) + 1] = FRAME_END
  <2>1. /\ e \in Seq(Octets) /\ Len(e) = (7 + n) + 1
        /\ \A i \in 1..(7 + n) : e[i] = w[i]
        /\ \A i \in 1..1 : e[(7 + n) + i] = <<FRAME_END>>[i]
    <3>1. /\ w \in Seq(Octets) /\ Len(w) = (7 + n)
          /\ <<FRAME_END>> \in Seq(Octets) /\ Len(<<FRAME_END>>) = 1
      BY <1>6, <1>10, <1>14, Zenon
    <3>2. e \in Seq(Octets) /\ IsJoin(e, w, <<FRAME_END>>)
      BY <3>1, Joined, Zenon DEF e
    <3> QED
      BY <3>1, <3>2, Zenon DEF IsJoin
  <2> QED
    BY <1>6, <1>10, <1>11, <2>1, Zenon
<1>16. /\ (7 + n) + 1 = n + 8 /\ n + 8 >= n + 8
       /\ \A i \in 1..7 : i \in 1..(7 + n)
       /\ \A i \in 1..n : 7 + i \in 1..(7 + n)
       /\ \A i \in 1..4 : 3 + i \in 1..7
       /\ \A i \in 1..3 : i \in 1..7
       /\ 1 \in 1..3 /\ 2 \in 1..3 /\ 3 \in 1..3
  BY <1>1
<1>17. e[1] = f.type /\ e[2] = h[1] /\ e[3] = h[2]
  <2>1. v[1] = u[1] /\ v[2] = u[2] /\ v[3] = u[3]
    BY <1>13, <1>16, Zenon
  <2>2. w[1] = v[1] /\ w[2] = v[2] /\ w[3] = v[3]
    BY <1>14, <1>16, Zenon
  <2>3. e[1] = w[1] /\ e[2] = w[2] /\ e[3] = w[3]
    BY <1>15, <1>16, Zenon
  <2> QED
    BY <1>12, <2>1, <2>2, <2>3, Zenon
<1>18. \A i \in 1..4 : e[3 + i] = l[i]
  BY <1>13, <1>14, <1>15, <1>16, Zenon
<1>19. \A i \in 1..n : e[7 + i] = p[i]
  BY <1>14, <1>15, <1>16, Zenon
<1>20. e[n + 8] = FRAME_END /\ Len(e) = n + 8 /\ e \in Seq(Octets)
  BY <1>15, <1>16, Zenon
<1>21. Begins(e, f)
  BY <1>5, <1>8, <1>16, <1>17, <1>18, <1>19, <1>20, Zenon DEF Begins, n, p
<1> QED
  BY <1>7, <1>20, <1>21, Zenon DEF n, p

\* The length and the channel of the frame that s begins.
SizeIn(s) == FromBytes(SubSeq(s, 4, 7))
ChannelIn(s) == FromBytes(SubSeq(s, 2, 3))

LEMMA HeaderRead ==
  ASSUME NEW s \in Seq(Octets), Len(s) >= 7
  PROVE  /\ Len(s) \in Nat
         /\ SizeIn(s) \in Long /\ SizeIn(s) \in Nat
         /\ \A i \in 1..4 : Four(SizeIn(s))[i] = s[3 + i]
         /\ ChannelIn(s) \in Short
         /\ Hi(ChannelIn(s)) = s[2] /\ Lo(ChannelIn(s)) = s[3]
<1> DEFINE a == SubSeq(s, 4, 7)
<1> DEFINE b == SubSeq(s, 2, 3)
<1>1. Len(s) \in Nat
  BY LenProperties, Zenon
<1>2. /\ \A i \in 1..4 : 4 + i - 1 = 3 + i
      /\ 2 + 1 - 1 = 2 /\ 2 + 2 - 1 = 3 /\ 1 \in 1..2 /\ 2 \in 1..2
      /\ 7 = 4 + 4 - 1 /\ 3 = 2 + 2 - 1
      /\ 4 \in Nat \ {0} /\ 4 \in Nat /\ 7 \in Int /\ 2 \in Nat \ {0} /\ 2 \in Nat /\ 3 \in Int
  OBVIOUS
<1>12. 7 <= Len(s) /\ 3 <= Len(s)
  <2> DEFINE k == Len(s)
  <2>1. k \in Nat /\ k >= 7
    BY <1>1
  <2> HIDE DEF k
  <2>2. 7 <= k /\ 3 <= k
    BY <2>1
  <2> QED
    BY <2>2 DEF k
<1>3. a \in Seq(Octets) /\ IsPiece(a, s, 4, 4)
  BY <1>2, <1>12, Piece, Zenon
<1>4. b \in Seq(Octets) /\ IsPiece(b, s, 2, 2)
  BY <1>2, <1>12, Piece, Zenon
<1> HIDE DEF a, b
<1>5. \A i \in 1..4 : a[i] \in Octets
  BY <1>3, ElementOfSeq, Zenon DEF IsPiece
<1>6. \A i \in 1..2 : b[i] \in Octets
  BY <1>4, ElementOfSeq, Zenon DEF IsPiece
<1>7. FromBytes(a) \in Long /\ \A i \in 1..4 : Four(FromBytes(a))[i] = a[i]
  BY <1>3, <1>5, FourIndices, ReadLong, Zenon DEF IsPiece
<1>8. FromBytes(b) \in Short /\ Hi(FromBytes(b)) = b[1] /\ Lo(FromBytes(b)) = b[2]
  BY <1>2, <1>4, <1>6, ReadShort, Zenon DEF IsPiece
<1>9. b[1] = s[2] /\ b[2] = s[3]
  BY <1>2, <1>4, Zenon DEF IsPiece
<1>10. FromBytes(a) \in Nat
  BY <1>7, Zenon DEF Long
<1>11. \A i \in 1..4 : a[i] = s[3 + i]
  BY <1>2, <1>3, Zenon DEF IsPiece
<1> QED
  BY <1>1, <1>7, <1>8, <1>9, <1>10, <1>11, Zenon DEF SizeIn, ChannelIn, a, b

\* Four and two octets say one number.
LEMMA SameNumber ==
  /\ \A a, b \in Long : (\A i \in 1..4 : Four(a)[i] = Four(b)[i]) => a = b
  /\ \A a, b \in Short : Hi(a) = Hi(b) /\ Lo(a) = Lo(b) => a = b
<1>1. ASSUME NEW a \in Long, NEW b \in Long, \A i \in 1..4 : Four(a)[i] = Four(b)[i]
      PROVE  a = b
  <2>1. /\ Four(a)[1] = Four(b)[1] /\ Four(a)[2] = Four(b)[2]
        /\ Four(a)[3] = Four(b)[3] /\ Four(a)[4] = Four(b)[4]
    BY <1>1, FourIndices, Zenon
  <2>2. /\ Cat(Cat(Cat(Four(a)[1], Four(a)[2]), Four(a)[3]), Four(a)[4]) = a
        /\ Cat(Cat(Cat(Four(b)[1], Four(b)[2]), Four(b)[3]), Four(b)[4]) = b
    BY ToFour, Zenon
  <2> QED
    BY <2>1, <2>2, Zenon
<1>2. ASSUME NEW a \in Short, NEW b \in Short, Hi(a) = Hi(b), Lo(a) = Lo(b)
      PROVE  a = b
  BY <1>2, ToTwo, Zenon
<1> QED
  BY <1>1, <1>2, Zenon

\* A stream that begins with a frame is that frame and what follows it.
LEMMA BeginsRead ==
  ASSUME NEW f \in FrameSet, NEW m \in Long, Fits(f, m), NEW s \in Seq(Octets), Begins(s, f)
  PROVE  decode_frame(s, m) = Ok(f, Len(f.payload) + 9)
<1> DEFINE p == f.payload
<1> DEFINE n == Len(p)
<1> DEFINE k == Len(s)
<1>0. /\ f.channel \in Short /\ p \in Seq(Octets)
      /\ f.type \in {METHOD, HEADER, BODY, HEARTBEAT}
      /\ f = Frame(f.type, f.channel, f.payload)
  BY DEF FrameSet, Frame
<1>1. n \in Nat /\ k \in Nat /\ m \in Nat
  BY <1>0, LenProperties, Zenon DEF Long
<1>2. k >= n + 8 /\ n <= m - 8
  BY Zenon DEF Begins, Fits, max_frame_payload, FRAME_OVERHEAD
<1> HIDE DEF n, k
<1>3. /\ k >= 7 /\ ~ (k < 7) /\ ~ (n > m - 8) /\ ~ (k < n + 8) /\ n <= m
      /\ n + 7 <= k /\ n + 7 = 8 + n - 1 /\ n + 7 \in Int /\ 8 \in Nat \ {0}
      /\ \A i \in 1..n : 8 + i - 1 = 7 + i
  BY <1>1, <1>2
<1>4. n \in Long
  BY <1>1, <1>3, LongDown, Zenon
<1>5. SizeIn(s) = n
  <2>1. SizeIn(s) \in Long /\ \A i \in 1..4 : Four(SizeIn(s))[i] = s[3 + i]
    BY <1>3, HeaderRead, Zenon DEF k
  <2>2. \A i \in 1..4 : s[3 + i] = Four(n)[i]
    BY Zenon DEF Begins, n
  <2> QED
    BY <1>4, <2>1, <2>2, SameNumber, Zenon
<1>6. ChannelIn(s) = f.channel
  <2>1. ChannelIn(s) \in Short /\ Hi(ChannelIn(s)) = s[2] /\ Lo(ChannelIn(s)) = s[3]
    BY <1>3, HeaderRead, Zenon DEF k
  <2>2. s[2] = Hi(f.channel) /\ s[3] = Lo(f.channel)
    BY Zenon DEF Begins
  <2> QED
    BY <1>0, <2>1, <2>2, SameNumber, Zenon
<1>7. SubSeq(s, 8, n + 7) = p
  <2> DEFINE c == SubSeq(s, 8, n + 7)
  <2>1. c \in Seq(Octets) /\ IsPiece(c, s, 8, n)
    BY <1>1, <1>3, Piece, Zenon DEF k
  <2> HIDE DEF c
  <2>2. \A i \in 1..n : s[7 + i] = p[i]
    BY Zenon DEF Begins, n
  <2>3. \A i \in 1..n : c[i] = p[i]
    BY <1>3, <2>1, <2>2, Zenon DEF IsPiece
  <2>4. c = p
    BY <1>0, <2>1, <2>3, SeqEqual, Zenon DEF n, IsPiece
  <2> QED
    BY <1>3, <2>4, Zenon DEF c
<1>8. s[1] = f.type /\ s[n + 8] = FRAME_END
  BY Zenon DEF Begins, n
<1>9. ~ (n > max_frame_payload(m))
  BY <1>3, Zenon DEF max_frame_payload, FRAME_OVERHEAD
<1>10. decode_frame(s, m) = Ok(Frame(s[1], ChannelIn(s), SubSeq(s, 8, n + 7)), n + 9)
  BY <1>0, <1>3, <1>5, <1>8, <1>9, Zenon DEF decode_frame, SizeIn, ChannelIn, k
<1> QED
  BY <1>0, <1>6, <1>7, <1>8, <1>10, Zenon DEF n

\* Streams that begin with the same frame agree on its octets, and conversely.
Agree(s, t, f) == \A i \in 1..(Len(f.payload) + 8) : s[i] = t[i]

LEMMA BeginsAgree ==
  ASSUME NEW f \in FrameSet, NEW s, NEW t, Begins(s, f), Len(s) \in Nat, Len(t) \in Nat
  PROVE  /\ Begins(t, f) => Agree(s, t, f)
         /\ Len(t) >= Len(f.payload) + 8 /\ Agree(s, t, f) => Begins(t, f)
<1> DEFINE n == Len(f.payload)
<1>1. n \in Nat
  <2>1. f.payload \in Seq(Octets)
    BY Zenon DEF FrameSet
  <2> QED
    BY <2>1, LenProperties, Zenon
<1> HIDE DEF n
<1>2. \A i \in 1..(n + 8) :
        \/ i = 1 \/ i = 2 \/ i = 3 \/ i = n + 8
        \/ i - 3 \in 1..4 /\ 3 + (i - 3) = i
        \/ i - 7 \in 1..n /\ 7 + (i - 7) = i
  BY <1>1
<1>3. /\ 1 \in 1..(n + 8) /\ 2 \in 1..(n + 8) /\ 3 \in 1..(n + 8) /\ n + 8 \in 1..(n + 8)
      /\ \A i \in 1..4 : 3 + i \in 1..(n + 8)
      /\ \A i \in 1..n : 7 + i \in 1..(n + 8)
  BY <1>1
<1>4. ASSUME Begins(t, f), NEW i \in 1..(n + 8)
      PROVE  s[i] = t[i]
  <2>1. CASE i = 1 \/ i = 2 \/ i = 3 \/ i = n + 8
    BY <1>4, <2>1, Zenon DEF Begins, n
  <2>2. CASE i - 3 \in 1..4 /\ 3 + (i - 3) = i
    BY <1>4, <2>2, Zenon DEF Begins, n
  <2>3. CASE i - 7 \in 1..n /\ 7 + (i - 7) = i
    BY <1>4, <2>3, Zenon DEF Begins, n
  <2> QED
    BY <1>2, <2>1, <2>2, <2>3, Zenon
<1>5. ASSUME Len(t) >= n + 8, \A i \in 1..(n + 8) : s[i] = t[i]
      PROVE  Begins(t, f)
  <2>1. t[1] = f.type /\ t[2] = Hi(f.channel) /\ t[3] = Lo(f.channel) /\ t[n + 8] = FRAME_END
    BY <1>3, <1>5, Zenon DEF Begins, n
  <2>2. \A i \in 1..4 : t[3 + i] = Four(n)[i]
    BY <1>3, <1>5, Zenon DEF Begins, n
  <2>3. \A i \in 1..n : t[7 + i] = f.payload[i]
    BY <1>3, <1>5, Zenon DEF Begins, n
  <2> QED
    BY <1>5, <2>1, <2>2, <2>3, Zenon DEF Begins, n
<1> QED
  BY <1>4, <1>5, Zenon DEF Agree, n

\* A frame that encode_frame writes is the frame that decode_frame reads,
\* whatever octets follow it on the stream, and the octets that follow are left.
THEOREM FrameIsRead ==
  ASSUME NEW f \in FrameSet, NEW m \in Long, Fits(f, m), NEW rest \in Seq(Octets)
  PROVE  decode_frame(encode_frame(f, m) \o rest, m) = Ok(f, Len(encode_frame(f, m)) + 1)
<1> DEFINE e == encode_frame(f, m)
<1> DEFINE s == e \o rest
<1> DEFINE n == Len(f.payload)
<1>1. e \in Seq(Octets) /\ Len(e) = n + 8 /\ Begins(e, f)
  BY FrameOctets, Zenon
<1>2. n \in Nat
  <2>1. f.payload \in Seq(Octets)
    BY Zenon DEF FrameSet
  <2> QED
    BY <2>1, LenProperties, Zenon
<1> HIDE DEF e
<1>3. s \in Seq(Octets) /\ IsJoin(s, e, rest)
  BY <1>1, Joined, Zenon
<1> HIDE DEF s
<1>4. Len(s) \in Nat /\ Len(e) \in Nat /\ Len(rest) \in Nat
  BY <1>1, <1>3, LenProperties, Zenon
<1>5. Len(s) >= n + 8 /\ (n + 8) + 1 = n + 9
  <2> DEFINE k == Len(s)
  <2> DEFINE r == Len(rest)
  <2>1. k = (n + 8) + r /\ k \in Nat /\ r \in Nat
    BY <1>1, <1>3, <1>4, Zenon DEF IsJoin
  <2> HIDE DEF k, r, n
  <2> QED
    BY <1>2, <2>1 DEF k
<1>6. Agree(e, s, f)
  BY <1>1, <1>3, Zenon DEF IsJoin, Agree
<1>7. Begins(s, f)
  BY <1>1, <1>4, <1>5, <1>6, BeginsAgree, Zenon
<1>8. decode_frame(s, m) = Ok(f, n + 9)
  BY <1>3, <1>7, BeginsRead, Zenon
<1> QED
  BY <1>1, <1>5, <1>8, Zenon DEF s, e

\* A frame that has not arrived whole is waited for: no cut of its octets is
\* taken for a frame or for an error.
THEOREM CutFrameWaits ==
  ASSUME NEW f \in FrameSet, NEW m \in Long, Fits(f, m),
         NEW k \in 0..(Len(encode_frame(f, m)) - 1)
  PROVE  decode_frame(SubSeq(encode_frame(f, m), 1, k), m) = Incomplete
<1> DEFINE e == encode_frame(f, m)
<1> DEFINE c == SubSeq(e, 1, k)
<1> DEFINE n == Len(f.payload)
<1>1. e \in Seq(Octets) /\ Len(e) = n + 8 /\ Begins(e, f)
  BY FrameOctets, Zenon
<1>2. n \in Nat /\ m \in Nat /\ n <= m - 8
  <2>1. f.payload \in Seq(Octets) /\ m \in Nat
    BY Zenon DEF FrameSet, Long
  <2>2. n \in Nat
    BY <2>1, LenProperties, Zenon
  <2> QED
    BY <2>1, <2>2 DEF Fits, max_frame_payload, FRAME_OVERHEAD
<1> HIDE DEF e, n
<1>3. /\ k \in Nat /\ k < n + 8 /\ 1 \in Nat \ {0} /\ k \in Int /\ k = 1 + k - 1 /\ k <= n + 8
      /\ n <= m /\ ~ (n > m - 8)
      /\ \A i \in 1..k : 1 + i - 1 = i
  <2>1. k \in 0..((n + 8) - 1)
    BY <1>1, Zenon DEF e
  <2> QED
    BY <1>2, <2>1
<1>4. c \in Seq(Octets) /\ IsPiece(c, e, 1, k)
  BY <1>1, <1>3, Piece, Zenon
<1> HIDE DEF c
<1>5. Len(c) = k /\ \A i \in 1..k : c[i] = e[i]
  BY <1>3, <1>4, Zenon DEF IsPiece
<1>6. CASE k < 7
  BY <1>5, <1>6, Zenon DEF decode_frame, c, e
<1>7. CASE ~ (k < 7)
  <2>1. /\ k >= 7 /\ 1 \in 1..k /\ \A i \in 1..4 : 3 + i \in 1..k
    BY <1>3, <1>7
  <2>2. c[1] = f.type /\ \A i \in 1..4 : c[3 + i] = Four(n)[i]
    BY <1>1, <1>5, <2>1, Zenon DEF Begins, n
  <2>3. n \in Long
    BY <1>2, <1>3, LongDown, Zenon
  <2>4. SizeIn(c) \in Long /\ \A i \in 1..4 : Four(SizeIn(c))[i] = c[3 + i]
    BY <1>4, <1>5, <2>1, HeaderRead, Zenon
  <2>5. SizeIn(c) = n
    BY <2>2, <2>3, <2>4, SameNumber, ZenonT(60)
  <2>6. f.type \in {METHOD, HEADER, BODY, HEARTBEAT}
    BY Zenon DEF FrameSet
  <2>7. ~ (n > max_frame_payload(m))
    BY <1>3, Zenon DEF max_frame_payload, FRAME_OVERHEAD
  <2>8. decode_frame(c, m) = Incomplete
    BY <1>3, <1>5, <1>7, <2>2, <2>5, <2>6, <2>7, Zenon DEF decode_frame, SizeIn
  <2> QED
    BY <2>8, Zenon DEF c, e
<1> QED
  BY <1>6, <1>7, Zenon

\* The reader keeps less than one frame: while decode_frame waits for more, the
\* buffer holds fewer octets than frame_max.
THEOREM BufferBounded ==
  ASSUME NEW m \in Long, m >= FRAME_OVERHEAD, NEW s \in Seq(Octets),
         decode_frame(s, m) = Incomplete
  PROVE  Len(s) < m
<1> DEFINE k == Len(s)
<1> DEFINE z == SizeIn(s)
<1>1. k \in Nat /\ m \in Nat /\ m >= 8
  BY LenProperties, Zenon DEF Long, FRAME_OVERHEAD
<1> HIDE DEF k, z
<1>2. CASE k < 7
  BY <1>1, <1>2 DEF k
<1>3. CASE ~ (k < 7)
  <2>1. k >= 7
    BY <1>1, <1>3
  <2>2. z \in Nat
    BY <2>1, HeaderRead, Zenon DEF k, z
  <2>3. ~ (z > max_frame_payload(m)) /\ k < z + 8
    <3>1. Incomplete # Bad /\ \A v, at : at \in Nat => Incomplete # Ok(v, at)
      BY DEF Incomplete, Bad, Ok
    <3>2. z + 9 \in Nat
      BY <2>2
    <3> QED
      BY <1>3, <3>1, <3>2, Zenon DEF decode_frame, SizeIn, k, z
  <2>4. z <= m - 8
    BY <1>1, <2>2, <2>3 DEF max_frame_payload, FRAME_OVERHEAD
  <2> QED
    BY <1>1, <2>2, <2>3, <2>4 DEF k
<1> QED
  BY <1>2, <1>3, Zenon

\* Only a whole frame or an error is settled, and what arrives later does not
\* change it: a frame read is the same frame, and an error stays one, however
\* the stream is divided into reads.
THEOREM SettledStays ==
  ASSUME NEW m \in Long, NEW s \in Seq(Octets), NEW t \in Seq(Octets),
         decode_frame(s, m) # Incomplete
  PROVE  decode_frame(s \o t, m) = decode_frame(s, m)
<1> DEFINE u == s \o t
<1> DEFINE k == Len(s)
<1> DEFINE l == Len(u)
<1> DEFINE z == SizeIn(s)
<1>1. u \in Seq(Octets) /\ IsJoin(u, s, t)
  BY Joined, Zenon
<1>2. k \in Nat /\ l \in Nat /\ l >= k
  <2> DEFINE j == Len(t)
  <2>1. k \in Nat /\ j \in Nat /\ l = k + j
    BY <1>1, LenProperties, Zenon DEF IsJoin
  <2> HIDE DEF k, l, j
  <2> QED
    BY <2>1
<1>3. \A i \in 1..k : u[i] = s[i]
  BY <1>1, Zenon DEF IsJoin
<1>4. \A i, j \in 1..k : SubSeq(u, i, j) = SubSeq(s, i, j)
  BY SubSeqOfConcat1, Zenon
<1> HIDE DEF k, l, u, z
<1>5. ~ (k < 7)
  BY Zenon DEF decode_frame, k
<1>6. /\ k >= 7 /\ ~ (l < 7)
      /\ 1 \in 1..k /\ 2 \in 1..k /\ 3 \in 1..k /\ 4 \in 1..k /\ 7 \in 1..k
  BY <1>2, <1>5
<1>7. z \in Nat
  BY <1>6, HeaderRead, Zenon DEF k, z
<1>8. SizeIn(u) = z /\ ChannelIn(u) = ChannelIn(s) /\ u[1] = s[1]
  BY <1>3, <1>4, <1>6, Zenon DEF SizeIn, ChannelIn, z
<1> DEFINE wrong == s[1] \notin {METHOD, HEADER, BODY, HEARTBEAT} \/ z > max_frame_payload(m)
<1>9. CASE wrong
  <2>1. decode_frame(s, m) = Bad
    BY <1>5, <1>9, Zenon DEF decode_frame, SizeIn, k, z
  <2>2. decode_frame(u, m) = Bad
    BY <1>6, <1>8, <1>9, Zenon DEF decode_frame, SizeIn, l, z
  <2> QED
    BY <2>1, <2>2, Zenon DEF u
<1>10. CASE ~ wrong
  <2>1. ~ (k < z + 8)
    BY <1>5, <1>10, Zenon DEF decode_frame, SizeIn, k, z
  <2>2. ~ (l < z + 8) /\ z + 8 \in 1..k /\ z + 7 \in 1..k /\ 8 \in 1..k
    BY <1>2, <1>7, <2>1
  <2>3. u[z + 8] = s[z + 8] /\ SubSeq(u, 8, z + 7) = SubSeq(s, 8, z + 7)
    BY <1>3, <1>4, <2>2, Zenon
  <2>4. decode_frame(s, m) = IF s[z + 8] # FRAME_END THEN Bad
          ELSE Ok(Frame(s[1], ChannelIn(s), SubSeq(s, 8, z + 7)), z + 9)
    BY <1>5, <1>10, <2>1, Zenon DEF decode_frame, SizeIn, ChannelIn, k, z
  <2>5. decode_frame(u, m) = IF u[z + 8] # FRAME_END THEN Bad
          ELSE Ok(Frame(u[1], ChannelIn(u), SubSeq(u, 8, z + 7)), z + 9)
    BY <1>6, <1>8, <1>10, <2>2, Zenon DEF decode_frame, SizeIn, ChannelIn, l, z
  <2>6. decode_frame(u, m) = decode_frame(s, m)
    BY <1>8, <2>3, <2>4, <2>5, Zenon
  <2> QED
    BY <2>6, Zenon DEF u
<1> QED
  BY <1>9, <1>10, Zenon

\* A frame has one encoding: what decode_frame takes for a frame are the octets
\* that encode_frame writes for it.
THEOREM OneEncoding ==
  ASSUME NEW m \in Long, NEW s \in Seq(Octets),
         NEW f, NEW at \in Nat \ {0}, decode_frame(s, m) = Ok(f, at)
  PROVE  /\ f \in FrameSet /\ Fits(f, m)
         /\ SubSeq(s, 1, at - 1) = encode_frame(f, m)
<1> DEFINE k == Len(s)
<1> DEFINE z == SizeIn(s)
<1> DEFINE p == SubSeq(s, 8, z + 7)
<1> DEFINE g == Frame(s[1], ChannelIn(s), p)
<1>1. k \in Nat /\ m \in Nat
  BY LenProperties, Zenon DEF Long
<1> HIDE DEF k, z, p, g
<1>2. Ok(f, at) # Incomplete /\ Ok(f, at) # Bad
  <2>1. at # 0 /\ at # -1
    OBVIOUS
  <2> QED
    BY <2>1 DEF Ok, Incomplete, Bad
<1>3. ~ (k < 7)
  BY <1>2, Zenon DEF decode_frame, k
<1>4. k >= 7
  BY <1>1, <1>3
<1>5. z \in Nat /\ z \in Long /\ ChannelIn(s) \in Short
  BY <1>4, HeaderRead, Zenon DEF k, z
<1>6. /\ s[1] \in {METHOD, HEADER, BODY, HEARTBEAT} /\ ~ (z > max_frame_payload(m))
      /\ ~ (k < z + 8) /\ s[z + 8] = FRAME_END
      /\ decode_frame(s, m) = Ok(g, z + 9)
  BY <1>2, <1>3, Zenon DEF decode_frame, SizeIn, ChannelIn, k, z, p, g
<1>7. f = g /\ at = z + 9
  BY <1>6 DEF Ok
<1>8. /\ z + 7 <= k /\ z + 7 = 8 + z - 1 /\ z + 7 \in Int /\ 8 \in Nat \ {0}
      /\ at - 1 = z + 8 /\ z + 8 \in Nat /\ z + 8 \in Int /\ 1 \in Nat \ {0} /\ z + 8 = 1 + (z + 8) - 1
      /\ z + 8 <= k /\ k >= z + 8
      /\ \A i \in 1..z : 8 + i - 1 = 7 + i
      /\ \A i \in 1..(z + 8) : 1 + i - 1 = i
  BY <1>1, <1>5, <1>6, <1>7
<1>9. p \in Seq(Octets) /\ IsPiece(p, s, 8, z)
  BY <1>5, <1>8, Piece, Zenon DEF k, p
<1>10. Len(p) = z /\ \A i \in 1..z : p[i] = s[7 + i]
  BY <1>8, <1>9, Zenon DEF IsPiece
<1>11. /\ f.type = s[1] /\ f.channel = ChannelIn(s) /\ f.payload = p /\ f \in FrameSet
  BY <1>5, <1>6, <1>7, <1>9 DEF g, Frame, FrameSet
<1>12. Fits(f, m)
  <2>1. z <= max_frame_payload(m)
    BY <1>1, <1>5, <1>6 DEF max_frame_payload, FRAME_OVERHEAD
  <2> QED
    BY <1>10, <1>11, <2>1, Zenon DEF Fits
<1>13. Begins(s, f)
  <2>1. /\ \A i \in 1..4 : Four(z)[i] = s[3 + i]
        /\ Hi(ChannelIn(s)) = s[2] /\ Lo(ChannelIn(s)) = s[3]
    BY <1>4, HeaderRead, Zenon DEF k, z
  <2>2. k >= z + 8
    BY <1>8
  <2> QED
    BY <1>6, <1>10, <1>11, <2>1, <2>2, Zenon DEF Begins, k
<1> DEFINE e == encode_frame(f, m)
<1> DEFINE c == SubSeq(s, 1, z + 8)
<1>14. e \in Seq(Octets) /\ Len(e) = z + 8 /\ Begins(e, f)
  BY <1>10, <1>11, <1>12, FrameOctets, Zenon
<1>15. c \in Seq(Octets) /\ IsPiece(c, s, 1, z + 8)
  BY <1>8, Piece, Zenon DEF k
<1> HIDE DEF e, c
<1>16. Len(c) = z + 8 /\ \A i \in 1..(z + 8) : c[i] = s[i]
  BY <1>8, <1>15, Zenon DEF IsPiece
<1>17. \A i \in 1..(z + 8) : s[i] = e[i]
  <2>1. Len(e) \in Nat /\ Len(s) \in Nat
    BY <1>1, <1>8, <1>14, Zenon DEF k
  <2>2. Agree(s, e, f)
    BY <1>11, <1>13, <1>14, <2>1, BeginsAgree, Zenon
  <2> QED
    BY <1>10, <1>11, <2>2, Zenon DEF Agree
<1>18. c = e
  BY <1>14, <1>15, <1>16, <1>17, SeqEqual, Zenon
<1> QED
  BY <1>8, <1>11, <1>12, <1>18, Zenon DEF c, e

-----------------------------------------------------------------------------
(* The division of a body. *)

\* How many pieces of most octets k octets make.
Pieces(k, most) == (k + most - 1) \div most

LEMMA PiecesCount ==
  ASSUME NEW k \in Nat \ {0}, NEW most \in Nat \ {0}
  PROVE  /\ Pieces(k, most) \in Nat \ {0}
         /\ (Pieces(k, most) - 1) * most < k
         /\ k <= Pieces(k, most) * most
<1> DEFINE a == k + most - 1
<1> DEFINE c == a \div most
<1>1. a \in Nat /\ most \in Nat
  OBVIOUS
<1>2. k >= 1
  OBVIOUS
<1> HIDE DEF a
<1>3. c \in Nat /\ most * c <= a /\ a < most * c + most
  BY <1>1, SMT
<1> HIDE DEF c
<1>4. k <= most * c
  BY <1>1, <1>3 DEF a
<1>5. most * c - most < k
  BY <1>1, <1>3 DEF a
<1>6. c # 0
  BY <1>1, <1>2, <1>3, <1>4, SMT
<1>7. (c - 1) * most = most * c - most /\ c * most = most * c
  BY <1>3, SMT
<1> QED
  BY <1>3, <1>4, <1>5, <1>6, <1>7 DEF Pieces, c, a

\* The body that basic_publish sends is its pieces, each octet in its place:
\* none is empty or longer than a frame may carry, and all but the last are full.
THEOREM BodyIsItsPieces ==
  ASSUME NEW body \in Seq(Octets), body # <<>>, NEW most \in Nat \ {0}
  PROVE  LET ps == Fragments(body, most)
             last == Pieces(Len(body), most) IN
         /\ Len(ps) = last /\ last \in Nat \ {0}
         /\ \A i \in 1..last :
              /\ ps[i] \in Seq(Octets)
              /\ Len(ps[i]) = IF i < last THEN most ELSE Len(body) - (last - 1) * most
              /\ Len(ps[i]) \in 1..most
              /\ \A j \in 1..Len(ps[i]) : ps[i][j] = body[(i - 1) * most + j]
<1> DEFINE k == Len(body)
<1> DEFINE last == Pieces(k, most)
<1> DEFINE ps == Fragments(body, most)
<1> DEFINE from(i) == (i - 1) * most + 1
<1> DEFINE to(i) == IF i * most > k THEN k ELSE i * most
<1> DEFINE size(i) == IF i < last THEN most ELSE k - (last - 1) * most
<1>1. k \in Nat \ {0}
  BY EmptySeq, Zenon
<1>2. last \in Nat \ {0} /\ (last - 1) * most < k /\ k <= last * most
  BY <1>1, PiecesCount, Zenon
<1>3. ps = [i \in 1..last |-> SubSeq(body, from(i), to(i))]
  BY Zenon DEF Fragments, Slice, Pieces
<1> HIDE DEF k, ps
<1>4. Len(ps) = last /\ \A i \in 1..last : ps[i] = SubSeq(body, from(i), to(i))
  <2> HIDE DEF from, to, last
  <2> QED
    BY <1>2, <1>3
<1>5. ASSUME NEW i \in 1..last
      PROVE  /\ ps[i] \in Seq(Octets) /\ Len(ps[i]) = size(i) /\ size(i) \in 1..most
             /\ \A j \in 1..size(i) : ps[i][j] = body[(i - 1) * most + j]
  <2> DEFINE before == (i - 1) * most
  <2> DEFINE after == i * most
  <2> DEFINE rest == (last - 1) * most
  <2> DEFINE all == last * most
  <2> HIDE DEF last
  <2>1. /\ i \in Nat \ {0} /\ i <= last /\ last \in Nat /\ k \in Nat /\ k >= 1
        /\ most \in Nat /\ most >= 1
    BY <1>1, <1>2
  <2>2. /\ before \in Nat /\ after = before + most /\ all = rest + most
        /\ rest \in Nat
    BY <2>1, SMT
  <2>3. i < last => after <= rest
    BY <2>1, SMT
  <2>4. i = last => before = rest /\ after = all
    OBVIOUS
  <2>5. rest < k /\ k <= all
    BY <1>2
  <2> HIDE DEF before, after, rest, all
  <2>6. /\ size(i) \in 1..most /\ size(i) \in Nat
        /\ to(i) = before + size(i) /\ to(i) <= k
    <3>1. CASE i < last
      BY <2>1, <2>2, <2>3, <2>5, <3>1 DEF after, rest
    <3>2. CASE ~ (i < last)
      BY <2>1, <2>2, <2>4, <2>5, <3>2 DEF after, rest
    <3> QED
      BY <3>1, <3>2, Zenon
  <2>7. from(i) = before + 1
    BY Zenon DEF before
  <2> HIDE DEF from, to, size
  <2>8. /\ from(i) \in Nat \ {0} /\ to(i) \in Int /\ to(i) = from(i) + size(i) - 1
        /\ \A j \in 1..size(i) : from(i) + j - 1 = before + j
    BY <2>2, <2>6, <2>7
  <2>9. SubSeq(body, from(i), to(i)) \in Seq(Octets)
        /\ IsPiece(SubSeq(body, from(i), to(i)), body, from(i), size(i))
    BY <2>6, <2>8, Piece, Zenon DEF k
  <2> QED
    BY <1>4, <2>6, <2>8, <2>9, Zenon DEF IsPiece, before
<1>6. \A i \in 1..last :
        /\ ps[i] \in Seq(Octets) /\ Len(ps[i]) = size(i) /\ Len(ps[i]) \in 1..most
        /\ \A j \in 1..Len(ps[i]) : ps[i][j] = body[(i - 1) * most + j]
  <2> HIDE DEF last, size
  <2> QED
    BY <1>5, Zenon
<1> QED
  BY <1>2, <1>4, <1>6, Zenon DEF k, ps

\* Every piece of every body is the payload of a frame that encode_frame writes
\* and decode_frame reads, the one piece of an empty body too.
THEOREM PiecesFit ==
  ASSUME NEW body \in Seq(Octets), NEW m \in Long, max_frame_payload(m) \in Nat \ {0},
         NEW channel \in Short, NEW i \in DOMAIN Fragments(body, max_frame_payload(m))
  PROVE  LET f == Frame(BODY, channel, Fragments(body, max_frame_payload(m))[i])
         IN f \in FrameSet /\ Fits(f, m)
<1> DEFINE most == max_frame_payload(m)
<1> DEFINE ps == Fragments(body, most)
<1> DEFINE p == ps[i]
<1> HIDE DEF most
<1>1. p \in Seq(Octets) /\ Len(p) <= most
  <2>1. CASE body = <<>>
    <3>1. ps = <<<<>>>>
      BY <2>1, Zenon DEF Fragments
    <3> HIDE DEF ps
    <3>2. i = 1 /\ ps[1] = <<>>
      BY <3>1 DEF ps, most
    <3>3. most \in Nat
      BY DEF most
    <3>4. Len(p) = 0 /\ p \in Seq(Octets)
      BY <3>2, EmptySeq, Zenon
    <3> QED
      BY <3>3, <3>4
  <2>2. CASE body # <<>>
    <3> DEFINE last == Pieces(Len(body), most)
    <3>1. most \in Nat \ {0}
      BY Zenon DEF most
    <3>2. /\ Len(ps) = last /\ last \in Nat \ {0}
          /\ \A x \in 1..last : ps[x] \in Seq(Octets) /\ Len(ps[x]) \in 1..most
      BY <2>2, <3>1, BodyIsItsPieces, Zenon
    <3>3. DOMAIN ps = 1..last
      BY <2>2, Zenon DEF Fragments, Pieces
    <3>4. i \in 1..last
      BY <3>3, Zenon DEF most
    <3>5. p \in Seq(Octets) /\ Len(p) \in 1..most
      BY <3>2, <3>4, Zenon
    <3> HIDE DEF p, last
    <3> QED
      BY <3>1, <3>5
  <2> QED
    BY <2>1, <2>2, Zenon
<1> HIDE DEF p
<1>2. Frame(BODY, channel, p) \in FrameSet /\ Frame(BODY, channel, p).payload = p
  BY <1>1 DEF Frame, FrameSet
<1> QED
  BY <1>1, <1>2, Zenon DEF Fits, p, most

-----------------------------------------------------------------------------
(* Strings. *)

\* s has b after a.
IsMiddle(s, a, b) ==
  /\ Len(s) >= Len(a) + Len(b)
  /\ \A i \in 1..Len(b) : s[Len(a) + i] = b[i]

LEMMA Middle ==
  ASSUME NEW S, NEW a \in Seq(S), NEW b \in Seq(S), NEW c \in Seq(S)
  PROVE  (a \o b) \o c \in Seq(S) /\ IsMiddle((a \o b) \o c, a, b)
<1> DEFINE d == a \o b
<1> DEFINE s == d \o c
<1> DEFINE k == Len(a)
<1> DEFINE n == Len(b)
<1> DEFINE r == Len(c)
<1>1. d \in Seq(S) /\ IsJoin(d, a, b)
  BY Joined, Zenon
<1> HIDE DEF d
<1>2. s \in Seq(S) /\ IsJoin(s, d, c)
  BY <1>1, Joined, Zenon
<1> HIDE DEF s
<1>3. k \in Nat /\ n \in Nat /\ r \in Nat
  BY LenProperties, Zenon
<1>4. Len(d) = k + n /\ Len(s) = (k + n) + r
  BY <1>1, <1>2, Zenon DEF IsJoin
<1>5. /\ \A i \in 1..n : d[k + i] = b[i]
      /\ \A i \in 1..(k + n) : s[i] = d[i]
  BY <1>1, <1>2, <1>4, Zenon DEF IsJoin
<1> HIDE DEF k, n, r
<1>6. /\ \A i \in 1..n : k + i \in 1..(k + n)
      /\ (k + n) + r \in Nat /\ (k + n) + r >= k + n
  BY <1>3
<1>7. \A i \in 1..n : s[k + i] = b[i]
  BY <1>5, <1>6, Zenon
<1>8. Len(s) \in Nat /\ Len(s) >= k + n
  BY <1>4, <1>6, Zenon
<1> QED
  BY <1>2, <1>3, <1>7, <1>8, Zenon DEF IsMiddle, s, d, k, n

\* A short string is read back, its length octet gone, wherever it stands.
THEOREM ShortIsRead ==
  ASSUME NEW before \in Seq(Octets), NEW text \in Seq(Octets), NEW rest \in Seq(Octets),
         Len(text) <= MaxShort
  PROVE  decode_shortstr((before \o encode_shortstr(text)) \o rest, Len(before) + 1)
           = Ok(text, Len(before) + Len(encode_shortstr(text)) + 1)
<1> DEFINE n == Len(text)
<1> DEFINE k == Len(before)
<1> DEFINE e == encode_shortstr(text)
<1> DEFINE s == (before \o e) \o rest
<1>1. k \in Nat /\ n \in Nat
  BY LenProperties, Zenon
<1>2. MaxShort \in 1..255 /\ n <= MaxShort
  BY FramingAssumption, Zenon
<1>3. n \in Octets
  <2> HIDE DEF n
  <2> QED
    BY <1>1, <1>2 DEF Octets
<1>4. e = <<n>> \o text
  <2> HIDE DEF n
  <2>1. ~ (n > MaxShort)
    BY <1>1, <1>2
  <2> QED
    BY <2>1, Zenon DEF encode_shortstr, n
<1> HIDE DEF n, k, e
<1>5. <<n>> \in Seq(Octets) /\ Len(<<n>>) = 1 /\ <<n>>[1] = n
  BY <1>3
<1>6. e \in Seq(Octets) /\ IsJoin(e, <<n>>, text)
  BY <1>4, <1>5, Joined, Zenon
<1>7. Len(e) = 1 + n /\ e[1] = n /\ \A i \in 1..n : e[1 + i] = text[i]
  <2>1. 1 \in 1..1
    OBVIOUS
  <2> QED
    BY <1>5, <1>6, <2>1, Zenon DEF IsJoin, n
<1>8. /\ s \in Seq(Octets) /\ Len(s) \in Nat /\ Len(s) >= k + (1 + n)
      /\ \A i \in 1..(1 + n) : s[k + i] = e[i]
  <2>1. s \in Seq(Octets) /\ IsMiddle(s, before, e)
    BY <1>6, Middle, Zenon
  <2>2. Len(s) \in Nat
    BY <2>1, LenProperties, Zenon
  <2> QED
    BY <1>7, <2>1, <2>2, Zenon DEF IsMiddle, k
<1> HIDE DEF s
<1> DEFINE at == k + 1
<1>9. /\ at \in Nat /\ at + 1 \in Nat \ {0} /\ at + n \in Int /\ at + n = (at + 1) + n - 1
      /\ 1 \in 1..(1 + n)
      /\ \A i \in 1..n : 1 + i \in 1..(1 + n) /\ (at + 1) + i - 1 = k + (1 + i)
      /\ at + n + 1 = k + (1 + n) + 1
  BY <1>1
<1>10. ~ (at > Len(s)) /\ ~ (at + n > Len(s)) /\ at + n <= Len(s)
  <2> DEFINE l == Len(s)
  <2>1. l \in Nat /\ l >= k + (1 + n)
    BY <1>8
  <2> HIDE DEF l
  <2>2. ~ (at > l) /\ ~ (at + n > l) /\ at + n <= l
    BY <1>1, <2>1
  <2> QED
    BY <2>2, Zenon DEF l
<1>11. s[at] = n
  BY <1>7, <1>8, <1>9, Zenon
<1> HIDE DEF at
<1> DEFINE c == SubSeq(s, at + 1, at + n)
<1>12. c \in Seq(Octets) /\ IsPiece(c, s, at + 1, n)
  BY <1>1, <1>8, <1>9, <1>10, Piece, Zenon
<1> HIDE DEF c
<1>13. Len(c) = n /\ \A i \in 1..n : c[i] = text[i]
  <2>1. Len(c) = n /\ \A i \in 1..n : c[i] = s[(at + 1) + i - 1]
    BY <1>12, Zenon DEF IsPiece
  <2>2. \A i \in 1..n : s[(at + 1) + i - 1] = e[1 + i]
    BY <1>8, <1>9, Zenon
  <2> QED
    BY <1>7, <2>1, <2>2, Zenon
<1>14. c = text
  BY <1>12, <1>13, SeqEqual, Zenon DEF n
<1>15. decode_shortstr(s, at) = Ok(c, at + n + 1)
  BY <1>10, <1>11, Zenon DEF decode_shortstr, c
<1>16. decode_shortstr(s, at) = Ok(text, k + Len(e) + 1)
  BY <1>7, <1>9, <1>14, <1>15, Zenon
<1> QED
  BY <1>16, Zenon DEF s, e, k, at

\* A long string of no more than Ceiling octets is read back wherever it stands.
THEOREM LongIsRead ==
  ASSUME NEW before \in Seq(Octets), NEW text \in Seq(Octets), NEW rest \in Seq(Octets),
         Len(text) \in Long, Len(text) <= Ceiling
  PROVE  decode_longstr((before \o encode_longstr(text)) \o rest, Len(before) + 1)
           = Ok(text, Len(before) + Len(encode_longstr(text)) + 1)
<1> DEFINE n == Len(text)
<1> DEFINE k == Len(before)
<1> DEFINE h == ToBytes(n, 4)
<1> DEFINE e == encode_longstr(text)
<1> DEFINE s == (before \o e) \o rest
<1>1. k \in Nat /\ n \in Nat /\ n \in Long /\ Ceiling \in Nat /\ ~ (n > Ceiling)
  <2>1. k \in Nat /\ n \in Nat /\ n \in Long
    BY LenProperties, Zenon
  <2>2. Ceiling \in Nat /\ n <= Ceiling
    BY FramingAssumption
  <2> HIDE DEF n, k
  <2> QED
    BY <2>1, <2>2
<1>2. e = h \o text
  BY Zenon DEF encode_longstr
<1> HIDE DEF n, k, e
<1>3. h = Four(n) /\ \A i \in 1..4 : h[i] \in Octets
  BY <1>1, ToFour, Zenon
<1> HIDE DEF h
<1>4. h \in Seq(Octets) /\ Len(h) = 4
  <2>1. h = <<h[1], h[2], h[3], h[4]>>
    BY <1>3 DEF Four
  <2>2. h[1] \in Octets /\ h[2] \in Octets /\ h[3] \in Octets /\ h[4] \in Octets
    BY <1>3, FourIndices, Zenon
  <2>3. \A b1, b2, b3, b4 \in Octets : <<b1, b2, b3, b4>> \in Seq(Octets) /\ Len(<<b1, b2, b3, b4>>) = 4
    OBVIOUS
  <2>4. PICK q : q = <<h[1], h[2], h[3], h[4]>>
    OBVIOUS
  <2>5. q \in Seq(Octets) /\ Len(q) = 4
    BY <2>2, <2>3, <2>4, Zenon
  <2>6. h = q
    BY <2>1, <2>4, Zenon
  <2> QED
    BY <2>5, <2>6, Zenon
<1>5. e \in Seq(Octets) /\ IsJoin(e, h, text)
  BY <1>2, <1>4, Joined, Zenon
<1>6. /\ Len(e) = 4 + n /\ \A i \in 1..4 : e[i] = h[i]
      /\ \A i \in 1..n : e[4 + i] = text[i]
  BY <1>4, <1>5, Zenon DEF IsJoin, n
<1>7. /\ s \in Seq(Octets) /\ Len(s) \in Nat /\ Len(s) >= k + (4 + n)
      /\ \A i \in 1..(4 + n) : s[k + i] = e[i]
  <2>1. s \in Seq(Octets) /\ IsMiddle(s, before, e)
    BY <1>5, Middle, Zenon
  <2>2. Len(s) \in Nat
    BY <2>1, LenProperties, Zenon
  <2> QED
    BY <1>6, <2>1, <2>2, Zenon DEF IsMiddle, k
<1> HIDE DEF s
<1> DEFINE at == k + 1
<1>8. /\ at \in Nat \ {0} /\ at + 3 \in Int /\ at + 3 = at + 4 - 1 /\ 4 \in Nat
      /\ at + 4 \in Nat \ {0} /\ at + 3 + n \in Int /\ at + 3 + n = (at + 4) + n - 1
      /\ \A i \in 1..4 : i \in 1..(4 + n) /\ at + i - 1 = k + i
      /\ \A i \in 1..n : 4 + i \in 1..(4 + n) /\ (at + 4) + i - 1 = k + (4 + i)
      /\ at + 4 + n = k + (4 + n) + 1
  BY <1>1
<1>9. /\ ~ (at + 3 > Len(s)) /\ ~ (at + 3 + n > Len(s))
      /\ at + 3 <= Len(s) /\ at + 3 + n <= Len(s)
  <2> DEFINE l == Len(s)
  <2>1. l \in Nat /\ l >= k + (4 + n)
    BY <1>7
  <2> HIDE DEF l
  <2>2. ~ (at + 3 > l) /\ ~ (at + 3 + n > l) /\ at + 3 <= l /\ at + 3 + n <= l
    BY <1>1, <2>1
  <2> QED
    BY <2>2, Zenon DEF l
<1> HIDE DEF at
<1> DEFINE b == SubSeq(s, at, at + 3)
<1>10. b \in Seq(Octets) /\ IsPiece(b, s, at, 4)
  BY <1>7, <1>8, <1>9, Piece, Zenon
<1> HIDE DEF b
<1>11. Len(b) = 4 /\ \A i \in 1..4 : b[i] = Four(n)[i]
  <2>1. Len(b) = 4 /\ \A i \in 1..4 : b[i] = s[at + i - 1]
    BY <1>10, Zenon DEF IsPiece
  <2>2. \A i \in 1..4 : s[at + i - 1] = e[i]
    BY <1>7, <1>8, Zenon
  <2> QED
    BY <1>3, <1>6, <2>1, <2>2, Zenon
<1>12. FromBytes(b) = n
  BY <1>1, <1>11, FourRead, Zenon
<1> DEFINE c == SubSeq(s, at + 4, at + 3 + n)
<1>13. c \in Seq(Octets) /\ IsPiece(c, s, at + 4, n)
  BY <1>1, <1>7, <1>8, <1>9, Piece, Zenon
<1> HIDE DEF c
<1>14. Len(c) = n /\ \A i \in 1..n : c[i] = text[i]
  <2>1. Len(c) = n /\ \A i \in 1..n : c[i] = s[(at + 4) + i - 1]
    BY <1>13, Zenon DEF IsPiece
  <2>2. \A i \in 1..n : s[(at + 4) + i - 1] = e[4 + i]
    BY <1>7, <1>8, Zenon
  <2> QED
    BY <1>6, <2>1, <2>2, Zenon
<1>15. c = text
  BY <1>13, <1>14, SeqEqual, Zenon DEF n
<1>16. decode_longstr(s, at) = Ok(c, at + 4 + n)
  BY <1>1, <1>9, <1>12, Zenon DEF decode_longstr, b, c
<1>17. decode_longstr(s, at) = Ok(text, k + Len(e) + 1)
  BY <1>6, <1>8, <1>15, <1>16, Zenon
<1> QED
  BY <1>17, Zenon DEF s, e, k, at

-----------------------------------------------------------------------------
(* Reading: the sayings and their frames. *)

AllSayings == UNION {Sayings[c] : c \in Channels}

LEMMA Assumed ==
  /\ Channels \subseteq Short /\ 0 \in Short
  /\ frame_max \in Long /\ frame_max \in Nat /\ frame_max >= FRAME_OVERHEAD
  /\ max_frame_payload(frame_max) \in Nat
  /\ \A s \in AllSayings : IsSaying(s)
<1>1. \A n \in Nat : n <= 255 => n \in Octets
  BY DEF Octets
<1>2. ASSUME NEW c \in Channels
      PROVE  c \in Short
  <2>1. c \in Nat /\ c \div 256 <= 255
    BY ReadingAssumption, Zenon
  <2>2. Hi(c) \in Nat
    BY <2>1, Division, Zenon
  <2> QED
    BY <1>1, <2>1, <2>2, Zenon DEF Short, Hi
<1>3. 0 \in Short
  BY SMT DEF Short, Hi, Octets
<1>4. frame_max \in Nat /\ frame_max >= FRAME_OVERHEAD
  BY ReadingAssumption, Zenon
<1>5. frame_max \in Long
  <2>1. ((frame_max \div 256) \div 256) \div 256 <= 255
    BY ReadingAssumption, Zenon
  <2>2. Hi(Hi(Hi(frame_max))) \in Nat
    BY <1>4, Division, Zenon
  <2> QED
    BY <1>1, <1>4, <2>1, <2>2, Zenon DEF Long, Hi
<1>6. max_frame_payload(frame_max) \in Nat
  BY <1>4 DEF max_frame_payload, FRAME_OVERHEAD
<1>7. \A s \in AllSayings : IsSaying(s)
  BY ReadingAssumption, Zenon DEF AllSayings
<1> QED
  BY <1>2, <1>3, <1>4, <1>5, <1>6, <1>7, Zenon

LEMMA SayingParts ==
  ASSUME NEW s \in AllSayings
  PROVE  /\ s.body \in Seq(Octets) /\ Len(s.body) \in Nat
         /\ s.ends \in Seq(Nat) /\ Len(s.ends) \in Nat
         /\ Parts(s) \in Nat \ {0}
         /\ ~IsContent(s) => Parts(s) = 1
         /\ IsContent(s) => Parts(s) = 2 + Len(s.ends) /\ Parts(s) # 1
<1>1. IsSaying(s)
  BY Assumed, Zenon
<1>2. s.body \in Seq(Octets) /\ s.ends \in Seq(Nat)
  BY <1>1, Zenon DEF IsSaying, Octets
<1>3. Len(s.body) \in Nat /\ Len(s.ends) \in Nat
  BY <1>2, LenProperties, Zenon
<1>4. 2 + Len(s.ends) \in Nat \ {0} /\ 2 + Len(s.ends) # 1 /\ 1 \in Nat \ {0}
  BY <1>3
<1> QED
  BY <1>2, <1>3, <1>4, Zenon DEF Parts

\* How far the body frames of a content reach, up to each part.
LEMMA Coverage ==
  ASSUME NEW s \in AllSayings, IsContent(s), NEW p \in 2..Parts(s)
  PROVE  /\ Covered(s, p) \in 0..Len(s.body)
         /\ p = 2 => Covered(s, p) = 0
         /\ (Covered(s, p) = Len(s.body)) <=> (p = Parts(s))
         /\ p > 2 => /\ p - 1 \in 2..Parts(s)
                     /\ Covered(s, p - 1) \in Nat /\ Covered(s, p - 1) < Len(s.body)
                     /\ Covered(s, p - 1) <= Covered(s, p)
                     /\ Covered(s, p) - Covered(s, p - 1) <= max_frame_payload(frame_max)
<1> DEFINE n == Len(s.ends)
<1> DEFINE size == Len(s.body)
<1> DEFINE e == s.ends
<1> DEFINE from(i) == IF i = 1 THEN 0 ELSE e[i - 1]
<1>1. /\ n \in Nat /\ size \in Nat /\ Parts(s) = 2 + n
      /\ \A i \in 1..n : e[i] \in Nat
  BY SayingParts, ElementOfSeq, Zenon
<1>2. /\ (n = 0) = (size = 0) /\ (n > 0 => e[n] = size)
      /\ \A i \in 1..n : /\ from(i) < size /\ from(i) <= e[i] /\ e[i] <= size
                         /\ e[i] - from(i) <= max_frame_payload(frame_max)
  <2>1. DividesBody(s)
    BY Assumed, Zenon DEF IsSaying
  <2> QED
    BY <2>1, Zenon DEF DividesBody
<1>3. /\ p \in Nat /\ p >= 2 /\ p <= 2 + n /\ Parts(s) = 2 + n
  BY <1>1
<1>4. Covered(s, p) = (IF p <= 2 THEN 0 ELSE e[p - 2])
      /\ Covered(s, p - 1) = (IF p - 1 <= 2 THEN 0 ELSE e[(p - 1) - 2])
  BY Zenon DEF Covered
<1> HIDE DEF n, size, e
<1>5. CASE p = 2
  <2>1. Covered(s, p) = 0
    BY <1>4, <1>5
  <2>2. (0 = size) <=> (p = 2 + n)
    BY <1>1, <1>2, <1>5
  <2>3. 0 \in 0..size /\ ~ (p > 2)
    BY <1>1, <1>5
  <2> QED
    BY <1>1, <2>1, <2>2, <2>3, Zenon DEF size
<1>6. CASE p > 2
  <2> DEFINE i == p - 2
  <2>1. i \in 1..n /\ i \in Nat /\ ~ (p <= 2) /\ p - 1 \in 2..(2 + n) /\ p # 2
        /\ (p - 1 <= 2 <=> i = 1) /\ (p - 1) - 2 = i - 1 /\ p = 2 + i
        /\ (i # 1 => i - 1 \in 1..n) /\ (i # n => i + 1 \in 1..n /\ (i + 1) - 1 = i /\ i + 1 # 1)
        /\ (i = n <=> p = 2 + n) /\ (i = n => n > 0)
    BY <1>1, <1>3, <1>6
  <2> HIDE DEF i
  <2>2. Covered(s, p) = e[i] /\ Covered(s, p - 1) = from(i)
    <3>1. p - 2 = i
      BY Zenon DEF i
    <3> QED
      BY <1>4, <2>1, <3>1, Zenon
  <2>3. /\ from(i) < size /\ from(i) <= e[i] /\ e[i] <= size
        /\ e[i] - from(i) <= max_frame_payload(frame_max)
    BY <1>2, <2>1, Zenon
  <2>4. from(i) \in Nat /\ e[i] \in Nat
    <3>1. 0 \in Nat
      OBVIOUS
    <3> QED
      BY <1>1, <2>1, <3>1, Zenon
  <2>5. e[i] = size <=> i = n
    <3>1. CASE i = n
      BY <1>2, <2>1, <3>1, Zenon
    <3>2. CASE i # n
      <4>1. from(i + 1) < size /\ from(i + 1) = e[i]
        BY <1>2, <2>1, <3>2, Zenon
      <4> QED
        BY <1>1, <2>4, <3>2, <4>1
    <3> QED
      BY <3>1, <3>2, Zenon
  <2>6. e[i] \in 0..size
    BY <1>1, <2>3, <2>4
  <2> QED
    BY <1>1, <2>1, <2>2, <2>3, <2>4, <2>5, <2>6, Zenon DEF size
<1> QED
  BY <1>3, <1>5, <1>6

\* Each part of a saying is a frame that encode_frame writes.
LEMMA PartFits ==
  ASSUME NEW c \in Channels, NEW s \in AllSayings, NEW p \in 1..Parts(s)
  PROVE  PartOf(c, s, p) \in FrameSet /\ Fits(PartOf(c, s, p), frame_max)
<1> DEFINE f == PartOf(c, s, p)
<1>1. /\ s.method \in Seq(Octets) /\ Len(s.method) <= max_frame_payload(frame_max)
      /\ s.header \in Seq(Octets) /\ Len(s.header) <= max_frame_payload(frame_max)
  BY Assumed, Zenon DEF IsSaying, Octets
<1>2. c \in Short
  BY Assumed, Zenon
<1>3. ASSUME NEW type \in {METHOD, HEADER, BODY}, NEW payload \in Seq(Octets),
             Len(payload) <= max_frame_payload(frame_max),
             f = Frame(type, c, payload)
      PROVE  f \in FrameSet /\ Fits(f, frame_max)
  <2> HIDE DEF f
  <2>1. f = [type |-> type, channel |-> c, payload |-> payload]
    BY <1>3, Zenon DEF Frame
  <2>2. type \in {METHOD, HEADER, BODY, HEARTBEAT}
    OBVIOUS
  <2>3. f \in FrameSet /\ f.payload = payload
    BY <1>2, <2>1, <2>2 DEF FrameSet
  <2> QED
    BY <1>3, <2>3, Zenon DEF Fits
<1>4. METHOD \in {METHOD, HEADER, BODY} /\ HEADER \in {METHOD, HEADER, BODY}
      /\ BODY \in {METHOD, HEADER, BODY}
  OBVIOUS
<1>5. Parts(s) \in Nat
  BY SayingParts, Zenon
<1>6. CASE p = 1
  <2>1. f = Frame(METHOD, c, s.method)
    BY <1>6 DEF PartOf
  <2> HIDE DEF f
  <2> QED
    BY <1>1, <1>3, <1>4, <2>1, Zenon DEF f
<1>7. CASE p = 2
  <2>1. f = Frame(HEADER, c, s.header)
    BY <1>7 DEF PartOf
  <2> HIDE DEF f
  <2> QED
    BY <1>1, <1>3, <1>4, <2>1, Zenon DEF f
<1>8. CASE p > 2
  <2> DEFINE a == Covered(s, p - 1)
  <2> DEFINE b == Covered(s, p)
  <2> DEFINE payload == SubSeq(s.body, a + 1, b)
  <2>1. IsContent(s) /\ p \in 2..Parts(s)
    BY <1>5, <1>8, SayingParts
  <2>2. /\ b \in 0..Len(s.body) /\ a \in Nat /\ a <= b
        /\ b - a <= max_frame_payload(frame_max)
    BY <1>8, <2>1, Coverage, Zenon
  <2>3. s.body \in Seq(Octets) /\ Len(s.body) \in Nat
    BY SayingParts, Zenon
  <2>4. f = Frame(BODY, c, payload)
    BY <1>8 DEF PartOf
  <2> HIDE DEF a, b
  <2>5. /\ a + 1 \in Nat \ {0} /\ b - a \in Nat /\ b \in Int /\ b = (a + 1) + (b - a) - 1
        /\ b <= Len(s.body)
    BY <2>2, <2>3
  <2>6. payload \in Seq(Octets) /\ IsPiece(payload, s.body, a + 1, b - a)
    BY <2>3, <2>5, Piece, Zenon
  <2> HIDE DEF f, payload
  <2>7. Len(payload) <= max_frame_payload(frame_max)
    BY <2>2, <2>6, Zenon DEF IsPiece
  <2> QED
    BY <1>3, <1>4, <2>4, <2>6, <2>7, Zenon DEF f
<1> QED
  BY <1>5, <1>6, <1>7, <1>8

-----------------------------------------------------------------------------
(* What the read loop makes of one part. *)

\* The slot after part p of a content.
SlotOf(s, p) ==
  [of |-> decode_method(s.method).v,
   props |-> IF p = 1 THEN << >> ELSE decode_content_header(s.header).v.props,
   body |-> SubSeq(s.body, 1, Covered(s, p)),
   remaining |-> IF p = 1 THEN -1 ELSE Len(s.body) - Covered(s, p)]

Slots == {SlotOf(s, p) : s \in AllSayings, p \in Nat}
Events == {Event(s) : s \in AllSayings}

Readers ==
  [buffer : Seq(Octets), pending : [Channels -> Slots \cup {NoSlot}], blocked : BOOLEAN,
   lost : {FALSE}, got : [Channels -> Seq(Events)], awaiting : {<<>>}, reply : {<<>>}]

\* What the read loop has of channel c before part p of its i-th saying s, and
\* after it.
Before(r, c, s, i, p) ==
  /\ Len(r.got[c]) = i - 1
  /\ r.pending[c] = IF p = 1 THEN NoSlot ELSE SlotOf(s, p - 1)

After(r, c, s, i, p) ==
  /\ Len(r.got[c]) = IF p = Parts(s) THEN i ELSE i - 1
  /\ p = Parts(s) => r.got[c][i] = Event(s)
  /\ r.pending[c] = IF p = Parts(s) THEN NoSlot ELSE SlotOf(s, p)

\* r was made q by what it read on channel c.
Touches(r, q, c) ==
  /\ q \in Readers /\ q.buffer = r.buffer
  /\ \A d \in Channels \ {c} : q.got[d] = r.got[d] /\ q.pending[d] = r.pending[d]
  /\ \A j \in 1..Len(r.got[c]) : q.got[c][j] = r.got[c][j]

\* And the event e was handed over by it, and left the channel that slot.
HandsOver(r, q, c, e, slot) ==
  /\ Touches(r, q, c) /\ q.pending[c] = slot
  /\ Len(q.got[c]) = Len(r.got[c]) + 1 /\ q.got[c][Len(r.got[c]) + 1] = e

LEMMA SlotIsNone ==
  ASSUME NEW s, NEW p
  PROVE  SlotOf(s, p) # NoSlot
<1>1. "of" \in DOMAIN SlotOf(s, p)
  BY DEF SlotOf
<1>2. "of" \notin DOMAIN NoSlot
  BY DEF NoSlot
<1> QED
  BY <1>1, <1>2, Zenon

\* A slot is filled.
LEMMA Filled ==
  ASSUME NEW r \in Readers, NEW c \in Channels, NEW s \in AllSayings, NEW p \in Nat
  PROVE  LET q == [r EXCEPT !.pending[c] = SlotOf(s, p)]
         IN /\ Touches(r, q, c)
            /\ q.got[c] = r.got[c] /\ q.pending[c] = SlotOf(s, p)
<1>1. SlotOf(s, p) \in Slots \cup {NoSlot}
  BY DEF Slots
<1> DEFINE x == SlotOf(s, p)
<1> DEFINE q == [r EXCEPT !.pending[c] = x]
<1> HIDE DEF x
<1>2. x \in Slots \cup {NoSlot}
  BY <1>1 DEF x
<1>3. /\ q \in Readers /\ q.buffer = r.buffer /\ q.got = r.got
      /\ q.pending = [r.pending EXCEPT ![c] = x]
  BY <1>2 DEF Readers
<1> HIDE DEF q
<1>4. q.pending[c] = x /\ \A d \in Channels \ {c} : q.pending[d] = r.pending[d]
  <2>1. r.pending \in [Channels -> Slots \cup {NoSlot}]
    BY DEF Readers
  <2> QED
    BY <1>3, <2>1
<1> QED
  BY <1>3, <1>4, Zenon DEF Touches, q, x

\* An event is handed over.
LEMMA Emitted ==
  ASSUME NEW r \in Readers, NEW c \in Channels, NEW e \in Events, NEW b \in BOOLEAN
  PROVE  /\ HandsOver(r, Emit([r EXCEPT !.pending[c] = NoSlot], c, e), c, e, NoSlot)
         /\ HandsOver(r, Emit([r EXCEPT !.blocked = b], c, e), c, e, r.pending[c])
         /\ HandsOver(r, Emit(r, c, e), c, e, r.pending[c])
<1> DEFINE g == r.got[c]
<1> DEFINE h == Append(g, e)
<1>1. g \in Seq(Events)
  BY Zenon DEF Readers
<1>2. /\ h \in Seq(Events) /\ Len(h) = Len(g) + 1 /\ h[Len(g) + 1] = e
      /\ \A j \in 1..Len(g) : h[j] = g[j]
  BY <1>1, AppendProperties
<1>3. NoSlot \in Slots \cup {NoSlot}
  OBVIOUS
<1> DEFINE q == Emit([r EXCEPT !.pending[c] = NoSlot], c, e)
<1> DEFINE t == Emit([r EXCEPT !.blocked = b], c, e)
<1> DEFINE u == Emit(r, c, e)
<1>4. /\ q = [r EXCEPT !.pending[c] = NoSlot, !.got[c] = h]
      /\ t = [r EXCEPT !.blocked = b, !.got[c] = h]
      /\ u = [r EXCEPT !.got[c] = h]
  BY DEF Emit, Readers
<1> HIDE DEF g, h, q, t, u
<1>5. q \in Readers /\ q.buffer = r.buffer /\ q.got = [r.got EXCEPT ![c] = h]
      /\ q.pending = [r.pending EXCEPT ![c] = NoSlot]
  BY <1>2, <1>3, <1>4 DEF Readers
<1>6. t \in Readers /\ t.buffer = r.buffer /\ t.got = [r.got EXCEPT ![c] = h]
      /\ t.pending = r.pending
  BY <1>2, <1>4 DEF Readers
<1>7. u \in Readers /\ u.buffer = r.buffer /\ u.got = [r.got EXCEPT ![c] = h]
      /\ u.pending = r.pending
  BY <1>2, <1>4 DEF Readers
<1>8. /\ [r.got EXCEPT ![c] = h][c] = h
      /\ \A d \in Channels \ {c} : [r.got EXCEPT ![c] = h][d] = r.got[d]
      /\ [r.pending EXCEPT ![c] = NoSlot][c] = NoSlot
      /\ \A d \in Channels \ {c} : [r.pending EXCEPT ![c] = NoSlot][d] = r.pending[d]
  <2>1. r.got \in [Channels -> Seq(Events)] /\ r.pending \in [Channels -> Slots \cup {NoSlot}]
    BY DEF Readers
  <2> QED
    BY <2>1
<1>9. /\ Touches(r, q, c) /\ q.pending[c] = NoSlot
      /\ Len(q.got[c]) = Len(r.got[c]) + 1 /\ q.got[c][Len(r.got[c]) + 1] = e
  BY <1>2, <1>5, <1>8, Zenon DEF Touches, g
<1>10. /\ Touches(r, t, c) /\ t.pending[c] = r.pending[c]
       /\ Len(t.got[c]) = Len(r.got[c]) + 1 /\ t.got[c][Len(r.got[c]) + 1] = e
  BY <1>2, <1>6, <1>8, Zenon DEF Touches, g
<1>11. /\ Touches(r, u, c) /\ u.pending[c] = r.pending[c]
       /\ Len(u.got[c]) = Len(r.got[c]) + 1 /\ u.got[c][Len(r.got[c]) + 1] = e
  BY <1>2, <1>7, <1>8, Zenon DEF Touches, g
<1> QED
  BY <1>9, <1>10, <1>11, Zenon DEF q, t, u, HandsOver

\* The frame of each part goes to the branch of the read loop that is for it.
LEMMA Branches ==
  ASSUME NEW r, NEW c, NEW payload
  PROVE  /\ OnFrame(r, Frame(METHOD, c, payload)) = OnMethod(r, c, decode_method(payload))
         /\ OnFrame(r, Frame(HEADER, c, payload)) = OnHeader(r, c, decode_content_header(payload))
         /\ OnFrame(r, Frame(BODY, c, payload)) = OnBody(r, c, payload)
         /\ OnFrame(r, Frame(HEARTBEAT, c, payload)) = r
  BY DEF OnFrame, Frame, METHOD, HEADER, BODY, HEARTBEAT

HeardAs(q, r, c, m) ==
  /\ m.id \in {Deliver, Return} => q = [r EXCEPT !.pending[c] = NewSlot(m)]
  /\ m.id = Blocked => q = Emit([r EXCEPT !.blocked = TRUE], c, m)
  /\ m.id = Unblocked => q = Emit([r EXCEPT !.blocked = FALSE], c, m)
  /\ m.id \in Confirms => q = Emit(r, c, m)

LEMMA MethodHeard ==
  ASSUME NEW r, NEW c, NEW m
  PROVE  HeardAs(Hear(r, c, m), r, c, m)
<1>1. \A a, b, x, y : <<a, b>> = <<x, y>> => a = x /\ b = y
  OBVIOUS
<1>2. /\ \A x \in {<<10, 20>>, <<10, 50>>} :
            x \notin {Deliver, Return} /\ x # Blocked /\ x # Unblocked /\ x \notin Confirms
      /\ Blocked # Unblocked /\ Blocked \notin {Deliver, Return} /\ Unblocked \notin {Deliver, Return}
      /\ Blocked \notin Confirms /\ Unblocked \notin Confirms
      /\ Deliver \notin Confirms /\ Return \notin Confirms
  BY <1>1 DEF Deliver, Return, Confirms, Blocked, Unblocked
<1> HIDE DEF Deliver, Return, Confirms, Blocked, Unblocked
<1> QED
  BY <1>2 DEF Hear, HeardAs

\* A slot and its two updates, as records.
Slot(of, props, body, n) == [of |-> of, props |-> props, body |-> body, remaining |-> n]
Headed(slot, props, n) == [slot EXCEPT !.props = props, !.remaining = n]

LEMMA SlotUpdated ==
  ASSUME NEW of, NEW props, NEW body, NEW n, NEW x, NEW y
  PROVE  Headed(Slot(of, props, body, n), x, y) = Slot(of, x, body, y)
<1> DEFINE slot == Slot(of, props, body, n)
<1> DEFINE t == Headed(slot, x, y)
<1>1. slot \in [of : {of}, props : {props}, body : {body}, remaining : {n}]
  BY DEF Slot
<1> HIDE DEF slot
<1>2. t \in [of : {of}, props : {x}, body : {body}, remaining : {y}]
  BY <1>1 DEF Headed
<1> HIDE DEF t
<1>3. t = Slot(of, x, body, y)
  BY <1>2 DEF Slot
<1> QED
  BY <1>3 DEF t, slot

LEMMA SlotGrown ==
  ASSUME NEW of, NEW props, NEW body, NEW n, NEW x
  PROVE  Grown(Slot(of, props, body, n), x) = Slot(of, props, body \o x, n - Len(x))
<1> DEFINE slot == Slot(of, props, body, n)
<1> DEFINE longer == body \o x
<1> DEFINE left == n - Len(x)
<1> DEFINE t == [slot EXCEPT !.body = longer, !.remaining = left]
<1>1. /\ slot \in [of : {of}, props : {props}, body : {body}, remaining : {n}]
      /\ slot.body = body /\ slot.remaining = n
  BY DEF Slot
<1> HIDE DEF slot
<1>2. Grown(slot, x) = t
  BY <1>1, Zenon DEF Grown
<1> HIDE DEF longer, left
<1>3. t \in [of : {of}, props : {props}, body : {longer}, remaining : {left}]
  BY <1>1
<1> HIDE DEF t
<1>4. t = Slot(of, props, longer, left)
  BY <1>3 DEF Slot
<1> QED
  BY <1>2, <1>4, Zenon DEF slot, longer, left

LEMMA PartHandled ==
  ASSUME NEW r \in Readers, NEW c \in Channels, NEW s \in AllSayings, NEW i \in Nat \ {0},
         NEW p \in 1..Parts(s), Before(r, c, s, i, p)
  PROVE  /\ Touches(r, OnFrame(r, PartOf(c, s, p)), c)
         /\ After(OnFrame(r, PartOf(c, s, p)), c, s, i, p)
<1> DEFINE q == OnFrame(r, PartOf(c, s, p))
<1> DEFINE m == decode_method(s.method).v
<1> DEFINE g == Len(r.got[c])
<1>1. /\ s.body \in Seq(Octets) /\ Len(s.body) \in Nat
      /\ Parts(s) \in Nat \ {0} /\ p \in Nat /\ p >= 1 /\ p <= Parts(s)
      /\ ~IsContent(s) => Parts(s) = 1
      /\ IsContent(s) => Parts(s) # 1
  BY SayingParts
<1>2. g = i - 1 /\ (i - 1) + 1 = i /\ r.pending[c] = IF p = 1 THEN NoSlot ELSE SlotOf(s, p - 1)
  BY DEF Before
<1>3. /\ ~Fails(decode_method(s.method))
      /\ m.id \in {Deliver, Return, Blocked, Unblocked} \cup Confirms
      /\ IsContent(s) => /\ ~Fails(decode_content_header(s.header))
                         /\ decode_content_header(s.header).v.body_size = Len(s.body)
  BY Assumed, Zenon DEF IsSaying
<1>4. Event(s) \in Events
  BY Zenon DEF Events
<1>5. Event(s) = IF IsContent(s)
                 THEN [id |-> m.id, args |-> m.args,
                       props |-> decode_content_header(s.header).v.props, body |-> s.body]
                 ELSE m
  BY Zenon DEF Event
<1>6. \A x : Len(x.got[c]) = g + 1 /\ x.got[c][g + 1] = Event(s) /\ x.pending[c] = NoSlot
             /\ p = Parts(s) => After(x, c, s, i, p)
  <2>1. g + 1 = i
    BY <1>2
  <2> QED
    BY <2>1, Zenon DEF After
<1>7. \A x : x.got[c] = r.got[c] /\ x.pending[c] = SlotOf(s, p) /\ p # Parts(s)
                => After(x, c, s, i, p)
  BY <1>2 DEF After
<1> SUFFICES Touches(r, q, c) /\ After(q, c, s, i, p)
  BY Zenon DEF q
<1> HIDE DEF q, m, g
<1>8. CASE p = 1
  <2>1. q = Hear(r, c, m)
    <3>1. PartOf(c, s, p) = Frame(METHOD, c, s.method)
      BY <1>8 DEF PartOf
    <3>2. q = OnMethod(r, c, decode_method(s.method))
      BY <3>1, Branches DEF q
    <3> QED
      BY <1>3, <3>2, Zenon DEF OnMethod, m
  <2>2. r.pending[c] = NoSlot
    BY <1>2, <1>8, Zenon
  <2>3. CASE IsContent(s)
    <3>1. q = [r EXCEPT !.pending[c] = NewSlot(m)]
      <4>1. m.id \in {Deliver, Return}
        BY <2>3, Zenon DEF IsContent, m
      <4>2. HeardAs(q, r, c, m)
        BY <2>1, MethodHeard, Zenon
      <4> QED
        BY <4>1, <4>2, Zenon DEF HeardAs
    <3>2. SubSeq(s.body, 1, Covered(s, p)) = <<>>
      <4>1. Covered(s, p) = 0
        BY <1>8 DEF Covered
      <4> QED
        BY <4>1, SubSeqEmpty
    <3>3. SlotOf(s, p) = NewSlot(m)
      BY <1>8, <3>2, Zenon DEF SlotOf, NewSlot, m
    <3>4. q = [r EXCEPT !.pending[c] = SlotOf(s, p)]
      BY <3>1, <3>3, Zenon
    <3>5. Touches(r, q, c) /\ q.got[c] = r.got[c] /\ q.pending[c] = SlotOf(s, p)
      <4>1. /\ Touches(r, [r EXCEPT !.pending[c] = SlotOf(s, p)], c)
            /\ [r EXCEPT !.pending[c] = SlotOf(s, p)].got[c] = r.got[c]
            /\ [r EXCEPT !.pending[c] = SlotOf(s, p)].pending[c] = SlotOf(s, p)
        BY <1>1, Filled, Zenon
      <4> QED
        BY <3>4, <4>1, Zenon
    <3> QED
      BY <1>1, <1>7, <1>8, <2>3, <3>5, Zenon
  <2>4. CASE ~IsContent(s)
    <3>1. Event(s) = m /\ p = Parts(s)
      BY <1>1, <1>5, <1>8, <2>4, Zenon
    <3>2. m.id \in {Blocked, Unblocked} \cup Confirms
      BY <1>3, <2>4, Zenon DEF IsContent, m
    <3>3. /\ m.id = Blocked => q = Emit([r EXCEPT !.blocked = TRUE], c, m)
          /\ m.id = Unblocked => q = Emit([r EXCEPT !.blocked = FALSE], c, m)
          /\ m.id \in Confirms => q = Emit(r, c, m)
      <4>1. HeardAs(q, r, c, m)
        BY <2>1, MethodHeard, Zenon
      <4> QED
        BY <4>1, Zenon DEF HeardAs
    <3>4. \E b \in BOOLEAN : q = Emit([r EXCEPT !.blocked = b], c, m) \/ q = Emit(r, c, m)
      <4>1. TRUE \in BOOLEAN /\ FALSE \in BOOLEAN
        OBVIOUS
      <4>2. m.id = Blocked \/ m.id = Unblocked \/ m.id \in Confirms
        BY <3>2, Zenon
      <4> QED
        BY <3>3, <4>1, <4>2, Zenon
    <3>5. /\ Touches(r, q, c) /\ q.pending[c] = r.pending[c]
          /\ Len(q.got[c]) = g + 1 /\ q.got[c][g + 1] = m
      <4>1. m \in Events
        BY <1>4, <3>1, Zenon
      <4>2. \A b \in BOOLEAN : /\ HandsOver(r, Emit([r EXCEPT !.blocked = b], c, m), c, m, r.pending[c])
                               /\ HandsOver(r, Emit(r, c, m), c, m, r.pending[c])
        BY <4>1, Emitted, Zenon
      <4> QED
        BY <3>4, <4>2, Zenon DEF HandsOver, g
    <3> QED
      BY <1>6, <2>2, <3>1, <3>5, Zenon
  <2> QED
    BY <2>3, <2>4, Zenon
<1>9. ASSUME IsContent(s), NEW slot, slot = SlotOf(s, p), p >= 2,
             slot.remaining = Len(s.body) - Covered(s, p),
             q = Fill(r, c, slot)
      PROVE  Touches(r, q, c) /\ After(q, c, s, i, p)
  <2>1. p \in 2..Parts(s)
    BY <1>1, <1>9
  <2>2. /\ Covered(s, p) \in 0..Len(s.body)
        /\ (Covered(s, p) = Len(s.body)) <=> (p = Parts(s))
    BY <1>9, <2>1, Coverage, Zenon
  <2>3. slot.remaining = 0 <=> p = Parts(s)
    BY <1>1, <1>9, <2>2
  <2>4. CASE p = Parts(s)
    <3>1. q = Emit([r EXCEPT !.pending[c] = NoSlot], c, Content(slot))
      BY <1>9, <2>3, <2>4, Zenon DEF Fill, FinishDelivery
    <3>2. Content(slot) = Event(s)
      <4>1. SubSeq(s.body, 1, Covered(s, p)) = s.body
        BY <1>1, <2>2, <2>4, SubSeqFull, Zenon
      <4>2. /\ slot.of = m /\ slot.props = decode_content_header(s.header).v.props
            /\ slot.body = s.body
        BY <1>9, <4>1 DEF SlotOf, m
      <4> QED
        BY <1>5, <1>9, <4>2, Zenon DEF Content
    <3>3. /\ Touches(r, q, c) /\ q.pending[c] = NoSlot
          /\ Len(q.got[c]) = g + 1 /\ q.got[c][g + 1] = Event(s)
      <4>1. HandsOver(r, Emit([r EXCEPT !.pending[c] = NoSlot], c, Event(s)), c, Event(s), NoSlot)
        <5>1. TRUE \in BOOLEAN
          OBVIOUS
        <5> QED
          BY <1>4, <5>1, Emitted, Zenon
      <4> QED
        BY <3>1, <3>2, <4>1, Zenon DEF HandsOver, g
    <3> QED
      BY <1>6, <2>4, <3>3, Zenon
  <2>5. CASE p # Parts(s)
    <3>1. q = [r EXCEPT !.pending[c] = SlotOf(s, p)]
      BY <1>9, <2>3, <2>5, Zenon DEF Fill
    <3> QED
      <4>1. /\ Touches(r, [r EXCEPT !.pending[c] = SlotOf(s, p)], c)
            /\ [r EXCEPT !.pending[c] = SlotOf(s, p)].got[c] = r.got[c]
            /\ [r EXCEPT !.pending[c] = SlotOf(s, p)].pending[c] = SlotOf(s, p)
        BY <1>1, Filled, Zenon
      <4>2. Touches(r, q, c) /\ q.got[c] = r.got[c] /\ q.pending[c] = SlotOf(s, p)
        BY <3>1, <4>1, Zenon
      <4> QED
        BY <1>7, <2>5, <4>2, Zenon
  <2> QED
    BY <2>4, <2>5, Zenon
<1>10. CASE p = 2
  <2>1. IsContent(s)
    BY <1>1, <1>10
  <2>2. r.pending[c] = SlotOf(s, 1) /\ r.pending[c] # NoSlot
    <3>1. p - 1 = 1 /\ p # 1
      BY <1>10
    <3> QED
      BY <1>2, <3>1, SlotIsNone, Zenon
  <2> DEFINE d == decode_content_header(s.header)
  <2> DEFINE slot == [SlotOf(s, 1) EXCEPT !.props = d.v.props, !.remaining = d.v.body_size]
  <2>3. q = Fill(r, c, slot)
    <3>1. PartOf(c, s, p) = Frame(HEADER, c, s.header)
      BY <1>10 DEF PartOf
    <3>2. q = OnHeader(r, c, d)
      BY <3>1, Branches DEF q
    <3> QED
      BY <1>3, <2>1, <2>2, <3>2, Zenon DEF OnHeader
  <2>4. Covered(s, 1) = 0 /\ Covered(s, 2) = 0
    BY DEF Covered
  <2>5. slot = SlotOf(s, p) /\ slot.remaining = Len(s.body) - Covered(s, p)
    <3>1. d.v.body_size = Len(s.body) - 0
      BY <1>1, <1>3, <2>1
    <3> DEFINE x == SlotOf(s, 1)
    <3>2. SlotOf(s, p) = Slot(x.of, d.v.props, x.body, Len(s.body) - 0)
      BY <1>10, <2>4 DEF SlotOf, Slot
    <3>3. x = Slot(x.of, x.props, x.body, x.remaining)
      BY DEF SlotOf, Slot
    <3>4. slot = Headed(x, d.v.props, d.v.body_size)
      BY Zenon DEF Headed
    <3> HIDE DEF x, slot
    <3>5. slot = Slot(x.of, d.v.props, x.body, d.v.body_size)
      <4>1. Headed(Slot(x.of, x.props, x.body, x.remaining), d.v.props, d.v.body_size)
              = Slot(x.of, d.v.props, x.body, d.v.body_size)
        BY SlotUpdated
      <4> QED
        BY <3>3, <3>4, <4>1
    <3>6. SlotOf(s, p).remaining = Len(s.body) - 0
      BY <3>2 DEF Slot
    <3> QED
      BY <1>10, <2>4, <3>1, <3>2, <3>5, <3>6, Zenon
  <2> HIDE DEF slot
  <2>6. p >= 2
    BY <1>10
  <2> QED
    BY <1>9, <2>1, <2>3, <2>5, <2>6, Zenon
<1>11. CASE p > 2
  <2> DEFINE a == Covered(s, p - 1)
  <2> DEFINE b == Covered(s, p)
  <2> DEFINE payload == SubSeq(s.body, a + 1, b)
  <2> DEFINE old == SlotOf(s, p - 1)
  <2>1. IsContent(s) /\ p \in 2..Parts(s) /\ p >= 2
    BY <1>1, <1>11
  <2>2. /\ b \in 0..Len(s.body) /\ a \in Nat /\ a <= b /\ a < Len(s.body)
    BY <1>11, <2>1, Coverage, Zenon
  <2>3. r.pending[c] = old /\ old # NoSlot
    <3>1. p # 1
      BY <1>11
    <3> QED
      BY <1>2, <3>1, SlotIsNone, Zenon
  <2>4. /\ old.remaining = Len(s.body) - a /\ old.body = SubSeq(s.body, 1, a)
    <3>1. p - 1 # 1
      BY <1>11
    <3> QED
      BY <3>1 DEF SlotOf
  <2> HIDE DEF a, b
  <2>5. /\ payload \in Seq(Octets) /\ Len(payload) = b - a
        /\ SubSeq(s.body, 1, a) \o payload = SubSeq(s.body, 1, b)
    <3>1. /\ a + 1 \in Nat \ {0} /\ b - a \in Nat /\ b \in Int /\ b = (a + 1) + (b - a) - 1
          /\ b <= Len(s.body)
      BY <1>1, <2>2
    <3>2. payload \in Seq(Octets) /\ IsPiece(payload, s.body, a + 1, b - a)
      BY <1>1, <3>1, Piece, Zenon
    <3>3. /\ 1 \in 1..(Len(s.body) + 1) /\ a \in (1 - 1)..Len(s.body) /\ b \in a..Len(s.body)
      BY <1>1, <2>2
    <3>4. SubSeq(s.body, 1, a) \o payload = SubSeq(s.body, 1, b)
      BY <1>1, <3>3, ConcatAdjacentSubSeq, Zenon
    <3> QED
      BY <3>2, <3>4, Zenon DEF IsPiece
  <2> DEFINE slot == Grown(old, payload)
  <2>6. q = Fill(r, c, slot)
    <3>1. PartOf(c, s, p) = Frame(BODY, c, payload)
      BY <1>11 DEF PartOf, a, b
    <3>2. q = OnBody(r, c, payload)
      BY <3>1, Branches DEF q
    <3>3. old.remaining # -1 /\ ~ (Len(payload) > old.remaining)
      BY <1>1, <2>2, <2>4, <2>5
    <3> QED
      BY <2>3, <3>2, <3>3, Zenon DEF OnBody
  <2>7. slot = SlotOf(s, p) /\ slot.remaining = Len(s.body) - Covered(s, p)
    <3>1. (Len(s.body) - a) - (b - a) = Len(s.body) - b
      BY <1>1, <2>2
    <3>2. p - 1 # 1 /\ p # 1
      BY <1>11
    <3> QED
      <4>1. SlotOf(s, p) = Slot(old.of, old.props, SubSeq(s.body, 1, b), Len(s.body) - b)
        BY <3>2 DEF SlotOf, Slot, b
      <4>2. old = Slot(old.of, old.props, old.body, old.remaining)
        BY DEF SlotOf, Slot
      <4> HIDE DEF old, payload
      <4>3. slot = Slot(old.of, old.props, old.body \o payload, old.remaining - Len(payload))
        <5>1. Grown(Slot(old.of, old.props, old.body, old.remaining), payload)
                = Slot(old.of, old.props, old.body \o payload, old.remaining - Len(payload))
          BY SlotGrown
        <5> QED
          BY <4>2, <5>1
      <4>4. SlotOf(s, p).remaining = Len(s.body) - b
        BY <4>1 DEF Slot
      <4> QED
        BY <2>4, <2>5, <3>1, <4>1, <4>3, <4>4, Zenon DEF b
  <2> HIDE DEF slot
  <2> QED
    BY <1>9, <2>1, <2>6, <2>7, Zenon
<1> QED
  BY <1>1, <1>8, <1>10, <1>11

-----------------------------------------------------------------------------
(* The inductive invariant of Reading. *)

\* The frame of an entry of line, its octets, and where those of the k-th begin.
FrameOf(x) ==
  LET w == wrote[x.channel][x.n]
  IN IF x.n = 0 THEN Frame(HEARTBEAT, 0, <<>>)
     ELSE PartOf(x.channel, said[x.channel][w.of], w.part)
OctetsOf(x) == encode_frame(FrameOf(x), frame_max)
From(k) == IF k = 1 THEN 0 ELSE line[k - 1].end

Entries == [channel : Nat, n : Nat, end : Nat]
Places == [of : Nat, part : Nat]

Types ==
  /\ reader \in Readers
  /\ said \in [Channels -> Seq(AllSayings)]
  /\ wrote \in [Channels -> Seq(Places)]
  /\ stream \in Seq(Octets) /\ taken \in 0..Len(stream)
  /\ line \in Seq(Entries) /\ done \in 0..Len(line)
  /\ handled \in [Channels -> Nat]

\* What is written of a channel are parts of what was said on it, each the one
\* that follows the last.
WroteOK ==
  \A c \in Channels : \A n \in 1..Len(wrote[c]) :
    LET w == wrote[c][n]
    IN /\ w = Following(c, n - 1)
       /\ w.of \in 1..Len(said[c]) /\ w.part \in 1..Parts(said[c][w.of])

\* An entry of line is a heartbeat or one of those parts.
LineOK ==
  \A k \in 1..Len(line) : line[k].n > 0 =>
    line[k].channel \in Channels /\ line[k].n <= Len(wrote[line[k].channel])

\* The stream is the octets of the frames of line, one after the other.
Lies(s, k, e) ==
  /\ line[k].end <= Len(s) /\ line[k].end = From(k) + Len(e)
  /\ \A j \in 1..Len(e) : s[From(k) + j] = e[j]

StreamOK ==
  /\ Len(stream) = From(Len(line) + 1)
  /\ \A k \in 1..Len(line) : Lies(stream, k, OctetsOf(line[k]))

\* The frames that are not handled yet are, of each channel, those after the
\* ones that are, in order.
OrderOK ==
  LET left == (done + 1)..Len(line) IN
  /\ \A c \in Channels : handled[c] <= Len(wrote[c])
  /\ \A k \in left : line[k].n > 0 => handled[line[k].channel] < line[k].n
  /\ \A j, k \in left : j < k /\ line[j].n > 0 /\ line[j].channel = line[k].channel /\ line[k].n > 0
                          => line[j].n < line[k].n
  /\ \A c \in Channels : \A n \in (handled[c] + 1)..Len(wrote[c]) :
       \E k \in left : line[k].channel = c /\ line[k].n = n

\* The buffer is what was taken of the stream after the frames handled.
BufferOK ==
  /\ From(done + 1) + Len(reader.buffer) = taken
  /\ \A j \in 1..Len(reader.buffer) : reader.buffer[j] = stream[From(done + 1) + j]

\* The loop stands on each channel before the part that follows those handled.
ReaderOK ==
  \A c \in Channels :
    LET d == Following(c, handled[c])
    IN Before(reader, c, said[c][d.of], d.of, d.part)

GotOK ==
  \A c \in Channels : \A i \in 1..Len(reader.got[c]) : reader.got[c][i] = Event(said[c][i])

ReadingInv ==
  /\ Types /\ WroteOK /\ LineOK /\ StreamOK /\ OrderOK /\ BufferOK /\ ReaderOK /\ GotOK

\* Nothing said or written is taken back.
Extended ==
  \A c \in Channels :
    /\ Len(said'[c]) \in Nat /\ Len(wrote'[c]) \in Nat
    /\ Len(said[c]) <= Len(said'[c]) /\ Len(wrote[c]) <= Len(wrote'[c])
    /\ \A i \in 1..Len(said[c]) : said'[c][i] = said[c][i]
    /\ \A n \in 1..Len(wrote[c]) : wrote'[c][n] = wrote[c][n]

LEMMA Typed ==
  ASSUME Types
  PROVE  /\ \A c \in Channels :
              /\ said[c] \in Seq(AllSayings) /\ Len(said[c]) \in Nat
              /\ \A i \in 1..Len(said[c]) : said[c][i] \in AllSayings
              /\ wrote[c] \in Seq(Places) /\ Len(wrote[c]) \in Nat
              /\ \A n \in 1..Len(wrote[c]) : wrote[c][n].of \in Nat /\ wrote[c][n].part \in Nat
              /\ handled[c] \in Nat
              /\ reader.got[c] \in Seq(Events) /\ Len(reader.got[c]) \in Nat
         /\ stream \in Seq(Octets) /\ Len(stream) \in Nat /\ taken \in Nat /\ taken <= Len(stream)
         /\ line \in Seq(Entries) /\ Len(line) \in Nat /\ done \in Nat /\ done <= Len(line)
         /\ \A k \in 1..Len(line) :
              line[k].channel \in Nat /\ line[k].n \in Nat /\ line[k].end \in Nat
         /\ \A k \in 1..(Len(line) + 1) : From(k) \in Nat
         /\ reader.buffer \in Seq(Octets) /\ Len(reader.buffer) \in Nat /\ reader.lost = FALSE
<1>1. ASSUME NEW c \in Channels
      PROVE  /\ said[c] \in Seq(AllSayings) /\ Len(said[c]) \in Nat
             /\ \A i \in 1..Len(said[c]) : said[c][i] \in AllSayings
             /\ wrote[c] \in Seq(Places) /\ Len(wrote[c]) \in Nat
             /\ \A n \in 1..Len(wrote[c]) : wrote[c][n].of \in Nat /\ wrote[c][n].part \in Nat
             /\ handled[c] \in Nat
             /\ reader.got[c] \in Seq(Events) /\ Len(reader.got[c]) \in Nat
  <2>1. /\ said[c] \in Seq(AllSayings) /\ wrote[c] \in Seq(Places) /\ handled[c] \in Nat
    BY DEF Types
  <2>2. reader.got[c] \in Seq(Events)
    BY DEF Types, Readers
  <2>3. /\ Len(said[c]) \in Nat /\ Len(wrote[c]) \in Nat /\ Len(reader.got[c]) \in Nat
    BY <2>1, <2>2, LenProperties, Zenon
  <2>4. \A i \in 1..Len(said[c]) : said[c][i] \in AllSayings
    BY <2>1, ElementOfSeq, Zenon
  <2>5. \A n \in 1..Len(wrote[c]) : wrote[c][n] \in Places
    BY <2>1, ElementOfSeq, Zenon
  <2>6. \A x \in Places : x.of \in Nat /\ x.part \in Nat
    BY DEF Places
  <2> QED
    BY <2>1, <2>2, <2>3, <2>4, <2>5, <2>6, Zenon
<1>2. /\ stream \in Seq(Octets) /\ Len(stream) \in Nat /\ taken \in Nat /\ taken <= Len(stream)
  <2>1. stream \in Seq(Octets) /\ Len(stream) \in Nat
    BY LenProperties, Zenon DEF Types
  <2> QED
    BY <2>1 DEF Types
<1>3. line \in Seq(Entries) /\ Len(line) \in Nat /\ done \in Nat /\ done <= Len(line)
  <2>1. line \in Seq(Entries) /\ Len(line) \in Nat
    BY LenProperties, Zenon DEF Types
  <2> QED
    BY <2>1 DEF Types
<1>4. \A k \in 1..Len(line) : line[k].channel \in Nat /\ line[k].n \in Nat /\ line[k].end \in Nat
  <2>1. \A k \in 1..Len(line) : line[k] \in Entries
    BY <1>3, ElementOfSeq, Zenon
  <2> QED
    BY <2>1 DEF Entries
<1>5. \A k \in 1..(Len(line) + 1) : From(k) \in Nat
  BY <1>3, <1>4 DEF From
<1>6. reader.buffer \in Seq(Octets) /\ reader.lost = FALSE
  BY DEF Types, Readers
<1> QED
  BY <1>1, <1>2, <1>3, <1>4, <1>5, <1>6, LenProperties, Zenon

\* What follows a part, as cases.
LEMMA FollowingIs ==
  ASSUME NEW c, NEW n
  PROVE  /\ n = 0 => Following(c, n) = [of |-> 1, part |-> 1]
         /\ n > 0 /\ n # 0 /\ wrote[c][n].part < Parts(said[c][wrote[c][n].of])
              => Following(c, n) = [of |-> wrote[c][n].of, part |-> wrote[c][n].part + 1]
         /\ n # 0 /\ ~ (wrote[c][n].part < Parts(said[c][wrote[c][n].of]))
              => Following(c, n) = [of |-> wrote[c][n].of + 1, part |-> 1]
  BY DEF Following

LEMMA FollowingFits ==
  ASSUME Types, WroteOK, NEW c \in Channels, NEW n \in 0..Len(wrote[c])
  PROVE  LET d == Following(c, n)
         IN /\ d \in [of : Nat \ {0}, part : Nat \ {0}]
            /\ d.of <= Len(said[c]) + 1
            /\ d.of <= Len(said[c]) => d.part <= Parts(said[c][d.of])
            /\ d.part # 1 => d.of <= Len(said[c])
<1> DEFINE d == Following(c, n)
<1> DEFINE w == wrote[c][n]
<1> DEFINE most == Len(said[c])
<1> DEFINE parts(i) == Parts(said[c][i])
<1>1. /\ n \in Nat /\ most \in Nat /\ (n # 0 => n \in 1..Len(wrote[c]) /\ n > 0)
      /\ \A i \in 1..most : said[c][i] \in AllSayings
  BY Typed
<1>2. \A i \in 1..most : parts(i) \in Nat \ {0}
  BY <1>1, SayingParts, Zenon
<1>3. n # 0 => w.of \in 1..most /\ w.part \in 1..parts(w.of)
  BY <1>1, Zenon DEF WroteOK
<1>4. /\ n = 0 => d = [of |-> 1, part |-> 1]
      /\ n # 0 /\ w.part < parts(w.of) => d = [of |-> w.of, part |-> w.part + 1]
      /\ n # 0 /\ ~ (w.part < parts(w.of)) => d = [of |-> w.of + 1, part |-> 1]
  BY <1>1, FollowingIs, Zenon
<1> HIDE DEF d, w, most, parts
<1>5. \A i \in 1..most : i \in Nat \ {0} /\ i <= most + 1
  BY <1>1
<1>6. /\ d \in [of : Nat \ {0}, part : Nat \ {0}]
      /\ d.of <= most + 1
      /\ d.of <= most => d.part <= parts(d.of)
      /\ d.part # 1 => d.of <= most
  <2>1. CASE n = 0
    <3>1. d.of = 1 /\ d.part = 1 /\ d \in [of : Nat \ {0}, part : Nat \ {0}]
      BY <1>4, <2>1
    <3> QED
      BY <1>1, <1>2, <3>1
  <2>2. CASE n # 0 /\ w.part < parts(w.of)
    <3>1. /\ w.of \in Nat \ {0} /\ w.part + 1 \in Nat \ {0} /\ w.part + 1 <= parts(w.of)
          /\ w.of <= most
      BY <1>1, <1>2, <1>3, <2>2
    <3>2. d.of = w.of /\ d.part = w.part + 1 /\ d \in [of : Nat \ {0}, part : Nat \ {0}]
      BY <1>4, <2>2, <3>1
    <3> QED
      BY <1>1, <3>1, <3>2
  <2>3. CASE n # 0 /\ ~ (w.part < parts(w.of))
    <3>1. w.of + 1 \in Nat \ {0} /\ w.of + 1 <= most + 1
      BY <1>1, <1>3, <2>3
    <3>2. d.of = w.of + 1 /\ d.part = 1 /\ d \in [of : Nat \ {0}, part : Nat \ {0}]
      BY <1>4, <2>3, <3>1
    <3> QED
      BY <1>1, <1>2, <3>1, <3>2
  <2> QED
    BY <2>1, <2>2, <2>3, Zenon
<1> QED
  BY <1>6, Zenon DEF d, most, parts

LEMMA FollowingKept ==
  ASSUME Types, WroteOK, Extended, NEW c \in Channels, NEW n \in 0..Len(wrote[c])
  PROVE  Following(c, n)' = Following(c, n)
<1>1. n \in Nat /\ (n # 0 => n \in 1..Len(wrote[c]))
  BY Typed
<1>2. CASE n = 0
  BY <1>2 DEF Following
<1>3. CASE n # 0
  <2>1. wrote'[c][n] = wrote[c][n] /\ wrote[c][n].of \in 1..Len(said[c])
    BY <1>1, <1>3, Zenon DEF Extended, WroteOK
  <2>2. said'[c][wrote[c][n].of] = said[c][wrote[c][n].of]
    BY <2>1, Zenon DEF Extended
  <2> QED
    BY <2>1, <2>2 DEF Following
<1> QED
  BY <1>2, <1>3, Zenon

LEMMA FrameKept ==
  ASSUME Types, WroteOK, Extended, NEW x,
         x.n # 0 => x.channel \in Channels /\ x.n \in 1..Len(wrote[x.channel])
  PROVE  OctetsOf(x)' = OctetsOf(x)
<1>1. CASE x.n = 0
  BY <1>1, Zenon DEF OctetsOf, FrameOf
<1>2. CASE x.n # 0
  <2> DEFINE c == x.channel
  <2>1. /\ c \in Channels /\ wrote'[c][x.n] = wrote[c][x.n]
        /\ wrote[c][x.n].of \in 1..Len(said[c])
    BY <1>2, Zenon DEF Extended, WroteOK
  <2>2. said'[c][wrote[c][x.n].of] = said[c][wrote[c][x.n].of]
    BY <2>1, Zenon DEF Extended
  <2> QED
    BY <2>1, <2>2, Zenon DEF OctetsOf, FrameOf
<1> QED
  BY <1>1, <1>2, Zenon

\* Of each channel no more is got than was said, and a slot is that of a content
\* with octets to come.
LEMMA HeardOfSaid ==
  ASSUME Types, WroteOK, OrderOK, ReaderOK, NEW c \in Channels
  PROVE  /\ Len(reader.got[c]) <= Len(said[c])
         /\ reader.pending[c] # NoSlot =>
              /\ reader.pending[c].of.id \in {Deliver, Return}
              /\ reader.pending[c].remaining \in (Nat \ {0}) \cup {-1}
<1> DEFINE d == Following(c, handled[c])
<1> DEFINE s == said[c][d.of]
<1> DEFINE p == d.part - 1
<1>1. handled[c] \in 0..Len(wrote[c])
  <2>1. handled[c] \in Nat /\ Len(wrote[c]) \in Nat /\ handled[c] <= Len(wrote[c])
    BY Typed, Zenon DEF OrderOK
  <2> QED
    BY <2>1
<1>2. Before(reader, c, s, d.of, d.part)
  BY Zenon DEF ReaderOK
<1>3. /\ d \in [of : Nat \ {0}, part : Nat \ {0}]
      /\ d.of <= Len(said[c]) + 1
      /\ d.of <= Len(said[c]) => d.part <= Parts(s)
      /\ d.part # 1 => d.of <= Len(said[c])
  BY <1>1, FollowingFits, Zenon
<1> HIDE DEF d, s, p
<1>4. Len(said[c]) \in Nat /\ \A i \in 1..Len(said[c]) : said[c][i] \in AllSayings
  BY Typed, Zenon
<1>5. d.of \in Nat \ {0} /\ d.part \in Nat \ {0}
  BY <1>3
<1>6. Len(reader.got[c]) = d.of - 1
  BY <1>2, Zenon DEF Before
<1>7. Len(reader.got[c]) <= Len(said[c])
  BY <1>3, <1>4, <1>5, <1>6
<1>8. ASSUME reader.pending[c] # NoSlot
      PROVE  /\ reader.pending[c].of.id \in {Deliver, Return}
             /\ reader.pending[c].remaining \in (Nat \ {0}) \cup {-1}
  <2>1. d.part # 1 /\ reader.pending[c] = SlotOf(s, p)
    BY <1>2, <1>8, Zenon DEF Before, p
  <2>2. s \in AllSayings /\ d.part <= Parts(s)
    <3>1. d.of \in 1..Len(said[c]) /\ d.part <= Parts(s)
      BY <1>3, <1>4, <1>5, <2>1
    <3> QED
      BY <1>4, <3>1, Zenon DEF s
  <2>3. IsContent(s) /\ d.part \in 2..Parts(s) /\ Len(s.body) \in Nat
    <3>1. Parts(s) \in Nat /\ Len(s.body) \in Nat /\ (~IsContent(s) => Parts(s) = 1)
      BY <2>2, SayingParts
    <3> QED
      BY <1>5, <2>1, <2>2, <3>1
  <2>4. reader.pending[c].of.id \in {Deliver, Return}
    BY <2>1, <2>3 DEF SlotOf, IsContent
  <2>5. reader.pending[c].remaining = IF p = 1 THEN -1 ELSE Len(s.body) - Covered(s, p)
    BY <2>1 DEF SlotOf
  <2>6. p # 1 => Covered(s, p) \in Nat /\ Covered(s, p) < Len(s.body)
    <3>1. p # 1 => d.part > 2
      BY <1>5, <2>1 DEF p
    <3> QED
      BY <2>2, <2>3, <3>1, Coverage, Zenon DEF p
  <2> QED
    BY <2>3, <2>4, <2>5, <2>6
<1> QED
  BY <1>7, <1>8, Zenon

\* What the loop has on each channel is not disturbed by more that is said,
\* written or taken.
LEMMA ReaderKept ==
  ASSUME Types, WroteOK, OrderOK, ReaderOK, GotOK, Extended,
         handled' = handled, reader'.got = reader.got, reader'.pending = reader.pending
  PROVE  ReaderOK' /\ GotOK'
<1>1. ASSUME NEW c \in Channels
      PROVE  LET d == Following(c, handled[c])'
             IN Before(reader', c, said'[c][d.of], d.of, d.part)
  <2> DEFINE d == Following(c, handled[c])
  <2>1. handled[c] \in 0..Len(wrote[c])
    <3>1. handled[c] \in Nat /\ Len(wrote[c]) \in Nat /\ handled[c] <= Len(wrote[c])
      BY Typed, Zenon DEF OrderOK
    <3> QED
      BY <3>1
  <2>2. Following(c, handled[c])' = d
    <3> DEFINE h == handled[c]
    <3>1. Following(c, h)' = Following(c, h)
      <4> HIDE DEF h
      <4> QED
        BY <2>1, FollowingKept, Zenon DEF h
    <3> QED
      BY <3>1, Zenon
  <2>3. Before(reader, c, said[c][d.of], d.of, d.part)
    BY Zenon DEF ReaderOK
  <2>4. /\ d \in [of : Nat \ {0}, part : Nat \ {0}]
        /\ d.part # 1 => d.of <= Len(said[c])
    BY <2>1, FollowingFits, Zenon
  <2> HIDE DEF d
  <2>5. d.part # 1 => said'[c][d.of] = said[c][d.of]
    <3>1. d.part # 1 => d.of \in 1..Len(said[c])
      BY <2>4, Typed
    <3> QED
      BY <3>1, Zenon DEF Extended
  <2>6. Before(reader', c, said'[c][d.of], d.of, d.part)
    BY <2>3, <2>5, Zenon DEF Before
  <2> QED
    BY <2>2, <2>6, Zenon
<1>2. ReaderOK'
  BY <1>1, Zenon DEF ReaderOK
<1>3. ASSUME NEW c \in Channels, NEW i \in 1..Len(reader'.got[c])
      PROVE  reader'.got[c][i] = Event(said'[c][i])
  <2>1. reader.got[c][i] = Event(said[c][i])
    BY <1>3, Zenon DEF GotOK
  <2>2. Len(reader.got[c]) <= Len(said[c])
    BY HeardOfSaid, Zenon
  <2>3. i \in 1..Len(said[c])
    BY <1>3, <2>2, Typed
  <2> QED
    BY <2>1, <2>3, Zenon DEF Extended
<1> QED
  BY <1>2, <1>3, Zenon DEF GotOK

LEMMA HeartbeatFits ==
  LET f == Frame(HEARTBEAT, 0, <<>>)
  IN f \in FrameSet /\ Fits(f, frame_max)
<1>1. Frame(HEARTBEAT, 0, <<>>) \in FrameSet
  BY Assumed DEF Frame, FrameSet
<1>2. Frame(HEARTBEAT, 0, <<>>).payload = <<>> /\ Len(<<>>) = 0
  BY DEF Frame
<1>3. 0 <= max_frame_payload(frame_max)
  BY Assumed
<1> QED
  BY <1>1, <1>2, <1>3, Zenon DEF Fits

\* The frame of an entry is one that encode_frame writes.
LEMMA EntryFits ==
  ASSUME Types, WroteOK, LineOK, NEW k \in 1..Len(line)
  PROVE  FrameOf(line[k]) \in FrameSet /\ Fits(FrameOf(line[k]), frame_max)
<1> DEFINE x == line[k]
<1>1. x.n \in Nat
  BY Typed, Zenon
<1>2. CASE x.n = 0
  <2>1. FrameOf(x) = Frame(HEARTBEAT, 0, <<>>)
    BY <1>2, Zenon DEF FrameOf
  <2> QED
    BY <2>1, HeartbeatFits, Zenon
<1>3. CASE x.n # 0
  <2> DEFINE c == x.channel
  <2> DEFINE w == wrote[c][x.n]
  <2>1. c \in Channels /\ x.n <= Len(wrote[c])
    <3>1. x.n > 0
      BY <1>1, <1>3
    <3> QED
      BY <3>1, Zenon DEF LineOK
  <2>2. x.n \in 1..Len(wrote[c])
    BY <1>1, <1>3, <2>1, Typed
  <2>3. w.of \in 1..Len(said[c]) /\ w.part \in 1..Parts(said[c][w.of])
    BY <2>1, <2>2, Zenon DEF WroteOK
  <2>4. said[c][w.of] \in AllSayings
    BY <2>1, <2>3, Typed, Zenon
  <2>5. FrameOf(x) = PartOf(c, said[c][w.of], w.part)
    BY <1>3, Zenon DEF FrameOf
  <2> QED
    BY <2>1, <2>3, <2>4, <2>5, PartFits, Zenon
<1> QED
  BY <1>2, <1>3, Zenon

LEMMA OctetsLength ==
  ASSUME Types, WroteOK, LineOK, NEW k \in 1..Len(line)
  PROVE  Len(OctetsOf(line[k])) \in Nat
<1>1. encode_frame(FrameOf(line[k]), frame_max) \in Seq(Octets)
  BY EntryFits, Assumed, FrameOctets, Zenon
<1> QED
  BY <1>1, LenProperties, Zenon DEF OctetsOf

\* A frame more is written.
LEMMA StreamGrown ==
  ASSUME Types, WroteOK, LineOK, StreamOK, BufferOK, Extended,
         NEW f \in FrameSet, Fits(f, frame_max), NEW x \in Entries,
         stream' = stream \o encode_frame(f, frame_max),
         line' = Append(line, x), x.end = Len(stream'),
         OctetsOf(x)' = encode_frame(f, frame_max),
         reader' = reader, taken' = taken, done' = done
  PROVE  /\ stream' \in Seq(Octets) /\ taken' \in 0..Len(stream')
         /\ line' \in Seq(Entries) /\ done' \in 0..Len(line')
         /\ StreamOK' /\ BufferOK'
<1> DEFINE e == encode_frame(f, frame_max)
<1> DEFINE N == Len(stream)
<1>0. PICK L : L = Len(line)
  OBVIOUS
<1>1. e \in Seq(Octets) /\ Len(e) \in Nat
  <2>1. e \in Seq(Octets)
    BY Assumed, FrameOctets, Zenon
  <2> QED
    BY <2>1, LenProperties, Zenon
<1>2. /\ stream \in Seq(Octets) /\ N \in Nat /\ taken \in Nat /\ taken <= N
      /\ line \in Seq(Entries) /\ L \in Nat /\ done \in Nat /\ done <= L
      /\ \A k \in 1..L : line[k].channel \in Nat /\ line[k].n \in Nat /\ line[k].end \in Nat
      /\ \A k \in 1..(L + 1) : From(k) \in Nat
      /\ reader.buffer \in Seq(Octets) /\ Len(reader.buffer) \in Nat
  BY <1>0, Typed, Zenon
<1>3. stream' \in Seq(Octets) /\ IsJoin(stream', stream, e)
  BY <1>1, <1>2, Joined, Zenon
<1>4. /\ line' \in Seq(Entries) /\ Len(line') = L + 1 /\ line'[L + 1] = x
      /\ \A k \in 1..L : line'[k] = line[k]
  BY <1>0, <1>2, AppendProperties
<1> HIDE DEF e, N
<1>5. Len(stream') = N + Len(e) /\ \A i \in 1..N : stream'[i] = stream[i]
  BY <1>3, Zenon DEF IsJoin, N
<1>6. \A i \in 1..Len(e) : stream'[N + i] = e[i]
  BY <1>3, Zenon DEF IsJoin, N
<1>7. \A k \in 1..(L + 1) : From(k)' = From(k)
  <2>1. \A k \in 1..(L + 1) : k # 1 => k - 1 \in 1..L
    BY <1>2
  <2> QED
    BY <1>4, <2>1, Zenon DEF From
<1>8. /\ (L + 1) + 1 # 1 /\ ((L + 1) + 1) - 1 = L + 1 /\ L + 1 \in 1..(L + 1)
      /\ done + 1 \in 1..(L + 1) /\ \A k \in 1..L : k \in 1..(L + 1)
      /\ \A k \in 1..(L + 1) : k \in 1..L \/ k = L + 1
  BY <1>2
<1>9. N = From(L + 1) /\ \A k \in 1..L : Lies(stream, k, OctetsOf(line[k]))
  BY <1>0, Zenon DEF StreamOK, N
<1>10. \A k \in 1..L : line[k].n # 0 =>
         line[k].channel \in Channels /\ line[k].n \in 1..Len(wrote[line[k].channel])
  <2> TAKE k \in 1..L
  <2> HAVE line[k].n # 0
  <2>1. line[k].n > 0 /\ line[k].n \in Nat
    BY <1>2
  <2>2. line[k].channel \in Channels /\ line[k].n <= Len(wrote[line[k].channel])
    BY <1>0, <2>1, Zenon DEF LineOK
  <2>3. Len(wrote[line[k].channel]) \in Nat
    BY <2>2, Typed, Zenon
  <2> QED
    BY <2>1, <2>2, <2>3
<1>11. ASSUME NEW k \in 1..L
       PROVE  Lies(stream, k, OctetsOf(line[k]))'
  <2>1. PICK y : y = line[k]
    OBVIOUS
  <2>2. OctetsOf(y)' = OctetsOf(y)
    BY <1>10, <2>1, FrameKept, Zenon
  <2> DEFINE o == OctetsOf(y)
  <2>3. y.end <= N /\ y.end = From(k) + Len(o) /\ \A j \in 1..Len(o) : stream[From(k) + j] = o[j]
    BY <1>9, <2>1, Zenon DEF Lies, N
  <2>4. line'[k] = y /\ From(k)' = From(k)
    BY <1>4, <1>7, <1>8, <2>1, Zenon
  <2>5. From(k) \in Nat /\ y.end \in Nat
    BY <1>2, <1>8, <2>1, Zenon
  <2>6. Len(o) \in Nat
    BY <1>0, <2>1, OctetsLength, Zenon
  <2> HIDE DEF o
  <2>7. y.end <= Len(stream')
    BY <1>1, <1>2, <1>5, <2>3, <2>5
  <2>8. \A j \in 1..Len(o) : stream'[From(k) + j] = o[j]
    <3> TAKE j \in 1..Len(o)
    <3>1. From(k) + j \in 1..N
      BY <1>2, <2>3, <2>5, <2>6
    <3> QED
      BY <1>5, <2>3, <3>1, Zenon
  <2>9. OctetsOf(line[k])' = o
    <3>1. OctetsOf(line[k])' = OctetsOf(y)'
      BY <2>4, Zenon DEF OctetsOf, FrameOf
    <3> QED
      BY <2>2, <3>1, Zenon DEF o
  <2> QED
    BY <2>3, <2>4, <2>7, <2>8, <2>9, Zenon DEF Lies
<1>12. Lies(stream, L + 1, OctetsOf(line[L + 1]))'
  <2>1. OctetsOf(line[L + 1])' = e
    <3>1. OctetsOf(line[L + 1])' = OctetsOf(x)'
      BY <1>4, Zenon DEF OctetsOf, FrameOf
    <3> QED
      BY <3>1, Zenon DEF e
  <2>2. From(L + 1)' = N /\ x.end = N + Len(e)
    BY <1>5, <1>7, <1>8, <1>9, Zenon
  <2>3. x.end <= Len(stream')
    BY <1>1, <1>2, <1>5
  <2> QED
    BY <1>4, <1>6, <2>1, <2>2, <2>3, Zenon DEF Lies
<1>13. Len(stream') = From(Len(line) + 1)'
  BY <1>4, <1>8, Zenon DEF From
<1>14. StreamOK'
  <2>1. ASSUME NEW k \in 1..Len(line')
        PROVE  Lies(stream, k, OctetsOf(line[k]))'
    <3>1. k \in 1..L \/ k = L + 1
      BY <1>4, <1>8, Zenon
    <3>2. CASE k \in 1..L
      BY <1>11, <3>2, Zenon
    <3>3. CASE k = L + 1
      BY <1>12, <3>3, Zenon
    <3> QED
      BY <3>1, <3>2, <3>3, Zenon
  <2> QED
    BY <1>13, <2>1, Zenon DEF StreamOK
<1>15. BufferOK'
  <2>1. From(done + 1) + Len(reader.buffer) = taken
        /\ \A j \in 1..Len(reader.buffer) : reader.buffer[j] = stream[From(done + 1) + j]
    BY Zenon DEF BufferOK
  <2>2. From(done + 1) \in Nat
    BY <1>2, <1>8, Zenon
  <2>3. From(done + 1)' = From(done + 1)
    BY <1>7, <1>8, Zenon
  <2>4. \A j \in 1..Len(reader.buffer) : From(done + 1) + j \in 1..N
    <3>1. PICK start, m : start = From(done + 1) /\ m = Len(reader.buffer)
      OBVIOUS
    <3>2. start \in Nat /\ m \in Nat /\ N \in Nat /\ taken <= N /\ start + m = taken
      BY <1>2, <2>1, <2>2, <3>1, Zenon
    <3>3. \A j \in 1..m : start + j \in 1..N
      BY <3>2
    <3> QED
      BY <3>1, <3>3, Zenon
  <2>5. (From(done + 1) + Len(reader.buffer) = taken)'
    BY <2>1, <2>3, Zenon
  <2>6. ASSUME NEW j \in 1..Len(reader.buffer)
        PROVE  reader.buffer[j] = stream'[From(done + 1) + j]
    <3>1. stream'[From(done + 1) + j] = stream[From(done + 1) + j]
      BY <1>5, <2>4, Zenon
    <3> QED
      BY <2>1, <3>1, Zenon
  <2>7. (\A j \in 1..Len(reader.buffer) : reader.buffer[j] = stream[From(done + 1) + j])'
    BY <2>3, <2>6, Zenon
  <2> QED
    BY <2>5, <2>7, Zenon DEF BufferOK
<1> QED
  <2>1. taken' \in 0..Len(stream') /\ done' \in 0..Len(line')
    BY <1>1, <1>2, <1>4, <1>5
  <2> QED
    BY <1>3, <1>4, <1>14, <1>15, <2>1, Zenon

\* The entry that is added: a heartbeat, or the next part of a channel.
NextEntry(x) ==
  \/ /\ x.n = 0
     /\ \A c \in Channels : Len(wrote'[c]) = Len(wrote[c])
  \/ /\ x.channel \in Channels /\ x.n = Len(wrote[x.channel]) + 1
     /\ Len(wrote'[x.channel]) = x.n
     /\ \A c \in Channels \ {x.channel} : Len(wrote'[c]) = Len(wrote[c])

\* OrderOK, of a set of frames that are left.
OrderIn(left) ==
  /\ \A c \in Channels : handled[c] <= Len(wrote[c])
  /\ \A k \in left : line[k].n > 0 => handled[line[k].channel] < line[k].n
  /\ \A j, k \in left : j < k /\ line[j].n > 0 /\ line[j].channel = line[k].channel /\ line[k].n > 0
                          => line[j].n < line[k].n
  /\ \A c \in Channels : \A n \in (handled[c] + 1)..Len(wrote[c]) :
       \E k \in left : line[k].channel = c /\ line[k].n = n

LEMMA OrderFrom ==
  ASSUME NEW left, left = (done' + 1)..Len(line'), OrderIn(left)'
  PROVE  OrderOK'
  BY Zenon DEF OrderOK, OrderIn

LEMMA OrderGrown ==
  ASSUME Types, LineOK, OrderOK, Extended, NEW x \in Entries, NextEntry(x),
         line' = Append(line, x), done' = done, handled' = handled
  PROVE  LineOK' /\ OrderOK'
<1>1. PICK L : L = Len(line)
  OBVIOUS
<1>2. /\ line \in Seq(Entries) /\ L \in Nat /\ done \in Nat /\ done <= L
      /\ \A k \in 1..L : line[k].n \in Nat
      /\ \A c \in Channels : handled[c] \in Nat /\ Len(wrote[c]) \in Nat
  BY <1>1, Typed, Zenon
<1>3. /\ Len(line') = L + 1 /\ line'[L + 1] = x /\ x.n \in Nat
      /\ \A k \in 1..L : line'[k] = line[k]
  BY <1>1, <1>2, AppendProperties DEF Entries
<1>4. \A c \in Channels : Len(wrote'[c]) \in Nat /\ Len(wrote[c]) <= Len(wrote'[c])
  BY Zenon DEF Extended
<1>5. /\ \A k \in 1..(L + 1) : k \in 1..L \/ k = L + 1
      /\ \A k \in (done + 1)..(L + 1) : k \in 1..(L + 1) /\ (k \in (done + 1)..L \/ k = L + 1)
      /\ \A k \in (done + 1)..L : k \in 1..L /\ k < L + 1 /\ k \in (done + 1)..(L + 1)
      /\ L + 1 \in (done + 1)..(L + 1)
  BY <1>2
<1>6. \A k \in 1..L : line[k].n > 0
        => line[k].channel \in Channels /\ line[k].n <= Len(wrote[line[k].channel])
  BY <1>1, Zenon DEF LineOK
<1>7. x.n > 0 => /\ x.channel \in Channels /\ x.n = Len(wrote[x.channel]) + 1
                 /\ x.n <= Len(wrote'[x.channel])
  BY <1>3, <1>4 DEF NextEntry
<1>8. LineOK'
  <2>1. ASSUME NEW k \in 1..(L + 1), line'[k].n > 0
        PROVE  line'[k].channel \in Channels /\ line'[k].n <= Len(wrote'[line'[k].channel])
    <3>1. CASE k \in 1..L
      BY <1>2, <1>3, <1>4, <1>6, <2>1, <3>1
    <3>2. CASE k = L + 1
      BY <1>3, <1>7, <2>1, <3>2
    <3> QED
      BY <1>5, <3>1, <3>2, Zenon
  <2> QED
    BY <1>3, <2>1, Zenon DEF LineOK
<1>9. /\ \A c \in Channels : handled[c] <= Len(wrote[c])
      /\ \A k \in (done + 1)..L : line[k].n > 0 => handled[line[k].channel] < line[k].n
      /\ \A j, k \in (done + 1)..L :
           j < k /\ line[j].n > 0 /\ line[j].channel = line[k].channel /\ line[k].n > 0
             => line[j].n < line[k].n
      /\ \A c \in Channels : \A n \in (handled[c] + 1)..Len(wrote[c]) :
           \E k \in (done + 1)..L : line[k].channel = c /\ line[k].n = n
  BY <1>1, Zenon DEF OrderOK
<1>10. \A c \in Channels : handled[c] <= Len(wrote'[c])
  BY <1>2, <1>4, <1>9
<1>11. ASSUME NEW k \in (done + 1)..(L + 1), line'[k].n > 0
       PROVE  handled[line'[k].channel] < line'[k].n
  <2>1. CASE k \in (done + 1)..L
    BY <1>3, <1>5, <1>9, <1>11, <2>1, Zenon
  <2>2. CASE k = L + 1
    BY <1>2, <1>3, <1>7, <1>9, <1>11, <2>2
  <2> QED
    BY <1>5, <2>1, <2>2, Zenon
<1>12. ASSUME NEW j \in (done + 1)..(L + 1), NEW k \in (done + 1)..(L + 1), j < k,
              line'[j].n > 0, line'[j].channel = line'[k].channel, line'[k].n > 0
       PROVE  line'[j].n < line'[k].n
  <2>1. j \in (done + 1)..L
    BY <1>2, <1>12
  <2>2. CASE k \in (done + 1)..L
    BY <1>3, <1>5, <1>9, <1>12, <2>1, <2>2, Zenon
  <2>3. CASE k = L + 1
    <3>1. line'[j] = line[j] /\ line[j].n \in Nat
      BY <1>2, <1>3, <1>5, <2>1, Zenon
    <3>2. line[j].n <= Len(wrote[line[j].channel]) /\ line[j].channel \in Channels
      BY <1>5, <1>6, <1>12, <2>1, <3>1, Zenon
    <3>3. line'[k] = x /\ x.n = Len(wrote[line[j].channel]) + 1
      BY <1>3, <1>7, <1>12, <2>3, <3>1, Zenon
    <3> QED
      BY <1>2, <3>1, <3>2, <3>3
  <2> QED
    BY <1>5, <2>2, <2>3, Zenon
<1>13. ASSUME NEW c \in Channels, NEW n \in (handled[c] + 1)..Len(wrote'[c])
       PROVE  \E k \in (done + 1)..(L + 1) : line'[k].channel = c /\ line'[k].n = n
  <2>1. CASE n \in (handled[c] + 1)..Len(wrote[c])
    <3>1. PICK k \in (done + 1)..L : line[k].channel = c /\ line[k].n = n
      BY <1>9, <2>1
    <3>2. line'[k] = line[k] /\ k \in (done + 1)..(L + 1)
      BY <1>3, <1>5, Zenon
    <3> QED
      BY <3>1, <3>2, Zenon
  <2>2. CASE n \notin (handled[c] + 1)..Len(wrote[c])
    <3>1. n > Len(wrote[c]) /\ n <= Len(wrote'[c]) /\ n \in Nat
      BY <1>2, <1>4, <2>2
    <3>2. x.channel = c /\ x.n = Len(wrote[c]) + 1 /\ Len(wrote'[c]) = x.n
      <4>1. Len(wrote'[c]) # Len(wrote[c])
        BY <1>2, <1>4, <3>1
      <4> QED
        BY <4>1, Zenon DEF NextEntry
    <3>3. n = x.n
      BY <1>2, <3>1, <3>2
    <3> QED
      BY <1>3, <1>5, <3>2, <3>3, Zenon
  <2> QED
    BY <2>1, <2>2, Zenon
<1>14. OrderOK'
  <2>1. \A j, k \in (done + 1)..(L + 1) :
          j < k /\ line'[j].n > 0 /\ line'[j].channel = line'[k].channel /\ line'[k].n > 0
            => line'[j].n < line'[k].n
    BY <1>12, Zenon
  <2>2. PICK left : left = (done + 1)..(L + 1)
    OBVIOUS
  <2>3. left = (done' + 1)..Len(line')
    BY <1>3, <2>2, Zenon
  <2>4. \A c \in Channels : handled'[c] <= Len(wrote'[c])
    BY <1>10, Zenon
  <2>5. \A k \in left : line'[k].n > 0 => handled'[line'[k].channel] < line'[k].n
    BY <1>11, <2>2, Zenon
  <2>6. \A j, k \in left : j < k /\ line'[j].n > 0 /\ line'[j].channel = line'[k].channel
                              /\ line'[k].n > 0 => line'[j].n < line'[k].n
    BY <2>1, <2>2, Zenon
  <2>7. \A c \in Channels : \A n \in (handled'[c] + 1)..Len(wrote'[c]) :
          \E k \in left : line'[k].channel = c /\ line'[k].n = n
    <3>1. ASSUME NEW c \in Channels, NEW n \in (handled'[c] + 1)..Len(wrote'[c])
          PROVE  \E k \in left : line'[k].channel = c /\ line'[k].n = n
      <4>1. n \in (handled[c] + 1)..Len(wrote'[c])
        OBVIOUS
      <4>2. \E k \in (done + 1)..(L + 1) : line'[k].channel = c /\ line'[k].n = n
        BY <1>13, <4>1, Zenon
      <4> QED
        BY <2>2, <4>2, Zenon
    <3> QED
      BY <3>1, Zenon
  <2>8. OrderIn(left)'
    BY <2>4, <2>5, <2>6, <2>7, Zenon DEF OrderIn
  <2> QED
    BY <2>3, <2>8, OrderFrom, Zenon
<1> QED
  BY <1>8, <1>14, Zenon

LEMMA StreamKept ==
  ASSUME Types, WroteOK, LineOK, StreamOK, Extended, line' = line, stream' = stream
  PROVE  StreamOK'
<1>1. ASSUME NEW k \in 1..Len(line)
      PROVE  Lies(stream, k, OctetsOf(line[k]))'
  <2>1. PICK y : y = line[k]
    OBVIOUS
  <2>2. y.n # 0 => y.channel \in Channels /\ y.n \in 1..Len(wrote[y.channel])
    <3> HAVE y.n # 0
    <3>1. y.n \in Nat /\ y.n > 0
      BY <2>1, Typed
    <3>2. y.channel \in Channels /\ y.n <= Len(wrote[y.channel])
      BY <2>1, <3>1, Zenon DEF LineOK
    <3>3. Len(wrote[y.channel]) \in Nat
      BY <3>2, Typed, Zenon
    <3> QED
      BY <3>1, <3>2, <3>3
  <2>3. OctetsOf(y)' = OctetsOf(y)
    BY <2>2, FrameKept, Zenon
  <2>4. OctetsOf(line[k])' = OctetsOf(y)'
    BY <2>1, Zenon DEF OctetsOf, FrameOf
  <2>5. From(k)' = From(k)
    BY Zenon DEF From
  <2>6. Lies(stream, k, OctetsOf(y))
    BY <2>1, Zenon DEF StreamOK
  <2> QED
    BY <2>3, <2>4, <2>5, <2>6, Zenon DEF Lies
<1>2. From(Len(line) + 1)' = From(Len(line) + 1)
  BY Zenon DEF From
<1>3. Len(stream') = From(Len(line) + 1)'
  BY <1>2, Zenon DEF StreamOK
<1> QED
  BY <1>1, <1>3, Zenon DEF StreamOK

LEMMA OrderKept ==
  ASSUME LineOK, OrderOK,
         line' = line, wrote' = wrote, done' = done, handled' = handled
  PROVE  LineOK' /\ OrderOK'
<1>1. LineOK'
  BY Zenon DEF LineOK
<1>2. OrderOK'
  BY DEF OrderOK
<1> QED
  BY <1>1, <1>2, Zenon

LEMMA WroteKept ==
  ASSUME Types, WroteOK, Extended, NEW c \in Channels, NEW n \in 1..Len(wrote[c])
  PROVE  LET w == wrote'[c][n]
         IN /\ w = Following(c, n - 1)'
            /\ w.of \in 1..Len(said'[c]) /\ w.part \in 1..Parts(said'[c][w.of])
<1> DEFINE w == wrote[c][n]
<1>1. Len(wrote[c]) \in Nat /\ Len(said[c]) \in Nat
  BY Typed, Zenon
<1>2. n - 1 \in 0..Len(wrote[c])
  BY <1>1
<1>3. PICK m : m = n - 1
  OBVIOUS
<1>4. Following(c, m)' = Following(c, m)
  BY <1>2, <1>3, FollowingKept, Zenon
<1>5. w = Following(c, m) /\ w.of \in 1..Len(said[c]) /\ w.part \in 1..Parts(said[c][w.of])
  BY <1>3, Zenon DEF WroteOK
<1>6. wrote'[c][n] = w /\ said'[c][w.of] = said[c][w.of]
  BY <1>5, Zenon DEF Extended
<1>7. w.of \in 1..Len(said'[c])
  BY <1>1, <1>5 DEF Extended
<1> QED
  BY <1>3, <1>4, <1>5, <1>6, <1>7, Zenon

LEMMA WroteSame ==
  ASSUME Types, WroteOK, Extended, wrote' = wrote
  PROVE  WroteOK'
<1>1. ASSUME NEW d \in Channels, NEW n \in 1..Len(wrote'[d])
      PROVE  LET w == wrote'[d][n]
             IN /\ w = Following(d, n - 1)'
                /\ w.of \in 1..Len(said'[d]) /\ w.part \in 1..Parts(said'[d][w.of])
  <2>1. n \in 1..Len(wrote[d])
    OBVIOUS
  <2> QED
    BY <2>1, WroteKept, Zenon
<1> QED
  BY <1>1, Zenon DEF WroteOK

LEMMA SameExtends ==
  ASSUME Types, said' = said, wrote' = wrote
  PROVE  Extended
<1>1. \A c \in Channels : Len(said[c]) \in Nat /\ Len(wrote[c]) \in Nat
  BY Typed, Zenon
<1> QED
  BY <1>1 DEF Extended

LEMMA SayKeeps ==
  ASSUME ReadingInv, NEW c \in Channels, Say(c)
  PROVE  ReadingInv'
<1>1. /\ Types /\ WroteOK /\ LineOK /\ StreamOK /\ OrderOK /\ BufferOK /\ ReaderOK /\ GotOK
  BY Zenon DEF ReadingInv
<1>2. PICK s \in Sayings[c] : said' = [said EXCEPT ![c] = Append(@, s)]
  BY Zenon DEF Say
<1>3. /\ reader' = reader /\ wrote' = wrote /\ stream' = stream /\ taken' = taken
      /\ line' = line /\ done' = done /\ handled' = handled
  BY Zenon DEF Say, history
<1>4. s \in AllSayings
  BY <1>2, Zenon DEF AllSayings
<1>5. said \in [Channels -> Seq(AllSayings)]
  BY <1>1, Zenon DEF Types
<1> DEFINE t == Append(said[c], s)
<1>6. /\ t \in Seq(AllSayings) /\ Len(t) = Len(said[c]) + 1
      /\ \A i \in 1..Len(said[c]) : t[i] = said[c][i]
  <2>1. said[c] \in Seq(AllSayings) /\ t = Append(said[c], s)
    BY <1>5
  <2> HIDE DEF t
  <2> QED
    BY <1>4, <2>1, AppendProperties
<1> HIDE DEF t
<1>7. /\ said' \in [Channels -> Seq(AllSayings)]
      /\ said'[c] = t /\ \A d \in Channels \ {c} : said'[d] = said[d]
  <2>1. said' = [said EXCEPT ![c] = t]
    BY <1>2, Zenon DEF t
  <2> QED
    BY <1>5, <1>6, <2>1
<1>8. Extended
  <2>1. ASSUME NEW d \in Channels
        PROVE  /\ Len(said'[d]) \in Nat /\ Len(wrote'[d]) \in Nat
               /\ Len(said[d]) <= Len(said'[d]) /\ Len(wrote[d]) <= Len(wrote'[d])
               /\ \A i \in 1..Len(said[d]) : said'[d][i] = said[d][i]
               /\ \A n \in 1..Len(wrote[d]) : wrote'[d][n] = wrote[d][n]
    <3>1. Len(said[d]) \in Nat /\ Len(wrote[d]) \in Nat
      BY <1>1, Typed, Zenon
    <3>2. CASE d = c
      BY <1>3, <1>6, <1>7, <3>1, <3>2
    <3>3. CASE d # c
      BY <1>3, <1>7, <3>1, <3>3
    <3> QED
      BY <3>2, <3>3, Zenon
  <2> QED
    BY <2>1, Zenon DEF Extended
<1>9. Types'
  BY <1>1, <1>3, <1>7, Zenon DEF Types
<1>10. WroteOK'
  BY <1>1, <1>3, <1>8, WroteSame, Zenon
<1>11. LineOK' /\ OrderOK' /\ BufferOK'
  <2>1. LineOK' /\ OrderOK'
    BY <1>1, <1>3, OrderKept, Zenon
  <2>2. From(done + 1)' = From(done + 1)
    BY <1>3, Zenon DEF From
  <2>3. BufferOK'
    BY <1>1, <1>3, <2>2, Zenon DEF BufferOK
  <2> QED
    BY <2>1, <2>3, Zenon
<1>12. StreamOK'
  BY <1>1, <1>3, <1>8, StreamKept, Zenon
<1>13. ReaderOK' /\ GotOK'
  BY <1>1, <1>3, <1>8, ReaderKept, Zenon
<1> QED
  BY <1>9, <1>10, <1>11, <1>12, <1>13, Zenon DEF ReadingInv

LEMMA TransmitKeeps ==
  ASSUME ReadingInv, NEW c \in Channels, Transmit(c)
  PROVE  ReadingInv'
<1>1. /\ Types /\ WroteOK /\ LineOK /\ StreamOK /\ OrderOK /\ BufferOK /\ ReaderOK /\ GotOK
  BY Zenon DEF ReadingInv
<1>2. PICK W : W = Len(wrote[c])
  OBVIOUS
<1>3. PICK d : d = Due(c)
  OBVIOUS
<1> DEFINE f == PartOf(c, said[c][d.of], d.part)
<1>4. /\ d.of <= Len(said[c])
      /\ wrote' = [wrote EXCEPT ![c] = Append(@, d)]
      /\ stream' = stream \o encode_frame(f, frame_max)
      /\ line' = Append(line, [channel |-> c, n |-> W + 1, end |-> Len(stream')])
      /\ reader' = reader /\ said' = said /\ taken' = taken
      /\ done' = done /\ handled' = handled
  BY <1>2, <1>3, Zenon DEF Transmit, Write
<1>5. /\ W \in Nat /\ Len(said[c]) \in Nat /\ \A i \in 1..Len(said[c]) : said[c][i] \in AllSayings
      /\ wrote[c] \in Seq(Places)
  BY <1>1, <1>2, Typed, Zenon
<1>6. d = Following(c, W) /\ W \in 0..Len(wrote[c])
  <2>1. W \in 0..W
    BY <1>5
  <2> QED
    BY <1>2, <1>3, <2>1, Zenon DEF Due
<1>7. d \in [of : Nat \ {0}, part : Nat \ {0}] /\ d.part <= Parts(said[c][d.of])
  BY <1>1, <1>4, <1>6, FollowingFits, Zenon
<1>8. d \in Places /\ d.of \in 1..Len(said[c])
  BY <1>4, <1>5, <1>7 DEF Places
<1>9. d.part \in 1..Parts(said[c][d.of])
  <2>1. Parts(said[c][d.of]) \in Nat
    BY <1>5, <1>8, SayingParts, Zenon
  <2> QED
    BY <1>7, <2>1
<1>10. f \in FrameSet /\ Fits(f, frame_max)
  BY <1>5, <1>8, <1>9, PartFits, Zenon
<1> DEFINE t == Append(wrote[c], d)
<1>11. /\ t \in Seq(Places) /\ Len(t) = W + 1 /\ t[W + 1] = d
       /\ \A n \in 1..W : t[n] = wrote[c][n]
  <2>1. t = Append(wrote[c], d)
    OBVIOUS
  <2> HIDE DEF t
  <2>2. /\ t \in Seq(Places) /\ Len(t) = Len(wrote[c]) + 1 /\ t[Len(wrote[c]) + 1] = d
        /\ \A n \in 1..Len(wrote[c]) : t[n] = wrote[c][n]
    BY <1>5, <1>8, <2>1, AppendProperties
  <2> QED
    BY <1>2, <2>2, Zenon
<1> HIDE DEF t
<1>12. /\ wrote' \in [Channels -> Seq(Places)] /\ wrote'[c] = t
       /\ \A b \in Channels \ {c} : wrote'[b] = wrote[b]
  <2>1. wrote \in [Channels -> Seq(Places)]
    BY <1>1, Zenon DEF Types
  <2>2. wrote' = [wrote EXCEPT ![c] = t]
    BY <1>4, Zenon DEF t
  <2> QED
    BY <1>11, <2>1, <2>2
<1>13. Extended
  <2>1. ASSUME NEW b \in Channels
        PROVE  /\ Len(said'[b]) \in Nat /\ Len(wrote'[b]) \in Nat
               /\ Len(said[b]) <= Len(said'[b]) /\ Len(wrote[b]) <= Len(wrote'[b])
               /\ \A i \in 1..Len(said[b]) : said'[b][i] = said[b][i]
               /\ \A n \in 1..Len(wrote[b]) : wrote'[b][n] = wrote[b][n]
    <3>1. Len(said[b]) \in Nat /\ Len(wrote[b]) \in Nat
      BY <1>1, Typed, Zenon
    <3>2. CASE b = c
      BY <1>2, <1>4, <1>11, <1>12, <3>1, <3>2
    <3>3. CASE b # c
      BY <1>4, <1>12, <3>1, <3>3
    <3> QED
      BY <3>2, <3>3, Zenon
  <2> QED
    BY <2>1, Zenon DEF Extended
<1>14. PICK x : x = [channel |-> c, n |-> W + 1, end |-> Len(stream')]
  OBVIOUS
<1>15. x \in Entries /\ x.channel = c /\ x.n = W + 1 /\ x.end = Len(stream')
  <2>1. encode_frame(f, frame_max) \in Seq(Octets)
    BY <1>10, Assumed, FrameOctets, Zenon
  <2>2. stream' \in Seq(Octets)
    <3>1. stream \in Seq(Octets)
      BY <1>1, Typed, Zenon
    <3> QED
      BY <1>4, <2>1, <3>1, Joined, Zenon
  <2>3. Len(stream') \in Nat
    BY <2>2, LenProperties, Zenon
  <2>4. c \in Nat /\ W + 1 \in Nat
    BY <1>5, Assumed DEF Short
  <2> QED
    BY <1>14, <2>3, <2>4 DEF Entries
<1>16. OctetsOf(x)' = encode_frame(f, frame_max)
  <2>1. W + 1 # 0
    BY <1>5
  <2> QED
    BY <1>4, <1>11, <1>12, <1>15, <2>1, Zenon DEF OctetsOf, FrameOf
<1>17. NextEntry(x)
  BY <1>2, <1>11, <1>12, <1>15, Zenon DEF NextEntry
<1>18. line' = Append(line, x)
  BY <1>4, <1>14, Zenon
<1> HIDE DEF f
<1>19. LineOK' /\ OrderOK'
  BY <1>1, <1>4, <1>13, <1>15, <1>17, <1>18, OrderGrown, Zenon
<1>20. /\ stream' \in Seq(Octets) /\ taken' \in 0..Len(stream')
       /\ line' \in Seq(Entries) /\ done' \in 0..Len(line')
       /\ StreamOK' /\ BufferOK'
  BY <1>1, <1>4, <1>10, <1>13, <1>15, <1>16, <1>18, StreamGrown, Zenon
<1>21. Types'
  BY <1>1, <1>4, <1>12, <1>20, Zenon DEF Types
<1>22. WroteOK'
  <2>1. ASSUME NEW b \in Channels, NEW n \in 1..Len(wrote'[b])
        PROVE  LET w == wrote'[b][n]
               IN /\ w = Following(b, n - 1)'
                  /\ w.of \in 1..Len(said'[b]) /\ w.part \in 1..Parts(said'[b][w.of])
    <3>1. CASE n \in 1..Len(wrote[b])
      BY <1>1, <1>13, <3>1, WroteKept, Zenon
    <3>2. CASE n \notin 1..Len(wrote[b])
      <4>1. b = c
        BY <1>12, <3>2, Zenon
      <4>2. n = W + 1 /\ n - 1 = W
        BY <1>2, <1>5, <1>11, <1>12, <3>2, <4>1
      <4>3. Following(c, W)' = d
        BY <1>1, <1>6, <1>13, FollowingKept, Zenon
      <4>4. wrote'[b][n] = d
        BY <1>11, <1>12, <4>1, <4>2, Zenon
      <4> QED
        BY <1>4, <1>8, <1>9, <4>1, <4>2, <4>3, <4>4, Zenon
    <3> QED
      BY <3>1, <3>2, Zenon
  <2> QED
    BY <2>1, Zenon DEF WroteOK
<1>23. ReaderOK' /\ GotOK'
  BY <1>1, <1>4, <1>13, ReaderKept, Zenon
<1> QED
  BY <1>19, <1>20, <1>21, <1>22, <1>23, Zenon DEF ReadingInv

LEMMA HeartbeatKeeps ==
  ASSUME ReadingInv, Heartbeat
  PROVE  ReadingInv'
<1>1. /\ Types /\ WroteOK /\ LineOK /\ StreamOK /\ OrderOK /\ BufferOK /\ ReaderOK /\ GotOK
  BY Zenon DEF ReadingInv
<1> DEFINE f == Frame(HEARTBEAT, 0, <<>>)
<1>2. /\ stream' = stream \o encode_frame(f, frame_max)
      /\ line' = Append(line, [channel |-> 0, n |-> 0, end |-> Len(stream')])
      /\ reader' = reader /\ said' = said /\ wrote' = wrote /\ taken' = taken
      /\ done' = done /\ handled' = handled
  BY Zenon DEF Heartbeat, Write
<1>3. f \in FrameSet /\ Fits(f, frame_max)
  BY HeartbeatFits, Zenon
<1>4. Extended
  BY <1>1, <1>2, SameExtends, Zenon
<1>5. PICK x : x = [channel |-> 0, n |-> 0, end |-> Len(stream')]
  OBVIOUS
<1>6. x \in Entries /\ x.n = 0 /\ x.end = Len(stream')
  <2>1. encode_frame(f, frame_max) \in Seq(Octets)
    BY <1>3, Assumed, FrameOctets, Zenon
  <2>2. stream' \in Seq(Octets)
    <3>1. stream \in Seq(Octets)
      BY <1>1, Typed, Zenon
    <3> QED
      BY <1>2, <2>1, <3>1, Joined, Zenon
  <2>3. Len(stream') \in Nat
    BY <2>2, LenProperties, Zenon
  <2> QED
    BY <1>5, <2>3 DEF Entries
<1>7. OctetsOf(x)' = encode_frame(f, frame_max)
  BY <1>6, Zenon DEF OctetsOf, FrameOf
<1>8. NextEntry(x)
  BY <1>2, <1>6, Zenon DEF NextEntry
<1>9. line' = Append(line, x)
  BY <1>2, <1>5, Zenon
<1> HIDE DEF f
<1>10. LineOK' /\ OrderOK'
  BY <1>1, <1>2, <1>4, <1>6, <1>8, <1>9, OrderGrown, Zenon
<1>11. /\ stream' \in Seq(Octets) /\ taken' \in 0..Len(stream')
       /\ line' \in Seq(Entries) /\ done' \in 0..Len(line')
       /\ StreamOK' /\ BufferOK'
  BY <1>1, <1>2, <1>3, <1>4, <1>6, <1>7, <1>9, StreamGrown, Zenon
<1>12. Types'
  BY <1>1, <1>2, <1>11, Zenon DEF Types
<1>13. WroteOK'
  BY <1>1, <1>2, <1>4, WroteSame, Zenon
<1>14. ReaderOK' /\ GotOK'
  BY <1>1, <1>2, <1>4, ReaderKept, Zenon
<1> QED
  BY <1>10, <1>11, <1>12, <1>13, <1>14, Zenon DEF ReadingInv

LEMMA ReceiveKeeps ==
  ASSUME ReadingInv, Receive
  PROVE  ReadingInv'
<1>1. /\ Types /\ WroteOK /\ LineOK /\ StreamOK /\ OrderOK /\ BufferOK /\ ReaderOK /\ GotOK
  BY Zenon DEF ReadingInv
<1>2. PICK n \in (taken + 1)..Len(stream) :
        /\ reader' = [reader EXCEPT !.buffer = @ \o SubSeq(stream, taken + 1, n)]
        /\ taken' = n
  BY Zenon DEF Receive
<1>3. /\ said' = said /\ wrote' = wrote /\ stream' = stream
      /\ line' = line /\ done' = done /\ handled' = handled
  BY Zenon DEF Receive, history
<1>4. /\ stream \in Seq(Octets) /\ Len(stream) \in Nat /\ taken \in Nat /\ taken <= Len(stream)
      /\ done \in Nat /\ done <= Len(line) /\ Len(line) \in Nat
      /\ reader.buffer \in Seq(Octets) /\ Len(reader.buffer) \in Nat
      /\ \A k \in 1..(Len(line) + 1) : From(k) \in Nat
  BY <1>1, Typed, Zenon
<1>5. Extended
  BY <1>1, <1>3, SameExtends, Zenon
<1> DEFINE piece == SubSeq(stream, taken + 1, n)
<1> DEFINE b == reader.buffer \o piece
<1>6. /\ taken + 1 \in Nat \ {0} /\ n - taken \in Nat /\ n \in Int /\ n \in Nat
      /\ n = (taken + 1) + (n - taken) - 1 /\ n <= Len(stream)
  BY <1>4
<1>7. piece \in Seq(Octets) /\ IsPiece(piece, stream, taken + 1, n - taken)
  BY <1>4, <1>6, Piece, Zenon
<1> HIDE DEF piece
<1>8. b \in Seq(Octets) /\ IsJoin(b, reader.buffer, piece)
  BY <1>4, <1>7, Joined, Zenon
<1>9. reader' = [reader EXCEPT !.buffer = b]
  BY <1>2, Zenon DEF piece
<1> HIDE DEF b
<1>10. reader' \in Readers /\ reader'.buffer = b
       /\ reader'.got = reader.got /\ reader'.pending = reader.pending
  <2>1. reader \in Readers
    BY <1>1, Zenon DEF Types
  <2> QED
    BY <1>8, <1>9, <2>1 DEF Readers
<1>11. Types'
  <2>1. taken' \in 0..Len(stream')
    BY <1>2, <1>3, <1>6
  <2> QED
    BY <1>1, <1>3, <1>10, <2>1, Zenon DEF Types
<1>12. BufferOK'
  <2>1. PICK start : start = From(done + 1)
    OBVIOUS
  <2>2. /\ start + Len(reader.buffer) = taken
        /\ \A j \in 1..Len(reader.buffer) : reader.buffer[j] = stream[start + j]
    BY <1>1, <2>1, Zenon DEF BufferOK
  <2>3. start \in Nat
    <3>1. done + 1 \in 1..(Len(line) + 1)
      BY <1>4
    <3> QED
      BY <1>4, <2>1, <3>1, Zenon
  <2>4. From(done + 1)' = start
    BY <1>3, <2>1, Zenon DEF From
  <2>5. /\ Len(b) = Len(reader.buffer) + (n - taken)
        /\ \A j \in 1..Len(reader.buffer) : b[j] = reader.buffer[j]
        /\ \A j \in 1..(n - taken) : b[Len(reader.buffer) + j] = piece[j]
    BY <1>7, <1>8, Zenon DEF IsJoin, IsPiece
  <2>6. \A j \in 1..(n - taken) : piece[j] = stream[(taken + 1) + j - 1]
    BY <1>7, Zenon DEF IsPiece
  <2> DEFINE M == Len(reader.buffer)
  <2> DEFINE K == Len(b)
  <2>7. M \in Nat /\ start + M = taken /\ K = M + (n - taken) /\ n \in Nat /\ taken \in Nat
    BY <1>4, <1>6, <2>2, <2>5, Zenon
  <2> HIDE DEF M, K
  <2>8. start + Len(b) = n
    <3>1. start + K = n
      BY <2>3, <2>7
    <3> QED
      BY <3>1, Zenon DEF K
  <2>9. ASSUME NEW j \in 1..Len(b)
        PROVE  b[j] = stream[start + j]
    <3>1. CASE j <= Len(reader.buffer)
      BY <1>4, <2>2, <2>5, <3>1
    <3>2. CASE j > Len(reader.buffer)
      <4> DEFINE i == j - M
      <4>1. /\ i \in 1..(n - taken) /\ M + i = j
            /\ (taken + 1) + i - 1 = start + j
        <5>1. j \in 1..K /\ j > M
          BY <3>2, Zenon DEF K, M
        <5> QED
          BY <2>3, <2>7, <5>1
      <4> HIDE DEF i
      <4> QED
        BY <2>5, <2>6, <4>1, Zenon DEF M
    <3> QED
      BY <1>4, <2>5, <3>1, <3>2
  <2> QED
    BY <1>2, <1>3, <1>10, <2>4, <2>8, <2>9, Zenon DEF BufferOK
<1>13. WroteOK' /\ LineOK' /\ OrderOK' /\ StreamOK'
  BY <1>1, <1>3, <1>5, WroteSame, OrderKept, StreamKept, Zenon
<1>14. ReaderOK' /\ GotOK'
  BY <1>1, <1>3, <1>5, <1>10, ReaderKept, Zenon
<1> QED
  BY <1>11, <1>12, <1>13, <1>14, Zenon DEF ReadingInv

\* What decode_frame makes of the buffer: it waits for the rest of the next
\* frame, or takes it.
LEMMA BufferHolds ==
  ASSUME ReadingInv
  PROVE  LET x == line[done + 1]
             r == decode_frame(reader.buffer, frame_max)
             n == Len(OctetsOf(x))
         IN /\ done = Len(line) => Len(reader.buffer) = 0 /\ r = Incomplete
            /\ done < Len(line) =>
                 /\ n \in Nat /\ x.end = From(done + 1) + n /\ x.end <= Len(stream)
                 /\ Len(reader.buffer) < n => r = Incomplete
                 /\ n <= Len(reader.buffer) => r = Ok(FrameOf(x), n + 1)
<1> DEFINE x == line[done + 1]
<1> DEFINE b == reader.buffer
<1> DEFINE r == decode_frame(b, frame_max)
<1> DEFINE e == OctetsOf(x)
<1> DEFINE n == Len(e)
<1> DEFINE m == Len(b)
<1> DEFINE start == From(done + 1)
<1>1. /\ Types /\ WroteOK /\ LineOK /\ StreamOK /\ BufferOK
  BY Zenon DEF ReadingInv
<1>2. /\ Len(stream) \in Nat /\ taken \in Nat /\ taken <= Len(stream)
      /\ done \in Nat /\ Len(line) \in Nat
      /\ b \in Seq(Octets) /\ m \in Nat
      /\ \A k \in 1..(Len(line) + 1) : From(k) \in Nat
  BY <1>1, Typed, Zenon
<1>3. start + m = taken /\ \A j \in 1..m : b[j] = stream[start + j]
  BY <1>1, Zenon DEF BufferOK
<1>4. start \in Nat
  <2>1. done + 1 \in 1..(Len(line) + 1)
    BY <1>1, <1>2, Typed
  <2> QED
    BY <1>2, <2>1, Zenon
<1>5. frame_max \in Long
  BY Assumed, Zenon
<1> HIDE DEF x, b, r, e, n, m, start
<1>6. ASSUME done = Len(line)
      PROVE  m = 0 /\ r = Incomplete
  <2>1. Len(stream) = start
    BY <1>1, <1>6, Zenon DEF StreamOK, start
  <2>2. m = 0
    BY <1>2, <1>3, <1>4, <2>1
  <2>3. m < 7
    BY <2>2
  <2> QED
    BY <2>2, <2>3, Zenon DEF decode_frame, r, m
<1>7. ASSUME done < Len(line)
      PROVE  /\ n \in Nat /\ x.end = start + n /\ x.end <= Len(stream)
             /\ m < n => r = Incomplete
             /\ n <= m => r = Ok(FrameOf(x), n + 1)
  <2> DEFINE f == FrameOf(x)
  <2>1. done + 1 \in 1..Len(line)
    BY <1>2, <1>7
  <2>2. f \in FrameSet /\ Fits(f, frame_max)
    BY <1>1, <2>1, EntryFits, Zenon DEF x
  <2>3. e = encode_frame(f, frame_max)
    BY Zenon DEF e, OctetsOf
  <2> HIDE DEF f
  <2>4. e \in Seq(Octets) /\ n = Len(f.payload) + 8 /\ Begins(e, f)
    BY <1>5, <2>2, <2>3, FrameOctets, Zenon DEF n
  <2>5. n \in Nat
    BY <2>4, LenProperties, Zenon DEF n
  <2>6. /\ x.end <= Len(stream) /\ x.end = start + n
        /\ \A j \in 1..n : stream[start + j] = e[j]
    BY <1>1, <2>1, Zenon DEF StreamOK, Lies, x, start, e, n
  <2>7. ASSUME m < n
        PROVE  r = Incomplete
    <3> DEFINE c == SubSeq(e, 1, m)
    <3>1. /\ m \in 0..(n - 1) /\ 1 \in Nat \ {0} /\ m \in Int /\ m = 1 + m - 1 /\ m <= n
          /\ \A i \in 1..m : 1 + i - 1 = i /\ i \in 1..n
      BY <1>2, <2>5, <2>7
    <3>2. c \in Seq(Octets) /\ IsPiece(c, e, 1, m)
      BY <1>2, <2>4, <3>1, Piece, Zenon DEF n
    <3>3. decode_frame(c, frame_max) = Incomplete
      BY <1>5, <2>2, <2>3, <3>1, CutFrameWaits, Zenon DEF n
    <3> HIDE DEF c
    <3>4. Len(c) = m /\ \A i \in 1..m : c[i] = b[i]
      <4>1. ASSUME NEW i \in 1..m
            PROVE  c[i] = b[i]
        <5>1. 1 + i - 1 = i /\ i \in 1..n
          BY <3>1, Zenon
        <5>2. c[i] = e[i]
          BY <3>2, <5>1, Zenon DEF IsPiece
        <5>3. e[i] = stream[start + i]
          BY <2>6, <5>1, Zenon
        <5>4. b[i] = stream[start + i]
          BY <1>3, Zenon
        <5> QED
          BY <5>2, <5>3, <5>4, Zenon
      <4> QED
        BY <3>2, <4>1, Zenon DEF IsPiece
    <3>5. c = b
      <4>1. c \in Seq(Octets) /\ b \in Seq(Octets)
        BY <1>2, <3>2, Zenon
      <4>2. Len(c) = Len(b) /\ \A i \in 1..Len(c) : c[i] = b[i]
        BY <3>4, Zenon DEF m
      <4> HIDE DEF c
      <4> QED
        BY <4>1, <4>2, SeqEqual, Zenon
    <3> QED
      BY <3>3, <3>5, Zenon DEF r
  <2>8. ASSUME n <= m
        PROVE  r = Ok(f, n + 1)
    <3>1. \A i \in 1..n : i \in 1..m
      BY <1>2, <2>5, <2>8
    <3>2. Agree(e, b, f)
      BY <1>3, <2>4, <2>6, <3>1, Zenon DEF Agree
    <3>3. Len(b) >= Len(f.payload) + 8
      BY <1>2, <2>4, <2>5, <2>8 DEF m
    <3>4. Begins(b, f)
      BY <1>2, <2>2, <2>4, <2>5, <3>2, <3>3, BeginsAgree, Zenon DEF m, n
    <3>5. r = Ok(f, Len(f.payload) + 9)
      BY <1>2, <1>5, <2>2, <3>4, BeginsRead, Zenon DEF r
    <3>6. Len(f.payload) + 9 = n + 1
      <4>1. f.payload \in Seq(Octets)
        BY <2>2, Zenon DEF FrameSet
      <4>2. Len(f.payload) \in Nat
        BY <4>1, LenProperties, Zenon
      <4> QED
        BY <2>4, <4>2
    <3> QED
      BY <3>5, <3>6, Zenon
  <2> QED
    BY <2>5, <2>6, <2>7, <2>8, Zenon DEF f
<1> QED
  BY <1>6, <1>7, Zenon DEF x, b, r, e, n, m, start

\* The loop waits only for a frame that has not arrived whole.
LEMMA WaitsIs ==
  ASSUME ReadingInv
  PROVE  /\ Waits(reader, frame_max)
              => decode_frame(reader.buffer, frame_max) = Incomplete
         /\ Waits(reader, frame_max) /\ taken = Len(stream)
              => done = Len(line) /\ Len(reader.buffer) = 0
         /\ ~Waits(reader, frame_max)
              => /\ done < Len(line)
                 /\ Len(OctetsOf(line[done + 1])) \in Nat
                 /\ Len(OctetsOf(line[done + 1])) <= Len(reader.buffer)
                 /\ decode_frame(reader.buffer, frame_max)
                      = Ok(FrameOf(line[done + 1]), Len(OctetsOf(line[done + 1])) + 1)
<1> DEFINE x == line[done + 1]
<1> DEFINE r == decode_frame(reader.buffer, frame_max)
<1> DEFINE n == Len(OctetsOf(x))
<1> DEFINE m == Len(reader.buffer)
<1> DEFINE start == From(done + 1)
<1>1. /\ done = Len(line) => m = 0 /\ r = Incomplete
      /\ done < Len(line) =>
           /\ n \in Nat /\ x.end = start + n /\ x.end <= Len(stream)
           /\ m < n => r = Incomplete
           /\ n <= m => r = Ok(FrameOf(x), n + 1)
  BY BufferHolds, Zenon
<1>2. /\ done \in Nat /\ Len(line) \in Nat /\ done <= Len(line) /\ m \in Nat
      /\ Len(stream) \in Nat /\ taken \in Nat
  BY Typed, Zenon DEF ReadingInv
<1>3. start + m = taken /\ start \in Nat
  <2>1. done + 1 \in 1..(Len(line) + 1)
    BY <1>2
  <2>2. start \in Nat
    BY <2>1, Typed, Zenon DEF ReadingInv
  <2> QED
    BY <2>2, Zenon DEF ReadingInv, BufferOK
<1>4. Waits(reader, frame_max) <=> r.at = Incomplete.at
  BY Zenon DEF Waits
<1>5. Incomplete.at = -1 /\ \A f, at : Ok(f, at).at = at
  BY DEF Incomplete, Ok
<1> HIDE DEF x, r, n, m, start
<1>6. done = Len(line) \/ done < Len(line)
  BY <1>2
<1>7. CASE done = Len(line)
  BY <1>1, <1>2, <1>4, <1>7 DEF m, r
<1>8. CASE done < Len(line) /\ m < n
  <2>1. Waits(reader, frame_max) /\ r = Incomplete
    BY <1>1, <1>4, <1>8, Zenon
  <2>2. taken # Len(stream)
    <3>1. n \in Nat /\ start + n <= Len(stream)
      BY <1>1, <1>8, Zenon
    <3> QED
      BY <1>2, <1>3, <1>8, <3>1
  <2> QED
    BY <2>1, <2>2, Zenon DEF r
<1>9. CASE done < Len(line) /\ ~ (m < n)
  <2>1. n \in Nat /\ n <= m
    BY <1>1, <1>2, <1>9
  <2>2. r = Ok(FrameOf(x), n + 1)
    BY <1>1, <1>9, <2>1, Zenon
  <2>3. r.at = n + 1 /\ n + 1 # -1
    <3>1. r.at = n + 1
      BY <1>5, <2>2, Zenon
    <3> QED
      BY <2>1, <3>1
  <2>4. ~Waits(reader, frame_max)
    BY <1>4, <1>5, <2>3, Zenon
  <2> QED
    BY <1>9, <2>1, <2>2, <2>4, Zenon DEF x, r, n, m
<1> QED
  BY <1>6, <1>7, <1>8, <1>9, Zenon

\* The next frame of a channel is the one after those handled.
LEMMA NextPart ==
  ASSUME ReadingInv, done < Len(line), line[done + 1].n # 0
  PROVE  LET x == line[done + 1]
             c == x.channel
             d == Following(c, handled[c])
         IN /\ c \in Channels /\ x.n = handled[c] + 1
            /\ x.n \in 1..Len(wrote[c]) /\ wrote[c][x.n] = d
            /\ d.of \in 1..Len(said[c]) /\ said[c][d.of] \in AllSayings
            /\ d.part \in 1..Parts(said[c][d.of])
            /\ FrameOf(x) = PartOf(c, said[c][d.of], d.part)
<1> DEFINE x == line[done + 1]
<1> DEFINE c == x.channel
<1>1. /\ Types /\ WroteOK /\ LineOK /\ OrderOK
  BY Zenon DEF ReadingInv
<1>2. /\ done \in Nat /\ Len(line) \in Nat
      /\ \A k \in 1..Len(line) : line[k].n \in Nat
      /\ \A b \in Channels : handled[b] \in Nat /\ Len(wrote[b]) \in Nat
  BY <1>1, Typed, Zenon
<1>3. /\ done + 1 \in 1..Len(line) /\ done + 1 \in (done + 1)..Len(line)
      /\ \A k \in (done + 1)..Len(line) : k = done + 1 \/ done + 1 < k
      /\ \A k \in (done + 1)..Len(line) : k \in 1..Len(line)
  BY <1>2
<1>4. x.n \in Nat /\ x.n > 0
  BY <1>2, <1>3
<1>5. c \in Channels /\ x.n <= Len(wrote[c])
  BY <1>1, <1>3, <1>4, Zenon DEF LineOK
<1>6. handled[c] < x.n
  BY <1>1, <1>3, <1>4, Zenon DEF OrderOK
<1>7. x.n = handled[c] + 1
  <2> SUFFICES ASSUME x.n # handled[c] + 1
               PROVE  FALSE
    OBVIOUS
  <2> DEFINE h == handled[c] + 1
  <2> HIDE DEF x
  <2>1. h \in (handled[c] + 1)..Len(wrote[c]) /\ h < x.n /\ h > 0 /\ h \in Nat
    BY <1>2, <1>4, <1>5, <1>6
  <2>2. PICK k \in (done + 1)..Len(line) : line[k].channel = c /\ line[k].n = h
    BY <1>1, <1>5, <2>1, Zenon DEF OrderOK
  <2>3. done + 1 < k
    <3>1. line[done + 1].n # h
      BY <1>4, <2>1 DEF x
    <3> QED
      BY <1>3, <2>2, <3>1, Zenon
  <2>4. x.n < h
    <3>1. \A i, j \in (done + 1)..Len(line) :
            i < j /\ line[i].n > 0 /\ line[i].channel = line[j].channel /\ line[j].n > 0
              => line[i].n < line[j].n
      BY <1>1, Zenon DEF OrderOK
    <3>2. line[done + 1].n > 0 /\ line[done + 1].channel = line[k].channel /\ line[k].n > 0
      BY <1>4, <2>1, <2>2, Zenon DEF x
    <3>3. line[done + 1].n < line[k].n
      BY <1>3, <2>3, <3>1, <3>2, Zenon
    <3> QED
      BY <2>2, <3>3, Zenon DEF x
  <2> QED
    BY <1>4, <2>1, <2>4
<1>8. x.n \in 1..Len(wrote[c]) /\ x.n - 1 = handled[c]
  BY <1>2, <1>4, <1>5, <1>7
<1> DEFINE d == wrote[c][x.n]
<1>9. /\ d = Following(c, handled[c])
      /\ d.of \in 1..Len(said[c]) /\ d.part \in 1..Parts(said[c][d.of])
  BY <1>1, <1>5, <1>8, Zenon DEF WroteOK
<1>10. said[c][d.of] \in AllSayings
  BY <1>1, <1>5, <1>9, Typed, Zenon
<1>11. FrameOf(x) = PartOf(c, said[c][d.of], d.part)
  BY Zenon DEF FrameOf
<1> QED
  BY <1>5, <1>7, <1>8, <1>9, <1>10, <1>11, Zenon

\* The frame is taken off the buffer, before anything is made of it.
Rest(r, n) == [r EXCEPT !.buffer = SubSeq(r.buffer, n + 1, Len(r.buffer))]

LEMMA RestIs ==
  ASSUME NEW r \in Readers, NEW n \in Nat, n <= Len(r.buffer)
  PROVE  LET q == Rest(r, n)
         IN /\ q \in Readers /\ q.got = r.got /\ q.pending = r.pending
            /\ Len(q.buffer) = Len(r.buffer) - n
            /\ \A j \in 1..Len(q.buffer) : q.buffer[j] = r.buffer[n + j] /\ n + j \in 1..Len(r.buffer)
<1> DEFINE m == Len(r.buffer)
<1> DEFINE b == SubSeq(r.buffer, n + 1, m)
<1> DEFINE q == [r EXCEPT !.buffer = b]
<1>1. r.buffer \in Seq(Octets) /\ m \in Nat
  <2>1. r.buffer \in Seq(Octets)
    BY DEF Readers
  <2> QED
    BY <2>1, LenProperties, Zenon
<1>2. n + 1 \in Nat \ {0} /\ m - n \in Nat /\ m \in Int /\ m = (n + 1) + (m - n) - 1 /\ m <= m
  <2>1. n <= m
    OBVIOUS
  <2> HIDE DEF m
  <2> QED
    BY <1>1, <2>1
<1>3. b \in Seq(Octets) /\ IsPiece(b, r.buffer, n + 1, m - n)
  BY <1>1, <1>2, Piece, Zenon
<1> HIDE DEF b
<1>4. q \in Readers /\ q.got = r.got /\ q.pending = r.pending /\ q.buffer = b
  BY <1>3 DEF Readers
<1> HIDE DEF q
<1>5. \A j \in 1..(m - n) : (n + 1) + j - 1 = n + j /\ n + j \in 1..m
  BY <1>1
<1>6. Len(b) = m - n /\ \A j \in 1..(m - n) : b[j] = r.buffer[n + j]
  BY <1>3, <1>5, Zenon DEF IsPiece
<1> QED
  BY <1>4, <1>5, <1>6, Zenon DEF q, b, m, Rest

LEMMA FrameTaken ==
  ASSUME ReadingInv, Handle
  PROVE  LET x == line[done + 1]
             n == Len(OctetsOf(x))
             f == FrameOf(x)
         IN /\ done < Len(line) /\ n \in Nat /\ n <= Len(reader.buffer)
            /\ reader' = OnFrame(Rest(reader, n), f)
            /\ done' = done + 1
            /\ handled' = IF f.type = HEARTBEAT THEN handled
                          ELSE [handled EXCEPT ![f.channel] = @ + 1]
            /\ said' = said /\ wrote' = wrote /\ stream' = stream
            /\ taken' = taken /\ line' = line
<1> DEFINE x == line[done + 1]
<1> DEFINE n == Len(OctetsOf(x))
<1> DEFINE f == FrameOf(x)
<1> DEFINE b == reader.buffer
<1>1. /\ ~Waits(reader, frame_max) /\ done' = done + 1
      /\ reader' = ReadFrame(reader, frame_max)
      /\ handled' = IF Fails(decode_frame(b, frame_max))
                       \/ decode_frame(b, frame_max).v.type = HEARTBEAT
                    THEN handled
                    ELSE [handled EXCEPT ![decode_frame(b, frame_max).v.channel] = @ + 1]
      /\ said' = said /\ wrote' = wrote /\ stream' = stream
      /\ taken' = taken /\ line' = line
  BY Zenon DEF Handle
<1>2. /\ done < Len(line) /\ n \in Nat /\ n <= Len(b)
      /\ decode_frame(b, frame_max) = Ok(f, n + 1)
  BY <1>1, WaitsIs, Zenon
<1> HIDE DEF x, n, f
<1>3. Ok(f, n + 1).v = f /\ Ok(f, n + 1).at = n + 1 /\ n + 1 # 0
  BY <1>2 DEF Ok
<1>4. ~Fails(Ok(f, n + 1))
  BY <1>3, Zenon DEF Fails
<1>5. Slice(b, n + 1, Len(b)) = SubSeq(b, n + 1, Len(b))
  BY Zenon DEF Slice
<1>6. reader' = OnFrame(Rest(reader, n), f)
  BY <1>1, <1>2, <1>3, <1>4, <1>5, Zenon DEF ReadFrame, Rest
<1>7. handled' = IF f.type = HEARTBEAT THEN handled ELSE [handled EXCEPT ![f.channel] = @ + 1]
  BY <1>1, <1>2, <1>3, <1>4, Zenon
<1> QED
  BY <1>1, <1>2, <1>6, <1>7, Zenon DEF x, n, f

LEMMA PartIsNoHeartbeat ==
  ASSUME NEW c, NEW s, NEW p
  PROVE  PartOf(c, s, p).type # HEARTBEAT /\ PartOf(c, s, p).channel = c
<1>1. \A type \in {METHOD, HEADER, BODY} : \A payload :
        Frame(type, c, payload).type # HEARTBEAT /\ Frame(type, c, payload).channel = c
  BY DEF Frame, METHOD, HEADER, BODY, HEARTBEAT
<1>2. METHOD \in {METHOD, HEADER, BODY} /\ HEADER \in {METHOD, HEADER, BODY}
      /\ BODY \in {METHOD, HEADER, BODY}
  OBVIOUS
<1>3. \E type \in {METHOD, HEADER, BODY} : \E payload : PartOf(c, s, p) = Frame(type, c, payload)
  <2> HIDE DEF METHOD, HEADER, BODY
  <2> QED
    BY <1>2 DEF PartOf
<1> QED
  BY <1>1, <1>3, Zenon

LEMMA HandledBuffer ==
  ASSUME ReadingInv, Handle, reader'.buffer = Rest(reader, Len(OctetsOf(line[done + 1]))).buffer
  PROVE  BufferOK'
<1> DEFINE n == Len(OctetsOf(line[done + 1]))
<1> DEFINE m == Len(reader.buffer)
<1> DEFINE start == From(done + 1)
<1>1. /\ done < Len(line) /\ n \in Nat /\ n <= m
      /\ done' = done + 1 /\ stream' = stream /\ taken' = taken /\ line' = line
  BY FrameTaken, Zenon
<1>2. /\ done \in Nat /\ Len(line) \in Nat /\ m \in Nat /\ reader \in Readers
      /\ \A k \in 1..(Len(line) + 1) : From(k) \in Nat
  BY Typed, Zenon DEF ReadingInv, Types
<1>3. start + m = taken /\ \A j \in 1..m : reader.buffer[j] = stream[start + j]
  BY Zenon DEF ReadingInv, BufferOK
<1>4. start \in Nat
  <2>1. done + 1 \in 1..(Len(line) + 1)
    BY <1>1, <1>2
  <2> QED
    BY <1>2, <2>1, Zenon
<1>5. line[done + 1].end = start + n
  BY <1>1, BufferHolds, Zenon
<1> DEFINE b == Rest(reader, n).buffer
<1> DEFINE l == Len(b)
<1>6. l = m - n /\ \A j \in 1..l : b[j] = reader.buffer[n + j] /\ n + j \in 1..m
  BY <1>1, <1>2, RestIs, Zenon
<1>7. reader'.buffer = b
  OBVIOUS
<1> HIDE DEF n, m, start, b, l
<1>8. From(done + 1)' = start + n
  <2>1. From(done + 1)' = line'[done'].end
    <3>1. done' + 1 # 1 /\ (done' + 1) - 1 = done'
      BY <1>1, <1>2
    <3> QED
      BY <3>1, Zenon DEF From
  <2> QED
    BY <1>1, <1>5, <2>1, Zenon
<1>9. (start + n) + l = taken
  BY <1>1, <1>2, <1>3, <1>4, <1>6
<1>10. ASSUME NEW j \in 1..l
       PROVE  b[j] = stream[(start + n) + j]
  <2>1. b[j] = stream[start + (n + j)]
    BY <1>3, <1>6, Zenon
  <2>2. start + (n + j) = (start + n) + j
    <3>1. j \in Nat
      BY <1>1, <1>2, <1>6
    <3> QED
      BY <1>1, <1>4, <3>1
  <2> QED
    BY <2>1, <2>2, Zenon
<1> QED
  BY <1>1, <1>7, <1>8, <1>9, <1>10, Zenon DEF BufferOK, l

LEMMA HandledOrder ==
  ASSUME ReadingInv, Handle
  PROVE  /\ handled' \in [Channels -> Nat]
         /\ LineOK' /\ OrderOK'
         /\ line[done + 1].n = 0 => handled' = handled
         /\ line[done + 1].n # 0 =>
              /\ handled'[line[done + 1].channel] = line[done + 1].n
              /\ \A c \in Channels \ {line[done + 1].channel} : handled'[c] = handled[c]
<1> DEFINE x == line[done + 1]
<1> DEFINE b == x.channel
<1>1. /\ done < Len(line) /\ done' = done + 1 /\ line' = line /\ wrote' = wrote
      /\ handled' = IF FrameOf(x).type = HEARTBEAT THEN handled
                    ELSE [handled EXCEPT ![FrameOf(x).channel] = @ + 1]
  BY FrameTaken, Zenon
<1>2. /\ done \in Nat /\ Len(line) \in Nat
      /\ \A k \in 1..Len(line) : line[k].n \in Nat
      /\ handled \in [Channels -> Nat]
      /\ \A c \in Channels : handled[c] \in Nat /\ Len(wrote[c]) \in Nat
  BY Typed, Zenon DEF ReadingInv, Types
<1>3. /\ done + 1 \in (done + 1)..Len(line) /\ done + 1 \in 1..Len(line)
      /\ \A k \in ((done + 1) + 1)..Len(line) : k \in (done + 1)..Len(line) /\ done + 1 < k
      /\ \A k \in (done + 1)..Len(line) : k # done + 1 => k \in ((done + 1) + 1)..Len(line)
  BY <1>1, <1>2
<1>4. x.n # 0 => /\ b \in Channels /\ x.n = handled[b] + 1 /\ x.n <= Len(wrote[b])
                 /\ FrameOf(x).type # HEARTBEAT /\ FrameOf(x).channel = b
  <2> HAVE x.n # 0
  <2> DEFINE d == Following(b, handled[b])
  <2>1. /\ b \in Channels /\ x.n = handled[b] + 1 /\ x.n \in 1..Len(wrote[b])
        /\ FrameOf(x) = PartOf(b, said[b][d.of], d.part)
    BY <1>1, NextPart, Zenon
  <2>2. x.n <= Len(wrote[b])
    BY <1>2, <2>1
  <2>3. /\ PartOf(b, said[b][d.of], d.part).type # HEARTBEAT
        /\ PartOf(b, said[b][d.of], d.part).channel = b
    BY PartIsNoHeartbeat
  <2> QED
    BY <2>1, <2>2, <2>3, Zenon
<1>5. x.n = 0 => handled' = handled
  <2> HAVE x.n = 0
  <2>1. FrameOf(x) = Frame(HEARTBEAT, 0, <<>>)
    BY Zenon DEF FrameOf
  <2>2. Frame(HEARTBEAT, 0, <<>>).type = HEARTBEAT
    BY DEF Frame
  <2> QED
    BY <1>1, <2>1, <2>2, Zenon
<1>6. x.n # 0 => /\ handled' = [handled EXCEPT ![b] = x.n]
  BY <1>1, <1>4, Zenon
<1>7. x.n \in Nat
  BY <1>2, <1>3, Zenon
<1>8. /\ \A c \in Channels : handled[c] <= Len(wrote[c])
      /\ \A k \in (done + 1)..Len(line) : line[k].n > 0 => handled[line[k].channel] < line[k].n
      /\ \A j, k \in (done + 1)..Len(line) :
           j < k /\ line[j].n > 0 /\ line[j].channel = line[k].channel /\ line[k].n > 0
             => line[j].n < line[k].n
      /\ \A c \in Channels : \A n \in (handled[c] + 1)..Len(wrote[c]) :
           \E k \in (done + 1)..Len(line) : line[k].channel = c /\ line[k].n = n
  BY Zenon DEF ReadingInv, OrderOK
<1>9. \A k \in 1..Len(line) : line[k].n > 0 => line[k].channel \in Channels
  BY Zenon DEF ReadingInv, LineOK
<1>10. /\ handled' \in [Channels -> Nat]
       /\ x.n # 0 => /\ handled'[b] = x.n
                     /\ \A c \in Channels \ {b} : handled'[c] = handled[c]
  <2> HIDE DEF x, b
  <2>1. CASE x.n = 0
    BY <1>2, <1>5, <2>1, Zenon
  <2>2. CASE x.n # 0
    BY <1>2, <1>4, <1>6, <1>7, <2>2
  <2> QED
    BY <2>1, <2>2, Zenon
<1>11. LineOK'
  BY <1>1, Zenon DEF ReadingInv, LineOK
<1>12. PICK y : y = x
  OBVIOUS
<1>13. PICK a : a = b
  OBVIOUS
<1>14. /\ y = line[done + 1] /\ a = y.channel /\ y.n \in Nat
       /\ y.n = 0 => handled' = handled
       /\ y.n # 0 => /\ a \in Channels /\ y.n = handled[a] + 1 /\ y.n <= Len(wrote[a])
                     /\ handled'[a] = y.n
                     /\ \A c \in Channels \ {a} : handled'[c] = handled[c]
  BY <1>4, <1>5, <1>7, <1>10, <1>12, <1>13, Zenon
<1> HIDE DEF x, b
<1>15. \A c \in Channels : handled'[c] <= Len(wrote[c])
  BY <1>2, <1>8, <1>14
<1>16. ASSUME NEW k \in ((done + 1) + 1)..Len(line), line[k].n > 0
       PROVE  handled'[line[k].channel] < line[k].n
  <2>1. k \in (done + 1)..Len(line) /\ done + 1 < k /\ line[k].channel \in Channels
    <3>1. k \in 1..Len(line)
      BY <1>2
    <3> QED
      BY <1>3, <1>9, <1>16, <3>1, Zenon
  <2>2. handled[line[k].channel] < line[k].n
    BY <1>8, <1>16, <2>1, Zenon
  <2>3. CASE y.n # 0 /\ line[k].channel = a
    <3>1. y.n > 0
      BY <1>14, <2>3
    <3>2. y.n < line[k].n
      BY <1>3, <1>8, <1>14, <1>16, <2>1, <2>3, <3>1, Zenon
    <3> QED
      BY <1>14, <2>3, <3>2, Zenon
  <2>4. CASE y.n = 0 \/ line[k].channel # a
    <3>1. handled'[line[k].channel] = handled[line[k].channel]
      <4>1. CASE y.n = 0
        BY <1>14, <4>1, Zenon
      <4>2. CASE y.n # 0 /\ line[k].channel # a
        BY <1>14, <2>1, <4>2, Zenon
      <4> QED
        BY <2>4, <4>1, <4>2, Zenon
    <3> QED
      BY <2>2, <3>1, Zenon
  <2> QED
    BY <2>3, <2>4, Zenon
<1>17. \A j, k \in ((done + 1) + 1)..Len(line) :
         j < k /\ line[j].n > 0 /\ line[j].channel = line[k].channel /\ line[k].n > 0
           => line[j].n < line[k].n
  BY <1>3, <1>8, Zenon
<1>18. ASSUME NEW c \in Channels, NEW n \in (handled'[c] + 1)..Len(wrote[c])
       PROVE  \E k \in ((done + 1) + 1)..Len(line) : line[k].channel = c /\ line[k].n = n
  <2>1. handled'[c] \in Nat /\ handled[c] <= handled'[c]
    <3>1. handled[c] \in Nat
      BY <1>2, Zenon
    <3>2. CASE y.n = 0 \/ c # a
      <4>1. handled'[c] = handled[c]
        <5>1. CASE y.n = 0
          BY <1>14, <5>1, Zenon
        <5>2. CASE y.n # 0 /\ c # a
          BY <1>14, <5>2, Zenon
        <5> QED
          BY <3>2, <5>1, <5>2, Zenon
      <4>2. handled[c] <= handled[c]
        BY <3>1
      <4> QED
        BY <3>1, <4>1, <4>2, Zenon
    <3>3. CASE y.n # 0 /\ c = a
      <4>1. handled'[c] = y.n /\ y.n = handled[c] + 1
        BY <1>14, <3>3, Zenon
      <4> QED
        BY <3>1, <4>1
    <3> QED
      BY <3>2, <3>3, Zenon
  <2>2. n \in (handled[c] + 1)..Len(wrote[c]) /\ n > handled'[c] /\ n > 0 /\ n \in Nat
    <3>1. PICK g, h, m : g = handled[c] /\ h = handled'[c] /\ m = Len(wrote[c])
      OBVIOUS
    <3>2. g \in Nat /\ h \in Nat /\ m \in Nat /\ g <= h
      BY <1>2, <2>1, <3>1, Zenon
    <3>3. n \in (h + 1)..m
      BY <1>18, <3>1, Zenon
    <3>4. n \in (g + 1)..m /\ n > h /\ n > 0 /\ n \in Nat
      BY <3>2, <3>3
    <3> QED
      BY <3>1, <3>4, Zenon
  <2>3. PICK k \in (done + 1)..Len(line) : line[k].channel = c /\ line[k].n = n
    BY <1>8, <2>2, Zenon
  <2>4. k # done + 1
    <3> SUFFICES ASSUME k = done + 1
                 PROVE  FALSE
      OBVIOUS
    <3>1. y.n = n /\ a = c
      BY <1>14, <2>3, Zenon
    <3>2. handled'[c] = n
      BY <1>14, <2>2, <3>1
    <3> QED
      BY <2>1, <2>2, <3>2
  <2> QED
    BY <1>3, <2>3, <2>4, Zenon
<1>19. OrderOK'
  <2>1. \A k \in ((done + 1) + 1)..Len(line) :
          line[k].n > 0 => handled'[line[k].channel] < line[k].n
    BY <1>16, Zenon
  <2>2. \A c \in Channels : \A n \in (handled'[c] + 1)..Len(wrote[c]) :
          \E k \in ((done + 1) + 1)..Len(line) : line[k].channel = c /\ line[k].n = n
    BY <1>18, Zenon
  <2> QED
    BY <1>1, <1>15, <1>17, <2>1, <2>2 DEF OrderOK
<1> QED
  BY <1>5, <1>10, <1>11, <1>19, Zenon DEF x, b

\* What a part that is handled leaves on its channel is what the next needs.
LEMMA AfterIsBefore ==
  ASSUME Types, WroteOK, NEW c \in Channels, NEW n \in 1..Len(wrote[c]), NEW q,
         After(q, c, said[c][wrote[c][n].of], wrote[c][n].of, wrote[c][n].part)
  PROVE  LET d == Following(c, n)
         IN Before(q, c, said[c][d.of], d.of, d.part)
<1> DEFINE w == wrote[c][n]
<1> DEFINE d == Following(c, n)
<1> DEFINE s == said[c][w.of]
<1>1. n \in Nat /\ n # 0 /\ n > 0
  BY Typed
<1>2. w.of \in Nat /\ w.part \in Nat \ {0} /\ w.part \in 1..Parts(s) /\ Parts(s) \in Nat
  <2>1. w.of \in 1..Len(said[c]) /\ w.part \in 1..Parts(s)
    BY Zenon DEF WroteOK
  <2>2. s \in AllSayings
    BY <2>1, Typed, Zenon
  <2>3. Parts(s) \in Nat
    BY <2>2, SayingParts, Zenon
  <2> QED
    BY <2>1, <2>3, Typed
<1>3. /\ w.part < Parts(s) => d = [of |-> w.of, part |-> w.part + 1]
      /\ ~ (w.part < Parts(s)) => d = [of |-> w.of + 1, part |-> 1]
  BY <1>1, FollowingIs, Zenon
<1>4. /\ Len(q.got[c]) = IF w.part = Parts(s) THEN w.of ELSE w.of - 1
      /\ q.pending[c] = IF w.part = Parts(s) THEN NoSlot ELSE SlotOf(s, w.part)
  BY Zenon DEF After
<1> HIDE DEF d
<1>5. CASE w.part < Parts(s)
  <2>1. d.of = w.of /\ d.part = w.part + 1
    BY <1>3, <1>5
  <2> HIDE DEF w, s
  <2>2. /\ w.part # Parts(s) /\ (w.part + 1) - 1 = w.part /\ w.part + 1 # 1
    BY <1>2, <1>5
  <2>3. said[c][d.of] = s
    BY <2>1, Zenon DEF s
  <2> QED
    BY <1>4, <2>1, <2>2, <2>3, Zenon DEF Before, d
<1>6. CASE ~ (w.part < Parts(s))
  <2>1. d.of = w.of + 1 /\ d.part = 1
    BY <1>3, <1>6
  <2> HIDE DEF w, s
  <2>2. w.part = Parts(s) /\ (w.of + 1) - 1 = w.of
    BY <1>2, <1>6
  <2> QED
    BY <1>4, <2>1, <2>2, Zenon DEF Before, d
<1> QED
  BY <1>5, <1>6, Zenon

\* A part is handled: its channel goes on, and the others stand where they did.
LEMMA PartKeeps ==
  ASSUME ReadingInv, Handle, line[done + 1].n # 0
  PROVE  /\ reader' \in Readers
         /\ reader'.buffer = Rest(reader, Len(OctetsOf(line[done + 1]))).buffer
         /\ ReaderOK' /\ GotOK'
<1>1. PICK c : c = line[done + 1].channel
  OBVIOUS
<1>2. PICK n : n = line[done + 1].n
  OBVIOUS
<1>3. PICK d : d = Following(c, handled[c])
  OBVIOUS
<1>4. PICK q : q = Rest(reader, Len(OctetsOf(line[done + 1])))
  OBVIOUS
<1> DEFINE s == said[c][d.of]
<1>5. /\ Types /\ WroteOK /\ OrderOK /\ ReaderOK /\ GotOK /\ reader \in Readers
  BY Zenon DEF ReadingInv, Types
<1>6. /\ done < Len(line)
      /\ Len(OctetsOf(line[done + 1])) \in Nat
      /\ Len(OctetsOf(line[done + 1])) <= Len(reader.buffer)
      /\ reader' = OnFrame(q, FrameOf(line[done + 1]))
      /\ said' = said /\ wrote' = wrote
  BY <1>4, FrameTaken, Zenon
<1>7. /\ c \in Channels /\ n = handled[c] + 1 /\ n \in 1..Len(wrote[c]) /\ wrote[c][n] = d
      /\ d.of \in 1..Len(said[c]) /\ s \in AllSayings
      /\ d.part \in 1..Parts(s)
      /\ FrameOf(line[done + 1]) = PartOf(c, s, d.part)
  BY <1>1, <1>2, <1>3, <1>6, NextPart, Zenon
<1>8. /\ handled'[c] = n
      /\ \A b \in Channels \ {c} : handled'[b] = handled[b]
  BY <1>1, <1>2, HandledOrder, Zenon
<1>9. q \in Readers /\ q.got = reader.got /\ q.pending = reader.pending
  BY <1>4, <1>5, <1>6, RestIs, Zenon
<1>10. Before(q, c, s, d.of, d.part)
  <2>1. Before(reader, c, s, d.of, d.part)
    BY <1>3, <1>5, <1>7, Zenon DEF ReaderOK
  <2> QED
    BY <1>9, <2>1, Zenon DEF Before
<1>11. Touches(q, reader', c) /\ After(reader', c, s, d.of, d.part)
  <2>1. d.of \in Nat \ {0}
    BY <1>5, <1>7, Typed
  <2> QED
    BY <1>6, <1>7, <1>9, <1>10, <2>1, PartHandled, Zenon
<1> HIDE DEF s
<1>12. /\ reader' \in Readers /\ reader'.buffer = q.buffer
       /\ \A b \in Channels \ {c} : reader'.got[b] = reader.got[b]
                                    /\ reader'.pending[b] = reader.pending[b]
       /\ \A j \in 1..Len(reader.got[c]) : reader'.got[c][j] = reader.got[c][j]
  BY <1>9, <1>11, Zenon DEF Touches
<1>13. Extended
  BY <1>5, <1>6, SameExtends, Zenon
<1>14. ReaderOK'
  <2>1. ASSUME NEW b \in Channels
        PROVE  LET e == Following(b, handled[b])'
               IN Before(reader', b, said'[b][e.of], e.of, e.part)
    <3>1. PICK h : h = handled'[b]
      OBVIOUS
    <3>2. h \in 0..Len(wrote[b])
      <4>1. CASE b = c
        BY <1>5, <1>7, <1>8, <3>1, <4>1, Typed
      <4>2. CASE b # c
        <5>1. h = handled[b] /\ handled[b] <= Len(wrote[b])
          BY <1>5, <1>8, <3>1, <4>2, Zenon DEF OrderOK
        <5> QED
          BY <1>5, <5>1, Typed
      <4> QED
        BY <4>1, <4>2, Zenon
    <3>3. Following(b, h)' = Following(b, h)
      BY <1>5, <1>13, <3>2, FollowingKept, Zenon
    <3>4. Following(b, handled[b])' = Following(b, h)
      BY <3>1, <3>3, Zenon DEF Following
    <3> DEFINE e == Following(b, h)
    <3>5. Before(reader', b, said[b][e.of], e.of, e.part)
      <4>1. CASE b = c
        <5>1. h = n
          BY <1>8, <3>1, <4>1, Zenon
        <5>2. After(reader', c, said[c][wrote[c][n].of], wrote[c][n].of, wrote[c][n].part)
          BY <1>7, <1>11, Zenon DEF s
        <5> QED
          BY <1>5, <1>7, <4>1, <5>1, <5>2, AfterIsBefore, Zenon
      <4>2. CASE b # c
        <5>1. h = handled[b]
          BY <1>8, <3>1, <4>2, Zenon
        <5>2. Before(reader, b, said[b][e.of], e.of, e.part)
          BY <1>5, <5>1, Zenon DEF ReaderOK
        <5>3. reader'.got[b] = reader.got[b] /\ reader'.pending[b] = reader.pending[b]
          BY <1>12, <4>2, Zenon
        <5> QED
          BY <5>2, <5>3, Zenon DEF Before
      <4> QED
        BY <4>1, <4>2, Zenon
    <3> QED
      BY <1>6, <3>4, <3>5, Zenon
  <2> QED
    BY <2>1, Zenon DEF ReaderOK
<1>15. GotOK'
  <2>1. ASSUME NEW b \in Channels, NEW i \in 1..Len(reader'.got[b])
        PROVE  reader'.got[b][i] = Event(said[b][i])
    <3>1. CASE b # c
      BY <1>5, <1>12, <2>1, <3>1, Zenon DEF GotOK
    <3>2. CASE b = c
      <4>1. /\ Len(reader'.got[c]) = IF d.part = Parts(s) THEN d.of ELSE d.of - 1
            /\ d.part = Parts(s) => reader'.got[c][d.of] = Event(s)
        BY <1>11, Zenon DEF After
      <4>2. Len(reader.got[c]) = d.of - 1 /\ d.of \in Nat
        BY <1>5, <1>7, <1>9, <1>10, Typed DEF Before
      <4>3. i \in 1..Len(reader.got[c]) \/ (i = d.of /\ d.part = Parts(s))
        BY <2>1, <3>2, <4>1, <4>2
      <4>4. CASE i \in 1..Len(reader.got[c])
        BY <1>5, <1>7, <1>12, <3>2, <4>4, Zenon DEF GotOK
      <4>5. CASE i = d.of /\ d.part = Parts(s)
        BY <3>2, <4>1, <4>5, Zenon DEF s
      <4> QED
        BY <4>3, <4>4, <4>5, Zenon
    <3> QED
      BY <3>1, <3>2, Zenon
  <2> QED
    BY <1>6, <2>1, Zenon DEF GotOK
<1> QED
  BY <1>4, <1>12, <1>14, <1>15, Zenon

\* The read loop handles a frame.
LEMMA HandleKeeps ==
  ASSUME ReadingInv, Handle
  PROVE  ReadingInv'
<1> DEFINE n == Len(OctetsOf(line[done + 1]))
<1>1. /\ Types /\ WroteOK /\ LineOK /\ StreamOK /\ OrderOK /\ ReaderOK /\ GotOK
      /\ reader \in Readers
  BY Zenon DEF ReadingInv, Types
<1>2. /\ done < Len(line) /\ n \in Nat /\ n <= Len(reader.buffer)
      /\ reader' = OnFrame(Rest(reader, n), FrameOf(line[done + 1]))
      /\ done' = done + 1
      /\ said' = said /\ wrote' = wrote /\ stream' = stream /\ taken' = taken /\ line' = line
  BY FrameTaken, Zenon
<1>3. Extended
  BY <1>1, <1>2, SameExtends, Zenon
<1>4. /\ handled' \in [Channels -> Nat] /\ LineOK' /\ OrderOK'
      /\ line[done + 1].n = 0 => handled' = handled
  BY HandledOrder, Zenon
<1>5. reader' \in Readers /\ reader'.buffer = Rest(reader, n).buffer /\ ReaderOK' /\ GotOK'
  <2>1. CASE line[done + 1].n # 0
    BY <2>1, PartKeeps, Zenon
  <2>2. CASE line[done + 1].n = 0
    <3>1. FrameOf(line[done + 1]) = Frame(HEARTBEAT, 0, <<>>)
      BY <2>2, Zenon DEF FrameOf
    <3>2. reader' = Rest(reader, n)
      <4>1. OnFrame(Rest(reader, n), Frame(HEARTBEAT, 0, <<>>)) = Rest(reader, n)
        <5>1. \A r, c, payload : OnFrame(r, Frame(HEARTBEAT, c, payload)) = r
          BY Branches, Zenon
        <5> QED
          BY <5>1, Zenon
      <4> QED
        BY <1>2, <3>1, <4>1, Zenon
    <3>3. reader' \in Readers /\ reader'.got = reader.got /\ reader'.pending = reader.pending
      <4>1. /\ Rest(reader, n) \in Readers
            /\ Rest(reader, n).got = reader.got /\ Rest(reader, n).pending = reader.pending
        BY <1>1, <1>2, RestIs, Zenon
      <4> QED
        BY <3>2, <4>1, Zenon
    <3>4. ReaderOK' /\ GotOK'
      BY <1>1, <1>3, <1>4, <2>2, <3>3, ReaderKept, Zenon
    <3> QED
      BY <3>2, <3>3, <3>4, Zenon
  <2> QED
    BY <2>1, <2>2, Zenon
<1>6. BufferOK'
  BY <1>5, HandledBuffer, Zenon
<1>7. WroteOK' /\ StreamOK'
  BY <1>1, <1>2, <1>3, WroteSame, StreamKept, Zenon
<1>8. Types'
  <2>1. done' \in 0..Len(line')
    <3>1. done \in Nat /\ Len(line) \in Nat
      BY <1>1, Typed, Zenon
    <3> QED
      BY <1>2, <3>1
  <2> QED
    BY <1>1, <1>2, <1>4, <1>5, <2>1, Zenon DEF Types
<1> QED
  BY <1>4, <1>5, <1>6, <1>7, <1>8, Zenon DEF ReadingInv

LEMMA InitHolds ==
  ASSUME Init
  PROVE  ReadingInv
<1>1. /\ said = [c \in Channels |-> <<>>] /\ wrote = [c \in Channels |-> <<>>]
      /\ stream = <<>> /\ taken = 0 /\ line = <<>> /\ done = 0
      /\ handled = [c \in Channels |-> 0]
  BY DEF Init
<1>2. /\ reader.buffer = <<>>
      /\ reader.got = [c \in Channels |-> <<>>] /\ reader.pending = [c \in Channels |-> NoSlot]
      /\ reader \in Readers
  <2>1. /\ [c \in Channels |-> <<>>] \in [Channels -> Seq(Events)] /\ <<>> \in Seq(Octets)
        /\ [c \in Channels |-> NoSlot] \in [Channels -> Slots \cup {NoSlot}]
    <3> HIDE DEF NoSlot
    <3> QED
      OBVIOUS
  <2> QED
    BY <2>1 DEF Init, Readers
<1>3. \A c \in Channels : /\ said[c] = <<>> /\ wrote[c] = <<>> /\ handled[c] = 0
                          /\ reader.got[c] = <<>> /\ reader.pending[c] = NoSlot
  BY <1>1, <1>2
<1>4. Len(<<>>) = 0
  OBVIOUS
<1>5. Types
  <2>1. /\ said \in [Channels -> Seq(AllSayings)] /\ wrote \in [Channels -> Seq(Places)]
        /\ handled \in [Channels -> Nat]
    BY <1>1
  <2>2. stream \in Seq(Octets) /\ taken \in 0..Len(stream)
        /\ line \in Seq(Entries) /\ done \in 0..Len(line)
    BY <1>1
  <2> QED
    BY <1>2, <2>1, <2>2, Zenon DEF Types
<1>6. WroteOK
  <2>1. \A c \in Channels : 1..Len(wrote[c]) = {}
    BY <1>3
  <2> QED
    BY <2>1, Zenon DEF WroteOK
<1>7. LineOK /\ StreamOK
  <2>1. 1..Len(line) = {} /\ Len(stream) = 0 /\ Len(line) + 1 = 1
    BY <1>1
  <2>2. From(1) = 0
    BY Zenon DEF From
  <2> QED
    BY <2>1, <2>2, Zenon DEF LineOK, StreamOK
<1>8. OrderOK
  <2>1. (done + 1)..Len(line) = {}
    BY <1>1
  <2>2. \A c \in Channels : handled[c] <= Len(wrote[c]) /\ (handled[c] + 1)..Len(wrote[c]) = {}
    BY <1>3
  <2> QED
    BY <2>1, <2>2, Zenon DEF OrderOK
<1>9. BufferOK
  <2>1. done + 1 = 1 /\ 0 + 0 = 0 /\ 1..0 = {}
    BY <1>1
  <2>2. From(1) = 0
    BY Zenon DEF From
  <2> QED
    BY <1>1, <1>2, <1>4, <2>1, <2>2, Zenon DEF BufferOK
<1>10. ReaderOK
  <2>1. ASSUME NEW c \in Channels
        PROVE  Before(reader, c, said[c][Following(c, handled[c]).of],
                      Following(c, handled[c]).of, Following(c, handled[c]).part)
    <3>1. Following(c, handled[c]) = [of |-> 1, part |-> 1]
      BY <1>3, FollowingIs, Zenon
    <3>2. Following(c, handled[c]).of = 1 /\ Following(c, handled[c]).part = 1 /\ 1 - 1 = 0
      BY <3>1
    <3> QED
      BY <1>3, <1>4, <3>2, Zenon DEF Before
  <2> QED
    BY <2>1, Zenon DEF ReaderOK
<1>11. GotOK
  <2>1. \A c \in Channels : 1..Len(reader.got[c]) = {}
    BY <1>3
  <2> QED
    BY <2>1, Zenon DEF GotOK
<1> QED
  BY <1>5, <1>6, <1>7, <1>8, <1>9, <1>10, <1>11, Zenon DEF ReadingInv

LEMMA NextKeeps ==
  ASSUME ReadingInv, [Next]_vars
  PROVE  ReadingInv'
<1>1. CASE Next
  BY <1>1, SayKeeps, TransmitKeeps, HeartbeatKeeps, ReceiveKeeps, HandleKeeps, Zenon DEF Next
<1>2. CASE UNCHANGED vars
  <2>1. /\ reader' = reader /\ said' = said /\ wrote' = wrote /\ stream' = stream
        /\ taken' = taken /\ line' = line /\ done' = done /\ handled' = handled
    BY <1>2, Zenon DEF vars, history
  <2>2. /\ Types /\ WroteOK /\ LineOK /\ StreamOK /\ OrderOK /\ BufferOK /\ ReaderOK /\ GotOK
    BY Zenon DEF ReadingInv
  <2>3. Extended
    BY <2>1, <2>2, SameExtends, Zenon
  <2>4. Types' /\ WroteOK' /\ LineOK' /\ OrderOK' /\ GotOK' /\ StreamOK' /\ ReaderOK'
    <3>1. Types'
      BY <2>1, <2>2, Zenon DEF Types
    <3>2. WroteOK' /\ StreamOK' /\ LineOK' /\ OrderOK' /\ ReaderOK' /\ GotOK'
      BY <2>1, <2>2, <2>3, WroteSame, StreamKept, OrderKept, ReaderKept, Zenon
    <3> QED
      BY <3>1, <3>2, Zenon
  <2>5. BufferOK'
    <3>1. From(done + 1)' = From(done + 1)
      BY <2>1, Zenon DEF From
    <3> QED
      BY <2>1, <2>2, <3>1, Zenon DEF BufferOK
  <2> QED
    BY <2>4, <2>5, Zenon DEF ReadingInv
<1> QED
  BY <1>1, <1>2, Zenon

\* The strengthening: what is in the buffer, in the slots and with the callers
\* is what the broker wrote and the frames handled make of it (_read_loop).
THEOREM ReadingInvariant == Spec => []ReadingInv
<1>1. Init => ReadingInv
  BY InitHolds, Zenon
<1>2. ReadingInv /\ [Next]_vars => ReadingInv'
  BY NextKeeps, Zenon
<1> QED
  BY <1>1, <1>2, PTL DEF Spec

\* While the loop awaits octets it keeps less than a frame of them, and a slot
\* is that of a content with octets to come (_read_loop, _finish_delivery).
THEOREM TypeCorrect == Spec => []TypeOK
<1>1. ReadingInv => TypeOK
  <2> SUFFICES ASSUME ReadingInv
               PROVE  TypeOK
    OBVIOUS
  <2>1. /\ Types /\ WroteOK /\ OrderOK /\ ReaderOK
    BY Zenon DEF ReadingInv
  <2>2. taken \in 0..Len(stream)
    BY <2>1, Zenon DEF Types
  <2>3. Waits(reader, frame_max) => Len(reader.buffer) < frame_max
    <3>1. reader.buffer \in Seq(Octets)
      BY <2>1, Typed, Zenon
    <3> QED
      BY <3>1, WaitsIs, Assumed, BufferBounded, Zenon
  <2> QED
    BY <2>1, <2>2, <2>3, HeardOfSaid, Zenon DEF TypeOK
<1> QED
  BY <1>1, ReadingInvariant, PTL

\* What reaches a caller on a channel is what the broker said on it, once, in
\* order and whole, and the loop never gives up on what is well formed
\* (_read_loop).
THEOREM WhatIsGotWasSaid == Spec => []GotIsSaid
<1>1. ReadingInv => GotIsSaid
  <2> SUFFICES ASSUME ReadingInv
               PROVE  GotIsSaid
    OBVIOUS
  <2>1. /\ Types /\ WroteOK /\ OrderOK /\ ReaderOK /\ GotOK
    BY Zenon DEF ReadingInv
  <2>2. ~reader.lost
    <3>1. reader.lost = FALSE
      BY <2>1, Typed, Zenon
    <3> QED
      BY <3>1
  <2>3. \A c \in Channels : Len(reader.got[c]) <= Len(said[c])
    BY <2>1, HeardOfSaid, Zenon
  <2> QED
    BY <2>1, <2>2, <2>3, Zenon DEF GotIsSaid, GotOK
<1> QED
  BY <1>1, ReadingInvariant, PTL

\* When every part is written and handed over and the loop waits for more, all
\* that was said was got, and neither part of a frame nor part of a content is
\* kept (_read_loop, _finish_delivery).
THEOREM NothingIsKept == Spec => []NothingStays
<1>1. ReadingInv => NothingStays
  <2> SUFFICES ASSUME ReadingInv, AllIn
               PROVE  /\ reader.buffer = <<>>
                      /\ \A c \in Channels : /\ Len(reader.got[c]) = Len(said[c])
                                             /\ reader.pending[c] = NoSlot
    BY Zenon DEF NothingStays
  <2>1. /\ Types /\ WroteOK /\ OrderOK /\ ReaderOK
    BY Zenon DEF ReadingInv
  <2>2. /\ \A c \in Channels : Due(c).of > Len(said[c])
        /\ taken = Len(stream) /\ Waits(reader, frame_max)
    BY Zenon DEF AllIn
  <2>3. done = Len(line) /\ Len(reader.buffer) = 0
    BY <2>2, WaitsIs, Zenon
  <2>4. reader.buffer = <<>>
    <3>1. reader.buffer \in Seq(Octets)
      BY <2>1, Typed, Zenon
    <3> QED
      BY <2>3, <3>1, EmptySeq, Zenon
  <2>5. ASSUME NEW c \in Channels
        PROVE  Len(reader.got[c]) = Len(said[c]) /\ reader.pending[c] = NoSlot
    <3>1. PICK h : h = handled[c]
      OBVIOUS
    <3>2. PICK d : d = Following(c, h)
      OBVIOUS
    <3>3. /\ h \in Nat /\ Len(wrote[c]) \in Nat /\ h <= Len(wrote[c])
          /\ Len(said[c]) \in Nat /\ Len(reader.got[c]) \in Nat
      BY <2>1, <3>1, Typed, Zenon DEF OrderOK
    <3>4. h = Len(wrote[c])
      <4>1. \A k \in (done + 1)..Len(line) : FALSE
        BY <2>1, <2>3, Typed
      <4>2. \A n \in (h + 1)..Len(wrote[c]) : FALSE
        BY <2>1, <3>1, <4>1, Zenon DEF OrderOK
      <4> QED
        BY <3>3, <4>2
    <3>5. d.of > Len(said[c])
      BY <2>2, <3>2, <3>4, Zenon DEF Due
    <3>6. /\ d \in [of : Nat \ {0}, part : Nat \ {0}]
          /\ d.part # 1 => d.of <= Len(said[c])
      <4>1. h \in 0..Len(wrote[c])
        BY <3>3
      <4> QED
        BY <2>1, <3>2, <4>1, FollowingFits, Zenon
    <3>7. d.part = 1 /\ d.of \in Nat
      BY <3>3, <3>5, <3>6
    <3>8. Len(reader.got[c]) = d.of - 1 /\ reader.pending[c] = NoSlot
      BY <2>1, <3>1, <3>2, <3>7, Zenon DEF ReaderOK, Before
    <3>9. Len(reader.got[c]) <= Len(said[c])
      BY <2>1, HeardOfSaid, Zenon
    <3> QED
      BY <3>3, <3>5, <3>7, <3>8, <3>9
  <2> QED
    BY <2>4, <2>5, Zenon
<1> QED
  BY <1>1, ReadingInvariant, PTL
=============================================================================
