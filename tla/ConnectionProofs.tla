--------------------------- MODULE ConnectionProofs ---------------------------
(***************************************************************************)
(* What holds of Connection for every sequence of frames, width of the     *)
(* totals and size of the window.  The argument about messages: what       *)
(* FromBytes makes of the body of a frame is what AsBytes was given        *)
(* (BodyIs), and the two buffers always hold what was read of the frame in *)
(* hand, the messages before it being received (Positioned).  About the    *)
(* window: see Windowed, below.                                            *)
(***************************************************************************)
EXTENDS Connection, Induction, TLAPS

-----------------------------------------------------------------------------
(* Sequences.                                                              *)

\* r is a part of s, s with t after it, s with x before it.
Sliced(r, s, i, j) ==
    Len(r) = j + 1 - i /\ \A k \in 1 .. j + 1 - i : r[k] = s[i - 1 + k]
Glued(r, s, t) ==
    /\ Len(r) = Len(s) + Len(t)
    /\ \A k \in 1 .. Len(s) : r[k] = s[k]
    /\ \A k \in 1 .. Len(t) : r[Len(s) + k] = t[k]
Headed(r, x, s) ==
    /\ Len(r) = 1 + Len(s) /\ r[1] = x
    /\ \A k \in 1 .. Len(s) : r[1 + k] = s[k]

\* A part of a sequence, by its places.
LEMMA Slice ==
    ASSUME NEW T, NEW s \in Seq(T), NEW i \in Nat \ {0}, NEW j \in Nat,
           i <= j + 1, j <= Len(s)
    PROVE  SubSeq(s, i, j) \in Seq(T) /\ Sliced(SubSeq(s, i, j), s, i, j)
  BY DEF Sliced

\* n elements from the one after place e.
After(r, s, e, n) == Len(r) = n /\ \A j \in 1 .. n : r[j] = s[e + j]

\* A part of a sequence, by what is before it and its length.
LEMMA SliceAfter ==
    ASSUME NEW T, NEW s \in Seq(T), NEW e \in Nat, NEW n \in Nat, e + n <= Len(s),
           NEW i, NEW c, i = e + 1, c = e + n
    PROVE  SubSeq(s, i, c) \in Seq(T) /\ After(SubSeq(s, i, c), s, e, n)
  BY DEF After

\* Two sequences, one after the other.
LEMMA Joint ==
    ASSUME NEW T, NEW s \in Seq(T), NEW t \in Seq(T)
    PROVE  s \o t \in Seq(T) /\ Glued(s \o t, s, t)
  BY DEF Glued

\* Sequences with the same elements are the same.
LEMMA SameSeq ==
    ASSUME NEW T, NEW s \in Seq(T), NEW t \in Seq(T), Len(s) = Len(t),
           \A k \in 1 .. Len(s) : s[k] = t[k]
    PROVE  s = t
  OBVIOUS

LEMMA ElementOf ==
    ASSUME NEW T, NEW s \in Seq(T), NEW i \in 1 .. Len(s)
    PROVE  s[i] \in T
  OBVIOUS

LEMMA Wider ==
    ASSUME NEW S, NEW T, S \subseteq T, NEW s \in Seq(S)
    PROVE  s \in Seq(T)
  <1>1. Len(s) \in Nat /\ s \in [1 .. Len(s) -> T]
    OBVIOUS
  <1> QED
    BY <1>1

\* One element before a sequence.
LEMMA HeadFirst ==
    ASSUME NEW T, NEW x \in T, NEW s \in Seq(T)
    PROVE  <<x>> \o s \in Seq(T) /\ Tail(<<x>> \o s) = s /\ Headed(<<x>> \o s, x, s)
  <1>1. Tail(<<x>> \o s) = s
    <2>1. Tail(<<x>> \o s) \in Seq(T) /\ Len(Tail(<<x>> \o s)) = Len(s)
      OBVIOUS
    <2>2. \A k \in 1 .. Len(s) : Tail(<<x>> \o s)[k] = s[k]
      OBVIOUS
    <2> QED BY <2>1, <2>2, SameSeq
  <1>2. <<x>> \in Seq(T) /\ Len(<<x>>) = 1 /\ <<x>>[1] = x
    OBVIOUS
  <1>3. <<x>> \o s \in Seq(T) /\ Glued(<<x>> \o s, <<x>>, s)
    <2> DEFINE o == <<x>>
    <2> HIDE DEF o
    <2> QED BY <1>2, Joint DEF o
  <1>4. Headed(<<x>> \o s, x, s)
    <2> DEFINE o == <<x>>
               r == o \o s
    <2>1. Glued(r, o, s) /\ o[1] = x /\ Len(o) = 1
      BY <1>2, <1>3
    <2> HIDE DEF o, r
    <2>2. Headed(r, x, s)
      BY <2>1 DEF Glued, Headed
    <2> QED BY <2>2 DEF o, r
  <1> QED
    BY <1>1, <1>3, <1>4

-----------------------------------------------------------------------------
(* Numbers of four bytes.                                                  *)

\* 256^3 as a number.
LEMMA U32Is == U32 = {n \in Nat : n \div 16777216 < 256}
  <1>1. 256^3 = 16777216
    BY SMT
  <1> QED
    BY SMT, <1>1 DEF U32

\* A word is four bytes, ...
LEMMA WordIs ==
    ASSUME NEW n \in U32
    PROVE  /\ Word(n) \in Seq(Byte) /\ Len(Word(n)) = 4
           /\ Word(n)[1] = (n \div 16777216) % 256 /\ Word(n)[2] = (n \div 65536) % 256
           /\ Word(n)[3] = (n \div 256) % 256 /\ Word(n)[4] = n % 256
  BY SMT DEF Word, Byte, U32

\* Division by 256, again and again.
LEMMA DivMod ==
    ASSUME NEW n \in Nat
    PROVE  n % 256 = n - 256 * (n \div 256) /\ n \div 256 \in Nat /\ n % 256 \in Nat
  <1>1. n % 256 = n - 256 * (n \div 256)
    BY SMT
  <1>2. n \div 256 \in Nat
    BY SMT
  <1>3. n % 256 \in Nat
    BY SMT
  <1> QED
    BY <1>1, <1>2, <1>3

\* Division by two numbers, one after the other.
LEMMA DivDiv ==
    ASSUME NEW n \in Nat
    PROVE  n \div 65536 = (n \div 256) \div 256 /\ n \div 16777216 = (n \div 65536) \div 256
  <1>1. n \div 65536 = (n \div 256) \div 256
    BY SMT
  <1>2. n \div 16777216 = (n \div 65536) \div 256
    BY SMT
  <1> QED
    BY SMT, <1>1, <1>2

\* The four bytes of a number, from those of what is left of it.
LEMMA FourDigits ==
    ASSUME NEW n \in Nat, NEW q \in Nat, NEW r \in Nat, NEW s \in Nat,
           NEW a \in Nat, NEW b \in Nat, NEW c \in Nat,
           a = n - 256 * q, b = q - 256 * r, c = r - 256 * s
    PROVE  ((s * 256 + c) * 256 + b) * 256 + a = n
  OBVIOUS

\* ... from which the number is had back.
LEMMA Rejoined ==
    ASSUME NEW n \in U32, NEW a, NEW b, NEW c, NEW d,
           d = (n \div 16777216) % 256, c = (n \div 65536) % 256,
           b = (n \div 256) % 256, a = n % 256
    PROVE  ((d * 256 + c) * 256 + b) * 256 + a = n
  <1> DEFINE q == n \div 256
             r == n \div 65536
             s == n \div 16777216
  <1>0. n \in Nat /\ s < 256
    BY SMT, U32Is
  <1>1. a = n - 256 * q /\ q \in Nat /\ a \in Nat
    BY SMT, <1>0, DivMod
  <1>2. b = q - 256 * r /\ r \in Nat /\ b \in Nat
    <2>1. r = q \div 256 /\ b = q % 256
      BY SMT, <1>0, DivDiv
    <2> HIDE DEF q
    <2> QED BY SMT, <1>1, <2>1, DivMod
  <1>3. c = r - 256 * s /\ s \in Nat /\ c \in Nat
    <2>1. s = r \div 256 /\ c = r % 256
      BY SMT, <1>0, DivDiv
    <2> HIDE DEF r
    <2> QED BY SMT, <1>2, <2>1, DivMod
  <1>4. d = s
    <2>1. d = s % 256
      OBVIOUS
    <2> HIDE DEF s
    <2> QED BY SMT, <2>1, <1>0, <1>3
  <1> HIDE DEF q, r, s
  <1>5. ((s * 256 + c) * 256 + b) * 256 + a = n
    BY SMT, <1>0, <1>1, <1>2, <1>3, FourDigits
  <1> QED
    BY SMT, <1>4, <1>5

\* u32::from_be_bytes after to_be_bytes.
LEMMA WordRejoined ==
    ASSUME NEW n \in U32
    PROVE  ((Word(n)[1] * 256 + Word(n)[2]) * 256 + Word(n)[3]) * 256 + Word(n)[4] = n
  BY SMT, WordIs, Rejoined

\* The same, for a number anywhere in a sequence of bytes.
LEMMA WordAtWord ==
    ASSUME NEW n \in U32, NEW bytes, NEW i \in Nat,
           bytes[i] = Word(n)[1], bytes[i + 1] = Word(n)[2],
           bytes[i + 2] = Word(n)[3], bytes[i + 3] = Word(n)[4]
    PROVE  WordAt(bytes, i) = n
  BY SMT, WordRejoined DEF WordAt

\* Four bytes make a number of 32 bits.
LEMMA WordAtType ==
    ASSUME NEW bytes, NEW i \in Nat,
           bytes[i] \in Byte, bytes[i + 1] \in Byte, bytes[i + 2] \in Byte, bytes[i + 3] \in Byte
    PROVE  WordAt(bytes, i) \in U32
  <1> DEFINE a == bytes[i]
             b == bytes[i + 1]
             c == bytes[i + 2]
             d == bytes[i + 3]
             n == ((a * 256 + b) * 256 + c) * 256 + d
  <1>1. a \in 0 .. 255 /\ b \in 0 .. 255 /\ c \in 0 .. 255 /\ d \in 0 .. 255
    BY DEF Byte
  <1>2. n \in Nat /\ n < 256 * 16777216
    <2> HIDE DEF a, b, c, d
    <2> QED BY SMT, <1>1
  <1>3. n \div 16777216 < 256
    <2> HIDE DEF n
    <2> QED BY SMT, <1>2
  <1>4. WordAt(bytes, i) = n
    BY DEF WordAt
  <1> HIDE DEF n
  <1> QED
    BY SMT, <1>2, <1>3, <1>4, U32Is

-----------------------------------------------------------------------------
(* Bits in bytes.                                                          *)

BitOf(bits, k) == IF k <= Len(bits) /\ bits[k] THEN 1 ELSE 0

\* Eight bits make a byte, and each is had back.
Holding(x, c) == x \in 0 .. 255 /\ \A i \in 1 .. 8 : (x \div 2^(8 - i)) % 2 = c[i]

LEMMA EightBits ==
    ASSUME NEW c \in [1 .. 8 -> {0, 1}], NEW x,
           x = 128 * c[1] + 64 * c[2] + 32 * c[3] + 16 * c[4] + 8 * c[5] + 4 * c[6]
               + 2 * c[7] + c[8]
    PROVE  Holding(x, c)
  <1>0. /\ c[1] \in {0, 1} /\ c[2] \in {0, 1} /\ c[3] \in {0, 1} /\ c[4] \in {0, 1}
        /\ c[5] \in {0, 1} /\ c[6] \in {0, 1} /\ c[7] \in {0, 1} /\ c[8] \in {0, 1}
    OBVIOUS
  <1>1. x \in 0 .. 255
    BY <1>0
  <1>2. ASSUME NEW i \in 1 .. 8 PROVE (x \div 2^(8 - i)) % 2 = c[i]
    <2>1. CASE i = 1 BY <2>1, <1>0
    <2>2. CASE i = 2 BY <2>2, <1>0
    <2>3. CASE i = 3 BY <2>3, <1>0
    <2>4. CASE i = 4 BY <2>4, <1>0
    <2>5. CASE i = 5 BY <2>5, <1>0
    <2>6. CASE i = 6 BY <2>6, <1>0
    <2>7. CASE i = 7 BY <2>7, <1>0
    <2>8. CASE i = 8 BY <2>8, <1>0
    <2> QED BY <2>1, <2>2, <2>3, <2>4, <2>5, <2>6, <2>7, <2>8
  <1> QED
    BY <1>1, <1>2 DEF Holding

\* The bytes of a bitfield, and each bit in them.
LEMMA PackIs ==
    ASSUME NEW bits \in Seq(BOOLEAN)
    PROVE  /\ Pack(bits) \in Seq(Byte) /\ Len(Pack(bits)) = (Len(bits) + 7) \div 8
           /\ \A b \in 1 .. Len(Pack(bits)), i \in 1 .. 8 :
                 (Pack(bits)[b] \div 2^(8 - i)) % 2 = BitOf(bits, 8 * (b - 1) + i)
  <1> DEFINE L == (Len(bits) + 7) \div 8
             B(k) == BitOf(bits, k)
             Octet(k) == 128 * B(k + 1) + 64 * B(k + 2) + 32 * B(k + 3)
                         + 16 * B(k + 4) + 8 * B(k + 5) + 4 * B(k + 6)
                         + 2 * B(k + 7) + B(k + 8)
  <1>1. L \in Nat
    OBVIOUS
  <1>2. Pack(bits) = [b \in 1 .. L |-> Octet(8 * (b - 1))]
    BY DEF Pack, BitOf
  <1>3. ASSUME NEW k PROVE B(k) \in {0, 1}
    BY DEF BitOf
  <1> HIDE DEF B
  <1>4. ASSUME NEW b \in 1 .. L
        PROVE  /\ Octet(8 * (b - 1)) \in Byte
               /\ \A i \in 1 .. 8 :
                     (Octet(8 * (b - 1)) \div 2^(8 - i)) % 2 = B(8 * (b - 1) + i)
    <2> DEFINE k == 8 * (b - 1)
               x == Octet(k)
               c == [i \in 1 .. 8 |-> B(k + i)]
    <2>1. c \in [1 .. 8 -> {0, 1}]
      BY <1>3
    <2>2. x = 128 * c[1] + 64 * c[2] + 32 * c[3] + 16 * c[4] + 8 * c[5] + 4 * c[6]
              + 2 * c[7] + c[8]
      <3>1. /\ c[1] = B(k + 1) /\ c[2] = B(k + 2) /\ c[3] = B(k + 3) /\ c[4] = B(k + 4)
            /\ c[5] = B(k + 5) /\ c[6] = B(k + 6) /\ c[7] = B(k + 7) /\ c[8] = B(k + 8)
        <4> HIDE DEF k
        <4> QED OBVIOUS
      <3>2. x = 128 * B(k + 1) + 64 * B(k + 2) + 32 * B(k + 3) + 16 * B(k + 4)
                + 8 * B(k + 5) + 4 * B(k + 6) + 2 * B(k + 7) + B(k + 8)
        <4> HIDE DEF k
        <4> QED OBVIOUS
      <3>3. /\ B(k + 1) \in Int /\ B(k + 2) \in Int /\ B(k + 3) \in Int /\ B(k + 4) \in Int
            /\ B(k + 5) \in Int /\ B(k + 6) \in Int /\ B(k + 7) \in Int /\ B(k + 8) \in Int
        <4>1. ASSUME NEW j PROVE B(j) \in Int
          <5>1. B(j) \in {0, 1}
            BY <1>3
          <5> QED BY <5>1
        <4> HIDE DEF k
        <4> QED BY <4>1
      <3> HIDE DEF x, c, k
      <3> QED BY <3>1, <3>2, <3>3
    <2>3. x \in 0 .. 255 /\ \A i \in 1 .. 8 : (x \div 2^(8 - i)) % 2 = c[i]
      <3> HIDE DEF x, c
      <3>1. Holding(x, c)
        BY <2>1, <2>2, EightBits
      <3> QED BY <3>1 DEF Holding
    <2>4. \A i \in 1 .. 8 : (x \div 2^(8 - i)) % 2 = B(k + i)
      <3> HIDE DEF x
      <3> QED BY <2>3
    <2> QED BY <2>3, <2>4 DEF Byte
  <1> HIDE DEF Octet
  <1>5. /\ Pack(bits) \in Seq(Byte) /\ Len(Pack(bits)) = L
        /\ \A b \in 1 .. L : Pack(bits)[b] = Octet(8 * (b - 1))
    <2> HIDE DEF L
    <2> QED BY <1>1, <1>2, <1>4
  <1> QED
    BY <1>4, <1>5 DEF B

\* Place k of a sequence of bits, byte by byte.
LEMMA BitPlace ==
    ASSUME NEW L \in Nat, NEW k \in 1 .. 8 * L
    PROVE  /\ (k - 1) \div 8 + 1 \in 1 .. L /\ ((k - 1) % 8) + 1 \in 1 .. 8
           /\ 8 * ((k - 1) \div 8 + 1 - 1) + (((k - 1) % 8) + 1) = k
  OBVIOUS

\* A bitfield comes back in whole bytes.
LEMMA Unpacked ==
    ASSUME NEW bits \in Seq(BOOLEAN)
    PROVE  Unpack(Pack(bits)) =
               [k \in 1 .. 8 * ((Len(bits) + 7) \div 8) |-> k <= Len(bits) /\ bits[k]]
  <1> DEFINE L == (Len(bits) + 7) \div 8
             p == Pack(bits)
  <1>1. L \in Nat /\ Len(p) = L
    BY PackIs
  <1>2. ASSUME NEW k \in 1 .. 8 * L
        PROVE  ((p[(k - 1) \div 8 + 1] \div 2^(7 - ((k - 1) % 8))) % 2 = 1)
                  = (k <= Len(bits) /\ bits[k])
    <2> DEFINE b == (k - 1) \div 8 + 1
               i == ((k - 1) % 8) + 1
    <2>1. b \in 1 .. L /\ i \in 1 .. 8 /\ 8 * (b - 1) + i = k
      <3> HIDE DEF L
      <3> QED BY <1>1, BitPlace
    <2>2. 7 - ((k - 1) % 8) = 8 - i
      OBVIOUS
    <2> HIDE DEF b, i
    <2>3. (p[b] \div 2^(8 - i)) % 2 = BitOf(bits, k)
      <3> HIDE DEF L
      <3> QED BY <1>1, <2>1, PackIs
    <2> DEFINE y == (p[b] \div 2^(8 - i)) % 2
    <2>4. ((p[(k - 1) \div 8 + 1] \div 2^(7 - ((k - 1) % 8))) % 2) = y
      BY <2>2 DEF b
    <2> HIDE DEF y
    <2>5. (y = 1) = (k <= Len(bits) /\ bits[k])
      <3>1. y = BitOf(bits, k)
        BY <2>3 DEF y
      <3>2. k <= Len(bits) => bits[k] \in BOOLEAN
        <4> HIDE DEF L
        <4> QED BY <1>1
      <3> QED BY <3>1, <3>2 DEF BitOf
    <2> QED BY <2>4, <2>5
  <1> HIDE DEF L
  <1> QED
    BY <1>1, <1>2 DEF Unpack, L

-----------------------------------------------------------------------------
(* Messages as bytes, and back.                                            *)

\* The nine types, by their ids.
LEMMA TypeIs ==
    /\ Len(Type) = 9 /\ DOMAIN Type = 1 .. 9
    /\ Type[1] = "Choke" /\ Type[2] = "Unchoke" /\ Type[3] = "Interested"
    /\ Type[4] = "NotInterested" /\ Type[5] = "Have" /\ Type[6] = "Bitfield"
    /\ Type[7] = "Request" /\ Type[8] = "Piece" /\ Type[9] = "Cancel"
  BY DEF Type

LEMMA ShortestIs ==
    /\ Shortest[1] = 1 /\ Shortest[2] = 1 /\ Shortest[3] = 1 /\ Shortest[4] = 1
    /\ Shortest[5] = 5 /\ Shortest[6] = 1 /\ Shortest[7] = 13 /\ Shortest[8] = 9
    /\ Shortest[9] = 13
  BY DEF Shortest

\* The id of each type.
LEMMA IdIs == \A i \in 0 .. 8 : Id(Type[i + 1]) = i
  <1> SUFFICES ASSUME NEW i \in 0 .. 8 PROVE Id(Type[i + 1]) = i
    OBVIOUS
  <1>1. \A j \in 0 .. 8 : Type[j + 1] = Type[i + 1] => j = i
    <2> SUFFICES ASSUME NEW j \in 0 .. 8, j # i PROVE Type[j + 1] # Type[i + 1]
      OBVIOUS
    <2>1. \/ j = 0 \/ j = 1 \/ j = 2 \/ j = 3 \/ j = 4 \/ j = 5 \/ j = 6 \/ j = 7 \/ j = 8
      OBVIOUS
    <2>2. \/ i = 0 \/ i = 1 \/ i = 2 \/ i = 3 \/ i = 4 \/ i = 5 \/ i = 6 \/ i = 7 \/ i = 8
      OBVIOUS
    <2> QED
      BY <2>1, <2>2, TypeIs
  <1> DEFINE t == Type[i + 1]
  <1>2. Id(t) = CHOOSE id \in 0 .. 8 : Type[id + 1] = t
    BY TypeIs DEF Id
  <1>3. \E id \in 0 .. 8 : Type[id + 1] = t
    OBVIOUS
  <1> HIDE DEF t
  <1>4. Id(t) \in 0 .. 8 /\ Type[Id(t) + 1] = t
    BY <1>2, <1>3
  <1> QED
    BY <1>1, <1>4 DEF t

\* What a type's id is.
LEMMA IdOf ==
    /\ Id("Choke") = 0 /\ Id("Unchoke") = 1 /\ Id("Interested") = 2
    /\ Id("NotInterested") = 3 /\ Id("Have") = 4 /\ Id("Bitfield") = 5
    /\ Id("Request") = 6 /\ Id("Piece") = 7 /\ Id("Cancel") = 8
  <1>1. /\ Id(Type[0 + 1]) = 0 /\ Id(Type[1 + 1]) = 1 /\ Id(Type[2 + 1]) = 2
        /\ Id(Type[3 + 1]) = 3 /\ Id(Type[4 + 1]) = 4 /\ Id(Type[5 + 1]) = 5
        /\ Id(Type[6 + 1]) = 6 /\ Id(Type[7 + 1]) = 7 /\ Id(Type[8 + 1]) = 8
    BY IdIs
  <1> QED
    BY <1>1, TypeIs

\* What from_bytes makes of a body, by its first byte.
LEMMA ParsedAs ==
    ASSUME NEW body, body[1] \in 0 .. 8
    PROVE  /\ body[1] = 4 => FromBytes(body) = [type |-> "Have", index |-> WordAt(body, 2)]
           /\ body[1] = 5 =>
                  FromBytes(body) = [type |-> "Bitfield", bits |-> Unpack(Tail(body))]
           /\ body[1] = 6 =>
                  FromBytes(body) = [type |-> "Request", index |-> WordAt(body, 2),
                                     begin |-> WordAt(body, 6), length |-> WordAt(body, 10)]
           /\ body[1] = 8 =>
                  FromBytes(body) = [type |-> "Cancel", index |-> WordAt(body, 2),
                                     begin |-> WordAt(body, 6), length |-> WordAt(body, 10)]
           /\ body[1] = 7 =>
                  FromBytes(body) = [type |-> "Piece", index |-> WordAt(body, 2),
                                     begin |-> WordAt(body, 6),
                                     bytes |-> SubSeq(body, 10, Len(body))]
           /\ body[1] \in 0 .. 3 => FromBytes(body) = [type |-> Type[body[1] + 1]]
  <1>1. CASE body[1] = 4
    BY <1>1, TypeIs DEF FromBytes
  <1>2. CASE body[1] = 5
    BY <1>2, TypeIs DEF FromBytes
  <1>3. CASE body[1] = 6
    <2>1. Type[body[1] + 1] = "Request"
      BY <1>3, TypeIs
    <2> QED
      BY <1>3, <2>1 DEF FromBytes
  <1>4. CASE body[1] = 7
    <2>1. Type[body[1] + 1] = "Piece"
      BY <1>4, TypeIs
    <2> QED
      BY <1>4, <2>1 DEF FromBytes
  <1>5. CASE body[1] = 8
    <2>1. Type[body[1] + 1] = "Cancel"
      BY <1>5, TypeIs
    <2> QED
      BY <1>5, <2>1 DEF FromBytes
  <1>6. CASE body[1] \in 0 .. 3
    <2>1. Type[body[1] + 1] \in {"Choke", "Unchoke", "Interested", "NotInterested"}
      BY <1>6, TypeIs
    <2> QED
      BY <1>6, <2>1 DEF FromBytes
  <1> QED
    BY <1>1, <1>2, <1>3, <1>4, <1>5, <1>6

LEMMA U32Small == 0 .. 255 \subseteq U32
  BY SMT, U32Is

\* The forms of a message.
LEMMA Forms ==
    /\ \A t \in {"Choke", "Unchoke", "Interested", "NotInterested"} : [type |-> t] \in PeerMessage
    /\ \A i \in U32 : [type |-> "Have", index |-> i] \in PeerMessage
    /\ \A s \in Seq(BOOLEAN) : 1 + (Len(s) + 7) \div 8 \in U32 =>
           [type |-> "Bitfield", bits |-> s] \in PeerMessage
    /\ \A t \in {"Request", "Cancel"}, i, b, l \in U32 :
           [type |-> t, index |-> i, begin |-> b, length |-> l] \in PeerMessage
    /\ \A i, b \in U32, s \in Seq(Byte) : 9 + Len(s) \in U32 =>
           [type |-> "Piece", index |-> i, begin |-> b, bytes |-> s] \in PeerMessage
  <1>1. \A t \in {"Choke", "Unchoke", "Interested", "NotInterested"} :
            [type |-> t] \in PeerMessage
    BY DEF PeerMessage
  <1>2. \A i \in U32 : [type |-> "Have", index |-> i] \in PeerMessage
    BY DEF PeerMessage
  <1>3. \A s \in Seq(BOOLEAN) : 1 + (Len(s) + 7) \div 8 \in U32 =>
           [type |-> "Bitfield", bits |-> s] \in PeerMessage
    BY DEF PeerMessage
  <1>4. \A t \in {"Request", "Cancel"}, i, b, l \in U32 :
           [type |-> t, index |-> i, begin |-> b, length |-> l] \in PeerMessage
    BY DEF PeerMessage
  <1>5. \A i, b \in U32, s \in Seq(Byte) : 9 + Len(s) \in U32 =>
           [type |-> "Piece", index |-> i, begin |-> b, bytes |-> s] \in PeerMessage
    BY DEF PeerMessage
  <1> QED
    BY <1>1, <1>2, <1>3, <1>4, <1>5

\* A body that parses is some message.
LEMMA ParsedType ==
    ASSUME NEW body \in Seq(Byte), Len(body) \in U32, Parses(body)
    PROVE  FromBytes(body) \in PeerMessage
  <1> DEFINE id == body[1]
             n == Len(body)
  <1>1. id \in 0 .. 8 /\ n >= Shortest[id + 1] /\ n \in Nat /\ n >= 1
    <2>1. body # <<>> /\ id < 9 /\ n >= Shortest[id + 1]
      BY TypeIs DEF Parses
    <2>2. n \in Nat /\ n >= 1
      BY <2>1
    <2>3. id \in 0 .. 255
      <3>1. id \in Byte
        BY <2>2
      <3> QED BY <3>1 DEF Byte
    <2>4. id \in 0 .. 8
      <3> HIDE DEF id
      <3> QED BY <2>1, <2>3
    <2> QED
      BY <2>1, <2>2, <2>4
  <1>2. \A i \in Nat : i >= 1 /\ i + 3 <= n => WordAt(body, i) \in U32
    <2> SUFFICES ASSUME NEW i \in Nat, i >= 1, i + 3 <= n PROVE WordAt(body, i) \in U32
      OBVIOUS
    <2>1. body[i] \in Byte /\ body[i + 1] \in Byte /\ body[i + 2] \in Byte /\ body[i + 3] \in Byte
      OBVIOUS
    <2> QED
      BY <2>1, WordAtType
  <1>3. CASE id = 4
    <2>1. WordAt(body, 2) \in U32
      BY <1>1, <1>2, <1>3, ShortestIs
    <2> QED
      BY <1>3, <2>1, ParsedAs, Forms
  <1>4. CASE id = 5
    <2> DEFINE t == Tail(body)
               u == Unpack(t)
               L == Len(t)
               set(k) == (t[(k - 1) \div 8 + 1] \div 2^(7 - ((k - 1) % 8))) % 2 = 1
    <2>1. L = n - 1 /\ L \in Nat
      BY <1>1
    <2>2. u = [k \in 1 .. 8 * L |-> set(k)]
      BY DEF Unpack
    <2>3. u \in Seq(BOOLEAN) /\ Len(u) = 8 * L
      <3>1. \A k : set(k) \in BOOLEAN
        OBVIOUS
      <3>2. 8 * L \in Nat
        BY <2>1
      <3> DEFINE N == 8 * L
      <3> HIDE DEF set, u, N
      <3>3. u = [k \in 1 .. N |-> set(k)]
        BY <2>2 DEF N
      <3>4. u \in [1 .. N -> BOOLEAN]
        BY <3>1, <3>3
      <3> QED BY <3>2, <3>4 DEF N
    <2>4. 1 + (Len(u) + 7) \div 8 = n
      <3> HIDE DEF u, L, n
      <3> QED BY <1>1, <2>1, <2>3
    <2>5. FromBytes(body) = [type |-> "Bitfield", bits |-> u]
      BY <1>4, ParsedAs
    <2> HIDE DEF u
    <2> QED
      BY <2>3, <2>4, <2>5, Forms
  <1>5. CASE id \in {6, 8}
    <2>0. n >= 13
      BY <1>1, <1>5, ShortestIs
    <2>1. WordAt(body, 2) \in U32 /\ WordAt(body, 6) \in U32 /\ WordAt(body, 10) \in U32
      <3> HIDE DEF n
      <3>1. 2 + 3 <= n /\ 6 + 3 <= n /\ 10 + 3 <= n
        BY <1>1, <2>0
      <3> QED BY <1>2, <3>1
    <2>2. "Request" \in {"Request", "Cancel"} /\ "Cancel" \in {"Request", "Cancel"}
      OBVIOUS
    <2>3. CASE id = 6
      BY <1>1, <2>1, <2>2, <2>3, ParsedAs, Forms
    <2>4. CASE id = 8
      BY <1>1, <2>1, <2>2, <2>4, ParsedAs, Forms
    <2> QED
      BY <1>5, <2>3, <2>4
  <1>6. CASE id = 7
    <2> DEFINE b == SubSeq(body, 10, n)
    <2>0. n >= 9
      BY <1>1, <1>6, ShortestIs
    <2>1. WordAt(body, 2) \in U32 /\ WordAt(body, 6) \in U32
      <3> HIDE DEF n
      <3>1. 2 + 3 <= n /\ 6 + 3 <= n
        BY <1>1, <2>0
      <3> QED BY <1>2, <3>1
    <2>2. b \in Seq(Byte) /\ 9 + Len(b) = n
      <3>1. 10 \in Nat \ {0} /\ 10 <= n + 1 /\ n <= n
        BY <1>1, <2>0
      <3>2. b \in Seq(Byte) /\ Sliced(b, body, 10, n)
        <4> HIDE DEF n
        <4> QED BY <1>1, <3>1, Slice DEF n
      <3> QED BY <1>1, <3>2 DEF Sliced
    <2>3. FromBytes(body) = [type |-> "Piece", index |-> WordAt(body, 2),
                             begin |-> WordAt(body, 6), bytes |-> b]
      BY <1>6, ParsedAs
    <2> HIDE DEF b
    <2> QED
      BY <2>1, <2>2, <2>3, Forms
  <1>7. CASE id \in 0 .. 3
    <2>1. Type[id + 1] \in {"Choke", "Unchoke", "Interested", "NotInterested"}
      BY <1>7, TypeIs
    <2> QED
      BY <1>1, <1>7, <2>1, ParsedAs, Forms
  <1> QED
    BY <1>1, <1>3, <1>4, <1>5, <1>6, <1>7

\* A body that begins with one or two words, or, with the last as s, three.
OneWord(body, id, a) ==
    /\ body \in Seq(Byte) /\ Len(body) = 5 /\ body[1] = id
    /\ body[2] = a[1] /\ body[3] = a[2] /\ body[4] = a[3] /\ body[5] = a[4]
TwoWords(body, id, a, b, s) ==
    /\ body \in Seq(Byte) /\ Len(body) = 9 + Len(s) /\ body[1] = id
    /\ body[2] = a[1] /\ body[3] = a[2] /\ body[4] = a[3] /\ body[5] = a[4]
    /\ body[6] = b[1] /\ body[7] = b[2] /\ body[8] = b[3] /\ body[9] = b[4]
    /\ \A k \in 1 .. Len(s) : body[9 + k] = s[k]

\* Two and three numbers in a row.
LEMMA WordsIn ==
    ASSUME NEW id \in Byte, NEW w \in [1 .. 3 -> Seq(Byte)], NEW s \in Seq(Byte),
           \A i \in 1 .. 3 : Len(w[i]) = 4
    PROVE  /\ OneWord(<<id>> \o w[1], id, w[1])
           /\ TwoWords(<<id>> \o (w[1] \o w[2] \o s), id, w[1], w[2], s)
  <1> DEFINE a == w[1]
             b == w[2]
             ab == a \o b
             t == ab \o s
             body == <<id>> \o t
             one == <<id>> \o a
  <1>1. /\ a \in Seq(Byte) /\ b \in Seq(Byte) /\ Len(a) = 4 /\ Len(b) = 4 /\ Len(s) \in Nat
    OBVIOUS
  <1>2. one \in Seq(Byte) /\ Headed(one, id, a)
    <2> HIDE DEF a
    <2> QED BY <1>1, HeadFirst
  <1>3. ab \in Seq(Byte) /\ Glued(ab, a, b)
    <2> HIDE DEF a, b
    <2> QED BY <1>1, Joint
  <1>4. t \in Seq(Byte) /\ Glued(t, ab, s)
    <2> HIDE DEF ab
    <2> QED BY <1>3, Joint
  <1>5. body \in Seq(Byte) /\ Headed(body, id, t)
    <2> HIDE DEF t
    <2> QED BY <1>4, HeadFirst
  <1> HIDE DEF a, b, ab, t, body, one
  <1>6. /\ one[1 + 1] = a[1] /\ one[1 + 2] = a[2] /\ one[1 + 3] = a[3] /\ one[1 + 4] = a[4]
    BY <1>1, <1>2 DEF Headed
  <1>7. /\ body[1 + 1] = t[1] /\ body[1 + 2] = t[2] /\ body[1 + 3] = t[3] /\ body[1 + 4] = t[4]
        /\ body[1 + 5] = t[5] /\ body[1 + 6] = t[6] /\ body[1 + 7] = t[7] /\ body[1 + 8] = t[8]
    <2>1. Len(t) >= 8
      BY <1>1, <1>3, <1>4 DEF Glued
    <2> QED BY <1>5, <2>1 DEF Headed
  <1>8. /\ t[1] = a[1] /\ t[2] = a[2] /\ t[3] = a[3] /\ t[4] = a[4]
        /\ t[5] = b[1] /\ t[6] = b[2] /\ t[7] = b[3] /\ t[8] = b[4]
    <2>1. /\ t[1] = ab[1] /\ t[2] = ab[2] /\ t[3] = ab[3] /\ t[4] = ab[4]
          /\ t[4 + 1] = ab[4 + 1] /\ t[4 + 2] = ab[4 + 2] /\ t[4 + 3] = ab[4 + 3]
          /\ t[4 + 4] = ab[4 + 4]
      <3>1. Len(ab) = 8
        BY <1>1, <1>3 DEF Glued
      <3> QED BY <1>4, <3>1 DEF Glued
    <2>2. /\ ab[1] = a[1] /\ ab[2] = a[2] /\ ab[3] = a[3] /\ ab[4] = a[4]
          /\ ab[4 + 1] = b[1] /\ ab[4 + 2] = b[2] /\ ab[4 + 3] = b[3] /\ ab[4 + 4] = b[4]
      BY <1>1, <1>3 DEF Glued
    <2> QED BY <2>1, <2>2
  <1>9. ASSUME NEW k \in 1 .. Len(s) PROVE body[9 + k] = s[k]
    <2>0. Len(ab) = 8
      BY <1>1, <1>3 DEF Glued
    <2>1. 8 + k \in 1 .. Len(t) /\ 1 + (8 + k) = 9 + k /\ t[8 + k] = s[k]
      BY <1>1, <1>4, <2>0 DEF Glued
    <2>2. body[1 + (8 + k)] = t[8 + k]
      BY <1>5, <2>1 DEF Headed
    <2> QED BY <2>1, <2>2
  <1>10. Len(body) = 9 + Len(s) /\ Len(one) = 5
    BY <1>1, <1>2, <1>3, <1>4, <1>5 DEF Headed, Glued
  <1>11. /\ one[2] = a[1] /\ one[3] = a[2] /\ one[4] = a[3] /\ one[5] = a[4]
    BY <1>6
  <1>12. /\ body[2] = a[1] /\ body[3] = a[2] /\ body[4] = a[3] /\ body[5] = a[4]
         /\ body[6] = b[1] /\ body[7] = b[2] /\ body[8] = b[3] /\ body[9] = b[4]
    BY <1>7, <1>8
  <1>13. body[1] = id /\ one[1] = id
    BY <1>2, <1>5 DEF Headed
  <1> QED
    BY <1>13, <1>2, <1>5, <1>9, <1>10, <1>11, <1>12 DEF OneWord, TwoWords, a, b, ab, t, body, one

\* What follows the length in the frame of a message.
Body(m) ==
    <<Id(m.type)>> \o
        CASE m.type = "Have" -> Word(m.index)
          [] m.type = "Bitfield" -> Pack(m.bits)
          [] m.type \in {"Request", "Cancel"} ->
                 Word(m.index) \o Word(m.begin) \o Word(m.length)
          [] m.type = "Piece" -> Word(m.index) \o Word(m.begin) \o m.bytes
          [] OTHER -> <<>>

\* as_bytes and from_bytes agree: a message is had back from its body.
IsBody(body, m) ==
    /\ body \in Seq(Byte) /\ Len(body) \in U32 /\ body # <<>>
    /\ Parses(body) /\ FromBytes(body) = Meaning(m)

\* The body of a message without fields is its id.
LEMMA BareBody ==
    ASSUME NEW m \in [type : {"Choke", "Unchoke", "Interested", "NotInterested"}]
    PROVE  IsBody(Body(m), m)
  <1>1. PICK i \in 0 .. 3 : m.type = Type[i + 1]
    <2>1. /\ Type[0 + 1] = "Choke" /\ Type[1 + 1] = "Unchoke" /\ Type[2 + 1] = "Interested"
          /\ Type[3 + 1] = "NotInterested"
      BY TypeIs
    <2>2. m.type \in {"Choke", "Unchoke", "Interested", "NotInterested"}
      OBVIOUS
    <2> QED BY <2>1, <2>2
  <1> DEFINE z == <<>>
             body == <<i>> \o z
  <1>2. Body(m) = body
    <2>1. Id(m.type) = i
      BY <1>1, IdIs
    <2>2. m.type \in {"Choke", "Unchoke", "Interested", "NotInterested"}
      OBVIOUS
    <2> QED BY <2>1, <2>2 DEF Body
  <1>3. body \in Seq(Byte) /\ Headed(body, i, z) /\ Len(z) = 0
    <2>1. i \in Byte /\ z \in Seq(Byte) /\ Len(z) = 0
      BY DEF Byte
    <2> HIDE DEF z
    <2> QED BY <2>1, HeadFirst
  <1>4. Len(body) = 1 /\ body[1] = i
    <2> HIDE DEF body, z
    <2>1. Len(body) = 1 + Len(z) /\ body[1] = i
      BY <1>3 DEF Headed
    <2> QED BY <1>3, <2>1
  <1> HIDE DEF body
  <1>5. Parses(body)
    <2>1. body # <<>>
      <3>1. Len(<<>>) = 0
        OBVIOUS
      <3> QED BY <1>4, <3>1
    <2>2. i = 0 \/ i = 1 \/ i = 2 \/ i = 3
      OBVIOUS
    <2>3. Shortest[i + 1] = 1
      BY <2>2, ShortestIs
    <2> QED BY <1>4, <2>1, <2>3, TypeIs DEF Parses
  <1>6. FromBytes(body) = Meaning(m)
    <2>1. m.type # "Bitfield" /\ m = [type |-> m.type]
      OBVIOUS
    <2>2. FromBytes(body) = [type |-> Type[i + 1]]
      BY <1>4, ParsedAs
    <2>3. Meaning(m) = m
      BY <2>1 DEF Meaning
    <2> QED BY <1>1, <2>1, <2>2, <2>3
  <1>7. Len(body) \in U32 /\ body # <<>>
    <2>1. 1 \in U32
      BY U32Small
    <2> QED BY <1>3, <1>4, <2>1
  <1> QED
    BY <1>2, <1>3, <1>5, <1>6, <1>7 DEF IsBody

\* The body of a Have.
LEMMA HaveBody ==
    ASSUME NEW m \in [type : {"Have"}, index : U32]
    PROVE  IsBody(Body(m), m)
  <1> DEFINE w == [k \in 1 .. 3 |-> Word(m.index)]
             one == <<4>> \o w[1]
             z == <<>>
  <1>1. Body(m) = one
    BY IdOf DEF Body
  <1>2. /\ 4 \in Byte /\ w \in [1 .. 3 -> Seq(Byte)] /\ \A k \in 1 .. 3 : Len(w[k]) = 4
        /\ z \in Seq(Byte)
    <2>1. Word(m.index) \in Seq(Byte) /\ Len(Word(m.index)) = 4
      BY WordIs
    <2> QED BY <2>1 DEF Byte
  <1>3. OneWord(one, 4, w[1])
    <2> HIDE DEF w, z
    <2> QED BY <1>2, WordsIn
  <1>4. w[1] = Word(m.index) /\ m.index \in U32
    OBVIOUS
  <1> HIDE DEF w, one
  <1>5. WordAt(one, 2) = m.index
    <2>1. one[2 + 1] = w[1][2] /\ one[2 + 2] = w[1][3] /\ one[2 + 3] = w[1][4]
      BY <1>3 DEF OneWord
    <2> QED BY <1>3, <1>4, <2>1, WordAtWord DEF OneWord
  <1>6. Parses(one)
    <2>1. one # <<>> /\ one[1] = 4 /\ Len(one) = 5
      BY <1>3 DEF OneWord
    <2>2. Shortest[4 + 1] = 5
      BY ShortestIs
    <2> QED BY <2>1, <2>2, TypeIs DEF Parses
  <1>7. FromBytes(one) = Meaning(m)
    <2>1. m.type # "Bitfield" /\ m = [type |-> "Have", index |-> m.index]
      OBVIOUS
    <2>2. FromBytes(one) = [type |-> "Have", index |-> m.index]
      BY <1>3, <1>5, ParsedAs DEF OneWord
    <2>3. Meaning(m) = m
      BY <2>1 DEF Meaning
    <2> QED BY <2>1, <2>2, <2>3
  <1>8. one \in Seq(Byte) /\ Len(one) \in U32 /\ one # <<>>
    <2>1. 5 \in U32
      BY U32Small
    <2>2. one \in Seq(Byte) /\ Len(one) = 5
      BY <1>3 DEF OneWord
    <2>3. one # <<>>
      BY <2>2
    <2> QED BY <2>1, <2>2, <2>3
  <1> QED
    BY <1>1, <1>6, <1>7, <1>8 DEF IsBody

\* The body of a Bitfield: bits come back, and more up to the byte's end.
LEMMA BitfieldBody ==
    ASSUME NEW m \in [type : {"Bitfield"}, bits : Seq(BOOLEAN)],
           1 + (Len(m.bits) + 7) \div 8 \in U32
    PROVE  IsBody(Body(m), m)
  <1> DEFINE p == Pack(m.bits)
             body == <<5>> \o p
  <1>0. m.bits \in Seq(BOOLEAN) /\ m.type = "Bitfield"
    OBVIOUS
  <1>1. Body(m) = body
    BY IdOf DEF Body
  <1>2. p \in Seq(Byte) /\ Len(p) = (Len(m.bits) + 7) \div 8
    BY <1>0, PackIs
  <1>3. body \in Seq(Byte) /\ Tail(body) = p /\ Headed(body, 5, p)
    <2>1. 5 \in Byte
      BY DEF Byte
    <2> HIDE DEF p
    <2> QED BY <1>2, <2>1, HeadFirst
  <1>4. Len(body) = 1 + (Len(m.bits) + 7) \div 8 /\ body[1] = 5 /\ Len(body) >= 1
    <2> HIDE DEF p, body
    <2> QED BY <1>2, <1>3 DEF Headed
  <1> HIDE DEF body
  <1>5. Parses(body)
    <2>1. body # <<>>
      BY <1>4
    <2>2. Shortest[5 + 1] = 1
      BY ShortestIs
    <2> QED BY <1>4, <2>1, <2>2, TypeIs DEF Parses
  <1>6. FromBytes(body) = Meaning(m)
    <2>0. FromBytes(body) = [type |-> "Bitfield", bits |-> Unpack(Tail(body))]
      BY <1>4, ParsedAs
    <2>1. FromBytes(body) = [type |-> "Bitfield", bits |-> Unpack(p)]
      BY <1>3, <2>0
    <2>2. Unpack(p) = [k \in 1 .. 8 * ((Len(m.bits) + 7) \div 8) |->
                          k <= Len(m.bits) /\ m.bits[k]]
      BY <1>0, Unpacked
    <2> HIDE DEF p
    <2> QED BY <1>0, <2>1, <2>2 DEF Meaning
  <1>7. Len(body) \in U32 /\ body # <<>>
    BY <1>4
  <1> QED
    BY <1>1, <1>3, <1>5, <1>6, <1>7 DEF IsBody

\* The body of a Piece: its bytes are what is left of the frame.
LEMMA PieceBody ==
    ASSUME NEW m \in [type : {"Piece"}, index : U32, begin : U32, bytes : Seq(Byte)],
           9 + Len(m.bytes) \in U32
    PROVE  IsBody(Body(m), m)
  <1> DEFINE w == [k \in 1 .. 3 |-> IF k = 1 THEN Word(m.index) ELSE Word(m.begin)]
             s == m.bytes
             body == <<7>> \o (w[1] \o w[2] \o s)
             n == Len(body)
  <1>0. /\ w[1] = Word(m.index) /\ w[2] = Word(m.begin) /\ m.index \in U32 /\ m.begin \in U32
        /\ s \in Seq(Byte) /\ Len(s) \in Nat /\ m.type = "Piece"
    OBVIOUS
  <1>1. Body(m) = body
    BY <1>0, IdOf DEF Body
  <1>2. /\ 7 \in Byte /\ w \in [1 .. 3 -> Seq(Byte)] /\ \A k \in 1 .. 3 : Len(w[k]) = 4
    <2>1. /\ Word(m.index) \in Seq(Byte) /\ Len(Word(m.index)) = 4
          /\ Word(m.begin) \in Seq(Byte) /\ Len(Word(m.begin)) = 4
      BY WordIs
    <2> QED BY <2>1 DEF Byte
  <1>3. TwoWords(body, 7, w[1], w[2], s)
    <2> HIDE DEF w, s
    <2> QED BY <1>0, <1>2, WordsIn
  <1> HIDE DEF w, body
  <1>4. body \in Seq(Byte) /\ n = 9 + Len(s) /\ body[1] = 7 /\ body # <<>>
    BY <1>0, <1>3 DEF TwoWords
  <1>5. WordAt(body, 2) = m.index
    <2>1. body[2] = w[1][1] /\ body[2 + 1] = w[1][2] /\ body[2 + 2] = w[1][3]
          /\ body[2 + 3] = w[1][4]
      BY <1>3 DEF TwoWords
    <2> QED BY <1>0, <2>1, WordAtWord
  <1>6. WordAt(body, 6) = m.begin
    <2>1. body[6] = w[2][1] /\ body[6 + 1] = w[2][2] /\ body[6 + 2] = w[2][3]
          /\ body[6 + 3] = w[2][4]
      BY <1>3 DEF TwoWords
    <2> QED BY <1>0, <2>1, WordAtWord
  <1>7. SubSeq(body, 10, n) = s
    <2> DEFINE r == SubSeq(body, 10, n)
    <2>1. 10 \in Nat \ {0} /\ n \in Nat /\ 10 <= n + 1 /\ n <= n
      BY <1>0, <1>4
    <2>2. r \in Seq(Byte) /\ Sliced(r, body, 10, n)
      <3> HIDE DEF s
      <3> QED BY <1>4, <2>1, Slice
    <2>3. Len(r) = Len(s) /\ \A k \in 1 .. Len(s) : r[k] = body[9 + k]
      <3>1. n + 1 - 10 = Len(s) /\ \A k \in 1 .. Len(s) : 10 - 1 + k = 9 + k
        <4> HIDE DEF n
        <4> QED BY <1>0, <1>4
      <3> HIDE DEF r, s, n
      <3> QED BY <2>2, <3>1 DEF Sliced
    <2>4. \A k \in 1 .. Len(s) : body[9 + k] = s[k]
      BY <1>3 DEF TwoWords
    <2>5. \A k \in 1 .. Len(r) : r[k] = s[k]
      <3> HIDE DEF r, s
      <3> QED BY <2>3, <2>4
    <2>6. r = s
      <3> HIDE DEF r, s
      <3> QED BY <1>0, <2>2, <2>3, <2>5, SameSeq
    <2> QED BY <2>6
  <1>8. Parses(body)
    <2>1. Shortest[7 + 1] = 9
      BY ShortestIs
    <2>2. n >= 9
      BY <1>0, <1>4
    <2> QED BY <1>4, <2>1, <2>2, TypeIs DEF Parses
  <1>9. FromBytes(body) = Meaning(m)
    <2>1. Meaning(m) = m
      BY <1>0 DEF Meaning
    <2>2. m = [type |-> "Piece", index |-> m.index, begin |-> m.begin, bytes |-> s]
      OBVIOUS
    <2>3. FromBytes(body) = [type |-> "Piece", index |-> WordAt(body, 2),
                             begin |-> WordAt(body, 6), bytes |-> SubSeq(body, 10, n)]
      BY <1>4, ParsedAs
    <2> QED BY <1>5, <1>6, <1>7, <2>1, <2>2, <2>3
  <1>10. n \in U32
    BY <1>4
  <1> QED
    BY <1>1, <1>4, <1>8, <1>9, <1>10 DEF IsBody

\* The body of a Request or a Cancel.
LEMMA RequestBody ==
    ASSUME NEW m \in [type : {"Request", "Cancel"}, index : U32, begin : U32, length : U32]
    PROVE  IsBody(Body(m), m)
  <1> DEFINE id == IF m.type = "Request" THEN 6 ELSE 8
             w == [k \in 1 .. 3 |-> IF k = 1 THEN Word(m.index) ELSE Word(m.begin)]
             s == Word(m.length)
             body == <<id>> \o (w[1] \o w[2] \o s)
             n == Len(body)
  <1>0. /\ w[1] = Word(m.index) /\ w[2] = Word(m.begin)
        /\ m.index \in U32 /\ m.begin \in U32 /\ m.length \in U32
        /\ m.type \in {"Request", "Cancel"}
    OBVIOUS
  <1>1. Body(m) = body
    <2>1. Id(m.type) = id
      BY <1>0, IdOf
    <2> QED BY <1>0, <2>1 DEF Body
  <1>2. /\ id \in Byte /\ w \in [1 .. 3 -> Seq(Byte)] /\ \A k \in 1 .. 3 : Len(w[k]) = 4
        /\ s \in Seq(Byte) /\ Len(s) = 4
    <2>1. /\ Word(m.index) \in Seq(Byte) /\ Len(Word(m.index)) = 4
          /\ Word(m.begin) \in Seq(Byte) /\ Len(Word(m.begin)) = 4
          /\ Word(m.length) \in Seq(Byte) /\ Len(Word(m.length)) = 4
      BY WordIs
    <2> QED BY <2>1 DEF Byte
  <1>3. TwoWords(body, id, w[1], w[2], s)
    <2> HIDE DEF w, s, id
    <2> QED BY <1>2, WordsIn
  <1> HIDE DEF w, body, s
  <1>4. body \in Seq(Byte) /\ n = 13 /\ body[1] = id /\ body # <<>>
    BY <1>2, <1>3 DEF TwoWords
  <1>5. WordAt(body, 2) = m.index
    <2>1. body[2] = w[1][1] /\ body[2 + 1] = w[1][2] /\ body[2 + 2] = w[1][3]
          /\ body[2 + 3] = w[1][4]
      BY <1>3 DEF TwoWords
    <2> QED BY <1>0, <2>1, WordAtWord
  <1>6. WordAt(body, 6) = m.begin
    <2>1. body[6] = w[2][1] /\ body[6 + 1] = w[2][2] /\ body[6 + 2] = w[2][3]
          /\ body[6 + 3] = w[2][4]
      BY <1>3 DEF TwoWords
    <2> QED BY <1>0, <2>1, WordAtWord
  <1>7. WordAt(body, 10) = m.length
    <2>1. body[9 + 1] = s[1] /\ body[9 + 2] = s[2] /\ body[9 + 3] = s[3] /\ body[9 + 4] = s[4]
      BY <1>2, <1>3 DEF TwoWords
    <2>2. body[10] = s[1] /\ body[10 + 1] = s[2] /\ body[10 + 2] = s[3] /\ body[10 + 3] = s[4]
      BY <2>1
    <2> QED BY <1>0, <2>2, WordAtWord DEF s
  <1>8. Parses(body)
    <2>1. Shortest[6 + 1] = 13 /\ Shortest[8 + 1] = 13
      BY ShortestIs
    <2> QED BY <1>4, <2>1, TypeIs DEF Parses
  <1>9. FromBytes(body) = Meaning(m)
    <2>1. Meaning(m) = m
      BY <1>0 DEF Meaning
    <2>2. m = [type |-> m.type, index |-> m.index, begin |-> m.begin, length |-> m.length]
      OBVIOUS
    <2>3. FromBytes(body) = [type |-> m.type, index |-> WordAt(body, 2),
                             begin |-> WordAt(body, 6), length |-> WordAt(body, 10)]
      <3>1. CASE m.type = "Request"
        BY <1>4, <3>1, ParsedAs
      <3>2. CASE m.type = "Cancel"
        BY <1>4, <3>2, ParsedAs
      <3> QED BY <1>0, <3>1, <3>2
    <2> QED BY <1>5, <1>6, <1>7, <2>1, <2>2, <2>3
  <1>10. n \in U32
    <2>1. 13 \in U32
      BY U32Small
    <2> QED BY <1>4, <2>1
  <1> QED
    BY <1>1, <1>4, <1>8, <1>9, <1>10 DEF IsBody

\* from_bytes after as_bytes gives the message, for each that peers of this program send.
LEMMA BodyIs ==
    ASSUME NEW m \in PeerMessage
    PROVE  IsBody(Body(m), m)
  BY BareBody, HaveBody, BitfieldBody, RequestBody, PieceBody DEF PeerMessage

\* What a message means for this client is one of its messages.
LEMMA MeaningType ==
    ASSUME NEW m \in PeerMessage
    PROVE  Meaning(m) \in PeerMessage
  <1>1. IsBody(Body(m), m)
    BY BodyIs
  <1> QED
    BY <1>1, ParsedType DEF IsBody

-----------------------------------------------------------------------------
(* Frames, and the bytes of many.                                          *)

AnyFrame == PeerMessage \cup {KeepAlive, Unknown}
Rest(m) ==
    IF m = KeepAlive THEN <<>> ELSE IF m = Unknown THEN <<20, 0>> ELSE Body(m)

\* Frames of other clients are not messages of this program.
LEMMA NoMessage == KeepAlive \notin PeerMessage /\ Unknown \notin PeerMessage /\ KeepAlive # Unknown
  <1>1. \A m \in PeerMessage : m.type \in {"Choke", "Unchoke", "Interested", "NotInterested",
                                           "Have", "Bitfield", "Request", "Cancel", "Piece"}
    BY DEF PeerMessage
  <1>2. KeepAlive.type = "KeepAlive" /\ Unknown.type = "Unknown"
    BY DEF KeepAlive, Unknown
  <1> QED
    BY <1>1, <1>2

\* A frame is a length of four bytes, and as many bytes.
IsFrame(f, m) ==
    /\ Rest(m) \in Seq(Byte) /\ Len(Rest(m)) \in U32
    /\ f \in Seq(Byte) /\ Len(f) = 4 + Len(Rest(m))
    /\ WordAt(f, 1) = Len(Rest(m))
    /\ \A k \in 1 .. Len(Rest(m)) : f[4 + k] = Rest(m)[k]

\* What a frame is made of: the length of its body, then the body.
LEMMA FrameIs ==
    ASSUME NEW m \in AnyFrame
    PROVE  IsFrame(FrameOf(m), m)
  <1> DEFINE r == Rest(m)
             n == Len(r)
             w == Word(n)
             f == FrameOf(m)
  <1>1. r \in Seq(Byte) /\ n \in U32
    <2>1. CASE m = KeepAlive
      <3>1. 0 \in U32 /\ <<>> \in Seq(Byte) /\ Len(<<>>) = 0
        BY U32Small
      <3> QED BY <2>1, <3>1 DEF Rest
    <2>2. CASE m = Unknown
      <3>1. 2 \in U32 /\ <<20, 0>> \in Seq(Byte) /\ Len(<<20, 0>>) = 2
        <4>1. 2 \in U32
          BY U32Small
        <4>2. 20 \in Byte /\ 0 \in Byte
          BY DEF Byte
        <4> QED BY <4>1, <4>2
      <3> QED BY <2>2, <3>1, NoMessage DEF Rest
    <2>3. CASE m \in PeerMessage
      <3>1. r = Body(m)
        BY <2>3, NoMessage DEF Rest
      <3> QED BY <2>3, <3>1, BodyIs DEF IsBody
    <2> QED BY <2>1, <2>2, <2>3 DEF AnyFrame
  <1>2. f = w \o r
    <2>1. CASE m = KeepAlive
      <3>1. Word(0) \in Seq(Byte)
        <4>1. 0 \in U32
          BY U32Small
        <4> QED BY <4>1, WordIs
      <3>2. Word(0) \o <<>> = Word(0)
        BY <3>1
      <3>3. r = <<>> /\ n = 0 /\ f = Word(0)
        BY <2>1 DEF Rest, FrameOf
      <3> QED BY <3>2, <3>3
    <2>2. CASE m = Unknown
      BY <2>2, NoMessage DEF Rest, FrameOf, Framed
    <2>3. CASE m \in PeerMessage
      <3>1. r = Body(m) /\ f = AsBytes(m)
        BY <2>3, NoMessage DEF Rest, FrameOf
      <3>2. AsBytes(m) = Framed(Body(m))
        BY DEF AsBytes, Body
      <3> QED BY <3>1, <3>2 DEF Framed
    <2> QED BY <2>1, <2>2, <2>3 DEF AnyFrame
  <1>3. w \in Seq(Byte) /\ Len(w) = 4
    <2> HIDE DEF n
    <2> QED BY <1>1, WordIs
  <1> HIDE DEF r, w, f
  <1>4. f \in Seq(Byte) /\ Glued(f, w, r)
    BY <1>1, <1>2, <1>3, Joint
  <1>5. f[1] = w[1] /\ f[1 + 1] = w[2] /\ f[1 + 2] = w[3] /\ f[1 + 3] = w[4]
    BY <1>3, <1>4 DEF Glued
  <1>6. WordAt(f, 1) = n
    <2> HIDE DEF n
    <2> QED BY <1>1, <1>5, WordAtWord DEF w
  <1>7. Len(f) = 4 + n /\ \A k \in 1 .. n : f[4 + k] = r[k]
    BY <1>3, <1>4 DEF Glued
  <1> QED
    BY <1>1, <1>4, <1>6, <1>7 DEF IsFrame, r, f

\* Only a keep-alive has no body, and only the unknown message none that parses.
LEMMA RestIs ==
    ASSUME NEW m \in AnyFrame
    PROVE  /\ Rest(m) = <<>> <=> m = KeepAlive
           /\ m \notin {KeepAlive, Unknown} =>
                  m \in PeerMessage /\ Parses(Rest(m)) /\ FromBytes(Rest(m)) = Meaning(m)
           /\ m = Unknown => ~ Parses(Rest(m))
  <1>1. CASE m = KeepAlive
    BY <1>1, NoMessage DEF Rest
  <1>2. CASE m = Unknown
    <2>1. Rest(m) = <<20, 0>>
      BY <1>2, NoMessage DEF Rest
    <2>2. <<20, 0>> # <<>> /\ <<20, 0>>[1] = 20
      OBVIOUS
    <2>3. ~ Parses(Rest(m))
      BY <2>1, <2>2, TypeIs DEF Parses
    <2> QED BY <1>2, <2>1, <2>2, <2>3, NoMessage
  <1>3. CASE m \in PeerMessage
    <2>1. Rest(m) = Body(m) /\ m # KeepAlive /\ m # Unknown
      BY <1>3, NoMessage DEF Rest
    <2> QED BY <1>3, <2>1, BodyIs DEF IsBody
  <1> QED
    BY <1>1, <1>2, <1>3 DEF AnyFrame

-----------------------------------------------------------------------------
(* The sums and sequences that are made element by element.                *)

SumStep == [x \in Nat \X Nat |-> x[1] + x[2]]
BytesStep == [x \in Seq(Byte) \X AnyFrame |-> x[1] \o FrameOf(x[2])]
ToldStep == [x \in Seq(AnyFrame) \X AnyFrame |->
                IF x[2] = KeepAlive THEN x[1] ELSE Append(x[1], Meaning(x[2]))]

LEMMA SumStepType == FoldOver(Nat, Nat, 0, SumStep)
  BY DEF SumStep, FoldOver

LEMMA BytesStepType == FoldOver(Seq(Byte), AnyFrame, <<>>, BytesStep)
  <1>1. ASSUME NEW m \in AnyFrame PROVE FrameOf(m) \in Seq(Byte)
    BY FrameIs DEF IsFrame
  <1>2. ASSUME NEW x \in Seq(Byte) \X AnyFrame PROVE x[1] \o FrameOf(x[2]) \in Seq(Byte)
    <2>1. x[1] \in Seq(Byte) /\ FrameOf(x[2]) \in Seq(Byte)
      BY <1>1
    <2> QED BY <2>1
  <1>3. <<>> \in Seq(Byte)
    OBVIOUS
  <1> QED
    BY <1>2, <1>3 DEF BytesStep, FoldOver

LEMMA AnyMeaning == \A m \in AnyFrame : Meaning(m) \in AnyFrame
  <1>1. ASSUME NEW m \in {KeepAlive, Unknown} PROVE Meaning(m) \in AnyFrame
    <2>1. m.type # "Bitfield"
      BY DEF KeepAlive, Unknown
    <2> QED BY <1>1, <2>1 DEF Meaning, AnyFrame
  <1>2. ASSUME NEW m \in PeerMessage PROVE Meaning(m) \in AnyFrame
    BY MeaningType DEF AnyFrame
  <1> QED
    BY <1>1, <1>2 DEF AnyFrame

LEMMA ToldStepType == FoldOver(Seq(AnyFrame), AnyFrame, <<>>, ToldStep)
  <1>1. ASSUME NEW x \in Seq(AnyFrame) \X AnyFrame
        PROVE  (IF x[2] = KeepAlive THEN x[1] ELSE Append(x[1], Meaning(x[2]))) \in Seq(AnyFrame)
    <2>1. x[1] \in Seq(AnyFrame) /\ Meaning(x[2]) \in AnyFrame
      BY AnyMeaning
    <2> QED BY <2>1
  <1>2. <<>> \in Seq(AnyFrame)
    OBVIOUS
  <1> QED
    BY <1>1, <1>2 DEF ToldStep, FoldOver

\* The sum of a sequence.
LEMMA SumIsFold ==
    ASSUME NEW s \in Seq(Nat)
    PROVE  SumOf(s) = FoldBy(SumStep, 0, s)
  <1> DEFINE T == Nat
             step == SumStep
             Solves(it) == it = [t \in SUBSET DOMAIN s |->
                 IF t = {} THEN 0
                 ELSE it[t \ {Max(t)}] + s[Max(t)]]
             iter == CHOOSE it : Solves(it)
  <1>1. FoldOver(T, Nat, 0, step)
    BY SumStepType
  <1>2. ASSUME NEW x \in T, NEW e \in Nat PROVE step[<<x, e>>] = x + e
    BY <1>1 DEF SumStep
  <1> HIDE DEF step, T
  <1>3. \E g : Solves(g)
    <2>1. PICK g \in [SUBSET DOMAIN s -> T] : IsIteration(g, 0, step, s)
      BY <1>1, IterationExists
    <2>2. ASSUME NEW t \in (SUBSET DOMAIN s) \ {{}}
          PROVE  g[t] = g[t \ {Max(t)}] + s[Max(t)]
      <3>1. g[t] = step[<<g[t \ {Max(t)}], s[Max(t)]>>] /\ Max(t) \in DOMAIN s
            /\ t \ {Max(t)} \in SUBSET DOMAIN s
        BY <2>1 DEF IsIteration
      <3>2. g[t \ {Max(t)}] \in T /\ s[Max(t)] \in Nat
        BY <3>1
      <3> QED BY <1>2, <3>1, <3>2
    <2>3. g[{}] = 0
      BY <2>1 DEF IsIteration
    <2> QED BY <2>2, <2>3
  <1>4. Solves(iter)
    <2> HIDE DEF Solves
    <2> QED BY <1>3
  <1>5. Iterates(iter, step, T, 0, s)
    <2>1. DOMAIN s = 1 .. Len(s) /\ Len(s) \in Nat
      OBVIOUS
    <2>2. ASSUME NEW t \in (SUBSET (1 .. Len(s))) \ {{}}, iter[t \ {Max(t)}] \in T
          PROVE  iter[t] = step[<<iter[t \ {Max(t)}], s[Max(t)]>>]
      <3>1. iter[t] = iter[t \ {Max(t)}] + s[Max(t)]
        <4> HIDE DEF iter
        <4> QED BY <1>4, <2>1
      <3>2. Max(t) \in 1 .. Len(s)
        BY <2>1, MaxOf
      <3> HIDE DEF iter
      <3>3. s[Max(t)] \in Nat
        BY <3>2
      <3> QED BY <1>2, <2>2, <3>1, <3>3
    <2>3. iter[{}] = 0
      <3> HIDE DEF iter
      <3> QED BY <1>4, <2>1
    <2> HIDE DEF iter
    <2> QED BY <2>2, <2>3 DEF Iterates
  <1>6. SumOf(s) = iter[DOMAIN s]
    BY DEF SumOf, FoldLeft, MapThenFoldSet
  <1>7. iter[DOMAIN s] = FoldBy(step, 0, s)
    <2> HIDE DEF iter
    <2> QED BY <1>1, <1>5, FoldIsFoldBy
  <1> QED
    BY <1>6, <1>7 DEF step

\* The bytes of frames.
LEMMA BytesIsFold ==
    ASSUME NEW s \in Seq(AnyFrame)
    PROVE  Bytes(s) = FoldBy(BytesStep, <<>>, s)
  <1> DEFINE T == Seq(Byte)
             step == BytesStep
             Solves(it) == it = [t \in SUBSET DOMAIN s |->
                 IF t = {} THEN <<>>
                 ELSE it[t \ {Max(t)}] \o FrameOf(s[Max(t)])]
             iter == CHOOSE it : Solves(it)
  <1>1. FoldOver(T, AnyFrame, <<>>, step)
    BY BytesStepType
  <1>2. ASSUME NEW x \in T, NEW e \in AnyFrame PROVE step[<<x, e>>] = x \o FrameOf(e)
    BY <1>1 DEF BytesStep
  <1> HIDE DEF step, T
  <1>3. \E g : Solves(g)
    <2>1. PICK g \in [SUBSET DOMAIN s -> T] : IsIteration(g, <<>>, step, s)
      BY <1>1, IterationExists
    <2>2. ASSUME NEW t \in (SUBSET DOMAIN s) \ {{}}
          PROVE  g[t] = g[t \ {Max(t)}] \o FrameOf(s[Max(t)])
      <3>1. g[t] = step[<<g[t \ {Max(t)}], s[Max(t)]>>] /\ Max(t) \in DOMAIN s
            /\ t \ {Max(t)} \in SUBSET DOMAIN s
        BY <2>1 DEF IsIteration
      <3>2. g[t \ {Max(t)}] \in T /\ s[Max(t)] \in AnyFrame
        BY <3>1
      <3> QED BY <1>2, <3>1, <3>2
    <2>3. g[{}] = <<>>
      BY <2>1 DEF IsIteration
    <2> QED BY <2>2, <2>3
  <1>4. Solves(iter)
    <2> HIDE DEF Solves
    <2> QED BY <1>3
  <1>5. Iterates(iter, step, T, <<>>, s)
    <2>1. DOMAIN s = 1 .. Len(s) /\ Len(s) \in Nat
      OBVIOUS
    <2>2. ASSUME NEW t \in (SUBSET (1 .. Len(s))) \ {{}}, iter[t \ {Max(t)}] \in T
          PROVE  iter[t] = step[<<iter[t \ {Max(t)}], s[Max(t)]>>]
      <3>1. iter[t] = iter[t \ {Max(t)}] \o FrameOf(s[Max(t)])
        <4> HIDE DEF iter
        <4> QED BY <1>4, <2>1
      <3>2. Max(t) \in 1 .. Len(s)
        BY <2>1, MaxOf
      <3> HIDE DEF iter
      <3>3. s[Max(t)] \in AnyFrame
        BY <3>2
      <3> QED BY <1>2, <2>2, <3>1, <3>3
    <2>3. iter[{}] = <<>>
      <3> HIDE DEF iter
      <3> QED BY <1>4, <2>1
    <2> HIDE DEF iter
    <2> QED BY <2>2, <2>3 DEF Iterates
  <1>6. Bytes(s) = iter[DOMAIN s]
    BY DEF Bytes, FoldLeft, MapThenFoldSet
  <1>7. iter[DOMAIN s] = FoldBy(step, <<>>, s)
    <2> HIDE DEF iter
    <2> QED BY <1>1, <1>5, FoldIsFoldBy
  <1> QED
    BY <1>6, <1>7 DEF step

\* What frames tell.
LEMMA ToldIsFold ==
    ASSUME NEW s \in Seq(AnyFrame)
    PROVE  Told(s) = FoldBy(ToldStep, <<>>, s)
  <1> DEFINE T == Seq(AnyFrame)
             step == ToldStep
             Solves(it) == it = [t \in SUBSET DOMAIN s |->
                 IF t = {} THEN <<>>
                 ELSE IF s[Max(t)] = KeepAlive THEN it[t \ {Max(t)}] ELSE Append(it[t \ {Max(t)}], Meaning(s[Max(t)]))]
             iter == CHOOSE it : Solves(it)
  <1>1. FoldOver(T, AnyFrame, <<>>, step)
    BY ToldStepType
  <1>2. ASSUME NEW x \in T, NEW e \in AnyFrame PROVE step[<<x, e>>] = IF e = KeepAlive THEN x ELSE Append(x, Meaning(e))
    BY <1>1 DEF ToldStep
  <1> HIDE DEF step, T
  <1>3. \E g : Solves(g)
    <2>1. PICK g \in [SUBSET DOMAIN s -> T] : IsIteration(g, <<>>, step, s)
      BY <1>1, IterationExists
    <2>2. ASSUME NEW t \in (SUBSET DOMAIN s) \ {{}}
          PROVE  g[t] = IF s[Max(t)] = KeepAlive THEN g[t \ {Max(t)}] ELSE Append(g[t \ {Max(t)}], Meaning(s[Max(t)]))
      <3>1. g[t] = step[<<g[t \ {Max(t)}], s[Max(t)]>>] /\ Max(t) \in DOMAIN s
            /\ t \ {Max(t)} \in SUBSET DOMAIN s
        BY <2>1 DEF IsIteration
      <3>2. g[t \ {Max(t)}] \in T /\ s[Max(t)] \in AnyFrame
        BY <3>1
      <3> QED BY <1>2, <3>1, <3>2
    <2>3. g[{}] = <<>>
      BY <2>1 DEF IsIteration
    <2> QED BY <2>2, <2>3
  <1>4. Solves(iter)
    <2> HIDE DEF Solves
    <2> QED BY <1>3
  <1>5. Iterates(iter, step, T, <<>>, s)
    <2>1. DOMAIN s = 1 .. Len(s) /\ Len(s) \in Nat
      OBVIOUS
    <2>2. ASSUME NEW t \in (SUBSET (1 .. Len(s))) \ {{}}, iter[t \ {Max(t)}] \in T
          PROVE  iter[t] = step[<<iter[t \ {Max(t)}], s[Max(t)]>>]
      <3>1. iter[t] = IF s[Max(t)] = KeepAlive THEN iter[t \ {Max(t)}] ELSE Append(iter[t \ {Max(t)}], Meaning(s[Max(t)]))
        <4> HIDE DEF iter
        <4> QED BY <1>4, <2>1
      <3>2. Max(t) \in 1 .. Len(s)
        BY <2>1, MaxOf
      <3> HIDE DEF iter
      <3>3. s[Max(t)] \in AnyFrame
        BY <3>2
      <3> QED BY <1>2, <2>2, <3>1, <3>3
    <2>3. iter[{}] = <<>>
      <3> HIDE DEF iter
      <3> QED BY <1>4, <2>1
    <2> HIDE DEF iter
    <2> QED BY <2>2, <2>3 DEF Iterates
  <1>6. Told(s) = iter[DOMAIN s]
    BY DEF Told, FoldLeft, MapThenFoldSet
  <1>7. iter[DOMAIN s] = FoldBy(step, <<>>, s)
    <2> HIDE DEF iter
    <2> QED BY <1>1, <1>5, FoldIsFoldBy
  <1> QED
    BY <1>6, <1>7 DEF step

\* A sum, one number longer.
LEMMA SumAppend ==
    ASSUME NEW s \in Seq(Nat), NEW e \in Nat
    PROVE  /\ SumOf(s) \in Nat
           /\ SumOf(Append(s, e)) = SumOf(s) + e
  <1> DEFINE r == Append(s, e)
             f == FoldBy(SumStep, 0, s)
  <1>1. r \in Seq(Nat)
    OBVIOUS
  <1>2. SumOf(r) = FoldBy(SumStep, 0, r) /\ SumOf(s) = f
    <2> HIDE DEF r
    <2> QED BY <1>1, SumIsFold
  <1>3. f \in Nat
    BY SumStepType, FoldByType
  <1>4. FoldBy(SumStep, 0, r) = SumStep[<<f, e>>]
    BY SumStepType, FoldByAppend
  <1> HIDE DEF f
  <1>5. <<f, e>> \in (Nat) \X Nat
    BY <1>3
  <1> QED
    BY <1>2, <1>3, <1>4, <1>5 DEF SumStep

LEMMA BytesEmpty == Bytes(<<>>) = <<>>
  <1>1. <<>> \in Seq(AnyFrame)
    OBVIOUS
  <1>2. Bytes(<<>>) = FoldBy(BytesStep, <<>>, <<>>)
    BY <1>1, BytesIsFold
  <1> QED
    BY <1>2, BytesStepType, FoldByEmpty

\* The bytes of one frame more.
LEMMA BytesAppend ==
    ASSUME NEW s \in Seq(AnyFrame), NEW e \in AnyFrame
    PROVE  /\ Bytes(s) \in Seq(Byte)
           /\ Bytes(Append(s, e)) = Bytes(s) \o FrameOf(e)
  <1> DEFINE r == Append(s, e)
             f == FoldBy(BytesStep, <<>>, s)
  <1>1. r \in Seq(AnyFrame)
    OBVIOUS
  <1>2. Bytes(r) = FoldBy(BytesStep, <<>>, r) /\ Bytes(s) = f
    <2> HIDE DEF r
    <2> QED BY <1>1, BytesIsFold
  <1>3. f \in Seq(Byte)
    BY BytesStepType, FoldByType
  <1>4. FoldBy(BytesStep, <<>>, r) = BytesStep[<<f, e>>]
    BY BytesStepType, FoldByAppend
  <1> HIDE DEF f
  <1>5. <<f, e>> \in (Seq(Byte)) \X AnyFrame
    BY <1>3
  <1> QED
    BY <1>2, <1>3, <1>4, <1>5 DEF BytesStep

LEMMA ToldEmpty == Told(<<>>) = <<>>
  <1>1. <<>> \in Seq(AnyFrame)
    OBVIOUS
  <1>2. Told(<<>>) = FoldBy(ToldStep, <<>>, <<>>)
    BY <1>1, ToldIsFold
  <1> QED
    BY <1>2, ToldStepType, FoldByEmpty

\* What is told by one frame more.
LEMMA ToldAppend ==
    ASSUME NEW s \in Seq(AnyFrame), NEW e \in AnyFrame
    PROVE  /\ Told(s) \in Seq(AnyFrame)
           /\ Told(Append(s, e)) = IF e = KeepAlive THEN Told(s) ELSE Append(Told(s), Meaning(e))
  <1> DEFINE r == Append(s, e)
             f == FoldBy(ToldStep, <<>>, s)
  <1>1. r \in Seq(AnyFrame)
    OBVIOUS
  <1>2. Told(r) = FoldBy(ToldStep, <<>>, r) /\ Told(s) = f
    <2> HIDE DEF r
    <2> QED BY <1>1, ToldIsFold
  <1>3. f \in Seq(AnyFrame)
    BY ToldStepType, FoldByType
  <1>4. FoldBy(ToldStep, <<>>, r) = ToldStep[<<f, e>>]
    BY ToldStepType, FoldByAppend
  <1> HIDE DEF f
  <1>5. <<f, e>> \in (Seq(AnyFrame)) \X AnyFrame
    BY <1>3
  <1> QED
    BY <1>2, <1>3, <1>4, <1>5 DEF ToldStep

-----------------------------------------------------------------------------
(* What the first frames have told, and where the next one begins.         *)

Pre(p, q) == Len(p) <= Len(q) /\ \A i \in 1 .. Len(p) : p[i] = q[i]

LEMMA PreTransitive ==
    ASSUME NEW T, NEW p \in Seq(T), NEW q \in Seq(T), NEW r \in Seq(T), Pre(p, q), Pre(q, r)
    PROVE  Pre(p, r)
  BY DEF Pre

\* Of sequences that each begin with the one before, every one begins with all before.
LEMMA Nested ==
    ASSUME NEW T, NEW N \in Nat, NEW h \in [0 .. N -> Seq(T)],
           \A n \in 0 .. N - 1 : Pre(h[n], h[n + 1])
    PROVE  \A n \in 0 .. N : \A k \in 0 .. n : Pre(h[k], h[n])
  <1> DEFINE P == {n \in 0 .. N : \A k \in 0 .. n : Pre(h[k], h[n])}
  <1>1. 0 \in P
    <2>1. Pre(h[0], h[0])
      BY DEF Pre
    <2> QED BY <2>1
  <1>2. ASSUME NEW n \in 0 .. N - 1, n \in P PROVE n + 1 \in P
    <2>1. ASSUME NEW k \in 0 .. n + 1 PROVE Pre(h[k], h[n + 1])
      <3>1. CASE k = n + 1
        BY <3>1 DEF Pre
      <3>2. CASE k \in 0 .. n
        <4>1. Pre(h[k], h[n]) /\ Pre(h[n], h[n + 1])
          BY <1>2, <3>2
        <4>2. h[k] \in Seq(T) /\ h[n] \in Seq(T) /\ h[n + 1] \in Seq(T)
          BY <3>2
        <4> QED BY <4>1, <4>2, PreTransitive
      <3> QED BY <3>1, <3>2
    <2> QED BY <2>1
  <1>3. \A n \in 0 .. N : n \in P
    <2> HIDE DEF P
    <2> QED BY <1>1, <1>2, InductUpTo
  <1> QED
    BY <1>3

Upto(s, k) == SubSeq(s, 1, k)

\* The first elements of a sequence, one after the other.
LEMMA UptoIs ==
    ASSUME NEW T, NEW s \in Seq(T)
    PROVE  /\ \A k \in 0 .. Len(s) : Upto(s, k) \in Seq(T)
           /\ \A k \in 0 .. Len(s) - 1 :
                 s[k + 1] \in T /\ Upto(s, k + 1) = Append(Upto(s, k), s[k + 1])
           /\ Upto(s, 0) = <<>> /\ Upto(s, Len(s)) = s
  <1>1. \A k \in 0 .. Len(s) : Upto(s, k) \in Seq(T) /\ Len(Upto(s, k)) = k
    BY DEF Upto
  <1>2. \A k \in 0 .. Len(s) : \A i \in 1 .. k : Upto(s, k)[i] = s[i]
    BY DEF Upto
  <1>3. ASSUME NEW k \in 0 .. Len(s) - 1
        PROVE  s[k + 1] \in T /\ Upto(s, k + 1) = Append(Upto(s, k), s[k + 1])
    <2> DEFINE p == Upto(s, k + 1)
               q == Append(Upto(s, k), s[k + 1])
    <2>1. s[k + 1] \in T /\ k \in 0 .. Len(s) /\ k + 1 \in 0 .. Len(s)
      OBVIOUS
    <2>2. p \in Seq(T) /\ Len(p) = k + 1 /\ \A i \in 1 .. k + 1 : p[i] = s[i]
      BY <1>1, <1>2, <2>1
    <2>3. q \in Seq(T) /\ Len(q) = k + 1 /\ \A i \in 1 .. k + 1 : q[i] = s[i]
      BY <1>1, <1>2, <2>1
    <2> HIDE DEF p, q
    <2>4. p = q
      BY <2>1, <2>2, <2>3, SameSeq
    <2> QED BY <2>1, <2>4 DEF p, q
  <1>4. Upto(s, 0) = <<>> /\ Upto(s, Len(s)) = s
    <2>1. Upto(s, Len(s)) \in Seq(T) /\ Len(Upto(s, Len(s))) = Len(s) /\ Len(s) \in 0 .. Len(s)
      BY <1>1
    <2>2. Upto(s, Len(s)) = s
      BY <1>2, <2>1, SameSeq
    <2>3. Upto(s, 0) = <<>>
      BY DEF Upto
    <2> QED BY <2>2, <2>3
  <1> QED
    BY <1>1, <1>3, <1>4

Ends(s, k) == Len(Bytes(Upto(s, k)))

Holds(all, e, f) == e + Len(f) <= Len(all) /\ \A j \in 1 .. Len(f) : all[e + j] = f[j]

\* The bytes of the first frames begin all bytes, and the next frame follows them.
LEMMA FrameAt ==
    ASSUME NEW s \in Seq(AnyFrame)
    PROVE  /\ Bytes(s) \in Seq(Byte) /\ Ends(s, 0) = 0 /\ Ends(s, Len(s)) = Len(Bytes(s))
           /\ \A k \in 0 .. Len(s) : Ends(s, k) \in 0 .. Len(Bytes(s))
           /\ \A k \in 0 .. Len(s) - 1 :
                 /\ s[k + 1] \in AnyFrame
                 /\ Ends(s, k + 1) = Ends(s, k) + Len(FrameOf(s[k + 1]))
                 /\ Holds(Bytes(s), Ends(s, k), FrameOf(s[k + 1]))
  <1> DEFINE h == [k \in 0 .. Len(s) |-> Bytes(Upto(s, k))]
             N == Len(s)
  <1>1. N \in Nat /\ N \in 0 .. N /\ 0 \in 0 .. N
    OBVIOUS
  <1>2. ASSUME NEW k \in 0 .. N PROVE Bytes(Upto(s, k)) \in Seq(Byte)
    <2>1. Upto(s, k) \in Seq(AnyFrame) /\ KeepAlive \in AnyFrame
      BY UptoIs DEF AnyFrame
    <2> QED BY <2>1, BytesAppend
  <1>3. ASSUME NEW k \in 0 .. N - 1
        PROVE  /\ s[k + 1] \in AnyFrame /\ FrameOf(s[k + 1]) \in Seq(Byte)
               /\ Bytes(Upto(s, k + 1)) = Bytes(Upto(s, k)) \o FrameOf(s[k + 1])
    <2>1. k \in 0 .. N
      OBVIOUS
    <2>2. Upto(s, k) \in Seq(AnyFrame) /\ s[k + 1] \in AnyFrame
          /\ Upto(s, k + 1) = Append(Upto(s, k), s[k + 1])
      BY <2>1, UptoIs
    <2>3. FrameOf(s[k + 1]) \in Seq(Byte)
      BY <2>2, FrameIs DEF IsFrame
    <2> QED BY <2>2, <2>3, BytesAppend
  <1>4. ASSUME NEW k \in 0 .. N - 1
        PROVE  /\ Pre(Bytes(Upto(s, k)), Bytes(Upto(s, k + 1)))
               /\ Ends(s, k + 1) = Ends(s, k) + Len(FrameOf(s[k + 1]))
               /\ Holds(Bytes(Upto(s, k + 1)), Ends(s, k), FrameOf(s[k + 1]))
    <2> DEFINE p == Bytes(Upto(s, k))
               q == Bytes(Upto(s, k + 1))
               f == FrameOf(s[k + 1])
    <2>1. p \in Seq(Byte) /\ f \in Seq(Byte) /\ q = p \o f
      BY <1>2, <1>3
    <2> HIDE DEF p, q, f
    <2>2. Glued(q, p, f)
      BY <2>1, Joint
    <2>3. Len(q) = Len(p) + Len(f) /\ Len(p) \in Nat /\ Len(f) \in Nat
      BY <2>1, <2>2 DEF Glued
    <2>4. Pre(p, q)
      BY <2>2, <2>3 DEF Glued, Pre
    <2>5. Holds(q, Len(p), f)
      BY <2>2, <2>3 DEF Glued, Holds
    <2> QED BY <2>3, <2>4, <2>5 DEF Ends, p, q, f
  <1>5. h \in [0 .. N -> Seq(Byte)]
    BY <1>2
  <1>6. \A n \in 0 .. N - 1 : Pre(h[n], h[n + 1])
    BY <1>4
  <1>7. \A k \in 0 .. N : Pre(Bytes(Upto(s, k)), Bytes(s))
    <2>1. \A n \in 0 .. N : \A k \in 0 .. n : Pre(h[k], h[n])
      <3> HIDE DEF h, N
      <3> QED BY <1>1, <1>5, <1>6, Nested
    <2>2. \A k \in 0 .. N : Pre(h[k], h[N])
      <3> HIDE DEF h
      <3> QED BY <1>1, <2>1
    <2>3. h[N] = Bytes(s)
      BY UptoIs
    <2> QED BY <2>2, <2>3
  <1>8. Bytes(s) \in Seq(Byte) /\ Ends(s, N) = Len(Bytes(s))
    BY <1>1, <1>2, UptoIs DEF Ends
  <1>9. Ends(s, 0) = 0
    BY UptoIs, BytesEmpty DEF Ends
  <1>10. ASSUME NEW k \in 0 .. N PROVE Ends(s, k) \in 0 .. Len(Bytes(s))
    <2>1. Pre(Bytes(Upto(s, k)), Bytes(s)) /\ Bytes(Upto(s, k)) \in Seq(Byte)
      BY <1>2, <1>7
    <2>2. Ends(s, k) \in Nat
      BY <2>1 DEF Ends
    <2>3. Ends(s, k) <= Len(Bytes(s)) /\ Len(Bytes(s)) \in Nat
      BY <2>1, <1>8 DEF Pre, Ends
    <2> QED BY <2>2, <2>3
  <1>11. ASSUME NEW k \in 0 .. N - 1
         PROVE  Holds(Bytes(s), Ends(s, k), FrameOf(s[k + 1]))
    <2> DEFINE q == Bytes(Upto(s, k + 1))
               f == FrameOf(s[k + 1])
               e == Ends(s, k)
    <2>1. k \in 0 .. N /\ k + 1 \in 0 .. N
      OBVIOUS
    <2>2. q \in Seq(Byte) /\ f \in Seq(Byte) /\ e \in Nat /\ Pre(q, Bytes(s)) /\ Holds(q, e, f)
      BY <1>2, <1>3, <1>4, <1>7, <1>10, <2>1
    <2> HIDE DEF q, f, e
    <2>3. Holds(Bytes(s), e, f)
      <3>1. e + Len(f) <= Len(q) /\ Len(q) <= Len(Bytes(s)) /\ Len(f) \in Nat
            /\ Len(q) \in Nat /\ Len(Bytes(s)) \in Nat
        BY <1>8, <2>2 DEF Holds, Pre
      <3>2. ASSUME NEW j \in 1 .. Len(f) PROVE Bytes(s)[e + j] = f[j]
        <4>1. e + j \in 1 .. Len(q)
          BY <2>2, <3>1
        <4> QED BY <2>2, <4>1 DEF Holds, Pre
      <3>3. e + Len(f) <= Len(Bytes(s))
        BY <2>2, <3>1
      <3> QED BY <3>2, <3>3 DEF Holds
    <2> QED BY <2>3 DEF f, e
  <1> QED
    BY <1>3, <1>4, <1>8, <1>9, <1>10, <1>11

\* What the first frames tell, one frame after the other.
LEMMA ToldUpto ==
    ASSUME NEW s \in Seq(AnyFrame)
    PROVE  /\ Told(Upto(s, 0)) = <<>>
           /\ \A k \in 0 .. Len(s) : Told(Upto(s, k)) \in Seq(AnyFrame)
           /\ \A k \in 0 .. Len(s) - 1 : Told(Upto(s, k + 1)) =
                 IF s[k + 1] = KeepAlive THEN Told(Upto(s, k))
                 ELSE Append(Told(Upto(s, k)), Meaning(s[k + 1]))
  <1> DEFINE N == Len(s)
  <1>1. N \in Nat
    OBVIOUS
  <1>2. ASSUME NEW k \in 0 .. N PROVE Told(Upto(s, k)) \in Seq(AnyFrame)
    <2>1. Upto(s, k) \in Seq(AnyFrame) /\ KeepAlive \in AnyFrame
      BY UptoIs DEF AnyFrame
    <2> QED BY <2>1, ToldAppend
  <1>3. ASSUME NEW k \in 0 .. N - 1
        PROVE  Told(Upto(s, k + 1)) = IF s[k + 1] = KeepAlive THEN Told(Upto(s, k))
                                      ELSE Append(Told(Upto(s, k)), Meaning(s[k + 1]))
    <2>1. k \in 0 .. N
      OBVIOUS
    <2>2. Upto(s, k) \in Seq(AnyFrame) /\ s[k + 1] \in AnyFrame
          /\ Upto(s, k + 1) = Append(Upto(s, k), s[k + 1])
      BY <2>1, UptoIs
    <2> QED BY <2>2, ToldAppend
  <1>4. Told(Upto(s, 0)) = <<>>
    BY UptoIs, ToldEmpty
  <1> QED
    BY <1>2, <1>3, <1>4

-----------------------------------------------------------------------------
(* Types: what every step keeps of the buffers and the counters (Typed).   *)

Total == 0 .. 2^Width - 1
Meter == {m \in [total : Total, prev : Total, rolling : Seq(Total)] :
              Len(m.rolling) \in 1 .. ROLLING_AVERAGE_SIZE}
Stats == [down : Meter, up : Meter, queue_size : Nat \ {0}, in_slow_start : BOOLEAN]

ReaderTyped ==
    /\ stream \in Seq(Byte) /\ length_buf \in Seq(Byte) /\ message_buf \in Seq(Byte)
    /\ Len(length_buf) < 4 /\ message_size \in U32 /\ Len(message_buf) <= message_size
    /\ received \in Seq(PeerMessage)

CountersTyped ==
    /\ requested_blocks \subseteq Wanted /\ stats \in Stats
    /\ accepted \in Seq(Nat) /\ accepted # <<>>
    /\ handler \in {"running", "returned", "panicked"}

SenderTyped == sent \in Seq(AnyFrame) /\ lost \in Nat /\ lost <= Len(Bytes(sent))

Typed == ReaderTyped /\ CountersTyped /\ SenderTyped

LEMMA TypedTypeOK == Typed => TypeOK
  <1> SUFFICES ASSUME Typed PROVE TypeOK
    OBVIOUS
  <1>1. /\ {stream, length_buf, message_buf} \subseteq Seq(Byte)
        /\ Len(length_buf) < 4 /\ message_size \in U32 /\ Len(message_buf) <= message_size
        /\ received \in Seq(PeerMessage)
    BY DEF Typed, ReaderTyped
  <1>2. stats \in Stats
    BY DEF Typed, CountersTyped
  <1>3. stats.down \in Meter /\ stats.up \in Meter /\ stats.queue_size \in Nat \ {0}
    BY <1>2 DEF Stats
  <1>4. /\ stats.down.total \in 0 .. 2^Width - 1 /\ stats.up.total \in 0 .. 2^Width - 1
        /\ Len(stats.down.rolling) \in 1 .. ROLLING_AVERAGE_SIZE
    <2>1. stats.down.total \in Total /\ stats.up.total \in Total
      BY <1>3 DEF Meter
    <2> QED BY <1>3, <2>1 DEF Meter, Total
  <1> QED
    BY <1>1, <1>3, <1>4 DEF TypeOK, Typed, CountersTyped

\* Numbers that have wrapped.
LEMMA WrapType == \A n \in Int : Wrap(n) \in Total
  <1> DEFINE w == 2^Width
  <1>1. w \in Nat \ {0}
    BY PeerStatsAssumption
  <1>2. \A n \in Int : n % w \in 0 .. w - 1
    <2> HIDE DEF w
    <2> QED BY <1>1
  <1> QED
    BY <1>2 DEF Wrap, Total

LEMMA TotalIsNat == Total \subseteq Nat
  BY DEF Total

LEMMA WrapNat == \A n \in Int : Wrap(n) \in Nat
  BY WrapType DEF Total

LEMMA CountedType ==
    ASSUME NEW m \in Meter, NEW length \in Nat
    PROVE  Counted(m, length) \in Meter
  <1> DEFINE t == Wrap(m.total + length)
             c == Counted(m, length)
  <1>1. t \in Total
    <2>1. m.total \in Nat
      BY TotalIsNat DEF Meter
    <2>2. m.total + length \in Int
      BY <2>1
    <2> QED BY <2>2, WrapType
  <1>2. c = [m EXCEPT !.total = t]
    BY DEF Counted
  <1> HIDE DEF t, c
  <1>3. c \in [total : Total, prev : Total, rolling : Seq(Total)] /\ c.rolling = m.rolling
    BY <1>1, <1>2 DEF Meter
  <1> QED
    BY <1>3 DEF Meter, c

\* The window after a second.
NewWindow(m) == <<Wrap(m.total - m.prev)>> \o m.rolling

\* Min and Max of two numbers.
LEMMA MinOf == \A a, b \in Nat : Min({a, b}) = IF a <= b THEN a ELSE b
  <1> SUFFICES ASSUME NEW a \in Nat, NEW b \in Nat
               PROVE  Min({a, b}) = IF a <= b THEN a ELSE b
    OBVIOUS
  <1> DEFINE S == {a, b}
  <1>1. \E x \in S : \A y \in S : x =< y
    OBVIOUS
  <1>2. Min(S) \in S /\ \A y \in S : Min(S) =< y
    <2> HIDE DEF S
    <2> QED BY <1>1 DEF Min
  <1> QED
    BY <1>2

LEMMA MaxOfTwo == \A a, b \in Nat : Max({a, b}) = IF a >= b THEN a ELSE b
  <1> SUFFICES ASSUME NEW a \in Nat, NEW b \in Nat
               PROVE  Max({a, b}) = IF a >= b THEN a ELSE b
    OBVIOUS
  <1> DEFINE S == {a, b}
  <1>1. \E x \in S : \A y \in S : x >= y
    OBVIOUS
  <1>2. Max(S) \in S /\ \A y \in S : Max(S) >= y
    <2> HIDE DEF S
    <2> QED BY <1>1 DEF Max
  <1> QED
    BY <1>2

\* update_speed_averages: a new second at the front of the window.
LEMMA WindowIs ==
    ASSUME NEW m \in Meter
    PROVE  /\ NewWindow(m) \in Seq(Total) /\ Headed(NewWindow(m), Wrap(m.total - m.prev), m.rolling)
           /\ UpdateSpeedAverage(m) =
                [m EXCEPT !.rolling =
                    SubSeq(NewWindow(m), 1, Min({Len(NewWindow(m)), ROLLING_AVERAGE_SIZE})),
                          !.prev = m.total]
  <1>1. Wrap(m.total - m.prev) \in Total /\ m.rolling \in Seq(Total)
    <2>1. m.total \in Nat /\ m.prev \in Nat /\ m.rolling \in Seq(Total)
      BY TotalIsNat DEF Meter
    <2>2. m.total - m.prev \in Int
      BY <2>1
    <2> QED BY <2>1, <2>2, WrapType
  <1>2. NewWindow(m) \in Seq(Total) /\ Headed(NewWindow(m), Wrap(m.total - m.prev), m.rolling)
    BY <1>1, HeadFirst DEF NewWindow
  <1> QED
    BY <1>2 DEF UpdateSpeedAverage, NewWindow

\* ... which is cut to its length.
LEMMA UpdatedType ==
    ASSUME NEW m \in Meter
    PROVE  /\ UpdateSpeedAverage(m) \in Meter
           /\ UpdateSpeedAverage(m).total = m.total /\ UpdateSpeedAverage(m).prev = m.total
           /\ UpdateSpeedAverage(m).rolling =
                SubSeq(NewWindow(m), 1, Min({Len(NewWindow(m)), ROLLING_AVERAGE_SIZE}))
  <1> DEFINE w == NewWindow(m)
             R == ROLLING_AVERAGE_SIZE
             j == Min({Len(w), R})
             r == SubSeq(w, 1, j)
             u == UpdateSpeedAverage(m)
  <1>1. w \in Seq(Total) /\ Headed(w, Wrap(m.total - m.prev), m.rolling) /\ R \in Nat \ {0}
    BY WindowIs, PeerStatsAssumption
  <1>2. Len(w) \in Nat /\ Len(w) >= 1
    <2>1. Len(m.rolling) \in Nat
      BY DEF Meter
    <2> HIDE DEF w
    <2> QED BY <1>1, <2>1 DEF Headed
  <1>3. j \in 1 .. Len(w) /\ j \in 1 .. R
    <2>1. j = IF Len(w) <= R THEN Len(w) ELSE R
      <3> HIDE DEF w, R
      <3> QED BY <1>1, <1>2, MinOf
    <2> HIDE DEF w, R, j
    <2> QED BY <1>1, <1>2, <2>1
  <1>4. r \in Seq(Total) /\ Len(r) = j
    <2> HIDE DEF w, j
    <2>1. 1 \in Nat \ {0} /\ j \in Nat /\ 1 <= j + 1 /\ j <= Len(w)
      BY <1>3
    <2>2. r \in Seq(Total) /\ Sliced(r, w, 1, j)
      BY <1>1, <2>1, Slice
    <2> QED BY <1>3, <2>2 DEF Sliced
  <1>5. u = [m EXCEPT !.rolling = r, !.prev = m.total]
    BY WindowIs
  <1> HIDE DEF r, j, w, u, R
  <1>6. u \in [total : Total, prev : Total, rolling : Seq(Total)] /\ u.rolling = r
        /\ u.total = m.total /\ u.prev = m.total
    BY <1>4, <1>5 DEF Meter
  <1>7. u \in Meter
    BY <1>3, <1>4, <1>6 DEF Meter, R
  <1> QED
    BY <1>6, <1>7 DEF u, r, j, w, R

LEMMA RateType ==
    ASSUME NEW m \in Meter
    PROVE  Rate(m) \in Nat
  <1>1. m.rolling \in Seq(Nat)
    <2>1. m.rolling \in Seq(Total)
      BY DEF Meter
    <2> QED BY <2>1, TotalIsNat, Wider
  <1>2. SumOf(m.rolling) \in Nat
    <2>1. 0 \in Nat
      OBVIOUS
    <2> QED BY <1>1, <2>1, SumAppend
  <1>3. Wrap(SumOf(m.rolling)) \in Nat
    <2>1. SumOf(m.rolling) \in Int
      BY <1>2
    <2> QED BY <2>1, WrapType, TotalIsNat
  <1>4. Len(m.rolling) \in Nat \ {0}
    BY DEF Meter
  <1> DEFINE a == Wrap(SumOf(m.rolling))
             b == Len(m.rolling)
  <1>5. a \div b \in Nat
    <2> HIDE DEF a, b
    <2>1. a \in Nat /\ b \in Nat \ {0}
      BY <1>3, <1>4 DEF a, b
    <2> QED BY <2>1
  <1> QED
    BY <1>5 DEF Rate

LEMMA NewStatsType == NewStats \in Stats
  <1>1. 0 \in Total
    BY PeerStatsAssumption DEF Total
  <1>2. <<0>> \in Seq(Total) /\ Len(<<0>>) \in 1 .. ROLLING_AVERAGE_SIZE
    BY <1>1, PeerStatsAssumption
  <1>3. NewMeter \in Meter
    BY <1>1, <1>2 DEF NewMeter, Meter
  <1> QED
    BY <1>3 DEF NewStats, Stats

\* A block keeps the types of the counters.
LEMMA ChunkType ==
    ASSUME NEW s \in Stats, NEW length \in Nat
    PROVE  DownloadedChunk(s, length) \in Stats /\ UploadedChunk(s, length) \in Stats
  <1>1. Counted(s.down, length) \in Meter /\ Counted(s.up, length) \in Meter
    <2>1. s.down \in Meter /\ s.up \in Meter
      BY DEF Stats
    <2> QED BY <2>1, CountedType
  <1>2. s.queue_size + 1 \in Nat \ {0}
    BY DEF Stats
  <1> QED
    BY <1>1, <1>2 DEF DownloadedChunk, UploadedChunk, Stats

\* A tick is these three, whatever their order: the meters are updated, the others
\* follow from them.
LEMMA TickIs ==
    ASSUME NEW s \in Stats
    PROVE  /\ Tick(s) \in Stats
           /\ Tick(s).down = UpdateSpeedAverage(s.down)
           /\ Tick(s).up = UpdateSpeedAverage(s.up)
  <1> DEFINE a == UpdateSpeedAverages(s)
             b == UpdateQueueSize(a)
             c == TryExitSlowStart(b)
             q == Rate(a.down) \div BLOCK_SIZE
  <1>1. a \in Stats /\ a.down = UpdateSpeedAverage(s.down) /\ a.up = UpdateSpeedAverage(s.up)
    <2>1. UpdateSpeedAverage(s.down) \in Meter /\ UpdateSpeedAverage(s.up) \in Meter
      <3>1. s.down \in Meter /\ s.up \in Meter
        BY DEF Stats
      <3> QED BY <3>1, UpdatedType
    <2> QED BY <2>1 DEF UpdateSpeedAverages, Stats
  <1> HIDE DEF a
  <1>2. Max({q, 1}) \in Nat \ {0}
    <2>1. Rate(a.down) \in Nat
      <3>1. a.down \in Meter
        BY <1>1 DEF Stats
      <3> QED BY <3>1, RateType
    <2>2. q \in Nat
      <3> DEFINE r == Rate(a.down)
      <3> HIDE DEF r
      <3>1. r \in Nat
        BY <2>1 DEF r
      <3>2. r \div BLOCK_SIZE \in Nat
        BY <3>1, PeerStatsAssumption
      <3> QED BY <3>2 DEF r
    <2> HIDE DEF q
    <2>3. Max({q, 1}) = IF q >= 1 THEN q ELSE 1
      BY <2>2, MaxOfTwo
    <2> QED BY <2>2, <2>3
  <1>3. b \in Stats /\ b.down = a.down /\ b.up = a.up
    BY <1>1, <1>2 DEF UpdateQueueSize, Stats
  <1> HIDE DEF b
  <1>4. c \in Stats /\ c.down = b.down /\ c.up = b.up
    <2>1. \A x \in BOOLEAN : [b EXCEPT !.in_slow_start = x] \in Stats
             /\ [b EXCEPT !.in_slow_start = x].down = b.down
             /\ [b EXCEPT !.in_slow_start = x].up = b.up
      BY <1>3 DEF Stats
    <2>2. b.in_slow_start \in BOOLEAN
      BY <1>3 DEF Stats
    <2> QED BY <2>1, <2>2 DEF TryExitSlowStart
  <1>5. Tick(s) = c
    BY DEF Tick, a, b
  <1> HIDE DEF c
  <1> QED
    BY <1>1, <1>3, <1>4, <1>5

LEMMA FieldsOf ==
    ASSUME NEW m \in PeerMessage
    PROVE  /\ m.type = "Piece" => m.bytes \in Seq(Byte)
           /\ m.type = "Request" => m.length \in Nat
  <1>1. m.type = "Piece" => m.bytes \in Seq(Byte)
    BY DEF PeerMessage
  <1>2. m.type = "Request" => m.length \in U32
    BY DEF PeerMessage
  <1> QED
    BY <1>1, <1>2 DEF U32

\* What a message changes of the counters.
LEMMA HandleType ==
    ASSUME CountersTyped, handler = "running", NEW m \in PeerMessage, Handle(m)
    PROVE  CountersTyped'
  <1>0. stats \in Stats /\ accepted \in Seq(Nat) /\ accepted # <<>>
        /\ requested_blocks \subseteq Wanted
    BY DEF CountersTyped
  <1>1. CASE Ignore
    BY <1>1 DEF Ignore, CountersTyped
  <1>2. CASE m.type = "Piece" /\ HandlePiece(m) /\ ~ Ignore
    <2> DEFINE info == BlockInfo(m)
    <2>1. info.length \in Nat
      <3>1. m.bytes \in Seq(Byte)
        BY <1>2, FieldsOf
      <3> QED BY <3>1 DEF BlockInfo
    <2>2. /\ requested_blocks' = requested_blocks \ {info}
          /\ accepted' = [accepted EXCEPT ![1] = @ + info.length]
          /\ \/ handler' = "panicked" /\ UNCHANGED stats
             \/ stats' = DownloadedChunk(stats, info.length) /\ UNCHANGED handler
      BY <1>2 DEF HandlePiece
    <2> HIDE DEF info
    <2>3. accepted' \in Seq(Nat) /\ accepted' # <<>>
      <3>1. 1 \in 1 .. Len(accepted) /\ accepted[1] + info.length \in Nat
        BY <1>0, <2>1
      <3>2. [accepted EXCEPT ![1] = accepted[1] + info.length] \in Seq(Nat)
            /\ Len([accepted EXCEPT ![1] = accepted[1] + info.length]) = Len(accepted)
        BY <1>0, <3>1
      <3> QED BY <1>0, <2>2, <3>2
    <2>4. stats' \in Stats
      BY <1>0, <2>1, <2>2, ChunkType
    <2> QED
      BY <1>0, <2>2, <2>3, <2>4 DEF CountersTyped
  <1>3. CASE m.type = "Request" /\ HandleRequest(m)
    <2>1. m.length \in Nat
      BY <1>3, FieldsOf
    <2>2. /\ UNCHANGED <<requested_blocks, accepted>>
          /\ \/ handler' = "returned" /\ UNCHANGED stats
             \/ handler' = "panicked" /\ UNCHANGED stats
             \/ stats' = UploadedChunk(stats, m.length) /\ UNCHANGED handler
      BY <1>3 DEF HandleRequest
    <2>3. stats' \in Stats
      BY <1>0, <2>1, <2>2, ChunkType
    <2> QED
      BY <1>0, <2>2, <2>3 DEF CountersTyped
  <1> QED
    BY <1>1, <1>2, <1>3 DEF Handle, HandlePiece

\* What a read changes of the buffers.
Reading(n) == ReadLength(n) \/ ReadPart(n) \/ ReadMessage(n)

\* The bytes of one read, and the buffers with them.
LEMMA ReadIs ==
    ASSUME ReaderTyped, NEW n \in 1 .. Len(stream)
    PROVE  /\ Read(n) \in Seq(Byte) /\ Len(Read(n)) = n /\ \A k \in 1 .. n : Read(n)[k] = stream[k]
           /\ Reads(n, Len(stream)) => stream' \in Seq(Byte)
           /\ Len(length_buf) \in Nat /\ Len(message_buf) \in Nat /\ message_size \in Nat
           /\ length_buf \o Read(n) \in Seq(Byte)
           /\ Len(length_buf \o Read(n)) = Len(length_buf) + n
           /\ message_buf \o Read(n) \in Seq(Byte)
           /\ Len(message_buf \o Read(n)) = Len(message_buf) + n
  <1>0. stream \in Seq(Byte) /\ length_buf \in Seq(Byte) /\ message_buf \in Seq(Byte)
        /\ message_size \in U32
    BY DEF ReaderTyped
  <1>1. Read(n) \in Seq(Byte) /\ Sliced(Read(n), stream, 1, n)
    <2>1. 1 \in Nat \ {0} /\ n \in Nat /\ 1 <= n + 1 /\ n <= Len(stream)
      BY <1>0
    <2> QED BY <1>0, <2>1, Slice DEF Read
  <1>2. Len(Read(n)) = n /\ \A k \in 1 .. n : Read(n)[k] = stream[k]
    <2>1. n + 1 - 1 = n /\ \A k \in 1 .. n : 1 - 1 + k = k
      OBVIOUS
    <2> QED BY <1>1, <2>1 DEF Sliced
  <1>3. SubSeq(stream, n + 1, Len(stream)) \in Seq(Byte)
    <2>1. n + 1 \in Nat \ {0} /\ Len(stream) \in Nat /\ n + 1 <= Len(stream) + 1
          /\ Len(stream) <= Len(stream)
      BY <1>0
    <2> QED BY <1>0, <2>1, Slice
  <1>4. /\ length_buf \o Read(n) \in Seq(Byte) /\ Glued(length_buf \o Read(n), length_buf, Read(n))
        /\ message_buf \o Read(n) \in Seq(Byte) /\ Glued(message_buf \o Read(n), message_buf, Read(n))
    BY <1>0, <1>1, Joint
  <1>5. Len(length_buf) \in Nat /\ Len(message_buf) \in Nat /\ message_size \in Nat
    BY <1>0 DEF U32
  <1> QED
    BY <1>1, <1>2, <1>3, <1>4, <1>5 DEF Glued, Reads

\* A read keeps the types of the buffers, and returns a message of this program.
LEMMA ReadType ==
    ASSUME ReaderTyped, NEW n \in 1 .. Len(stream), Reading(n)
    PROVE  /\ ReaderTyped'
           /\ received' = received \/ Last(received') \in PeerMessage
  <1> DEFINE length == length_buf \o Read(n)
             body == message_buf \o Read(n)
  <1>0. /\ length_buf \in Seq(Byte) /\ message_buf \in Seq(Byte) /\ Len(length_buf) < 4
        /\ message_size \in U32 /\ Len(message_buf) <= message_size
        /\ received \in Seq(PeerMessage)
    BY DEF ReaderTyped
  <1>1. /\ length \in Seq(Byte) /\ Len(length) = Len(length_buf) + n
        /\ body \in Seq(Byte) /\ Len(body) = Len(message_buf) + n
        /\ Len(length_buf) \in Nat /\ Len(message_buf) \in Nat /\ message_size \in Nat
        /\ n \in Nat
    BY ReadIs
  <1>2. stream' \in Seq(Byte)
    <2>1. stream' = SubSeq(stream, n + 1, Len(stream)) /\ n <= Len(stream)
      BY DEF Reading, ReadLength, ReadPart, ReadMessage, Reads
    <2> QED BY <2>1, ReadIs DEF Reads
  <1>e. <<>> \in Seq(Byte) /\ Len(<<>>) = 0 /\ 0 \in U32
    BY U32Small
  <1>3. CASE ReadLength(n)
    <2> HIDE DEF length
    <2>1. message_size = 0 /\ n <= 4 - Len(length_buf) /\ UNCHANGED <<message_buf, received>>
      BY <1>3 DEF ReadLength, Reads
    <2>2. Len(length) <= 4
      BY <1>0, <1>1, <2>1
    <2>3. CASE Len(length) = 4
      <3>1. length_buf' = <<>> /\ message_size' = WordAt(length, 1)
        BY <1>3, <2>3 DEF ReadLength, length
      <3>2. WordAt(length, 1) \in U32
        <4>1. length[1] \in Byte /\ length[1 + 1] \in Byte /\ length[1 + 2] \in Byte
              /\ length[1 + 3] \in Byte
          <5>1. length \in Seq(Byte) /\ Len(length) = 4
            BY <1>1, <2>3
          <5>2. 1 \in 1 .. Len(length) /\ 2 \in 1 .. Len(length) /\ 3 \in 1 .. Len(length)
                /\ 4 \in 1 .. Len(length)
            BY <5>1
          <5>3. length[1] \in Byte /\ length[2] \in Byte /\ length[3] \in Byte
                /\ length[4] \in Byte
            BY <5>1, <5>2, ElementOf
          <5> QED BY <5>3
        <4> QED BY <4>1, WordAtType
      <3>3. Len(message_buf) <= WordAt(length, 1)
        <4>1. Len(message_buf) = 0
          BY <1>0, <1>1, <2>1
        <4>2. WordAt(length, 1) \in Nat
          BY <3>2 DEF U32
        <4> QED BY <4>1, <4>2
      <3> QED BY <1>0, <1>2, <1>e, <2>1, <3>1, <3>2, <3>3 DEF ReaderTyped
    <2>4. CASE Len(length) # 4
      <3>1. length_buf' = length /\ message_size' = message_size
        BY <1>3, <2>4 DEF ReadLength, length
      <3>2. Len(length) < 4
        BY <1>1, <2>2, <2>4
      <3> QED BY <1>0, <1>1, <1>2, <2>1, <3>1, <3>2 DEF ReaderTyped
    <2> QED BY <2>3, <2>4
  <1>4. CASE ReadPart(n)
    <2>1. /\ message_buf' = body /\ Len(message_buf) + n < message_size
          /\ UNCHANGED <<length_buf, message_size, received>>
      BY <1>4 DEF ReadPart
    <2> HIDE DEF body
    <2>2. Len(body) <= message_size
      BY <1>1, <2>1
    <2> QED BY <1>0, <1>1, <1>2, <2>1, <2>2 DEF ReaderTyped
  <1>5. CASE ReadMessage(n)
    <2>1. Len(body) = message_size /\ UNCHANGED length_buf
      BY <1>5 DEF ReadMessage
    <2>2. CASE Parses(body)
      <3>1. /\ received' = Append(received, FromBytes(body))
            /\ message_buf' = <<>> /\ message_size' = 0
        BY <1>5, <2>2 DEF ReadMessage
      <3> HIDE DEF body
      <3>2. FromBytes(body) \in PeerMessage
        BY <1>0, <1>1, <2>1, <2>2, ParsedType
      <3> DEFINE m == FromBytes(body)
      <3> HIDE DEF m
      <3>3. received' = Append(received, m) /\ m \in PeerMessage
        BY <3>1, <3>2 DEF m
      <3>4. received' \in Seq(PeerMessage) /\ Last(received') = m
        BY <1>0, <3>3 DEF Last
      <3>5. Len(message_buf') <= message_size'
        BY <1>e, <3>1
      <3> QED BY <1>0, <1>2, <1>e, <2>1, <3>1, <3>3, <3>4, <3>5 DEF ReaderTyped
    <2>3. CASE ~ Parses(body)
      <3>1. message_buf' = body /\ UNCHANGED <<message_size, received>>
        BY <1>5, <2>3 DEF ReadMessage
      <3> HIDE DEF body
      <3>2. Len(body) <= message_size
        BY <1>1, <2>1
      <3> QED BY <1>0, <1>1, <1>2, <2>1, <3>1, <3>2 DEF ReaderTyped
    <2> QED BY <2>2, <2>3
  <1> QED
    BY <1>3, <1>4, <1>5 DEF Reading

LEMMA FrameType == Frame \subseteq AnyFrame
  BY ConnectionAssumption DEF Frame, AnyFrame

\* Typed is inductive.
LEMMA InitTyped == Init => Typed
  <1> SUFFICES ASSUME Init PROVE Typed
    OBVIOUS
  <1>1. sent \in Seq(AnyFrame)
    <2>1. sent \in SeqOf(Frame, MaxSent) /\ MaxSent \in Nat
      BY ConnectionAssumption DEF Init
    <2>2. PICK m \in 0 .. MaxSent : sent \in [1 .. m -> Frame]
      BY <2>1 DEF SeqOf
    <2>3. sent \in Seq(Frame)
      BY <2>1, <2>2
    <2> QED BY <2>3, FrameType, Wider
  <1> DEFINE all == Bytes(sent)
  <1>2. all \in Seq(Byte) /\ lost \in Nat /\ lost <= Len(all)
    BY <1>1, FrameAt, ConnectionAssumption DEF Init
  <1>3. stream \in Seq(Byte)
    <2>1. stream = SubSeq(all, 1, Len(all) - lost)
      BY DEF Init
    <2>2. 1 \in Nat \ {0} /\ Len(all) - lost \in Nat /\ 1 <= Len(all) - lost + 1
          /\ Len(all) - lost <= Len(all)
      <3> HIDE DEF all
      <3> QED BY <1>2
    <2> HIDE DEF all
    <2> QED BY <1>2, <2>1, <2>2, Slice
  <1>4. ReaderTyped
    <2>1. /\ length_buf = <<>> /\ message_size = 0 /\ message_buf = <<>> /\ received = <<>>
      BY DEF Init, ReaderInit
    <2>2. <<>> \in Seq(Byte) /\ <<>> \in Seq(PeerMessage) /\ Len(<<>>) = 0
      OBVIOUS
    <2>3. 0 \in U32
      BY U32Small
    <2> QED BY <1>3, <2>1, <2>2, <2>3 DEF ReaderTyped
  <1>5. CountersTyped
    <2>1. <<0>> \in Seq(Nat) /\ <<0>> # <<>>
      OBVIOUS
    <2> QED BY <2>1, NewStatsType DEF Init, CountersTyped
  <1> QED
    BY <1>1, <1>2, <1>4, <1>5 DEF Typed, SenderTyped

LEMMA NextTyped == Typed /\ [Next]_vars => Typed'
  <1> SUFFICES ASSUME Typed, [Next]_vars PROVE Typed'
    OBVIOUS
  <1>1. CASE UNCHANGED vars
    BY <1>1 DEF vars, Typed, ReaderTyped, CountersTyped, SenderTyped
  <1>2. CASE Second
    <2>1. ReaderTyped'
      BY <1>2 DEF Second, DropNext, readerVars, Typed, ReaderTyped
    <2>2. SenderTyped'
      BY <1>2 DEF Second, Typed, SenderTyped
    <2>3. CountersTyped'
      <3>1. /\ accepted' = <<0>> \o accepted
            /\ stats' = Tick(stats) \/ stats' = stats
            /\ handler' \in {"running", "panicked"} /\ UNCHANGED requested_blocks
        BY <1>2 DEF Second
      <3>2. accepted \in Seq(Nat) /\ stats \in Stats /\ requested_blocks \subseteq Wanted
        BY DEF Typed, CountersTyped
      <3>3. stats' \in Stats
        BY <3>1, <3>2, TickIs
      <3>4. accepted' \in Seq(Nat) /\ accepted' # <<>>
        BY <3>1, <3>2
      <3> QED BY <3>1, <3>2, <3>3, <3>4 DEF CountersTyped
    <2> QED BY <2>1, <2>2, <2>3 DEF Typed
  <1>3. ASSUME NEW n \in 1 .. Len(stream), Receive(n) PROVE Typed'
    <2>1. Reading(n) /\ handler = "running" /\ UNCHANGED <<sent, lost>>
      BY <1>3 DEF Receive, Reading
    <2>2. ReaderTyped' /\ (received' = received \/ Last(received') \in PeerMessage)
      BY <2>1, ReadType DEF Typed
    <2>3. CountersTyped'
      <3>1. CASE received' # received
        <4>1. Handle(Last(received'))
          BY <1>3, <3>1 DEF Receive
        <4> DEFINE m == Last(received')
        <4>2. m \in PeerMessage /\ Handle(m)
          BY <2>2, <3>1, <4>1
        <4> HIDE DEF m
        <4> QED BY <2>1, <4>2, HandleType DEF Typed
      <3>2. CASE received' = received
        <4>1. Ignore
          BY <1>3, <3>2 DEF Receive
        <4> QED BY <4>1 DEF Ignore, CountersTyped, Typed
      <3> QED BY <3>1, <3>2
    <2>4. SenderTyped'
      BY <2>1 DEF Typed, SenderTyped
    <2> QED BY <2>2, <2>3, <2>4 DEF Typed
  <1> QED
    BY <1>1, <1>2, <1>3 DEF Next

\* The variables have their types: whatever the peer sends and however it arrives,
\* next() returns messages of this program, and the counters stay in their u32.
THEOREM ConnectionTyped == Spec => []Typed
  BY InitTyped, NextTyped, PTL DEF Spec

\* In particular the types that TypeOK names: a length announced is never exceeded by
\* what is kept of the message, and no window is empty or longer than its size.
THEOREM ConnectionTypeCorrect == Spec => []TypeOK
  BY ConnectionTyped, TypedTypeOK, PTL

-----------------------------------------------------------------------------
(* Messages in the order in which they were sent.                          *)

\* k frames are read to their end and c bytes at all: the buffers hold what lies
\* between, of the length of the next frame or of its body.
All == Bytes(sent)
Arrived == Len(All) - lost
AtLength(k, c) ==
    length_buf = SubSeq(All, Ends(sent, k) + 1, c) /\ message_buf = <<>>
AtBody(k, c) ==
    /\ k < Len(sent) /\ length_buf = <<>>
    /\ c >= Ends(sent, k) + 4
    /\ message_size = Len(Rest(sent[k + 1]))
    /\ message_buf = SubSeq(All, Ends(sent, k) + 5, c)
    /\ Len(message_buf) = message_size => sent[k + 1] = Unknown
Position(k, c) ==
    /\ k \in 0 .. Len(sent) /\ c \in Ends(sent, k) .. Arrived
    /\ Known(k) /\ received = Told(Upto(sent, k))
    /\ stream = SubSeq(All, c + 1, Arrived)
    /\ IF message_size = 0 THEN AtLength(k, c) ELSE AtBody(k, c)
Positioned == \E k, c \in Nat : Position(k, c)

\* Of a slice of a slice, and of a slice followed by the next bytes.
LEMMA SliceOn ==
    ASSUME NEW T, NEW s \in Seq(T), NEW i \in Nat \ {0}, NEW c \in Nat, NEW b \in Nat,
           i <= c + 1, c <= b, b <= Len(s), NEW n \in 1 .. b - c
    PROVE  /\ Len(SubSeq(s, c + 1, b)) = b - c
           /\ SubSeq(SubSeq(s, c + 1, b), n + 1, b - c) = SubSeq(s, c + n + 1, b)
           /\ SubSeq(s, i, c) \o SubSeq(SubSeq(s, c + 1, b), 1, n) = SubSeq(s, i, c + n)
  <1> DEFINE t == SubSeq(s, c + 1, b)
             u == SubSeq(t, n + 1, b - c)
             v == SubSeq(s, c + n + 1, b)
             w == SubSeq(s, i, c)
             x == SubSeq(t, 1, n)
             y == w \o x
             z == SubSeq(s, i, c + n)
  <1>0. Len(s) \in Nat /\ n \in Nat /\ n >= 1 /\ c + n <= b
    OBVIOUS
  <1>1. t \in Seq(T) /\ Sliced(t, s, c + 1, b)
    <2>1. c + 1 \in Nat \ {0} /\ c + 1 <= b + 1
      OBVIOUS
    <2> QED BY <2>1, Slice
  <1>2. Len(t) = b - c /\ \A k \in 1 .. b - c : t[k] = s[c + k]
    <2>1. b + 1 - (c + 1) = b - c /\ \A k \in 1 .. b - c : c + 1 - 1 + k = c + k
      OBVIOUS
    <2> HIDE DEF t
    <2> QED BY <1>1, <2>1 DEF Sliced
  <1>3. v \in Seq(T) /\ Sliced(v, s, c + n + 1, b)
    <2>1. c + n + 1 \in Nat \ {0} /\ c + n + 1 <= b + 1
      BY <1>0
    <2> QED BY <2>1, Slice
  <1>4. w \in Seq(T) /\ Sliced(w, s, i, c)
    <2>1. c <= Len(s)
      BY <1>0
    <2> QED BY <2>1, Slice
  <1>5. z \in Seq(T) /\ Sliced(z, s, i, c + n)
    <2>1. c + n \in Nat /\ i <= c + n + 1 /\ c + n <= Len(s)
      BY <1>0
    <2> QED BY <2>1, Slice
  <1>6. u \in Seq(T) /\ Sliced(u, t, n + 1, b - c)
    <2> HIDE DEF t
    <2>1. n + 1 \in Nat \ {0} /\ b - c \in Nat /\ n + 1 <= b - c + 1 /\ b - c <= Len(t)
      BY <1>0, <1>2
    <2> QED BY <1>1, <2>1, Slice
  <1>7. x \in Seq(T) /\ Sliced(x, t, 1, n)
    <2> HIDE DEF t
    <2>1. 1 \in Nat \ {0} /\ 1 <= n + 1 /\ n <= Len(t)
      BY <1>0, <1>2
    <2> QED BY <1>0, <1>1, <2>1, Slice
  <1> HIDE DEF t, u, v, w, x, z
  <1>8. y \in Seq(T) /\ Glued(y, w, x)
    BY <1>4, <1>7, Joint
  <1> HIDE DEF y
  <1>9. u = v
    <2>1. Len(u) = b - c - n /\ \A k \in 1 .. b - c - n : u[k] = t[n + k]
      <3>1. b - c + 1 - (n + 1) = b - c - n /\ \A k \in 1 .. b - c - n : n + 1 - 1 + k = n + k
        BY <1>0
      <3> QED BY <1>6, <3>1 DEF Sliced
    <2>2. Len(v) = b - c - n /\ \A k \in 1 .. b - c - n : v[k] = s[c + n + k]
      <3>1. b + 1 - (c + n + 1) = b - c - n
            /\ \A k \in 1 .. b - c - n : c + n + 1 - 1 + k = c + n + k
        BY <1>0
      <3> QED BY <1>3, <3>1 DEF Sliced
    <2>3. ASSUME NEW k \in 1 .. Len(u) PROVE u[k] = v[k]
      <3>1. n + k \in 1 .. b - c /\ c + (n + k) = c + n + k /\ k \in 1 .. b - c - n
        BY <1>0, <2>1
      <3>2. t[n + k] = s[c + (n + k)]
        BY <1>2, <3>1
      <3> QED BY <2>1, <2>2, <3>1, <3>2
    <2> QED BY <1>3, <1>6, <2>1, <2>2, <2>3, SameSeq
  <1>10. y = z
    <2>1. Len(w) = c + 1 - i /\ \A k \in 1 .. c + 1 - i : w[k] = s[i - 1 + k]
      BY <1>4 DEF Sliced
    <2>2. Len(x) = n /\ \A k \in 1 .. n : x[k] = t[k]
      <3>1. n + 1 - 1 = n /\ \A k \in 1 .. n : 1 - 1 + k = k
        BY <1>0
      <3> QED BY <1>7, <3>1 DEF Sliced
    <2>3. Len(z) = c + n + 1 - i /\ \A k \in 1 .. c + n + 1 - i : z[k] = s[i - 1 + k]
      BY <1>5 DEF Sliced
    <2>4. Len(y) = c + 1 - i + n
      BY <1>8, <2>1, <2>2 DEF Glued
    <2>5. ASSUME NEW k \in 1 .. Len(y) PROVE y[k] = z[k]
      <3>1. CASE k <= c + 1 - i
        <4>1. k \in 1 .. c + 1 - i /\ k \in 1 .. c + n + 1 - i /\ k \in 1 .. Len(w)
          BY <1>0, <2>1, <2>4, <3>1
        <4>2. y[k] = w[k]
          BY <1>8, <4>1 DEF Glued
        <4> QED BY <2>1, <2>3, <4>1, <4>2
      <3>2. CASE k > c + 1 - i
        <4> DEFINE j == k - (c + 1 - i)
        <4>1. /\ j \in 1 .. n /\ k = Len(w) + j /\ k \in 1 .. c + n + 1 - i
              /\ j \in 1 .. b - c /\ c + j = i - 1 + k
          BY <1>0, <2>1, <2>4, <3>2
        <4>2. y[Len(w) + j] = x[j]
          BY <1>8, <2>2, <4>1 DEF Glued
        <4>3. x[j] = t[j] /\ t[j] = s[c + j] /\ z[k] = s[i - 1 + k]
          BY <1>2, <2>2, <2>3, <4>1
        <4> QED BY <4>1, <4>2, <4>3
      <3>3. k \in Int
        OBVIOUS
      <3> QED BY <3>1, <3>2, <3>3
    <2>6. Len(y) = Len(z)
      BY <1>0, <2>3, <2>4
    <2> QED BY <1>5, <1>8, <2>5, <2>6, SameSeq
  <1> QED
    BY <1>2, <1>9, <1>10 DEF t, u, v, w, x, y, z

\* Where the next frame lies in the bytes.
LEMMA NextFrame ==
    ASSUME SenderTyped, NEW k \in 0 .. Len(sent), Ends(sent, k) < Len(All)
    PROVE  LET m == sent[k + 1]
               e == Ends(sent, k)
           IN  /\ k < Len(sent) /\ m \in AnyFrame /\ k + 1 \in 0 .. Len(sent)
               /\ IsFrame(FrameOf(m), m) /\ Holds(All, e, FrameOf(m))
               /\ Ends(sent, k + 1) = e + 4 + Len(Rest(m))
  <1>1. sent \in Seq(AnyFrame) /\ Len(sent) \in Nat
    BY DEF SenderTyped
  <1>2. k # Len(sent)
    BY <1>1, FrameAt DEF All
  <1>3. k \in 0 .. Len(sent) - 1 /\ k < Len(sent) /\ k + 1 \in 0 .. Len(sent)
    BY <1>1, <1>2
  <1>4. /\ sent[k + 1] \in AnyFrame /\ Holds(All, Ends(sent, k), FrameOf(sent[k + 1]))
        /\ Ends(sent, k + 1) = Ends(sent, k) + Len(FrameOf(sent[k + 1]))
        /\ Ends(sent, k) \in Nat
    BY <1>1, <1>3, FrameAt DEF All
  <1>5. IsFrame(FrameOf(sent[k + 1]), sent[k + 1])
    BY <1>4, FrameIs
  <1>6. Ends(sent, k + 1) = Ends(sent, k) + 4 + Len(Rest(sent[k + 1]))
    BY <1>4, <1>5 DEF IsFrame
  <1> QED
    BY <1>3, <1>4, <1>5, <1>6

\* Four bytes read from the end of a frame are the length of the next, ...
LEMMA LengthRead ==
    ASSUME SenderTyped, NEW k \in 0 .. Len(sent), Ends(sent, k) + 4 <= Len(All)
    PROVE  /\ k < Len(sent) /\ sent[k + 1] \in AnyFrame
           /\ WordAt(SubSeq(All, Ends(sent, k) + 1, Ends(sent, k) + 4), 1) =
                  Len(Rest(sent[k + 1]))
  <1> DEFINE e == Ends(sent, k)
             r == SubSeq(All, e + 1, e + 4)
             m == sent[k + 1]
             f == FrameOf(m)
  <1>1. All \in Seq(Byte) /\ e \in Nat /\ Len(All) \in Nat
    BY FrameAt DEF SenderTyped, All
  <1>2. k < Len(sent) /\ m \in AnyFrame /\ IsFrame(f, m) /\ Holds(All, e, f)
    <2>1. e < Len(All)
      BY <1>1
    <2> QED BY <2>1, NextFrame
  <1> HIDE DEF r, f, m, e
  <1>3. r \in Seq(Byte) /\ After(r, All, e, 4)
    <2>1. 4 \in Nat /\ e + 4 <= Len(All)
      BY DEF e
    <2> QED BY <1>1, <2>1, SliceAfter DEF r
  <1>4. \A j \in 1 .. 4 : r[j] = f[j]
    <2>2. \A j \in 1 .. 4 : r[j] = All[e + j]
      BY <1>3 DEF After
    <2>3. Len(f) >= 4
      BY <1>2 DEF IsFrame
    <2>4. \A j \in 1 .. 4 : All[e + j] = f[j]
      BY <1>2, <2>3 DEF Holds
    <2> QED BY <2>2, <2>4
  <1>5. WordAt(r, 1) = WordAt(f, 1)
    <2>1. r[1] = f[1] /\ r[1 + 1] = f[1 + 1] /\ r[1 + 2] = f[1 + 2] /\ r[1 + 3] = f[1 + 3]
      BY <1>4
    <2> QED BY <2>1 DEF WordAt
  <1>6. WordAt(f, 1) = Len(Rest(m))
    BY <1>2 DEF IsFrame
  <1> QED
    BY <1>2, <1>5, <1>6 DEF r, e, m

\* ... and as many as that after them its body.
LEMMA BodyRead ==
    ASSUME SenderTyped, NEW k \in 0 .. Len(sent), k < Len(sent),
           NEW c \in Nat, c = Ends(sent, k) + 4 + Len(Rest(sent[k + 1])), c <= Len(All)
    PROVE  /\ SubSeq(All, Ends(sent, k) + 5, c) = Rest(sent[k + 1])
           /\ c = Ends(sent, k + 1) /\ k + 1 \in 0 .. Len(sent)
  <1> DEFINE e == Ends(sent, k)
             r == SubSeq(All, e + 5, c)
             m == sent[k + 1]
             f == FrameOf(m)
             b == Rest(m)
             n == Len(b)
  <1>1. All \in Seq(Byte) /\ e \in Nat /\ Len(All) \in Nat
    BY FrameAt DEF SenderTyped, All
  <1>2. m \in AnyFrame
    BY FrameAt DEF SenderTyped
  <1>3. n \in Nat
    BY <1>2, FrameIs DEF IsFrame
  <1>4. IsFrame(f, m) /\ Holds(All, e, f) /\ c = Ends(sent, k + 1) /\ k + 1 \in 0 .. Len(sent)
    <2>1. e < Len(All)
      <3> HIDE DEF e, n
      <3> QED BY <1>1, <1>3 DEF e, n
    <2> QED BY <2>1, NextFrame
  <1>5. c = e + 4 + n
    OBVIOUS
  <1> HIDE DEF r, f, m, e, b, n
  <1>6. r \in Seq(Byte) /\ After(r, All, e + 4, n)
    <2>1. e + 4 \in Nat /\ e + 4 + n <= Len(All) /\ e + 5 = e + 4 + 1 /\ n \in Nat
      BY <1>1, <1>3, <1>5
    <2> QED BY <1>1, <1>5, <2>1, SliceAfter DEF r
  <1>7. b \in Seq(Byte) /\ Len(b) = n /\ Len(f) = 4 + n /\ \A j \in 1 .. n : f[4 + j] = b[j]
    BY <1>4 DEF IsFrame, b, n
  <1>8. Len(r) = n /\ \A j \in 1 .. n : r[j] = All[e + 4 + j]
    BY <1>6 DEF After
  <1>9. \A j \in 1 .. n : r[j] = b[j]
    <2> SUFFICES ASSUME NEW j \in 1 .. n PROVE r[j] = b[j]
      OBVIOUS
    <2>1. 4 + j \in 1 .. Len(f) /\ e + (4 + j) = e + 4 + j
      BY <1>1, <1>3, <1>7
    <2>2. All[e + (4 + j)] = f[4 + j]
      BY <1>4, <2>1 DEF Holds
    <2> QED BY <1>7, <1>8, <2>1, <2>2
  <1>10. r = b
    BY <1>6, <1>7, <1>8, <1>9, SameSeq
  <1> QED
    BY <1>4, <1>10 DEF r, e, b, m

\* What Positioned asks for after a step.
LEMMA Moved ==
    ASSUME UNCHANGED <<sent, lost>>, NEW k \in Nat, NEW c \in Nat,
           k \in 0 .. Len(sent), c \in Ends(sent, k) .. Arrived,
           Known(k), received' = Told(Upto(sent, k)), stream' = SubSeq(All, c + 1, Arrived),
           \/ /\ message_size' = 0
              /\ length_buf' = SubSeq(All, Ends(sent, k) + 1, c) /\ message_buf' = <<>>
           \/ /\ message_size' # 0
              /\ k < Len(sent) /\ length_buf' = <<>>
              /\ c >= Ends(sent, k) + 4
              /\ message_size' = Len(Rest(sent[k + 1]))
              /\ message_buf' = SubSeq(All, Ends(sent, k) + 5, c)
              /\ Len(message_buf') = message_size' => sent[k + 1] = Unknown
    PROVE  Positioned'
  <1>1. sent' = sent /\ lost' = lost /\ All' = All /\ Arrived' = Arrived
        /\ Ends(sent, k)' = Ends(sent, k) /\ Known(k)' = Known(k)
    BY DEF All, Arrived, Known
  <1>2. (IF message_size = 0 THEN AtLength(k, c) ELSE AtBody(k, c))'
    <2>1. CASE message_size' = 0
      BY <1>1, <2>1 DEF AtLength
    <2>2. CASE message_size' # 0
      BY <1>1, <2>2 DEF AtBody
    <2> QED BY <2>1, <2>2
  <1>3. Position(k, c)'
    BY <1>1, <1>2 DEF Position
  <1> QED
    BY <1>3 DEF Positioned

\* What the next frame tells.
LEMMA ToldNext ==
    ASSUME sent \in Seq(AnyFrame), NEW k \in 0 .. Len(sent), k < Len(sent)
    PROVE  Told(Upto(sent, k + 1)) =
               IF sent[k + 1] = KeepAlive THEN Told(Upto(sent, k))
               ELSE Append(Told(Upto(sent, k)), Meaning(sent[k + 1]))
  <1>1. k \in 0 .. Len(sent) - 1
    OBVIOUS
  <1> QED
    BY <1>1, ToldUpto

LEMMA KnownNext ==
    ASSUME NEW k \in Nat, Known(k), sent[k + 1] # Unknown
    PROVE  Known(k + 1)
  BY DEF Known

LEMMA NothingOf ==
    ASSUME NEW T, NEW s \in Seq(T), NEW j \in 0 .. Len(s), NEW i, i = j + 1
    PROVE  SubSeq(s, i, j) = <<>>
  OBVIOUS

\* A read moves on in the bytes, and over the end of a frame with the message in it.
LEMMA ReadPositioned ==
    ASSUME ReaderTyped, SenderTyped, Positioned, NEW n \in 1 .. Len(stream), Reading(n),
           UNCHANGED <<sent, lost>>
    PROVE  Positioned'
  <1>1. PICK k \in Nat, c \in Nat : Position(k, c)
    BY DEF Positioned
  <1> DEFINE e == Ends(sent, k)
             M == Arrived
             m == sent[k + 1]
             d == c + n
             length == length_buf \o Read(n)
             body == message_buf \o Read(n)
  <1>2. /\ All \in Seq(Byte) /\ e \in Nat /\ Len(All) \in Nat /\ lost \in Nat
        /\ M = Len(All) - lost /\ M \in Nat /\ M <= Len(All)
        /\ k \in 0 .. Len(sent) /\ Len(sent) \in Nat /\ sent \in Seq(AnyFrame)
    <2>1. sent \in Seq(AnyFrame) /\ lost \in Nat /\ lost <= Len(All)
      BY DEF SenderTyped, All
    <2>2. k \in 0 .. Len(sent) /\ Len(sent) \in Nat
      BY <1>1, <2>1 DEF Position
    <2>3. All \in Seq(Byte) /\ Len(All) \in Nat /\ e \in Nat
      BY <2>1, <2>2, FrameAt DEF All
    <2> QED BY <2>1, <2>2, <2>3 DEF Arrived
  <1>3. /\ c \in e .. M /\ Known(k) /\ received = Told(Upto(sent, k))
        /\ stream = SubSeq(All, c + 1, M)
        /\ IF message_size = 0 THEN AtLength(k, c) ELSE AtBody(k, c)
    BY <1>1 DEF Position
  <1>4. /\ Len(stream) = M - c /\ n \in 1 .. M - c /\ d \in Nat /\ d <= M /\ e <= c
        /\ d >= c + 1
    <2> HIDE DEF e, M
    <2>1. stream \in Seq(Byte) /\ Sliced(stream, All, c + 1, M)
      <3>1. c + 1 \in Nat \ {0} /\ c + 1 <= M + 1
        BY <1>2, <1>3
      <3> QED BY <1>2, <1>3, <3>1, Slice
    <2>2. Len(stream) = M - c
      BY <1>2, <2>1 DEF Sliced
    <2> QED BY <1>2, <1>3, <2>2
  <1>10. sent \in Seq(AnyFrame) /\ k \in 0 .. Len(sent)
    BY <1>2
  <1>12. e \in Nat /\ e <= c /\ Len(All) \in Nat /\ d \in Nat /\ d <= Len(All)
    <2> HIDE DEF d, e, M
    <2> QED BY <1>2, <1>4
  <1>11. received = Told(Upto(sent, k)) /\ Known(k)
    BY <1>3
  <1>5. stream' = SubSeq(All, d + 1, M)
    <2>1. stream' = SubSeq(stream, n + 1, Len(stream))
      BY DEF Reading, ReadLength, ReadPart, ReadMessage, Reads
    <2> HIDE DEF e, M
    <2>2. 1 \in Nat \ {0} /\ 1 <= c + 1 /\ c <= M
      BY <1>3, <1>4
    <2>3. SubSeq(SubSeq(All, c + 1, M), n + 1, M - c) = SubSeq(All, c + n + 1, M)
      BY <1>2, <1>4, <2>2, SliceOn
    <2> QED BY <1>3, <1>4, <2>1, <2>3
  <1>6. ASSUME NEW i \in Nat \ {0}, i <= c + 1
        PROVE  SubSeq(All, i, c) \o Read(n) = SubSeq(All, i, d)
    <2> HIDE DEF e, M
    <2>1. c <= M /\ M \in Nat /\ M <= Len(All) /\ n \in 1 .. M - c /\ All \in Seq(Byte)
      BY <1>2, <1>3, <1>4
    <2>2. SubSeq(All, i, c) \o SubSeq(SubSeq(All, c + 1, M), 1, n) = SubSeq(All, i, c + n)
      <3> HIDE DEF d
      <3> QED BY <1>6, <2>1, SliceOn
    <2> QED BY <1>3, <2>2 DEF Read
  <1>7. UNCHANGED <<sent, lost>> /\ d \in e .. M
    BY <1>2, <1>4
  <1>8. CASE ReadLength(n)
    <2>1. /\ message_size = 0 /\ length_buf = SubSeq(All, e + 1, c) /\ message_buf = <<>>
          /\ UNCHANGED <<message_buf, received>> /\ n <= 4 - Len(length_buf)
      BY <1>3, <1>8 DEF ReadLength, AtLength, Reads
    <2>2. length = SubSeq(All, e + 1, d)
      <3>1. e + 1 \in Nat \ {0} /\ e + 1 <= c + 1
        BY <1>2, <1>4
      <3> QED BY <1>6, <2>1, <3>1
    <2>3. Len(length) = d - e
      <3> HIDE DEF e, M, d, length
      <3>1. After(length, All, e, d - e)
        <4>1. d - e \in Nat /\ e + (d - e) <= Len(All) /\ d = e + (d - e)
          BY <1>2, <1>4, <1>7
        <4> QED BY <1>2, <2>2, <4>1, SliceAfter
      <3> QED BY <3>1 DEF After
    <2>4. CASE Len(length) # 4
      <3>1. length_buf' = length /\ message_size' = 0 /\ message_buf' = <<>>
        BY <1>8, <2>1, <2>4 DEF ReadLength
      <3> HIDE DEF d, length
      <3> QED BY <1>2, <1>3, <1>4, <1>5, <1>7, <2>1, <2>2, <3>1, Moved
    <2>5. CASE Len(length) = 4
      <3>1. length_buf' = <<>> /\ message_size' = WordAt(length, 1) /\ message_buf' = <<>>
        BY <1>8, <2>1, <2>5 DEF ReadLength
      <3>2. d = e + 4
        <4>1. d \in Nat /\ e \in Nat /\ d - e = 4
          BY <1>2, <1>4, <2>3, <2>5
        <4> HIDE DEF d, e
        <4> QED BY <4>1
      <3>3. k < Len(sent) /\ m \in AnyFrame /\ WordAt(length, 1) = Len(Rest(m))
        <4>1. e + 4 <= Len(All) /\ length = SubSeq(All, e + 1, e + 4)
          <5> HIDE DEF d, e, M, length
          <5> QED BY <1>2, <1>4, <2>2, <3>2
        <4> HIDE DEF length
        <4> QED BY <1>2, <4>1, LengthRead
      <3>4. CASE Rest(m) = <<>>
        <4>1. m = KeepAlive /\ Len(Rest(m)) = 0
          BY <3>3, <3>4, RestIs
        <4>2. d \in Nat /\ d = e + 4 + Len(Rest(m)) /\ d <= Len(All)
          <5> HIDE DEF d, e, M
          <5> QED BY <1>2, <1>4, <3>2, <4>1
        <4>3. d = Ends(sent, k + 1) /\ k + 1 \in 0 .. Len(sent) /\ k + 1 \in Nat
          <5>1. k < Len(sent) /\ k + 1 \in Nat
            BY <3>3
          <5> HIDE DEF d
          <5> QED BY <1>10, <4>2, <5>1, BodyRead
        <4>4. received' = Told(Upto(sent, k + 1))
          <5>1. Told(Upto(sent, k + 1)) = Told(Upto(sent, k))
            BY <1>10, <3>3, <4>1, ToldNext
          <5> QED BY <1>11, <2>1, <5>1
        <4>5. Known(k + 1)
          <5>1. m # Unknown
            BY <4>1, NoMessage
          <5> QED BY <1>11, <5>1, KnownNext
        <4>6. message_size' = 0 /\ length_buf' = SubSeq(All, Ends(sent, k + 1) + 1, d)
          <5>1. SubSeq(All, d + 1, d) = <<>>
            <6> HIDE DEF d
            <6>1. d \in 0 .. Len(All)
              BY <1>2, <4>2
            <6> QED BY <1>2, <6>1, NothingOf
          <5> QED BY <3>1, <3>3, <4>1, <4>3, <5>1
        <4>7. d \in Ends(sent, k + 1) .. M
          <5> HIDE DEF d, M
          <5> QED BY <1>2, <1>4, <4>3
        <4> HIDE DEF d
        <4> QED BY <1>4, <1>5, <1>7, <3>1, <4>3, <4>4, <4>5, <4>6, <4>7, Moved
      <3>5. CASE Rest(m) # <<>>
        <4>1. Rest(m) \in Seq(Byte)
          BY <3>3, FrameIs DEF IsFrame
        <4>2. Len(Rest(m)) # 0 /\ Len(<<>>) = 0
          BY <3>5, <4>1
        <4>3. message_buf' = SubSeq(All, e + 5, d)
          <5>1. SubSeq(All, e + 5, d) = <<>>
            <6> HIDE DEF d, e, M
            <6>1. e + 5 = d + 1 /\ d \in 0 .. Len(All)
              BY <1>2, <1>4, <3>2
            <6> QED BY <1>2, <6>1, NothingOf
          <5> QED BY <3>1, <5>1
        <4>4. message_size' # 0 /\ message_size' = Len(Rest(m)) /\ d >= e + 4
              /\ Len(message_buf') # message_size'
          <5>1. d >= e + 4
            <6> HIDE DEF d, e
            <6> QED BY <1>2, <3>2
          <5> QED BY <3>1, <3>3, <4>2, <5>1
        <4>5. received' = Told(Upto(sent, k)) /\ length_buf' = <<>>
          BY <1>3, <2>1, <3>1
        <4> HIDE DEF d
        <4> QED BY <1>2, <1>3, <1>4, <1>5, <1>7, <3>3, <4>3, <4>4, <4>5, Moved
      <3> QED BY <3>4, <3>5
    <2> QED BY <2>4, <2>5
  <1>9. CASE ReadPart(n) \/ ReadMessage(n)
    <2>1. /\ message_size # 0 /\ k < Len(sent) /\ length_buf = <<>> /\ c >= e + 4
          /\ message_size = Len(Rest(m)) /\ message_buf = SubSeq(All, e + 5, c)
          /\ UNCHANGED length_buf
      BY <1>3, <1>9 DEF ReadPart, ReadMessage, AtBody
    <2>2. body = SubSeq(All, e + 5, d)
      <3>1. e + 5 \in Nat \ {0} /\ e + 5 <= c + 1
        <4> HIDE DEF e
        <4> QED BY <1>12, <2>1
      <3> QED BY <1>6, <2>1, <3>1
    <2>3. Len(body) = Len(message_buf) + n /\ Len(message_buf) \in Nat
      BY ReadIs
    <2>4. d >= e + 4
      <3> HIDE DEF e
      <3> QED BY <1>2, <1>4, <2>1
    <2>5. CASE ReadPart(n)
      <3>1. /\ message_buf' = body /\ message_size' = message_size /\ received' = received
            /\ Len(body) # message_size
        <4>1. /\ Len(message_buf) + n < message_size /\ message_buf' = body
              /\ message_size' = message_size /\ received' = received
          BY <2>5 DEF ReadPart
        <4>2. message_size \in Nat
          BY ReadIs
        <4> HIDE DEF body
        <4> QED BY <2>3, <4>1, <4>2
      <3> HIDE DEF d, body
      <3> QED BY <1>2, <1>3, <1>4, <1>5, <1>7, <2>1, <2>2, <2>4, <3>1, Moved
    <2>6. CASE ReadMessage(n)
      <3>1. /\ Len(body) = message_size
            /\ \/ /\ Parses(body) /\ received' = Append(received, FromBytes(body))
                  /\ message_buf' = <<>> /\ message_size' = 0
               \/ /\ ~ Parses(body) /\ message_buf' = body
                  /\ message_size' = message_size /\ received' = received
        BY <2>6 DEF ReadMessage
      <3>2. d = e + 4 + Len(Rest(m))
        <4>1. After(body, All, e + 4, d - (e + 4))
          <5> HIDE DEF d, e, M, body
          <5>1. d - (e + 4) \in Nat /\ e + 4 \in Nat /\ e + 4 + (d - (e + 4)) <= Len(All)
                /\ d = e + 4 + (d - (e + 4)) /\ e + 5 = e + 4 + 1
            BY <1>2, <1>4, <2>4
          <5> QED BY <1>2, <2>2, <5>1, SliceAfter
        <4> HIDE DEF d, e, body
        <4>2. Len(body) = d - (e + 4)
          BY <4>1 DEF After
        <4> QED BY <1>2, <1>4, <2>1, <3>1, <4>2
      <3>3. body = Rest(m) /\ d = Ends(sent, k + 1) /\ k + 1 \in 0 .. Len(sent) /\ k + 1 \in Nat
        <4>1. k < Len(sent) /\ d \in Nat /\ d <= Len(All)
          BY <1>12, <2>1
        <4>2. SubSeq(All, e + 5, d) = Rest(m) /\ d = Ends(sent, k + 1) /\ k + 1 \in 0 .. Len(sent)
          <5> HIDE DEF d
          <5> QED BY <1>10, <3>2, <4>1, BodyRead
        <4>3. k + 1 \in Nat
          OBVIOUS
        <4> QED BY <2>2, <4>2, <4>3
      <3>4. m \in AnyFrame /\ m # KeepAlive
        <4>1. m \in AnyFrame
          <5>1. k + 1 \in 1 .. Len(sent)
            BY <1>10, <2>1
          <5> QED BY <1>10, <5>1, ElementOf
        <4>2. Rest(m) # <<>>
          BY <2>1
        <4> QED BY <4>1, <4>2, RestIs
      <3>5. CASE Parses(body)
        <4>1. m # Unknown /\ FromBytes(body) = Meaning(m)
          BY <3>3, <3>4, <3>5, RestIs
        <4>2. received' = Told(Upto(sent, k + 1))
          <5>1. Told(Upto(sent, k + 1)) = Append(Told(Upto(sent, k)), Meaning(m))
            BY <1>10, <2>1, <3>4, ToldNext
          <5>2. received' = Append(received, FromBytes(body))
            BY <3>1, <3>5
          <5> HIDE DEF body
          <5> QED BY <1>11, <4>1, <5>1, <5>2
        <4>3. Known(k + 1)
          BY <1>11, <4>1, KnownNext
        <4>4. message_size' = 0 /\ message_buf' = <<>>
              /\ length_buf' = SubSeq(All, Ends(sent, k + 1) + 1, d)
          <5>1. SubSeq(All, d + 1, d) = <<>>
            <6> HIDE DEF d, M
            <6>1. d \in 0 .. Len(All)
              BY <1>2, <1>4
            <6> QED BY <1>2, <6>1, NothingOf
          <5> QED BY <2>1, <3>1, <3>3, <3>5, <5>1
        <4>5. d \in Ends(sent, k + 1) .. M
          <5> HIDE DEF d, M
          <5> QED BY <1>2, <1>4, <3>3
        <4> HIDE DEF d
        <4> QED BY <1>4, <1>5, <1>7, <3>3, <4>2, <4>3, <4>4, <4>5, Moved
      <3>6. CASE ~ Parses(body)
        <4>1. m = Unknown
          BY <3>3, <3>4, <3>6, RestIs
        <4>2. message_buf' = body /\ message_size' = message_size /\ received' = received
          BY <3>1, <3>6
        <4> HIDE DEF d, body
        <4> QED BY <1>2, <1>3, <1>4, <1>5, <1>7, <2>1, <2>2, <2>4, <4>1, <4>2, Moved
      <3> QED BY <3>5, <3>6
    <2> QED BY <1>9, <2>5, <2>6
  <1> QED
    BY <1>8, <1>9 DEF Reading

\* Positioned is inductive beside Typed.
LEMMA InitPositioned == Init => Positioned
  <1> SUFFICES ASSUME Init PROVE Positioned
    OBVIOUS
  <1>1. Typed
    BY InitTyped
  <1>2. sent \in Seq(AnyFrame) /\ lost \in Nat /\ lost <= Len(All) /\ Len(All) \in Nat
    BY <1>1, FrameAt DEF Typed, SenderTyped, All
  <1>3. Ends(sent, 0) = 0 /\ Told(Upto(sent, 0)) = <<>> /\ Arrived \in Nat
    BY <1>2, FrameAt, ToldUpto DEF Arrived
  <1>4. SubSeq(All, 0 + 1, 0) = <<>>
    OBVIOUS
  <1>5. /\ length_buf = <<>> /\ message_size = 0 /\ message_buf = <<>> /\ received = <<>>
        /\ stream = SubSeq(All, 0 + 1, Arrived)
    BY DEF Init, ReaderInit, All, Arrived
  <1>6. Known(0) /\ 0 \in 0 .. Len(sent) /\ 0 \in 0 .. Arrived /\ 0 \in Nat
    BY <1>2, <1>3 DEF Known
  <1>7. AtLength(0, 0)
    BY <1>3, <1>4, <1>5 DEF AtLength
  <1>8. Position(0, 0)
    BY <1>3, <1>5, <1>6, <1>7 DEF Position
  <1> QED
    BY <1>6, <1>8 DEF Positioned

LEMMA NextPositioned == Typed /\ Positioned /\ [Next]_vars => Positioned'
  <1> SUFFICES ASSUME Typed, Positioned, [Next]_vars PROVE Positioned'
    OBVIOUS
  <1>1. CASE UNCHANGED readerVars /\ UNCHANGED <<sent, lost>>
    <2>1. /\ sent' = sent /\ lost' = lost /\ stream' = stream /\ length_buf' = length_buf
          /\ message_size' = message_size /\ message_buf' = message_buf
          /\ received' = received
      BY <1>1 DEF readerVars
    <2>2. PICK k \in Nat, c \in Nat : Position(k, c)
      BY DEF Positioned
    <2>3. Position(k, c)'
      BY <2>1, <2>2 DEF Position, AtLength, AtBody, Known, Arrived, All
    <2> QED BY <2>3 DEF Positioned
  <1>2. CASE Second
    BY <1>1, <1>2 DEF Second, DropNext
  <1>3. ASSUME NEW n \in 1 .. Len(stream), Receive(n) PROVE Positioned'
    <2>1. Reading(n) /\ UNCHANGED <<sent, lost>>
      BY <1>3 DEF Receive, Reading
    <2> QED BY <2>1, ReadPositioned DEF Typed
  <1>4. CASE UNCHANGED vars
    BY <1>1, <1>4 DEF vars, readerVars
  <1> QED
    BY <1>2, <1>3, <1>4 DEF Next

\* What was read are the first frames, and no unknown one is among them.
LEMMA PositionedInOrder == Positioned => InOrder
  BY DEF Positioned, Position, InOrder, Upto

\* The two buffers of the reader hold what was read of the frame in hand, and no more.
THEOREM ReaderPositioned == Spec => []Positioned
  <1>1. Typed /\ Positioned /\ Typed' /\ [Next]_vars => Positioned'
    BY NextPositioned
  <1> QED
    BY <1>1, InitPositioned, ConnectionTyped, PTL DEF Spec

\* Whatever the peer sends, however the bytes arrive and however often the tick drops
\* next(), what it returns are the messages that were sent, whole, once and in order:
\* the two buffers always hold exactly what is read of the frame in hand.
THEOREM MessagesInOrder == Spec => []InOrder
  BY ReaderPositioned, PositionedInOrder, PTL

\* More frames are not shorter.
LEMMA EndsGrow ==
    ASSUME NEW s \in Seq(AnyFrame), NEW n \in 0 .. Len(s), NEW k \in 0 .. n
    PROVE  Ends(s, k) <= Ends(s, n)
  <1> DEFINE r == Upto(s, n)
             t == Upto(r, k)
             u == Upto(s, k)
  <1>1. r \in Seq(AnyFrame) /\ Len(r) = n /\ \A j \in 1 .. n : r[j] = s[j]
    BY DEF Upto
  <1>2. u \in Seq(AnyFrame) /\ Len(u) = k /\ \A j \in 1 .. k : u[j] = s[j]
    BY DEF Upto
  <1> HIDE DEF r, u
  <1>3. t \in Seq(AnyFrame) /\ Len(t) = k /\ \A j \in 1 .. k : t[j] = r[j]
    BY <1>1 DEF Upto
  <1> HIDE DEF t
  <1>4. t = u
    <2>1. \A j \in 1 .. k : t[j] = u[j]
      BY <1>1, <1>2, <1>3
    <2> QED BY <1>2, <1>3, <2>1, SameSeq
  <1>5. Ends(r, k) \in 0 .. Len(Bytes(r))
    <2>1. k \in 0 .. Len(r)
      BY <1>1
    <2> QED BY <1>1, <2>1, FrameAt
  <1>6. Ends(r, k) <= Len(Bytes(r))
    <2> DEFINE x == Ends(r, k)
               y == Len(Bytes(r))
    <2>1. y \in Nat
      BY <1>1, FrameAt
    <2> HIDE DEF x, y
    <2>2. x \in 0 .. y => x <= y
      BY <2>1
    <2> QED BY <1>5, <2>2 DEF x, y
  <1> QED
    BY <1>4, <1>6 DEF Ends, t, u, r

\* Of the numbers of frames that have come there is a greatest, and Heard is of that.
LEMMA HeardIs ==
    ASSUME SenderTyped, NEW k \in 0 .. Len(sent), Come(k), k < Len(sent) => ~ Come(k + 1)
    PROVE  Heard = Told(Upto(sent, k))
  <1> DEFINE Final(n) == Come(n) /\ (n < Len(sent) => ~ Come(n + 1))
             K == CHOOSE n \in 0 .. Len(sent) : Final(n)
  <1>0. sent \in Seq(AnyFrame) /\ Len(sent) \in Nat /\ lost \in Nat /\ Len(All) \in Nat
    BY FrameAt DEF SenderTyped, All
  <1>1. ASSUME NEW n \in 0 .. Len(sent), NEW j \in 0 .. n, Come(n) PROVE Come(j)
    <2>1. Known(j)
      BY <1>1 DEF Come, Known
    <2>2. Ends(sent, j) <= Ends(sent, n)
      BY <1>0, EndsGrow
    <2>3. Ends(sent, j) \in Nat /\ Ends(sent, n) \in Nat
      <3>1. j \in 0 .. Len(sent)
        BY <1>0
      <3> QED BY <1>0, <3>1, FrameAt
    <2>4. Ends(sent, n) + lost <= Len(All)
      BY <1>1 DEF Come, Ends, Upto, All
    <2>5. Ends(sent, j) + lost <= Len(All)
      BY <1>0, <2>2, <2>3, <2>4
    <2> QED BY <2>1, <2>5 DEF Come, Ends, Upto, All
  <1>2. K \in 0 .. Len(sent) /\ Final(K)
    <2>1. Final(k)
      OBVIOUS
    <2> HIDE DEF Final
    <2> QED BY <2>1
  <1>3. Heard = Told(Upto(sent, K))
    BY DEF Heard, Upto
  <1> HIDE DEF K
  <1>4. ~ (K < k)
    <2> SUFFICES ASSUME K < k PROVE FALSE
      OBVIOUS
    <2>1. K + 1 \in 0 .. k /\ K < Len(sent)
      BY <1>0, <1>2
    <2> QED BY <1>1, <1>2, <2>1
  <1>5. ~ (k < K)
    <2> SUFFICES ASSUME k < K PROVE FALSE
      OBVIOUS
    <2>1. k + 1 \in 0 .. K /\ k < Len(sent)
      BY <1>0, <1>2
    <2> QED BY <1>1, <1>2, <2>1
  <1>6. K = k
    BY <1>0, <1>2, <1>4, <1>5
  <1> QED
    BY <1>3, <1>6

\* A reader that has nothing more to read is not in the middle of a frame that came.
LEMMA PositionedNothingMissed == Typed /\ Positioned => NothingMissed
  <1> SUFFICES ASSUME Typed, Positioned, Drained PROVE received = Heard
    BY DEF NothingMissed
  <1>1. PICK k \in Nat, c \in Nat : Position(k, c)
    BY DEF Positioned
  <1> DEFINE e == Ends(sent, k)
             m == sent[k + 1]
             M == Arrived
  <1>2. /\ sent \in Seq(AnyFrame) /\ lost \in Nat /\ All \in Seq(Byte) /\ Len(All) \in Nat
        /\ k \in 0 .. Len(sent) /\ e \in Nat /\ Known(k) /\ received = Told(Upto(sent, k))
    <2>1. sent \in Seq(AnyFrame) /\ lost \in Nat
      BY DEF Typed, SenderTyped
    <2>2. k \in 0 .. Len(sent) /\ Known(k) /\ received = Told(Upto(sent, k))
      BY <1>1 DEF Position
    <2> QED BY <2>1, <2>2, FrameAt DEF All
  <1>3. c \in e .. M /\ stream = SubSeq(All, c + 1, M)
        /\ IF message_size = 0 THEN AtLength(k, c) ELSE AtBody(k, c)
    BY <1>1 DEF Position
  <1>4. M = Len(All) - lost /\ M \in Nat /\ e <= c /\ c <= M /\ M <= Len(All)
    <2>1. M = Len(All) - lost
      BY DEF Arrived
    <2> HIDE DEF e, M
    <2> QED BY <1>2, <1>3, <2>1
  <1>5. Come(k)
    <2>1. e + lost <= Len(All)
      <3> HIDE DEF e, M
      <3> QED BY <1>2, <1>4
    <2> QED BY <1>2, <2>1 DEF Come, Ends, Upto, All
  <1>6. ASSUME k < Len(sent), Come(k + 1) PROVE FALSE
    <2> DEFINE g == Len(Rest(m))
    <2>1. m \in AnyFrame /\ Len(FrameOf(m)) = 4 + g /\ g \in Nat
          /\ Ends(sent, k + 1) = e + Len(FrameOf(m))
      <3>1. k \in 0 .. Len(sent) - 1
        BY <1>2, <1>6
      <3>2. m \in AnyFrame /\ Ends(sent, k + 1) = e + Len(FrameOf(m))
        BY <1>2, <3>1, FrameAt
      <3> QED BY <3>2, FrameIs DEF IsFrame
    <2>2. m # Unknown
      <3>1. k + 1 \in 1 .. k + 1
        BY <1>2
      <3> QED BY <1>6, <3>1 DEF Come, Known
    <2>3. e + (4 + g) <= M
      <3>1. Ends(sent, k + 1) + lost <= Len(All)
        BY <1>6 DEF Come, Ends, Upto, All
      <3> DEFINE f == Ends(sent, k + 1)
      <3>2. f = e + (4 + g)
        BY <2>1
      <3> HIDE DEF e, g, M, f
      <3>3. f + lost <= Len(All)
        BY <3>1 DEF f
      <3> QED BY <1>2, <1>4, <2>1, <3>2, <3>3
    <2>4. message_size # 0 => Len(message_buf) # message_size
      BY <1>3, <2>2 DEF AtBody
    <2>5. c = M
      <3>1. stream = <<>>
        BY <2>4 DEF Drained
      <3>2. After(stream, All, c, M - c)
        <4> HIDE DEF e, M
        <4>1. M - c \in Nat /\ c + (M - c) <= Len(All) /\ M = c + (M - c)
          BY <1>4
        <4> QED BY <1>2, <1>3, <4>1, SliceAfter
      <3> HIDE DEF M
      <3>3. Len(stream) = M - c /\ Len(<<>>) = 0
        BY <3>2 DEF After
      <3> QED BY <1>4, <3>1, <3>3
    <2>6. CASE message_size = 0
      <3>1. length_buf = SubSeq(All, e + 1, c) /\ Len(length_buf) < 4
        BY <1>3, <2>6 DEF AtLength, Typed, ReaderTyped
      <3> HIDE DEF e, M, g
      <3>2. c - e \in Nat /\ e + (c - e) <= Len(All) /\ c = e + (c - e)
        BY <1>2, <1>4
      <3>3. After(length_buf, All, e, c - e)
        BY <1>2, <3>1, <3>2, SliceAfter
      <3>4. Len(length_buf) = c - e
        BY <3>3 DEF After
      <3> QED BY <1>2, <1>4, <2>1, <2>3, <2>5, <3>1, <3>4
    <2>7. CASE message_size # 0
      <3>1. c >= e + 4 /\ message_size = g /\ message_buf = SubSeq(All, e + 5, c)
        BY <1>3, <2>7 DEF AtBody
      <3>2. Len(message_buf) <= message_size
        BY DEF Typed, ReaderTyped
      <3> HIDE DEF e, M, g
      <3>3. c - (e + 4) \in Nat /\ e + 4 \in Nat /\ e + 4 + (c - (e + 4)) <= Len(All)
            /\ c = e + 4 + (c - (e + 4)) /\ e + 5 = e + 4 + 1
        BY <1>2, <1>4, <3>1
      <3>4. After(message_buf, All, e + 4, c - (e + 4))
        BY <1>2, <3>1, <3>3, SliceAfter
      <3>5. Len(message_buf) = c - (e + 4)
        BY <3>4 DEF After
      <3>6. Len(message_buf) = message_size
        BY <1>2, <1>4, <2>1, <2>3, <2>5, <3>1, <3>2, <3>5
      <3> QED BY <2>4, <2>7, <3>6
    <2> QED BY <2>6, <2>7
  <1>7. Heard = Told(Upto(sent, k))
    <2>1. SenderTyped
      BY DEF Typed
    <2>2. k < Len(sent) => ~ Come(k + 1)
      BY <1>6
    <2> QED BY <1>2, <1>5, <2>1, <2>2, HeardIs
  <1> QED
    BY <1>2, <1>7

\* Nothing that was read is forgotten, nothing that came is left in a buffer: when the
\* reader has nothing more to read, every message that arrived whole has been returned,
\* however many calls of next() the tick has cut off.
THEOREM MessagesComplete == Spec => []NothingMissed
  BY ConnectionTyped, ReaderPositioned, PositionedNothingMissed, PTL

-----------------------------------------------------------------------------
(* The window and the seconds.                                             *)

\* Division with a remainder, by any number.
LEMMA Remainder ==
    ASSUME NEW w \in Nat, w > 0, NEW x \in Int
    PROVE  x = (x \div w) * w + (x % w)
  OBVIOUS

LEMMA RemainderType ==
    ASSUME NEW w \in Nat, w > 0, NEW x \in Int
    PROVE  x \div w \in Int /\ x % w \in 0 .. w - 1
  OBVIOUS

LEMMA OneRemainder ==
    ASSUME NEW w \in Nat, w > 0, NEW x \in Int, NEW q \in Int, NEW r \in 0 .. w - 1,
           x = q * w + r
    PROVE  x % w = r
  OBVIOUS

\* A remainder is the same some multiples further.
LEMMA SameRemainder ==
    ASSUME NEW w \in Nat, w > 0, NEW x \in Int, NEW y \in Int, NEW k \in Int, x = y + k * w
    PROVE  x % w = y % w
  <1> DEFINE q == y \div w
             r == y % w
  <1>1. y = q * w + r
    BY Remainder
  <1>2. q \in Int /\ r \in 0 .. w - 1
    BY RemainderType
  <1> HIDE DEF q, r
  <1>3. x = (q + k) * w + r
    <2>1. (q + k) * w = q * w + k * w
      BY <1>2
    <2>2. q * w \in Int /\ k * w \in Int /\ r \in Int
      BY <1>2
    <2> QED BY <1>1, <2>1, <2>2
  <1>4. q + k \in Int
    BY <1>2
  <1>5. x % w = r
    BY <1>2, <1>3, <1>4, OneRemainder
  <1> QED
    BY <1>5 DEF r

\* A number may wrap at any time.
LEMMA WrapPlus == \A x, z \in Int : Wrap(Wrap(x) + z) = Wrap(x + z)
  <1> SUFFICES ASSUME NEW x \in Int, NEW z \in Int PROVE Wrap(Wrap(x) + z) = Wrap(x + z)
    OBVIOUS
  <1> DEFINE w == 2^Width
             q == x \div w
             r == x % w
  <1>1. w \in Nat /\ w > 0
    BY PeerStatsAssumption
  <1>2. (r + z) % w = (x + z) % w
    <2> HIDE DEF w
    <2>1. x = q * w + r
      BY <1>1, Remainder
    <2>2. q \in Int /\ r \in 0 .. w - 1
      BY <1>1, RemainderType
    <2> HIDE DEF q, r
    <2>3. r + z = x + z + (0 - q) * w
      <3>1. (0 - q) * w = 0 - q * w
        BY <1>1, <2>2
      <3>2. q * w \in Int /\ r \in Int
        BY <1>1, <2>2
      <3> QED BY <2>1, <3>1, <3>2
    <2>4. r + z \in Int /\ x + z \in Int /\ 0 - q \in Int
      BY <1>1, <2>2
    <2> QED BY <1>1, <2>3, <2>4, SameRemainder
  <1> QED
    BY <1>2 DEF Wrap

\* What was counted since the last tick is what was accepted since then, and the
\* window what was accepted in the seconds before.
Windowed(m, a) ==
    /\ Wrap(m.total - m.prev) = Wrap(a[1])
    /\ Len(m.rolling) = Min({Len(a), ROLLING_AVERAGE_SIZE})
    /\ \A k \in 1 .. Len(m.rolling) : m.rolling[k] = IF k < Len(a) THEN Wrap(a[k + 1]) ELSE 0

Recent == handler = "running" => Windowed(stats.down, accepted)

\* A block changes the present second and the total alike.
LEMMA WindowedCounted ==
    ASSUME NEW m \in Meter, NEW a \in Seq(Nat), a # <<>>, Windowed(m, a), NEW length \in Nat
    PROVE  Windowed(Counted(m, length), [a EXCEPT ![1] = @ + length])
  <1> DEFINE t == Wrap(m.total + length)
             c == Counted(m, length)
             b == [a EXCEPT ![1] = a[1] + length]
  <1>1. c.total = t /\ c.prev = m.prev /\ c.rolling = m.rolling
    BY DEF Counted, Meter
  <1>2. m.total \in Nat /\ m.prev \in Nat /\ a[1] \in Nat /\ Len(a) \in Nat \ {0}
    <2>1. m.total \in Nat /\ m.prev \in Nat
      BY TotalIsNat DEF Meter
    <2>2. 1 \in 1 .. Len(a) /\ Len(a) \in Nat \ {0}
      OBVIOUS
    <2>3. a[1] \in Nat
      BY <2>2
    <2> QED BY <2>1, <2>2, <2>3
  <1>3. b[1] = a[1] + length /\ Len(b) = Len(a) /\ \A k \in 1 .. Len(a) - 1 : b[k + 1] = a[k + 1]
    BY <1>2
  <1> HIDE DEF b, c
  <1>4. Wrap(c.total - c.prev) = Wrap(b[1])
    <2>1. Wrap(t - m.prev) = Wrap(m.total + length - m.prev)
      <3> DEFINE x == m.total + length
                 z == 0 - m.prev
      <3>1. x \in Int /\ z \in Int /\ Wrap(x) \in Int
        <4>1. x \in Int /\ z \in Int
          BY <1>2
        <4> HIDE DEF x
        <4> QED BY <4>1, WrapNat
      <3>2. Wrap(Wrap(x) + z) = Wrap(x + z)
        <4> HIDE DEF x, z
        <4> QED BY <3>1, WrapPlus
      <3>3. x + z = m.total + length - m.prev
        BY <1>2
      <3>4. Wrap(x) + z = Wrap(x) - m.prev
        <4> HIDE DEF x
        <4> QED BY <1>2, <3>1
      <3> QED BY <3>2, <3>3, <3>4
    <2>2. Wrap(m.total + length - m.prev) = Wrap(a[1] + length)
      <3> DEFINE x == m.total - m.prev
      <3>1. x \in Int /\ x + length = m.total + length - m.prev
        BY <1>2
      <3> HIDE DEF x
      <3>2. Wrap(Wrap(x) + length) = Wrap(x + length)
        BY <3>1, WrapPlus
      <3>3. Wrap(Wrap(a[1]) + length) = Wrap(a[1] + length)
        <4> DEFINE y == a[1]
        <4>1. y \in Int /\ length \in Int
          BY <1>2
        <4> HIDE DEF y
        <4>2. Wrap(Wrap(y) + length) = Wrap(y + length)
          BY <4>1, WrapPlus
        <4> QED BY <4>2 DEF y
      <3>4. Wrap(x) = Wrap(a[1])
        BY DEF Windowed, x
      <3> QED BY <3>1, <3>2, <3>3, <3>4
    <2> HIDE DEF t
    <2> QED BY <1>1, <1>3, <2>1, <2>2
  <1>5. ASSUME NEW k \in 1 .. Len(c.rolling)
        PROVE  c.rolling[k] = IF k < Len(b) THEN Wrap(b[k + 1]) ELSE 0
    <2>1. c.rolling[k] = IF k < Len(a) THEN Wrap(a[k + 1]) ELSE 0
      BY <1>1 DEF Windowed
    <2>2. k < Len(a) => b[k + 1] = a[k + 1]
      BY <1>2, <1>3
    <2> QED BY <1>3, <2>1, <2>2
  <1>6. Len(c.rolling) = Min({Len(b), ROLLING_AVERAGE_SIZE})
    BY <1>1, <1>3 DEF Windowed
  <1>7. [a EXCEPT ![1] = @ + length] = b
    BY DEF b
  <1> QED
    BY <1>4, <1>5, <1>6, <1>7 DEF Windowed, c

\* A second moves the window by one, and what was counted into it.
LEMMA WindowedUpdated ==
    ASSUME NEW m \in Meter, NEW a \in Seq(Nat), a # <<>>, Windowed(m, a)
    PROVE  Windowed(UpdateSpeedAverage(m), <<0>> \o a)
  <1> DEFINE u == UpdateSpeedAverage(m)
             w == NewWindow(m)
             R == ROLLING_AVERAGE_SIZE
             L == Len(m.rolling)
             A == Len(a)
             j == Min({Len(w), R})
             b == <<0>> \o a
  <1>1. /\ u.total = m.total /\ u.prev = m.total /\ u.rolling = SubSeq(w, 1, j)
        /\ w \in Seq(Total) /\ Headed(w, Wrap(m.total - m.prev), m.rolling)
        /\ m.total \in Nat /\ R \in Nat \ {0} /\ L \in Nat
    <2>1. m.total \in Nat
      BY TotalIsNat DEF Meter
    <2>2. L \in Nat
      BY DEF Meter
    <2> QED BY <2>1, <2>2, UpdatedType, WindowIs, PeerStatsAssumption
  <1>2. A \in Nat /\ A >= 1
    OBVIOUS
  <1>3. b \in Seq(Nat) /\ Headed(b, 0, a)
    <2>1. 0 \in Nat
      OBVIOUS
    <2> QED BY <2>1, HeadFirst
  <1>4. Len(w) = 1 + L /\ w[1] = Wrap(m.total - m.prev) /\ \A k \in 1 .. L : w[1 + k] = m.rolling[k]
    BY <1>1 DEF Headed
  <1>5. Len(b) = 1 + A /\ b[1] = 0 /\ \A k \in 1 .. A : b[1 + k] = a[k]
    BY <1>3 DEF Headed
  <1> HIDE DEF u, w, b
  <1>6. L = IF A <= R THEN A ELSE R
    <2>1. L = Min({A, R})
      BY DEF Windowed
    <2> HIDE DEF L, A, R
    <2> QED BY <1>1, <1>2, <2>1, MinOf
  <1>7. j = IF 1 + L <= R THEN 1 + L ELSE R
    <2> HIDE DEF L, R
    <2>1. 1 + L \in Nat /\ R \in Nat
      BY <1>1
    <2> QED BY <1>4, <2>1, MinOf
  <1>8. j = IF 1 + A <= R THEN 1 + A ELSE R
    <2> HIDE DEF L, A, R, j
    <2> QED BY <1>1, <1>2, <1>6, <1>7
  <1>9. Len(u.rolling) = j /\ \A k \in 1 .. j : u.rolling[k] = w[k]
    <2> HIDE DEF L, A, R, j
    <2>1. 0 \in Nat /\ j \in Nat /\ 0 + j <= Len(w) /\ 1 = 0 + 1 /\ j = 0 + j
      BY <1>1, <1>4, <1>7
    <2>2. After(SubSeq(w, 1, j), w, 0, j)
      BY <1>1, <2>1, SliceAfter
    <2>3. \A k \in 1 .. j : 0 + k = k
      BY <2>1
    <2> QED BY <1>1, <2>2, <2>3 DEF After
  <1>10. Len(u.rolling) = Min({Len(b), R})
    <2> HIDE DEF L, A, R, j
    <2>1. 1 + A \in Nat /\ R \in Nat
      BY <1>1, <1>2
    <2>2. Min({1 + A, R}) = IF 1 + A <= R THEN 1 + A ELSE R
      BY <2>1, MinOf
    <2> QED BY <1>5, <1>8, <1>9, <2>2
  <1>11. Wrap(u.total - u.prev) = Wrap(b[1])
    <2>1. u.total - u.prev = 0
      BY <1>1
    <2> QED BY <1>5, <2>1
  <1>12. ASSUME NEW k \in 1 .. j
         PROVE  u.rolling[k] = IF k < Len(b) THEN Wrap(b[k + 1]) ELSE 0
    <2> HIDE DEF L, A, R, j
    <2>0. u.rolling[k] = w[k] /\ k \in Nat /\ k >= 1 /\ k <= j
      <3>1. j \in Nat
        BY <1>1, <1>2, <1>8
      <3> QED BY <1>9, <3>1
    <2>1. CASE k = 1
      <3>1. w[k] = Wrap(a[1])
        BY <1>4, <2>1 DEF Windowed
      <3>2. b[1 + 1] = a[1]
        BY <1>2, <1>5
      <3>3. k < Len(b) /\ b[k + 1] = a[1]
        BY <1>2, <1>5, <2>1, <3>2
      <3> QED BY <2>0, <3>1, <3>3
    <2>2. CASE k > 1
      <3> DEFINE i == k - 1
      <3>1. i \in 1 .. L /\ 1 + i = k /\ i \in Nat
        BY <1>1, <1>7, <2>0, <2>2
      <3> HIDE DEF i
      <3>2. w[k] = m.rolling[i]
        BY <1>4, <3>1
      <3>3. m.rolling[i] = IF i < A THEN Wrap(a[i + 1]) ELSE 0
        BY <3>1 DEF Windowed, L, A
      <3>4. CASE i < A
        <4>1. k < Len(b) /\ i + 1 \in 1 .. A /\ 1 + (i + 1) = k + 1 /\ i + 1 = k
          BY <1>2, <1>5, <3>1, <3>4
        <4>2. b[1 + (i + 1)] = a[i + 1]
          BY <1>5, <4>1
        <4> QED BY <2>0, <3>2, <3>3, <3>4, <4>1, <4>2
      <3>5. CASE ~ (i < A)
        <4>1. ~ (k < Len(b))
          BY <1>2, <1>5, <3>1, <3>5
        <4> QED BY <2>0, <3>2, <3>3, <3>5, <4>1
      <3> QED BY <3>4, <3>5
    <2> QED BY <2>0, <2>1, <2>2
  <1> QED
    BY <1>9, <1>10, <1>11, <1>12 DEF Windowed, u, b

\* The sums of two sequences that agree but for wrapping agree in the same way.
LEMMA SumsWrap ==
    ASSUME NEW r \in Seq(Nat), NEW b \in Seq(Nat), Len(b) <= Len(r),
           \A k \in 1 .. Len(b) : r[k] = Wrap(b[k])
    PROVE  \A n \in 0 .. Len(b) :
               /\ SumOf(Upto(r, n)) \in Nat /\ SumOf(Upto(b, n)) \in Nat
               /\ Wrap(SumOf(Upto(r, n))) = Wrap(SumOf(Upto(b, n)))
  <1> DEFINE N == Len(b)
             P == {n \in 0 .. N : Wrap(SumOf(Upto(r, n))) = Wrap(SumOf(Upto(b, n)))}
  <1>0. N \in Nat /\ Len(r) \in Nat
    OBVIOUS
  <1>1. ASSUME NEW n \in 0 .. N
        PROVE  /\ Upto(r, n) \in Seq(Nat) /\ Upto(b, n) \in Seq(Nat)
               /\ SumOf(Upto(r, n)) \in Nat /\ SumOf(Upto(b, n)) \in Nat
    <2>1. n \in 0 .. Len(r) /\ 0 \in Nat
      BY <1>0
    <2>2. Upto(r, n) \in Seq(Nat) /\ Upto(b, n) \in Seq(Nat)
      BY <2>1, UptoIs
    <2> QED BY <2>1, <2>2, SumAppend
  <1>2. 0 \in P
    <2>1. Upto(r, 0) = <<>> /\ Upto(b, 0) = <<>> /\ 0 \in 0 .. N
      BY <1>0, UptoIs
    <2> QED BY <2>1
  <1>3. ASSUME NEW n \in 0 .. N - 1, n \in P PROVE n + 1 \in P
    <2> DEFINE x == SumOf(Upto(r, n))
               y == SumOf(Upto(b, n))
               e == b[n + 1]
    <2>0. n \in 0 .. Len(r) - 1 /\ n \in 0 .. Len(b) - 1 /\ n \in 0 .. N /\ n + 1 \in 0 .. N
          /\ n + 1 \in 1 .. Len(b)
      BY <1>0
    <2>1. /\ Upto(r, n + 1) = Append(Upto(r, n), r[n + 1]) /\ r[n + 1] \in Nat
          /\ Upto(b, n + 1) = Append(Upto(b, n), e) /\ e \in Nat /\ r[n + 1] = Wrap(e)
      <3>1. Upto(r, n + 1) = Append(Upto(r, n), r[n + 1]) /\ r[n + 1] \in Nat
        BY <2>0, UptoIs
      <3>2. Upto(b, n + 1) = Append(Upto(b, n), e) /\ e \in Nat
        BY <2>0, UptoIs
      <3>3. r[n + 1] = Wrap(e)
        BY <2>0
      <3> QED BY <3>1, <3>2, <3>3
    <2>2. /\ SumOf(Upto(r, n + 1)) = x + Wrap(e) /\ SumOf(Upto(b, n + 1)) = y + e
          /\ x \in Nat /\ y \in Nat /\ Wrap(x) = Wrap(y)
      <3>1. SumOf(Append(Upto(r, n), r[n + 1])) = x + r[n + 1]
        BY <1>1, <2>0, <2>1, SumAppend
      <3>2. SumOf(Append(Upto(b, n), e)) = y + e
        <4> HIDE DEF e
        <4> QED BY <1>1, <2>0, <2>1, SumAppend
      <3>3. x \in Nat /\ y \in Nat /\ Wrap(x) = Wrap(y)
        BY <1>1, <1>3, <2>0
      <3> QED BY <2>1, <3>1, <3>2, <3>3
    <2>3. Wrap(x + Wrap(e)) = Wrap(y + e)
      <3>0. x \in Int /\ y \in Int /\ e \in Int /\ Wrap(e) \in Int
        <4>1. x \in Int /\ y \in Int /\ e \in Int
          <5>1. e \in Nat
            BY <2>1
          <5> HIDE DEF x, y, e
          <5> QED BY <2>2, <5>1
        <4> HIDE DEF x, y, e
        <4>2. Wrap(e) \in Int
          <5>1. Wrap(e) \in Nat
            BY <4>1, WrapNat
          <5> QED BY <5>1
        <4> QED BY <4>1, <4>2
      <3>1. Wrap(Wrap(x) + Wrap(e)) = Wrap(x + Wrap(e))
        <4> DEFINE z == Wrap(e)
        <4> HIDE DEF z, x
        <4>1. z \in Int
          BY <3>0 DEF z
        <4>2. Wrap(Wrap(x) + z) = Wrap(x + z)
          BY <3>0, <4>1, WrapPlus
        <4> QED BY <4>2 DEF z
      <3>2. Wrap(Wrap(e) + Wrap(y)) = Wrap(e + Wrap(y))
        <4> DEFINE z == Wrap(y)
        <4> HIDE DEF e, y
        <4>1. z \in Int
          BY <3>0, WrapNat
        <4> HIDE DEF z
        <4>2. Wrap(Wrap(e) + z) = Wrap(e + z)
          BY <3>0, <4>1, WrapPlus
        <4> QED BY <4>2 DEF z
      <3>3. Wrap(Wrap(y) + e) = Wrap(y + e)
        <4> HIDE DEF e, y
        <4> QED BY <3>0, WrapPlus
      <3> DEFINE wx == Wrap(x)
                 wy == Wrap(y)
                 we == Wrap(e)
      <3>4. wx = wy /\ wy \in Int /\ we \in Int /\ e \in Int
        <4> HIDE DEF x, y, e
        <4> QED BY <2>2, <3>0, WrapNat
      <3>5. wx + we = we + wy /\ e + wy = wy + e
        <4> HIDE DEF wx, wy, we, x, y, e
        <4> QED BY <3>4
      <3> HIDE DEF x, y, e
      <3> QED BY <3>1, <3>2, <3>3, <3>5
    <2> HIDE DEF x, y, e
    <2>4. Wrap(SumOf(Upto(r, n + 1))) = Wrap(SumOf(Upto(b, n + 1)))
      BY <2>2, <2>3
    <2> QED BY <2>0, <2>4
  <1>4. \A n \in 0 .. N : n \in P
    <2> HIDE DEF P, N
    <2> QED BY <1>0, <1>2, <1>3, InductUpTo
  <1> QED
    BY <1>1, <1>4

\* Recent is inductive beside Typed.
LEMMA InitRecent == Init => Recent
  <1> SUFFICES ASSUME Init PROVE Recent
    OBVIOUS
  <1> DEFINE R == ROLLING_AVERAGE_SIZE
             z == <<0>>
  <1>1. stats.down = NewMeter /\ accepted = z
    BY DEF Init, NewStats
  <1>2. z[1] = 0 /\ Len(z) = 1 /\ NewMeter.rolling = z /\ Len(NewMeter.rolling) = 1
        /\ NewMeter.total = 0 /\ NewMeter.prev = 0
    BY DEF NewMeter
  <1>3. Min({1, R}) = 1
    <2>1. 1 \in Nat /\ R \in Nat /\ 1 <= R
      BY PeerStatsAssumption
    <2> HIDE DEF R
    <2> QED BY <2>1, MinOf
  <1> HIDE DEF z, R
  <1>4. Wrap(NewMeter.total - NewMeter.prev) = Wrap(z[1])
    <2>1. NewMeter.total - NewMeter.prev = 0
      BY <1>2
    <2> QED BY <1>2, <2>1
  <1>5. \A k \in 1 .. Len(NewMeter.rolling) :
            NewMeter.rolling[k] = IF k < Len(z) THEN Wrap(z[k + 1]) ELSE 0
    <2> SUFFICES ASSUME NEW k \in 1 .. 1
                 PROVE  NewMeter.rolling[k] = IF k < Len(z) THEN Wrap(z[k + 1]) ELSE 0
      BY <1>2
    <2>1. k = 1
      OBVIOUS
    <2>2. ~ (k < Len(z)) /\ NewMeter.rolling[k] = 0
      BY <1>2, <2>1
    <2> QED BY <2>2
  <1>6. Windowed(NewMeter, z)
    BY <1>2, <1>3, <1>4, <1>5 DEF Windowed, R
  <1> QED
    BY <1>1, <1>6 DEF Recent

\* A message adds to the present second what it adds to the total.
LEMMA HandleRecent ==
    ASSUME CountersTyped, Recent, handler = "running", NEW m \in PeerMessage, Handle(m)
    PROVE  Recent'
  <1>0. /\ stats \in Stats /\ stats.down \in Meter /\ accepted \in Seq(Nat) /\ accepted # <<>>
        /\ Windowed(stats.down, accepted)
    BY DEF CountersTyped, Stats, Recent
  <1>1. CASE Ignore
    BY <1>1 DEF Ignore, Recent
  <1>2. CASE m.type = "Piece" /\ HandlePiece(m) /\ ~ Ignore
    <2> DEFINE info == BlockInfo(m)
    <2>1. info.length \in Nat
      <3>1. m.bytes \in Seq(Byte)
        BY <1>2, FieldsOf
      <3> QED BY <3>1 DEF BlockInfo
    <2>2. /\ accepted' = [accepted EXCEPT ![1] = @ + info.length]
          /\ \/ handler' = "panicked"
             \/ stats' = DownloadedChunk(stats, info.length)
      BY <1>2 DEF HandlePiece
    <2> HIDE DEF info
    <2>3. CASE handler' = "panicked"
      BY <2>3 DEF Recent
    <2>4. CASE stats' = DownloadedChunk(stats, info.length)
      <3>1. stats'.down = Counted(stats.down, info.length)
        BY <1>0, <2>4 DEF DownloadedChunk, Stats
      <3>2. Windowed(Counted(stats.down, info.length), [accepted EXCEPT ![1] = @ + info.length])
        BY <1>0, <2>1, WindowedCounted
      <3> QED BY <2>2, <3>1, <3>2 DEF Recent
    <2> QED
      BY <2>2, <2>3, <2>4
  <1>3. CASE m.type = "Request" /\ HandleRequest(m)
    <2>1. /\ accepted' = accepted
          /\ \/ handler' = "returned"
             \/ handler' = "panicked"
             \/ stats' = UploadedChunk(stats, m.length)
      BY <1>3 DEF HandleRequest
    <2>2. CASE handler' = "returned" \/ handler' = "panicked"
      BY <2>2 DEF Recent
    <2>3. CASE stats' = UploadedChunk(stats, m.length)
      <3>1. stats'.down = stats.down
        BY <1>0, <2>3 DEF UploadedChunk, Stats
      <3> QED BY <1>0, <2>1, <3>1 DEF Recent
    <2> QED
      BY <2>1, <2>2, <2>3
  <1> QED
    BY <1>1, <1>2, <1>3 DEF Handle, HandlePiece

LEMMA NextRecent == Typed /\ Typed' /\ Recent /\ [Next]_vars => Recent'
  <1> SUFFICES ASSUME Typed, Typed', Recent, [Next]_vars PROVE Recent'
    OBVIOUS
  <1>1. CASE UNCHANGED vars
    BY <1>1 DEF vars, Recent
  <1>2. CASE Second
    <2>1. /\ handler = "running" /\ accepted' = <<0>> \o accepted
          /\ handler' = "panicked" \/ stats' = Tick(stats)
      BY <1>2 DEF Second
    <2>2. CASE handler' = "panicked"
      BY <2>2 DEF Recent
    <2>3. CASE stats' = Tick(stats)
      <3>1. /\ stats \in Stats /\ stats.down \in Meter
            /\ accepted \in Seq(Nat) /\ accepted # <<>> /\ Windowed(stats.down, accepted)
        BY <2>1 DEF Typed, CountersTyped, Stats, Recent
      <3>2. stats'.down = UpdateSpeedAverage(stats.down)
        BY <2>3, <3>1, TickIs
      <3>3. Windowed(UpdateSpeedAverage(stats.down), <<0>> \o accepted)
        BY <3>1, WindowedUpdated
      <3> QED BY <2>1, <3>2, <3>3 DEF Recent
    <2> QED
      BY <2>1, <2>2, <2>3
  <1>3. ASSUME NEW n \in 1 .. Len(stream), Receive(n) PROVE Recent'
    <2>1. Reading(n) /\ handler = "running"
      BY <1>3 DEF Receive, Reading
    <2>2. CASE received' # received
      <3> DEFINE m == Last(received')
      <3>1. Handle(m)
        BY <1>3, <2>2 DEF Receive
      <3>2. m \in PeerMessage
        BY <2>1, <2>2, ReadType DEF Typed
      <3> HIDE DEF m
      <3> QED BY <2>1, <3>1, <3>2, HandleRecent DEF Typed
    <2>3. CASE received' = received
      <3>1. Ignore
        BY <1>3, <2>3 DEF Receive
      <3> QED BY <3>1 DEF Ignore, Recent
    <2> QED BY <2>2, <2>3
  <1> QED
    BY <1>1, <1>2, <1>3 DEF Next

\* The window has wrapped, second by second; the sum of it wraps to the same.
LEMMA WindowedSum ==
    ASSUME NEW m \in Meter, NEW a \in Seq(Nat), a # <<>>, Windowed(m, a)
    PROVE  Wrap(SumOf(m.rolling)) =
           Wrap(SumOf(SubSeq(a, 2, Min({Len(a), ROLLING_AVERAGE_SIZE + 1}))))
  <1> DEFINE r == m.rolling
             A == Len(a)
             R == ROLLING_AVERAGE_SIZE
             j == Min({A, R + 1})
             b == SubSeq(a, 2, j)
             N == Len(b)
  <1>1. r \in Seq(Nat) /\ A \in Nat /\ A >= 1 /\ R \in Nat /\ R >= 1
    <2>1. m.rolling \in Seq(Total)
      BY DEF Meter
    <2>2. r \in Seq(Nat)
      BY <2>1, TotalIsNat, Wider
    <2> QED BY <2>2, PeerStatsAssumption
  <1>2. Len(r) = IF A <= R THEN A ELSE R
    <2>1. Len(r) = Min({A, R})
      BY DEF Windowed
    <2> HIDE DEF r, A, R
    <2> QED BY <1>1, <2>1, MinOf
  <1>3. j = IF A <= R + 1 THEN A ELSE R + 1
    <2> HIDE DEF A, R
    <2>1. R + 1 \in Nat
      BY <1>1
    <2> QED BY <1>1, <2>1, MinOf
  <1>4. b \in Seq(Nat) /\ N = j - 1 /\ \A k \in 1 .. N : b[k] = a[k + 1]
    <2>0. j \in Nat /\ j >= 1 /\ j <= A
      <3> HIDE DEF A, R, j
      <3> QED BY <1>1, <1>3
    <2>1. 1 \in Nat /\ j - 1 \in Nat /\ 1 + (j - 1) <= Len(a) /\ 2 = 1 + 1 /\ j = 1 + (j - 1)
      <3> HIDE DEF j
      <3> QED BY <2>0
    <2> HIDE DEF j
    <2>2. b \in Seq(Nat) /\ After(b, a, 1, j - 1)
      BY <2>1, SliceAfter
    <2> HIDE DEF b
    <2>3. N = j - 1 /\ \A k \in 1 .. j - 1 : b[k] = a[1 + k]
      BY <2>2 DEF After
    <2>4. \A k \in 1 .. N : 1 + k = k + 1
      BY <2>1, <2>3
    <2> QED BY <2>2, <2>3, <2>4
  <1>5. /\ N \in Nat /\ N <= Len(r) /\ N < A
        /\ Len(r) = N \/ (Len(r) = N + 1 /\ Len(r) = A)
    <2>1. N = j - 1
      BY <1>4
    <2> HIDE DEF A, R, j, r, N
    <2>2. j \in Nat /\ (j = A \/ j = R + 1) /\ j >= 1
      BY <1>1, <1>3
    <2>3. N \in Nat /\ j = N + 1
      BY <2>1, <2>2
    <2>4. CASE A <= R
      <3>1. j = A /\ Len(r) = A
        BY <1>1, <1>2, <1>3, <2>4
      <3> QED BY <1>1, <2>3, <3>1
    <2>5. CASE ~ (A <= R)
      <3>1. Len(r) = R /\ j = R + 1 /\ R < A
        BY <1>1, <1>2, <1>3, <2>5
      <3> QED BY <1>1, <2>3, <3>1
    <2> QED BY <2>4, <2>5
  <1>6. \A k \in 1 .. N : r[k] = Wrap(b[k])
    <2> SUFFICES ASSUME NEW k \in 1 .. N PROVE r[k] = Wrap(b[k])
      OBVIOUS
    <2>1. k \in 1 .. Len(r) /\ k < A /\ b[k] = a[k + 1]
      <3>1. b[k] = a[k + 1]
        <4> HIDE DEF b
        <4> QED BY <1>4
      <3>2. k \in 1 .. Len(r) /\ k < A
        <4>1. Len(r) \in Nat
          BY <1>1
        <4> HIDE DEF r, A, N
        <4> QED BY <1>1, <1>5, <4>1
      <3> QED BY <3>1, <3>2
    <2>2. r[k] = IF k < A THEN Wrap(a[k + 1]) ELSE 0
      BY <2>1 DEF Windowed
    <2> QED BY <2>1, <2>2
  <1> HIDE DEF r, b
  <1>7. /\ SumOf(Upto(r, N)) \in Nat /\ Wrap(SumOf(Upto(r, N))) = Wrap(SumOf(b))
    <2>1. N \in 0 .. N /\ Upto(b, N) = b
      BY <1>4, <1>5, UptoIs
    <2>2. SumOf(Upto(r, N)) \in Nat /\ Wrap(SumOf(Upto(r, N))) = Wrap(SumOf(Upto(b, N)))
      BY <1>1, <1>4, <1>5, <1>6, <2>1, SumsWrap
    <2> QED BY <2>1, <2>2
  <1>8. SumOf(r) = SumOf(Upto(r, N))
    <2>1. CASE Len(r) = N
      BY <1>1, <2>1, UptoIs
    <2>2. CASE Len(r) = N + 1 /\ Len(r) = A
      <3>1. N \in 0 .. Len(r) - 1 /\ N \in 0 .. Len(r) /\ N + 1 \in 1 .. Len(r)
        BY <1>5, <2>2
      <3>2. r[N + 1] = 0
        <4>1. r[N + 1] = IF N + 1 < A THEN Wrap(a[N + 1 + 1]) ELSE 0
          BY <3>1 DEF Windowed, r
        <4>2. ~ (N + 1 < A)
          <5> HIDE DEF N, A
          <5> QED BY <1>1, <1>5, <2>2
        <4> QED BY <4>1, <4>2
      <3>3. Upto(r, N + 1) = Append(Upto(r, N), 0) /\ Upto(r, N) \in Seq(Nat)
            /\ Upto(r, Len(r)) = r
        <4>1. Upto(r, N + 1) = Append(Upto(r, N), r[N + 1]) /\ Upto(r, N) \in Seq(Nat)
              /\ Upto(r, Len(r)) = r
          BY <1>1, <3>1, UptoIs
        <4> QED BY <3>2, <4>1
      <3>4. r = Append(Upto(r, N), 0)
        BY <2>2, <3>3
      <3>5. SumOf(Append(Upto(r, N), 0)) = SumOf(Upto(r, N)) + 0
        <4>1. 0 \in Nat
          OBVIOUS
        <4> HIDE DEF N
        <4> QED BY <3>3, <4>1, SumAppend
      <3> DEFINE x == SumOf(Upto(r, N))
      <3>6. SumOf(r) = x + 0 /\ x \in Nat
        <4> HIDE DEF N
        <4> QED BY <1>7, <3>4, <3>5
      <3> HIDE DEF x
      <3>7. SumOf(r) = x
        BY <3>6
      <3> QED BY <3>7 DEF x
    <2> QED BY <1>5, <2>1, <2>2
  <1> QED
    BY <1>7, <1>8 DEF r, b

\* The rate of a connection is that of its last seconds: for any number of seconds,
\* any blocks and also over every wrap of the total, rolling_ adds up to the lengths
\* of the blocks accepted in the last ROLLING_AVERAGE_SIZE of them (peer_info.rs).
THEOREM WindowOfLastSeconds == Spec => []WindowIsRecent
  <1>1. Typed /\ Recent => WindowIsRecent
    BY WindowedSum DEF Typed, CountersTyped, Stats, Recent, WindowIsRecent
  <1>2. Spec => []Recent
    BY InitRecent, NextRecent, ConnectionTyped, PTL DEF Spec
  <1> QED
    BY <1>1, <1>2, ConnectionTyped, PTL
=============================================================================
