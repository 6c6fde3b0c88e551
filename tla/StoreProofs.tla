----------------------------- MODULE StoreProofs -----------------------------
(***************************************************************************)
(* What holds of the files and of the file manager for every geometry whose*)
(* numbers are u32s, every capacity of the channel and any set of readers. *)
(* The argument: sections are a range of the torrent cut at the ends of    *)
(* files; the channel keeps the order in which they are asked for; and a   *)
(* byte that is on its way stays so, as writes only ever write right bytes.*)
(***************************************************************************)
EXTENDS PieceStore, Induction, TLAPS

\* The length of the torrent.
Total == FileEnd(Len(FileLength))

\* A section lies within its file; a chain of them is a range of the torrent.
SectionType ==
    {s \in [file : File, offset : Nat, length : Nat] :
        s.offset + s.length <= FileLength[s.file]}
Place(s) == Offset[s.file] + s.offset
PlaceEnd(s) == Place(s) + s.length
Chain(c, from, to) ==
    /\ c = <<>> => from = to
    /\ c # <<>> => Place(c[1]) = from /\ PlaceEnd(c[Len(c)]) = to
    /\ \A j \in 1 .. Len(c) - 1 : Place(c[j + 1]) = PlaceEnd(c[j])
    /\ \A i, j \in 1 .. Len(c) : i < j => PlaceEnd(c[i]) <= Place(c[j])

\* The byte at o of file k, and the range from start to end, are of piece i.
Holds(i, start, end) == i * PieceLength <= start /\ end <= i * PieceLength + PieceSize(i)
InPiece(i, k, o) == Holds(i, Offset[k] + o, Offset[k] + o + 1)

\* Messages of the file manager: a write has the right bytes, all of one piece.
ReadMessage == [op : {"read"}, section : SectionType, reader : Reader]
WriteMessage ==
    {m \in [op : {"write"}, file : File, offset : Nat, bytes : Seq(Nat)] :
        /\ m.bytes # <<>> /\ m.offset + Len(m.bytes) <= FileLength[m.file]
        /\ \A j \in 1 .. Len(m.bytes) : m.bytes[j] = Offset[m.file] + m.offset + j - 1
        /\ \E i \in Piece : Holds(i, Offset[m.file] + m.offset,
                                     Offset[m.file] + m.offset + Len(m.bytes))}
Message == ReadMessage \cup WriteMessage

Reading == [offset : Nat, length : Nat, due : Seq(SectionType), waits : Nat,
            got : Seq(Int)]

\* What is written is right, what was never written is zero.
IsContent(f) ==
    /\ f = [k \in File |-> f[k]]
    /\ \A k \in File : /\ f[k] = [o \in 0 .. FileLength[k] - 1 |-> f[k][o]]
                       /\ \A o \in 0 .. FileLength[k] - 1 :
                              f[k][o] \in {Zero, Offset[k] + o}

\* The reads of r that wait in queue q, by their positions; they and the sections
\* that are due make up what e, where r has got to, is still without, in order.
ReadsIn(q, r) == {n \in 1 .. Len(q) : q[n].op = "read" /\ q[n].reader = r}
Positions(q, e, r, pos) ==
    /\ pos \in [1 .. e.waits -> ReadsIn(q, r)]
    /\ \A n \in ReadsIn(q, r) : \E j \in 1 .. e.waits : pos[j] = n
    /\ \A i, j \in 1 .. e.waits : i < j => pos[i] < pos[j]
Asked(q, e, pos) == [j \in 1 .. e.waits |-> q[pos[j]].section] \o e.due
Until(offset, length) ==
    IF offset + length <= Total THEN offset + length
    ELSE IF offset <= Total THEN Total ELSE offset
Got(e) == e.offset + Len(e.got)
End(e) == Until(e.offset, e.length)
InTurn(q, up, e, r) ==
    /\ up = "up" => \E pos \in [1 .. e.waits -> ReadsIn(q, r)] :
                       Positions(q, e, r, pos) /\ Chain(Asked(q, e, pos), Got(e), End(e))
    /\ Got(e) <= End(e)
    /\ e.due = <<>> /\ e.waits = 0 => Got(e) = End(e)

\* A byte is right in f, or one of the first n messages of q makes it so.
Sure(f, q, k, o, n) ==
    f[k][o] = Offset[k] + o \/ \E w \in 1 .. n : Writes(q[w], k, o)
OnItsWay(f, q, k, o) == Sure(f, q, k, o, Len(q))
BytesOf(s) == s.offset .. s.offset + s.length - 1

\* The readers in R read, are to read and have read bytes that are right.
GoodRead(f, q, n) ==
    \A o \in BytesOf(q[n].section) : Sure(f, q, q[n].section.file, o, n)
GoodDue(f, q, e) ==
    \A j \in 1 .. Len(e.due) : \A o \in BytesOf(e.due[j]) : OnItsWay(f, q, e.due[j].file, o)
GoodGot(e) == \A j \in 1 .. Len(e.got) : e.got[j] = e.offset + j - 1
ReaderGood(f, q, up, e, r) ==
    /\ \A n \in ReadsIn(q, r) : GoodRead(f, q, n)
    /\ up = "up" => GoodDue(f, q, e)
    /\ GoodGot(e)

\* All of it, of files f, channel q, file manager up and readers rd: every reader
\* gets its bytes in turn, and those in R get right ones.
StoreAt(f, q, up, rd, R) ==
    /\ IsContent(f)
    /\ q \in Seq(Message) /\ Len(q) <= Capacity
    /\ up \in {"up", "down"} /\ (up = "down" => q = <<>>)
    /\ rd \in [Reader -> Reading]
    /\ \A r \in Reader : InTurn(q, up, rd[r], r)
    /\ \A r \in R : ReaderGood(f, q, up, rd[r], r)
StoreInv(R) == StoreAt(files, queue, fm, reading, R)

\* The bytes of piece i are all right, or will be.
PieceOnItsWay(f, q, i) ==
    \A k \in File : \A o \in 0 .. FileLength[k] - 1 :
        InPiece(i, k, o) => OnItsWay(f, q, k, o)

-----------------------------------------------------------------------------
(* Numbers.                                                                *)

LEMMA LeastOfTwo ==
    ASSUME NEW a \in Int, NEW b \in Int
    PROVE  /\ Min({a, b}) = IF a <= b THEN a ELSE b
           /\ Max({a, b}) = IF a <= b THEN b ELSE a
  BY DEF Min, Max

LEMMA Sizes ==
    /\ PieceLength \in Nat \ {0} /\ NumPieces \in Nat \ {0} /\ BLOCK_SIZE \in Nat \ {0}
    /\ Capacity \in Nat \ {0} /\ Width \in Nat \ {0}
  BY GeometryAssumption DEF GeometryAssumption

LEMMA Files ==
    /\ Len(FileLength) \in Nat \ {0} /\ File = 1 .. Len(FileLength)
    /\ \A k \in File : FileLength[k] \in Nat /\ FileLength[k] > 0
  <1>1. FileLength \in Seq(Nat \ {0}) /\ FileLength # <<>>
    BY GeometryAssumption DEF GeometryAssumption
  <1> QED
    BY <1>1 DEF File

\* The numbers of a u32; the assumption speaks of those that fit.
Limit == 2 ^ Width
LEMMA LimitType == Limit \in Nat \ {0} /\ NumPieces * PieceLength < Limit
  <1>1. NumPieces * PieceLength < 2 ^ Width
    BY GeometryAssumption DEF GeometryAssumption
  <1>2. NumPieces * PieceLength \in Nat
    BY Sizes
  <1>3. 2 ^ Width \in Int
    BY Sizes
  <1> QED
    BY <1>1, <1>2, <1>3 DEF Limit

LEMMA Fits ==
    ASSUME NEW n \in Nat
    PROVE  Wrap(n) \in Nat /\ (n < Limit => Wrap(n) = n)
  <1>1. Wrap(n) = n % Limit
    BY DEF Wrap, Limit
  <1>2. Limit \in Nat /\ Limit > 0
    BY LimitType
  <1> QED
    BY <1>1, <1>2

\* from_metainfo: the offset of a file is the sum of the lengths before it.
LEMMA Offsets ==
    \A k \in File : /\ Offset[k] \in Nat
                    /\ Offset[k] = IF k = 1 THEN 0 ELSE Offset[k - 1] + FileLength[k - 1]
                    /\ FileEnd(k) = Offset[k] + FileLength[k]
                    /\ Offset[k] + FileLength[k] < Limit
  <1> DEFINE N == Len(FileLength)
             step == [x \in Nat \X (1 .. N) |->
                         IF x[2] = 1 THEN 0 ELSE Wrap(x[1] + FileLength[x[2] - 1])]
             Solves(f) == f = [k \in File |-> IF k = 1 THEN 0
                                              ELSE Wrap(f[k - 1] + FileLength[k - 1])]
  <1>1. File = 1 .. N /\ N \in Nat \ {0}
    BY Files
  <1>2. FoldOver(Nat, 1 .. N, 0, step)
    <2>1. ASSUME NEW x \in Nat, NEW n \in 1 .. N, n # 1
          PROVE  Wrap(x + FileLength[n - 1]) \in Nat
      <3>1. n - 1 \in File
        BY <1>1, <2>1
      <3>2. x + FileLength[n - 1] \in Nat
        BY <3>1, Files
      <3> QED
        BY <3>2, Fits
    <2> QED
      BY <2>1 DEF FoldOver
  <1>3. PICK h \in [0 .. N -> Nat] : Trace(h, N, 0, step)
    <2> HIDE DEF step
    <2> QED
      BY <1>1, <1>2, TraceExists
  <1>4. Solves([k \in File |-> h[k]])
    <2>1. ASSUME NEW k \in File
          PROVE  h[k] = IF k = 1 THEN 0 ELSE Wrap(h[k - 1] + FileLength[k - 1])
      <3>1. k \in 1 .. N /\ k - 1 \in 0 .. N
        BY <1>1
      <3>2. <<h[k - 1], k>> \in Nat \X (1 .. N)
        BY <1>3, <3>1
      <3>3. h[k] = step[<<h[k - 1], k>>]
        BY <1>3, <3>1 DEF Trace
      <3> QED
        BY <3>2, <3>3
    <2>2. \A k \in File : k # 1 => k - 1 \in File
      BY <1>1
    <2> QED
      BY <2>1, <2>2
  <1>5. Solves(Offset)
    <2> HIDE DEF Solves
    <2>1. Offset = CHOOSE f : Solves(f)
      BY DEF Offset, Solves
    <2> QED
      BY <1>4, <2>1
  <1>6. \A k \in File : Offset[k] = IF k = 1 THEN 0 ELSE Wrap(Offset[k - 1] + FileLength[k - 1])
    BY <1>5
  <1>7. \A k \in File : Offset[k] + FileLength[k] < Limit
    BY GeometryAssumption DEF GeometryAssumption, Limit
  <1> DEFINE P == {n \in 0 .. N : n > 0 => Offset[n] \in Nat}
  <1>8. \A n \in 0 .. N : n \in P
    <2>1. 0 \in P
      BY <1>1
    <2>2. ASSUME NEW n \in 0 .. N - 1, n \in P
          PROVE  n + 1 \in P
      <3>1. n + 1 \in File
        BY <1>1
      <3>2. CASE n = 0
        BY <1>6, <3>1, <3>2
      <3>3. CASE n > 0
        <4>1. n \in File /\ Offset[n] \in Nat /\ FileLength[n] \in Nat
          BY <1>1, <2>2, <3>3, Files
        <4>2. Offset[n + 1] = Wrap(Offset[n] + FileLength[n])
          BY <1>6, <3>1, <3>3
        <4>3. Offset[n] + FileLength[n] \in Nat
          BY <4>1
        <4>4. Offset[n + 1] \in Nat
          BY <4>2, <4>3, Fits
        <4> QED
          BY <3>1, <4>4, <1>1
      <3> QED
        BY <3>2, <3>3
    <2> HIDE DEF P
    <2> QED
      BY <1>1, <2>1, <2>2, InductUpTo
  <1>9. ASSUME NEW k \in File
        PROVE  Offset[k] \in Nat /\ FileLength[k] \in Nat /\ FileEnd(k) = Offset[k] + FileLength[k]
    <2>1. Offset[k] \in Nat /\ FileLength[k] \in Nat
      BY <1>1, <1>8, Files
    <2>2. Offset[k] + FileLength[k] \in Nat /\ Offset[k] + FileLength[k] < Limit
      BY <2>1, <1>7
    <2> QED
      BY <2>1, <2>2, Fits DEF FileEnd
  <1>10. ASSUME NEW k \in File, k # 1
         PROVE  Offset[k] = Offset[k - 1] + FileLength[k - 1]
    <2>1. k - 1 \in File
      BY <1>1, <1>10
    <2>2. /\ Offset[k] = Wrap(Offset[k - 1] + FileLength[k - 1])
          /\ Offset[k - 1] + FileLength[k - 1] \in Nat
          /\ Offset[k - 1] + FileLength[k - 1] < Limit
      BY <1>6, <1>7, <1>9, <1>10, <2>1
    <2> QED
      BY <2>2, Fits
  <1> QED
    BY <1>6, <1>7, <1>9, <1>10

\* A file begins after the end of those before it.
LEMMA FilesApart ==
    ASSUME NEW k \in File, NEW l \in File, k < l
    PROVE  Offset[k] + FileLength[k] <= Offset[l]
  <1> DEFINE N == Len(FileLength)
             P == {n \in 0 .. N : n > k => Offset[k] + FileLength[k] <= Offset[n]}
  <1>1. File = 1 .. N /\ N \in Nat \ {0}
    BY Files
  <1>2. 0 \in P
    BY <1>1
  <1>3. ASSUME NEW n \in 0 .. N - 1, n \in P
        PROVE  n + 1 \in P
    <2>1. n + 1 \in File /\ (n + 1 > k => n \in File)
      BY <1>1
    <2>2. n + 1 > k => Offset[n + 1] = Offset[n] + FileLength[n]
      BY <1>1, <2>1, Offsets
    <2>3. n + 1 > k => n = k \/ Offset[k] + FileLength[k] <= Offset[n]
      BY <1>1, <1>3
    <2> QED
      BY <1>1, <2>1, <2>2, <2>3, Offsets, Files
  <1>4. \A n \in 0 .. N : n \in P
    <2> HIDE DEF P
    <2> QED
      BY <1>1, <1>2, <1>3, InductUpTo
  <1> QED
    BY <1>1, <1>4

\* So the files lie within the torrent, one after the other, ...
LEMMA WithinTotal ==
    /\ Total \in Nat \ {0} /\ Total < Limit
    /\ \A k \in File : Offset[k] + FileLength[k] <= Total
  <1>1. Len(FileLength) \in File /\ \A k \in File : k \in Int /\ k <= Len(FileLength)
    BY Files
  <1>2. Total = Offset[Len(FileLength)] + FileLength[Len(FileLength)]
    BY <1>1, Offsets DEF Total
  <1>3. Total \in Nat \ {0} /\ Total < Limit
    BY <1>1, <1>2, Offsets, Files
  <1>4. ASSUME NEW k \in File
        PROVE  Offset[k] + FileLength[k] <= Total
    <2>1. CASE k = Len(FileLength)
      BY <1>2, <1>3, <2>1
    <2>2. CASE k < Len(FileLength)
      <3>1. Offset[k] + FileLength[k] <= Offset[Len(FileLength)]
        BY <1>1, <2>2, FilesApart
      <3> QED
        BY <1>1, <1>2, <3>1, Offsets, Files
    <2> QED
      BY <1>1, <2>1, <2>2, Files
  <1> QED
    BY <1>3, <1>4

\* ... every place in the torrent is in one of them, ...
LEMMA ByteIsSomewhere ==
    ASSUME NEW x \in Nat, x < Total
    PROVE  \E k \in File : \E o \in 0 .. FileLength[k] - 1 : Offset[k] + o = x
  <1> DEFINE N == Len(FileLength)
             S == {k \in 1 .. N : Offset[k] <= x}
             k == Max(S)
  <1>1. File = 1 .. N /\ N \in Nat \ {0}
    BY Files
  <1>2. 1 \in S
    BY <1>1, Offsets
  <1>3. k \in S /\ \A y \in S : y <= k
    <2> HIDE DEF k
    <2>1. S \in SUBSET (1 .. N) /\ S # {}
      BY <1>2
    <2> HIDE DEF S
    <2> QED
      BY <1>1, <2>1, MaxOf DEF k
  <1>4. k \in File /\ Offset[k] <= x /\ Offset[k] \in Nat /\ FileLength[k] \in Nat
    BY <1>1, <1>3, Offsets, Files
  <1>5. x < Offset[k] + FileLength[k]
    <2> HIDE DEF k
    <2>1. CASE k = N
      BY <1>1, <1>4, <2>1, Offsets DEF Total
    <2>2. CASE k # N
      <3>1. k + 1 \in File /\ k + 1 \notin S
        BY <1>1, <1>3, <1>4, <2>2
      <3>2. x < Offset[k + 1] /\ Offset[k + 1] = Offset[k] + FileLength[k]
        BY <1>1, <1>4, <3>1, Offsets
      <3> QED
        BY <3>2
    <2> QED
      BY <2>1, <2>2
  <1> HIDE DEF k
  <1>6. x - Offset[k] \in 0 .. FileLength[k] - 1 /\ Offset[k] + (x - Offset[k]) = x
    BY <1>4, <1>5
  <1> QED
    BY <1>4, <1>6

\* ... and in no other.
LEMMA ByteIsOnce ==
    ASSUME NEW k \in File, NEW o \in 0 .. FileLength[k] - 1,
           NEW l \in File, NEW u \in 0 .. FileLength[l] - 1,
           Offset[k] + o = Offset[l] + u
    PROVE  k = l /\ o = u
  <1>1. /\ Offset[k] \in Nat /\ Offset[l] \in Nat
        /\ FileLength[k] \in Nat /\ FileLength[l] \in Nat /\ k \in Int /\ l \in Int
    BY Offsets, Files
  <1>2. ~(k < l)
    <2>1. k < l => Offset[k] + FileLength[k] <= Offset[l]
      BY FilesApart
    <2> QED
      BY <1>1, <2>1
  <1>3. ~(l < k)
    <2>1. l < k => Offset[l] + FileLength[l] <= Offset[k]
      BY FilesApart
    <2> QED
      BY <1>1, <2>1
  <1> QED
    BY <1>1, <1>2, <1>3

\* Where a piece lies.
LEMMA PieceRange ==
    ASSUME NEW i \in Piece
    PROVE  /\ i \in Nat /\ i * PieceLength \in Nat
           /\ PieceStart(i) = i * PieceLength /\ i * PieceLength < Total
           /\ i * PieceLength + PieceLength < Limit
           /\ PieceSize(i) \in 1 .. PieceLength
           /\ i * PieceLength + PieceSize(i) = Until(i * PieceLength, PieceLength)
           /\ i * PieceLength + PieceSize(i) <= Total
  <1>1. /\ NumPieces * PieceLength < Limit /\ (NumPieces - 1) * PieceLength < Total
    BY GeometryAssumption DEF GeometryAssumption, Total, Limit
  <1>2. i \in Nat /\ i <= NumPieces - 1
    BY Sizes DEF Piece
  <1> DEFINE s == i * PieceLength
  <1>3. s \in Nat /\ s <= (NumPieces - 1) * PieceLength
        /\ s + PieceLength <= NumPieces * PieceLength
        /\ (NumPieces - 1) * PieceLength \in Nat
    BY <1>2, Sizes
  <1>4. s < Total /\ s + PieceLength < Limit
    BY <1>1, <1>3, Sizes, LimitType, WithinTotal
  <1>5. PieceStart(i) = s /\ Wrap(s + PieceLength) = s + PieceLength
    <2> HIDE DEF s
    <2>1. s < Limit /\ s + PieceLength \in Nat /\ s \in Nat
      BY <1>3, <1>4, Sizes, LimitType
    <2>2. PieceStart(i) = Wrap(s)
      BY DEF PieceStart, s
    <2> QED
      BY <1>4, <2>1, <2>2, Fits
  <1>6. PieceSize(i) = (IF s + PieceLength <= Total THEN s + PieceLength ELSE Total) - s
    <2> HIDE DEF s
    <2>1. Min({s + PieceLength, Total}) = IF s + PieceLength <= Total THEN s + PieceLength ELSE Total
      <3>1. s + PieceLength \in Int /\ Total \in Int
        BY <1>3, Sizes, WithinTotal
      <3> QED
        BY <3>1, LeastOfTwo
    <2> QED
      BY <1>5, <2>1 DEF PieceSize, Total
  <1> HIDE DEF s
  <1>7. /\ PieceSize(i) \in 1 .. PieceLength /\ s + PieceSize(i) = Until(s, PieceLength)
        /\ s + PieceSize(i) <= Total
    BY <1>3, <1>4, <1>6, Sizes, WithinTotal DEF Until
  <1> QED
    BY <1>2, <1>3, <1>4, <1>5, <1>7 DEF s

\* No two pieces hold the same byte.
LEMMA PiecesApart ==
    ASSUME NEW i \in Piece, NEW j \in Piece, NEW x \in Nat, NEW y \in Nat,
           NEW u \in Nat, NEW v \in Nat, Holds(i, x, y), Holds(j, u, v), x < y, u < v,
           x <= u, u < y
    PROVE  i = j
  <1>1. \A a, b \in Nat : a < b => a * PieceLength + PieceLength <= b * PieceLength
    BY Sizes
  <1>2. /\ i \in Nat /\ j \in Nat /\ PieceSize(i) \in 1 .. PieceLength
        /\ PieceSize(j) \in 1 .. PieceLength /\ i * PieceLength \in Nat
        /\ j * PieceLength \in Nat
    BY PieceRange
  <1>3. i < j => i * PieceLength + PieceLength <= j * PieceLength
    BY <1>1, <1>2
  <1>4. j < i => j * PieceLength + PieceLength <= i * PieceLength
    BY <1>1, <1>2
  <1> QED
    BY <1>2, <1>3, <1>4, Sizes DEF Holds

\* A block is a part of its piece, and not empty.
LEMMA BlockRange ==
    ASSUME NEW i \in Piece, NEW b \in BlocksOf(i)
    PROVE  /\ b.index = i /\ b.begin \in Nat /\ b.length \in Nat \ {0}
           /\ b.begin + b.length <= PieceSize(i)
  <1>1. PICK j \in 0 .. (PieceSize(i) - 1) \div BLOCK_SIZE :
            b = [index |-> i, begin |-> BLOCK_SIZE * j,
                 length |-> Min({BLOCK_SIZE * (j + 1), PieceSize(i)}) - BLOCK_SIZE * j]
    BY DEF BlocksOf
  <1>2. PieceSize(i) \in Nat \ {0} /\ BLOCK_SIZE \in Nat \ {0}
    BY PieceRange, Sizes
  <1> DEFINE q == (PieceSize(i) - 1) \div BLOCK_SIZE
             x == BLOCK_SIZE * j
  <1>3. q \in Nat /\ BLOCK_SIZE * q <= PieceSize(i) - 1
    BY <1>2
  <1>4. j \in Nat /\ x \in Nat /\ x <= BLOCK_SIZE * q /\ BLOCK_SIZE * (j + 1) = x + BLOCK_SIZE
    BY <1>2, <1>3
  <1>5. Min({BLOCK_SIZE * (j + 1), PieceSize(i)}) =
            IF x + BLOCK_SIZE <= PieceSize(i) THEN x + BLOCK_SIZE ELSE PieceSize(i)
    <2> HIDE DEF x
    <2> QED
      BY <1>2, <1>4, LeastOfTwo
  <1>6. b.index = i /\ b.begin = x /\ b.length = Min({BLOCK_SIZE * (j + 1), PieceSize(i)}) - x
    BY <1>1
  <1>7. x <= PieceSize(i) - 1
    BY <1>2, <1>3, <1>4
  <1> HIDE DEF x
  <1> QED
    BY <1>2, <1>4, <1>5, <1>6, <1>7

\* The ends of the files are numbers.
LEMMA FileEnds == \A k \in File : FileEnd(k) \in Nat
  <1> SUFFICES ASSUME NEW k \in File PROVE FileEnd(k) \in Nat
    OBVIOUS
  <1>1. /\ Offset[k] \in Nat /\ FileLength[k] \in Nat
        /\ FileEnd(k) = Offset[k] + FileLength[k]
    BY Offsets, Files
  <1> QED
    BY <1>1

-----------------------------------------------------------------------------
(* Sections.                                                               *)

LEMMA SectionFacts ==
    ASSUME NEW s \in SectionType
    PROVE  /\ s.file \in File /\ s.offset \in Nat /\ s.length \in Nat
           /\ s.offset + s.length <= FileLength[s.file]
           /\ Place(s) \in Nat /\ PlaceEnd(s) \in Nat
           /\ PlaceEnd(s) = Place(s) + s.length /\ PlaceEnd(s) <= Total
           /\ Place(s) = Offset[s.file] + s.offset /\ Offset[s.file] \in Nat
  <1>1. /\ s.file \in File /\ s.offset \in Nat /\ s.length \in Nat
        /\ s.offset + s.length <= FileLength[s.file]
    BY DEF SectionType
  <1>2. /\ Offset[s.file] \in Nat /\ FileLength[s.file] \in Nat
        /\ Offset[s.file] + FileLength[s.file] <= Total /\ Total \in Nat
    BY <1>1, Offsets, Files, WithinTotal
  <1> QED
    BY <1>1, <1>2 DEF Place, PlaceEnd

LEMMA SectionRange ==
    \A s \in SectionType : /\ Place(s) \in Nat /\ PlaceEnd(s) \in Nat
                          /\ Place(s) <= PlaceEnd(s)
  <1> SUFFICES ASSUME NEW s \in SectionType
               PROVE  /\ Place(s) \in Nat /\ PlaceEnd(s) \in Nat
                      /\ Place(s) <= PlaceEnd(s)
    OBVIOUS
  <1>1. /\ Place(s) \in Nat /\ PlaceEnd(s) \in Nat /\ s.length \in Nat
        /\ PlaceEnd(s) = Place(s) + s.length
    BY SectionFacts
  <1> QED
    BY <1>1

\* No section is no range, and a section more makes the range longer.
LEMMA ChainEmpty ==
    ASSUME NEW from, NEW to
    PROVE  Chain(<<>>, from, to) <=> from = to
  BY DEF Chain

LEMMA ChainWithin ==
    ASSUME NEW c \in Seq(SectionType), NEW from \in Nat, NEW to \in Nat, Chain(c, from, to)
    PROVE  /\ from <= to
           /\ \A j \in 1 .. Len(c) : from <= Place(c[j]) /\ PlaceEnd(c[j]) <= to
  <1>1. CASE c = <<>>
    BY <1>1 DEF Chain
  <1>2. CASE c # <<>>
    <2> DEFINE n == Len(c)
    <2>1. n \in Nat /\ n >= 1 /\ \A j \in 1 .. n : c[j] \in SectionType
      BY <1>2
    <2>2. \A j \in 1 .. n : /\ Place(c[j]) \in Nat /\ PlaceEnd(c[j]) \in Nat
                            /\ Place(c[j]) <= PlaceEnd(c[j])
      BY <2>1, SectionRange
    <2>3. /\ Place(c[1]) = from /\ PlaceEnd(c[n]) = to
          /\ \A i, j \in 1 .. n : i < j => PlaceEnd(c[i]) <= Place(c[j])
      BY <1>2 DEF Chain
    <2>4. ASSUME NEW j \in 1 .. n
          PROVE  from <= Place(c[j]) /\ PlaceEnd(c[j]) <= to
      <3>1. 1 \in 1 .. n /\ n \in 1 .. n
        BY <2>1
      <3>2. j = 1 \/ PlaceEnd(c[1]) <= Place(c[j])
        BY <2>3, <3>1
      <3>3. j = n \/ PlaceEnd(c[j]) <= Place(c[n])
        BY <2>3, <3>1
      <3>4. \A i \in {1, j, n} : /\ Place(c[i]) \in Nat /\ PlaceEnd(c[i]) \in Nat
                                /\ Place(c[i]) <= PlaceEnd(c[i])
        BY <2>2, <3>1
      <3>5. from <= Place(c[j])
        BY <2>3, <3>2, <3>4
      <3>6. PlaceEnd(c[j]) <= to
        BY <2>3, <3>3, <3>4
      <3> QED
        BY <3>5, <3>6
    <2> QED
      BY <2>1, <2>2, <2>4
  <1> QED
    BY <1>1, <1>2

LEMMA ChainAppend ==
    ASSUME NEW c \in Seq(SectionType), NEW from \in Nat, NEW to \in Nat, Chain(c, from, to),
           NEW s \in SectionType, Place(s) = to
    PROVE  Append(c, s) \in Seq(SectionType) /\ Chain(Append(c, s), from, PlaceEnd(s))
  <1> DEFINE d == Append(c, s)
             n == Len(c)
  <1>1. /\ d \in Seq(SectionType) /\ Len(d) = n + 1 /\ n \in Nat /\ d # <<>>
        /\ \A j \in 1 .. n : d[j] = c[j]
        /\ d[n + 1] = s
    OBVIOUS
  <1>2. \A j \in 1 .. n : PlaceEnd(c[j]) <= to
    BY ChainWithin
  <1>3. /\ n = 0 => from = to
        /\ n > 0 => Place(c[1]) = from /\ PlaceEnd(c[n]) = to
        /\ \A j \in 1 .. n - 1 : Place(c[j + 1]) = PlaceEnd(c[j])
        /\ \A i, j \in 1 .. n : i < j => PlaceEnd(c[i]) <= Place(c[j])
    BY <1>1 DEF Chain
  <1> HIDE DEF d, n
  <1>4. Place(d[1]) = from
    <2>1. CASE n = 0
      BY <1>1, <1>3, <2>1
    <2>2. CASE n > 0
      BY <1>1, <1>3, <2>2
    <2> QED
      BY <1>1, <2>1, <2>2
  <1>5. ASSUME NEW j \in 1 .. n
        PROVE  Place(d[j + 1]) = PlaceEnd(d[j])
    <2>1. CASE j = n
      BY <1>1, <1>3, <2>1
    <2>2. CASE j # n
      <3>1. j \in 1 .. n - 1 /\ j + 1 \in 1 .. n
        BY <1>1, <2>2
      <3> QED
        BY <1>1, <1>3, <3>1
    <2> QED
      BY <2>1, <2>2
  <1>6. ASSUME NEW i \in 1 .. n + 1, NEW j \in 1 .. n + 1, i < j
        PROVE  PlaceEnd(d[i]) <= Place(d[j])
    <2>1. i \in 1 .. n
      BY <1>1, <1>6
    <2>2. CASE j = n + 1
      BY <1>1, <1>2, <2>1, <2>2
    <2>3. CASE j \in 1 .. n
      BY <1>1, <1>3, <1>6, <2>1, <2>3
    <2> QED
      BY <1>1, <2>2, <2>3
  <1>7. Chain(d, from, PlaceEnd(s))
    BY <1>1, <1>4, <1>5, <1>6 DEF Chain
  <1> QED
    BY <1>1, <1>7 DEF d

\* The rest of a range begins where its first section ends.
LEMMA ChainTail ==
    ASSUME NEW c \in Seq(SectionType), NEW from, NEW to, Chain(c, from, to), c # <<>>
    PROVE  /\ c[1] \in SectionType /\ Place(c[1]) = from
           /\ Tail(c) \in Seq(SectionType) /\ Chain(Tail(c), PlaceEnd(c[1]), to)
  <1> DEFINE d == Tail(c)
             n == Len(c)
  <1>1. /\ d \in Seq(SectionType) /\ Len(d) = n - 1 /\ n \in Nat /\ n >= 1
        /\ c[1] \in SectionType
        /\ \A j \in 1 .. n - 1 : d[j] = c[j + 1]
    OBVIOUS
  <1>2. /\ Place(c[1]) = from /\ PlaceEnd(c[n]) = to
        /\ \A j \in 1 .. n - 1 : Place(c[j + 1]) = PlaceEnd(c[j])
        /\ \A i, j \in 1 .. n : i < j => PlaceEnd(c[i]) <= Place(c[j])
    BY DEF Chain
  <1>0. d = <<>> <=> n = 1
    <2>1. \A e \in Seq(SectionType) : e = <<>> <=> Len(e) = 0
      OBVIOUS
    <2> HIDE DEF d, n
    <2> QED
      BY <1>1, <2>1
  <1> HIDE DEF d, n
  <1>3. n > 1 => Place(d[1]) = PlaceEnd(c[1]) /\ PlaceEnd(d[n - 1]) = to
    <2> SUFFICES ASSUME n > 1
                 PROVE  Place(d[1]) = PlaceEnd(c[1]) /\ PlaceEnd(d[n - 1]) = to
      OBVIOUS
    <2>1. 1 \in 1 .. n - 1 /\ n - 1 \in 1 .. n - 1 /\ (n - 1) + 1 = n
      BY <1>1
    <2>2. d[1] = c[2] /\ d[n - 1] = c[n] /\ Place(c[2]) = PlaceEnd(c[1])
      BY <1>1, <1>2, <2>1
    <2> QED
      BY <1>2, <2>2
  <1>4. ASSUME NEW j \in 1 .. (n - 1) - 1
        PROVE  Place(d[j + 1]) = PlaceEnd(d[j])
    <2>1. j \in 1 .. n - 1 /\ j + 1 \in 1 .. n - 1
      BY <1>1
    <2> QED
      BY <1>1, <1>2, <2>1
  <1>5. ASSUME NEW i \in 1 .. n - 1, NEW j \in 1 .. n - 1, i < j
        PROVE  PlaceEnd(d[i]) <= Place(d[j])
    <2>1. i + 1 \in 1 .. n /\ j + 1 \in 1 .. n /\ i + 1 < j + 1
      BY <1>1, <1>5
    <2> QED
      BY <1>1, <1>2, <2>1
  <1>6. Chain(d, PlaceEnd(c[1]), to)
    BY <1>0, <1>1, <1>2, <1>3, <1>4, <1>5 DEF Chain
  <1> QED
    BY <1>1, <1>2, <1>6 DEF d

\* Every place in the range is in one of its sections.
LEMMA ChainCovers ==
    ASSUME NEW c \in Seq(SectionType), NEW from \in Nat, NEW to \in Nat, Chain(c, from, to),
           NEW x \in Nat, from <= x, x < to
    PROVE  \E j \in 1 .. Len(c) : Place(c[j]) <= x /\ x < PlaceEnd(c[j])
  <1> DEFINE n == Len(c)
             S == {j \in 1 .. n : Place(c[j]) <= x}
             j == Max(S)
  <1>1. n \in Nat /\ n >= 1 /\ \A i \in 1 .. n : c[i] \in SectionType
    <2>1. c # <<>>
      BY DEF Chain
    <2> QED
      BY <2>1
  <1>2. /\ Place(c[1]) = from /\ PlaceEnd(c[n]) = to
        /\ \A i \in 1 .. n - 1 : Place(c[i + 1]) = PlaceEnd(c[i])
    BY <1>1 DEF Chain
  <1>3. j \in S /\ \A y \in S : y <= j
    <2>1. 1 \in S
      BY <1>1, <1>2
    <2>2. S \in SUBSET (1 .. n) /\ S # {}
      BY <2>1
    <2> HIDE DEF S, n
    <2> QED
      BY <1>1, <2>2, MaxOf DEF j
  <1> HIDE DEF j
  <1>4. j \in 1 .. n /\ Place(c[j]) <= x
    BY <1>3
  <1>5. x < PlaceEnd(c[j])
    <2>1. CASE j = n
      BY <1>2, <2>1
    <2>2. CASE j # n
      <3>1. j \in 1 .. n - 1 /\ j + 1 \in 1 .. n /\ ~(j + 1 <= j)
        BY <1>1, <1>4, <2>2
      <3>2. j + 1 \notin S
        BY <1>3, <3>1
      <3>3. ~(Place(c[j + 1]) <= x)
        BY <3>1, <3>2
      <3>4. Place(c[j + 1]) = PlaceEnd(c[j]) /\ Place(c[j + 1]) \in Nat
        BY <1>1, <1>2, <3>1, SectionFacts
      <3> QED
        BY <3>3, <3>4
    <2> QED
      BY <2>1, <2>2
  <1> QED
    BY <1>4, <1>5

\* What a file has of a range.
LEMMA SectionIs ==
    ASSUME NEW start \in Nat, NEW end \in Nat, start <= end, NEW k \in File,
           ~(start >= FileEnd(k) \/ end <= Offset[k])
    PROVE  /\ Section(k, start, end) \in SectionType
           /\ Place(Section(k, start, end)) = IF Offset[k] <= start THEN start ELSE Offset[k]
           /\ PlaceEnd(Section(k, start, end)) =
                  IF FileEnd(k) <= end THEN FileEnd(k) ELSE end
           /\ start < end => Section(k, start, end).length > 0
  <1> DEFINE lo == IF Offset[k] <= start THEN start ELSE Offset[k]
             hi == IF FileEnd(k) <= end THEN FileEnd(k) ELSE end
             s == Section(k, start, end)
  <1>1. /\ Offset[k] \in Nat /\ FileLength[k] \in Nat /\ FileLength[k] > 0
        /\ FileEnd(k) = Offset[k] + FileLength[k] /\ FileEnd(k) \in Nat
    BY Offsets, Files
  <1>2. Max({Offset[k], start}) = lo /\ Min({FileEnd(k), end}) = hi
    <2>1. Offset[k] \in Int /\ FileEnd(k) \in Int
      BY <1>1
    <2> HIDE DEF FileEnd
    <2>2. Max({Offset[k], start}) = lo
      <3> DEFINE a == Offset[k]
      <3>1. a \in Int /\ start \in Int
        BY <2>1
      <3> HIDE DEF a
      <3>2. Max({a, start}) = IF a <= start THEN start ELSE a
        BY <3>1, LeastOfTwo
      <3> QED
        BY <3>2 DEF a
    <2>3. Min({FileEnd(k), end}) = hi
      BY <2>1, LeastOfTwo
    <2> QED
      BY <2>2, <2>3
  <1>3. s = [file |-> k, offset |-> lo - Offset[k], length |-> hi - lo]
    <2> HIDE DEF lo, hi
    <2> QED
      BY <1>2 DEF Section
  <1>4. lo \in Nat /\ hi \in Nat /\ lo <= hi /\ (start < end => lo < hi) /\ Offset[k] <= lo /\ hi <= Offset[k] + FileLength[k]
    BY <1>1
  <1> HIDE DEF lo, hi
  <1>5. /\ s.file = k /\ s.offset = lo - Offset[k] /\ s.length = hi - lo
        /\ s.offset \in Nat /\ s.length \in Nat /\ (start < end => s.length > 0)
        /\ s.offset + s.length <= FileLength[s.file]
        /\ s \in [file : File, offset : Nat, length : Nat]
    BY <1>1, <1>3, <1>4
  <1>6. s \in SectionType
    BY <1>5 DEF SectionType
  <1>7. Place(s) = lo /\ PlaceEnd(s) = hi
    BY <1>1, <1>4, <1>5 DEF Place, PlaceEnd
  <1> QED
    BY <1>5, <1>6, <1>7 DEF lo, hi

\* get_file_sections: the loop over the files, for a range whose end does not wrap
\* or that begins beyond the torrent.
Missed(offset, end, k) == offset >= FileEnd(k) \/ end <= Offset[k]
LEMMA SectionsFound ==
    ASSUME NEW offset \in Nat, NEW length \in Nat,
           offset + length < Limit \/ Total <= offset
    PROVE  \E found \in [0 .. Len(FileLength) -> Seq(SectionType)] :
               /\ found[0] = <<>> /\ Sections(offset, length) = found[Len(FileLength)]
               /\ \A k \in File : found[k] =
                      IF Missed(offset, Wrap(offset + length), k) THEN found[k - 1]
                      ELSE Append(found[k - 1], Section(k, offset, Wrap(offset + length)))
  <1> DEFINE N == Len(FileLength)
             end == Wrap(offset + length)
             Misses(k) == offset >= FileEnd(k) \/ end <= Offset[k]
             T == Seq(SectionType)
             step == [x \in T \X (1 .. N) |->
                         IF Misses(x[2]) THEN x[1]
                         ELSE Append(x[1], Section(x[2], offset, end))]
             Solves(f) == f = [k \in 0 .. N |->
                 IF k = 0 THEN <<>>
                 ELSE IF Misses(k) THEN f[k - 1]
                      ELSE Append(f[k - 1], Section(k, offset, end))]
             found == CHOOSE f : Solves(f)
  <1>1. end \in Nat /\ (offset + length < Limit => offset <= end)
    <2>1. offset + length \in Nat
      OBVIOUS
    <2> QED
      BY <2>1, Fits
  <1>2. N \in Nat \ {0} /\ File = 1 .. N
    BY Files
  <1>3. \A k \in File : ~Misses(k) => Section(k, offset, end) \in SectionType
    <2> SUFFICES ASSUME NEW k \in File, ~Misses(k)
                 PROVE  Section(k, offset, end) \in SectionType
      OBVIOUS
    <2>1. FileEnd(k) <= Total /\ FileEnd(k) \in Nat /\ Total \in Nat
      BY Offsets, WithinTotal, FileEnds
    <2>2. offset <= end
      BY <1>1, <2>1
    <2> HIDE DEF end
    <2> QED
      BY <1>1, <2>2, SectionIs
  <1>4. FoldOver(T, 1 .. N, <<>>, step)
    <2>1. ASSUME NEW x \in T, NEW k \in 1 .. N, ~Misses(k)
          PROVE  Append(x, Section(k, offset, end)) \in T
      <3>1. Section(k, offset, end) \in SectionType
        BY <1>2, <1>3, <2>1
      <3> HIDE DEF end
      <3> QED
        BY <3>1
    <2>2. <<>> \in T
      OBVIOUS
    <2> HIDE DEF T, end, Misses
    <2> QED
      BY <2>1, <2>2 DEF FoldOver
  <1>5. PICK h \in [0 .. N -> T] : Trace(h, N, <<>>, step)
    <2> HIDE DEF step, T
    <2> QED
      BY <1>2, <1>4, TraceExists
  <1>6. Solves(h)
    <2>1. ASSUME NEW k \in 1 .. N
          PROVE  h[k] = IF Misses(k) THEN h[k - 1] ELSE Append(h[k - 1], Section(k, offset, end))
      <3>1. k - 1 \in 0 .. N
        BY <1>2
      <3>2. <<h[k - 1], k>> \in T \X (1 .. N)
        <4> HIDE DEF T
        <4> QED
          BY <3>1
      <3>3. h[k] = step[<<h[k - 1], k>>]
        <4> HIDE DEF step
        <4> QED
          BY <1>5 DEF Trace
      <3> HIDE DEF T, Misses, end
      <3> QED
        BY <3>2, <3>3
    <2>2. h[0] = <<>>
      BY <1>5 DEF Trace
    <2>3. \A k \in 0 .. N : k # 0 => k \in 1 .. N
      BY <1>2
    <2> HIDE DEF T, Misses, end, step
    <2> QED
      BY <2>1, <2>2, <2>3
  <1>7. Solves(found)
    <2> HIDE DEF Solves
    <2> QED
      BY <1>6
  <1>8. Sections(offset, length) = found[N]
    BY DEF Sections
  <1> HIDE DEF found
  <1>9. /\ found[0] = <<>>
        /\ \A k \in 1 .. N : found[k] = IF Misses(k) THEN found[k - 1]
                                        ELSE Append(found[k - 1], Section(k, offset, end))
    <2>1. 0 \in 0 .. N /\ \A k \in 1 .. N : k \in 0 .. N /\ k # 0
      BY <1>2
    <2> HIDE DEF Misses, end
    <2> QED
      BY <1>7, <2>1
  <1>10. found \in [0 .. N -> T]
    <2> DEFINE P == {k \in 0 .. N : found[k] \in T}
    <2>1. 0 \in P
      <3>1. <<>> \in T /\ 0 \in 0 .. N
        BY <1>2
      <3> HIDE DEF T
      <3> QED
        BY <1>9, <3>1
    <2>2. ASSUME NEW n \in 0 .. N - 1, n \in P
          PROVE  n + 1 \in P
      <3>1. n + 1 \in 1 .. N /\ n + 1 \in 0 .. N /\ (n + 1) - 1 = n
        BY <1>2
      <3>2. found[n] \in T
        BY <2>2
      <3>3. ASSUME ~Misses(n + 1)
            PROVE  Append(found[n], Section(n + 1, offset, end)) \in T
        <4>1. Section(n + 1, offset, end) \in SectionType
          BY <1>2, <1>3, <3>1, <3>3
        <4> HIDE DEF end
        <4> QED
          BY <3>2, <4>1
      <3> HIDE DEF Misses, end, T
      <3> QED
        BY <1>9, <3>1, <3>2, <3>3
    <2>3. \A k \in 0 .. N : k \in P
      <3> HIDE DEF P
      <3> QED
        BY <1>2, <2>1, <2>2, InductUpTo
    <2>4. found = [k \in 0 .. N |-> found[k]]
      <3> HIDE DEF Misses, end
      <3> QED
        BY <1>7
    <2> HIDE DEF T
    <2> QED
      BY <2>3, <2>4
  <1> QED
    <2> HIDE DEF T, end
    <2> QED
      BY <1>2, <1>8, <1>9, <1>10 DEF Missed, T, end

\* The sections of a range are the range, as far as the torrent goes, and none is
\* empty unless the range is.
LEMMA SectionsChain ==
    ASSUME NEW offset \in Nat, NEW length \in Nat,
           offset + length < Limit \/ Total <= offset
    PROVE  /\ Sections(offset, length) \in Seq(SectionType)
           /\ Chain(Sections(offset, length), offset, Until(offset, length))
           /\ length > 0 => \A j \in 1 .. Len(Sections(offset, length)) :
                                Sections(offset, length)[j].length > 0
  <1> DEFINE N == Len(FileLength)
             end == Wrap(offset + length)
             Misses(k) == offset >= FileEnd(k) \/ end <= Offset[k]
             T == Seq(SectionType)
  <1>1. N \in Nat \ {0} /\ File = 1 .. N
    BY Files
  <1>2. PICK found \in [0 .. N -> T] :
            /\ found[0] = <<>> /\ Sections(offset, length) = found[N]
            /\ \A k \in File : found[k] =
                   IF Misses(k) THEN found[k - 1]
                   ELSE Append(found[k - 1], Section(k, offset, end))
    BY SectionsFound DEF Missed
  <1> DEFINE Full(c) == length > 0 => \A j \in 1 .. Len(c) : c[j].length > 0
  <1>3. CASE Total <= offset
    <2> DEFINE P == {k \in 0 .. N : found[k] = <<>>}
    <2>1. ASSUME NEW n \in 0 .. N - 1, n \in P
          PROVE  n + 1 \in P
      <3>1. n + 1 \in File /\ n + 1 \in 0 .. N /\ (n + 1) - 1 = n
        BY <1>1
      <3>2. FileEnd(n + 1) <= Total /\ FileEnd(n + 1) \in Nat /\ Total \in Nat
        BY <3>1, Offsets, WithinTotal, FileEnds
      <3>3. Misses(n + 1)
        BY <1>3, <3>2
      <3> HIDE DEF Misses, end
      <3> QED
        BY <1>2, <2>1, <3>1, <3>3
    <2>2. 0 \in P
      BY <1>1, <1>2
    <2>3. \A k \in 0 .. N : k \in P
      <3> HIDE DEF P
      <3> QED
        BY <1>1, <2>1, <2>2, InductUpTo
    <2>4. Sections(offset, length) = <<>>
      BY <1>1, <1>2, <2>3
    <2>5. Until(offset, length) = offset
      BY <1>3, WithinTotal DEF Until
    <2> QED
      BY <2>4, <2>5, ChainEmpty
  <1>4. CASE offset < Total /\ offset + length < Limit
    <2>1. end = offset + length /\ end \in Nat /\ offset <= end /\ (length > 0 => offset < end)
      <3>1. offset + length \in Nat
        OBVIOUS
      <3>2. Wrap(offset + length) = offset + length
        BY <1>4, <3>1, Fits
      <3> QED
        BY <3>1, <3>2
    <2>2. N \in Nat \ {0} /\ File = 1 .. N
      BY <1>1
    <2>9. /\ found[0] = <<>>
          /\ \A k \in 1 .. N : found[k] = IF Misses(k) THEN found[k - 1]
                                          ELSE Append(found[k - 1], Section(k, offset, end))
      <3> HIDE DEF Misses, end
      <3> QED
        BY <1>2, <2>2
    <2> DEFINE Reach(k) == IF FileEnd(k) <= end THEN FileEnd(k) ELSE end
               to == [k \in 0 .. N |-> IF k = 0 THEN offset
                                       ELSE IF Reach(k) > offset THEN Reach(k) ELSE offset]
               P == {k \in 0 .. N : /\ found[k] \in T /\ Full(found[k])
                                    /\ Chain(found[k], offset, to[k])}
    <2>10. \A k \in 0 .. N : to[k] \in Nat
      <3>1. \A k \in File : FileEnd(k) \in Nat
        BY FileEnds
      <3> HIDE DEF end
      <3> QED
        BY <2>1, <2>2, <3>1
    <2>11. 0 \in P
      <3>1. to[0] = offset /\ 0 \in 0 .. N
        BY <2>2
      <3>2. found[0] \in T /\ Full(found[0]) /\ Chain(found[0], offset, to[0])
        <4> HIDE DEF to
        <4> QED
          BY <2>9, <3>1, ChainEmpty
      <3> HIDE DEF to, T, Full
      <3> QED
        BY <3>1, <3>2
    <2>12. ASSUME NEW n \in 0 .. N - 1, n \in P
           PROVE  n + 1 \in P
      <3> DEFINE k == n + 1
                 s == Section(k, offset, end)
      <3>1. k \in File /\ k \in 1 .. N /\ k - 1 = n /\ n \in 0 .. N /\ k \in 0 .. N
        BY <2>2
      <3>2. /\ Offset[k] \in Nat /\ FileLength[k] \in Nat /\ FileLength[k] > 0
            /\ FileEnd(k) = Offset[k] + FileLength[k]
        BY <3>1, Offsets, Files
      <3>3. n = 0 => Offset[k] = 0
        BY <3>1, Offsets
      <3>4. n > 0 => FileEnd(n) = Offset[k]
        <4> SUFFICES ASSUME n > 0 PROVE FileEnd(n) = Offset[k]
          OBVIOUS
        <4>1. n \in File /\ k # 1
          BY <2>2, <3>1
        <4> QED
          BY <3>1, <4>1, Offsets
      <3>5. to[n] = IF Misses(k) THEN to[k] ELSE (IF Offset[k] <= offset THEN offset ELSE Offset[k])
        <4>1. to[k] = IF Reach(k) > offset THEN Reach(k) ELSE offset
          BY <3>1
        <4>2. CASE n = 0
          <5>1. to[n] = offset
            BY <3>1, <4>2
          <5> HIDE DEF to, end, k
          <5> QED
            BY <2>1, <3>2, <3>3, <4>1, <4>2, <5>1
        <4>3. CASE n > 0
          <5>1. to[n] = IF Offset[k] <= end /\ Offset[k] > offset THEN Offset[k]
                        ELSE IF Offset[k] > end /\ end > offset THEN end ELSE offset
            <6>1. to[n] = IF Reach(n) > offset THEN Reach(n) ELSE offset
              BY <3>1, <4>3
            <6> HIDE DEF to, end, k
            <6> QED
              BY <2>1, <3>2, <3>4, <4>3, <6>1
          <5>2. /\ to[k] = IF Reach(k) > offset THEN Reach(k) ELSE offset
                /\ end \in Nat /\ offset <= end
                /\ Offset[k] \in Nat /\ FileEnd(k) \in Nat /\ Offset[k] < FileEnd(k)
            <6> HIDE DEF to, end, k
            <6> QED
              BY <2>1, <3>2, <4>1
          <5> HIDE DEF to, end, k
          <5>3. CASE Offset[k] >= end
            BY <5>1, <5>2, <5>3
          <5>4. CASE Offset[k] < end /\ offset >= FileEnd(k)
            BY <5>1, <5>2, <5>4
          <5>5. CASE Offset[k] < end /\ offset < FileEnd(k)
            BY <5>1, <5>2, <5>5
          <5> QED
            BY <5>2, <5>3, <5>4, <5>5
        <4> QED
          BY <4>2, <4>3
      <3>6. ~Misses(k) => to[k] = Reach(k)
        BY <2>1, <3>1, <3>2
      <3>7. /\ found[n] \in T /\ Full(found[n])
            /\ Chain(found[n], offset, to[n]) /\ to[n] \in Nat
        <4> HIDE DEF T, Full, to
        <4> QED
          BY <2>10, <2>12, <3>1
      <3>8. found[k] = IF Misses(k) THEN found[n] ELSE Append(found[n], s)
        BY <2>9, <3>1
      <3>9. CASE Misses(k)
        <4>1. found[k] = found[n] /\ to[k] = to[n]
          BY <3>5, <3>8, <3>9
        <4> HIDE DEF to, k, Full, T
        <4> QED
          BY <3>1, <3>7, <4>1 DEF k
      <3>10. CASE ~Misses(k)
        <4>1. /\ s \in SectionType /\ Place(s) = to[n] /\ PlaceEnd(s) = to[k]
              /\ length > 0 => s.length > 0
          <5>1. /\ s \in SectionType
                /\ Place(s) = IF Offset[k] <= offset THEN offset ELSE Offset[k]
                /\ PlaceEnd(s) = Reach(k) /\ (length > 0 => s.length > 0)
            <6> HIDE DEF end
            <6> QED
              BY <2>1, <3>1, <3>10, SectionIs
          <5> HIDE DEF s, to, Reach, k, Misses, end
          <5> QED
            BY <3>5, <3>6, <3>10, <5>1
        <4>2. found[k] = Append(found[n], s)
          BY <3>8, <3>10
        <4> HIDE DEF s, to, k, end, Misses
        <4>3. Append(found[n], s) \in T /\ Chain(Append(found[n], s), offset, to[k])
          BY <3>7, <4>1, ChainAppend
        <4>4. Full(Append(found[n], s))
          <5> SUFFICES ASSUME length > 0, NEW j \in 1 .. Len(Append(found[n], s))
                       PROVE  Append(found[n], s)[j].length > 0
            OBVIOUS
          <5> DEFINE c == found[n]
          <5>1. c \in Seq(SectionType) /\ \A i \in 1 .. Len(c) : c[i].length > 0
            BY <3>7
          <5>2. j \in 1 .. Len(Append(c, s))
            OBVIOUS
          <5> HIDE DEF c
          <5>3. (j \in 1 .. Len(c) /\ Append(c, s)[j] = c[j]) \/ Append(c, s)[j] = s
            BY <5>1, <5>2
          <5>4. Append(c, s)[j].length > 0
            BY <4>1, <5>1, <5>3
          <5> QED
            BY <5>4 DEF c
        <4> HIDE DEF Full, T
        <4> QED
          BY <3>1, <4>2, <4>3, <4>4 DEF k
      <3> HIDE DEF P
      <3> QED
        BY <3>9, <3>10
    <2>13. \A k \in 0 .. N : k \in P
      <3> HIDE DEF P
      <3> QED
        BY <2>2, <2>11, <2>12, InductUpTo
    <2>14. to[N] = Until(offset, length)
      <3>1. FileEnd(N) = Total /\ Total \in Nat
        BY WithinTotal DEF Total
      <3>2. N \in 0 .. N /\ N # 0
        BY <2>2
      <3> HIDE DEF N
      <3> QED
        BY <2>1, <3>1, <3>2 DEF Until
    <2>15. N \in P
      BY <2>2, <2>13
    <2> HIDE DEF to, N
    <2> QED
      BY <1>2, <2>14, <2>15 DEF Full
  <1> QED
    BY <1>3, <1>4, WithinTotal

\* A part of a range of bytes is a range.
IsPart(start, length, a, n) ==
    SubSeq(Content(start, length), a + 1, a + n) = Content(start + a, n)

LEMMA PartOfContent ==
    ASSUME NEW start \in Nat, NEW length \in Nat, NEW a \in Nat, NEW n \in Nat,
           a + n <= length
    PROVE  IsPart(start, length, a, n)
  <1> DEFINE c == Content(start, length)
             part == SubSeq(c, a + 1, a + n)
             d == Content(start + a, n)
  <1>1. c \in Seq(Nat) /\ Len(c) = length /\ \A j \in 1 .. length : c[j] = start + j - 1
    BY DEF Content
  <1>2. d \in Seq(Nat) /\ Len(d) = n /\ \A j \in 1 .. n : d[j] = start + a + j - 1
    BY DEF Content
  <1> HIDE DEF c, d
  <1>3. part \in Seq(Nat) /\ Len(part) = n /\ \A q \in 1 .. n : part[q] = c[a + q]
    BY <1>1
  <1>4. \A q \in 1 .. n : a + q \in 1 .. length /\ start + (a + q) - 1 = start + a + q - 1
    OBVIOUS
  <1> HIDE DEF part
  <1>5. part = d
    BY <1>1, <1>2, <1>3, <1>4
  <1> QED
    BY <1>5 DEF IsPart, part, c, d

\* write_piece: a piece is written by one message at least; each has right bytes, and
\* together they have them all.
LEMMA WritesOfPiece ==
    ASSUME NEW i \in Piece
    PROVE  LET w == WritesOf(i, PieceContent(i))
           IN /\ w \in Seq(WriteMessage) /\ w # <<>>
              /\ \A k \in File : \A o \in 0 .. FileLength[k] - 1 :
                     InPiece(i, k, o) => \E n \in DOMAIN w : Writes(w[n], k, o)
  <1> DEFINE L == PieceSize(i)
             start == i * PieceLength
             bytes == PieceContent(i)
             s == Sections(PieceStart(i), Len(bytes))
             N == Len(s)
             Solves(f) == f = [j \in DOMAIN s |-> IF j = 1 THEN 0
                                                  ELSE f[j - 1] + s[j - 1].length]
             cur == CHOOSE f : Solves(f)
             message(j) == [op |-> "write", file |-> s[j].file, offset |-> s[j].offset,
                            bytes |-> SubSeq(bytes, cur[j] + 1, cur[j] + s[j].length)]
  <1>1. /\ start \in Nat /\ PieceStart(i) = start /\ start < Total
        /\ L \in Nat /\ L > 0 /\ start + L < Limit
        /\ start + L = Until(start, L)
    <2>1. /\ start \in Nat /\ PieceStart(i) = start /\ start < Total
          /\ start + PieceLength < Limit /\ L \in 1 .. PieceLength
          /\ start + L <= Total
      BY PieceRange DEF Limit
    <2> HIDE DEF start, L
    <2> QED
      BY <2>1, Sizes, WithinTotal, LimitType DEF Until
  <1>2. bytes = Content(start, L) /\ Len(bytes) = L
    BY <1>1 DEF PieceContent, Content
  <1>3. /\ s \in Seq(SectionType) /\ Chain(s, start, start + L)
        /\ \A j \in 1 .. Len(s) : s[j].length > 0
    <2> HIDE DEF start, L, bytes
    <2>1. s = Sections(start, L) /\ L \in Nat /\ L > 0
      BY <1>1, <1>2
    <2> HIDE DEF s
    <2> QED
      BY <1>1, <2>1, SectionsChain
  <1> HIDE DEF start, L, bytes, s
  <1>4. N \in Nat /\ N >= 1 /\ DOMAIN s = 1 .. N /\ \A j \in 1 .. N : s[j] \in SectionType
    <2>1. s # <<>>
      BY <1>1, <1>3 DEF Chain
    <2> QED
      BY <1>3, <2>1
  <1> HIDE DEF N
  <1>5. \A j \in 1 .. N : /\ s[j].length \in Nat /\ s[j].length > 0
                          /\ s[j].file \in File /\ s[j].offset \in Nat
                          /\ s[j].offset + s[j].length <= FileLength[s[j].file]
                          /\ Place(s[j]) \in Nat
                          /\ PlaceEnd(s[j]) = Place(s[j]) + s[j].length
                          /\ Place(s[j]) = Offset[s[j].file] + s[j].offset
                          /\ Offset[s[j].file] \in Nat
    <2> SUFFICES ASSUME NEW e \in SectionType
                 PROVE  /\ e.length \in Nat
                        /\ e.file \in File /\ e.offset \in Nat
                        /\ e.offset + e.length <= FileLength[e.file]
                        /\ Place(e) \in Nat
                        /\ PlaceEnd(e) = Place(e) + e.length
                        /\ Place(e) = Offset[e.file] + e.offset
                        /\ Offset[e.file] \in Nat
      BY <1>3, <1>4 DEF N
    <2> QED
      BY SectionFacts
  <1>6. \A j \in 1 .. N : start <= Place(s[j]) /\ PlaceEnd(s[j]) <= start + L
    <2>1. start + L \in Nat
      BY <1>1
    <2> QED
      BY <1>1, <1>3, <2>1, ChainWithin DEF N
  <1>7. /\ Place(s[1]) = start
        /\ \A j \in 1 .. N - 1 : Place(s[j + 1]) = PlaceEnd(s[j])
    <2>1. s # <<>>
      BY <1>4
    <2> QED
      BY <1>3, <2>1 DEF Chain, N
  <1>8. Solves(cur)
    <2> DEFINE g == [j \in DOMAIN s |-> Place(s[j]) - start]
    <2>1. ASSUME NEW j \in 1 .. N
          PROVE  g[j] = IF j = 1 THEN 0 ELSE g[j - 1] + s[j - 1].length
      <3>1. g[j] = Place(s[j]) - start
        BY <1>4
      <3>2. CASE j = 1
        BY <1>1, <1>7, <3>1, <3>2
      <3>3. CASE j # 1
        <4>1. j - 1 \in 1 .. N - 1 /\ j - 1 \in 1 .. N /\ (j - 1) + 1 = j
          BY <1>4, <3>3
        <4>2. g[j - 1] = Place(s[j - 1]) - start
          BY <1>4, <4>1
        <4>3. Place(s[j]) = PlaceEnd(s[j - 1])
          BY <1>7, <4>1
        <4>4. Place(s[j]) = Place(s[j - 1]) + s[j - 1].length
          BY <1>5, <4>1, <4>3
        <4> HIDE DEF g
        <4> QED
          BY <1>1, <1>5, <3>1, <3>3, <4>1, <4>2, <4>4
      <3> QED
        BY <3>2, <3>3
    <2>2. Solves(g)
      <3>1. g = [j \in 1 .. N |-> g[j]]
        BY <1>4
      <3> HIDE DEF g
      <3> QED
        BY <1>4, <2>1, <3>1
    <2> HIDE DEF Solves
    <2> QED
      BY <2>2
  <1>9. WritesOf(i, bytes) = [j \in DOMAIN s |-> message(j)]
    BY DEF WritesOf, s
  <1> HIDE DEF cur
  <1>10. \A j \in 1 .. N : cur[j] = IF j = 1 THEN 0 ELSE cur[j - 1] + s[j - 1].length
    BY <1>4, <1>8
  <1> DEFINE P == {j \in 0 .. N : j > 0 => cur[j] = Place(s[j]) - start}
  <1>11. \A j \in 0 .. N : j \in P
    <2>1. 0 \in P
      BY <1>4
    <2>2. ASSUME NEW n \in 0 .. N - 1, n \in P
          PROVE  n + 1 \in P
      <3>1. n + 1 \in 1 .. N /\ n + 1 \in 0 .. N
        BY <1>4
      <3>2. CASE n = 0
        <4>1. cur[1] = 0 /\ Place(s[1]) = start
          BY <1>7, <1>10, <3>1, <3>2
        <4> QED
          BY <1>1, <3>1, <3>2, <4>1
      <3>3. CASE n > 0
        <4>1. n \in 1 .. N - 1 /\ n \in 1 .. N /\ (n + 1) - 1 = n /\ n + 1 # 1
          BY <1>4, <3>3
        <4>2. cur[n + 1] = cur[n] + s[n].length
          BY <1>10, <3>1, <4>1
        <4>3. Place(s[n + 1]) = Place(s[n]) + s[n].length
          BY <1>5, <1>7, <4>1
        <4>4. cur[n] = Place(s[n]) - start
          BY <2>2, <4>1
        <4>5. cur[n + 1] = Place(s[n + 1]) - start
          BY <1>1, <1>5, <4>1, <4>2, <4>3, <4>4
        <4> QED
          BY <3>1, <4>5
      <3> QED
        BY <3>2, <3>3
    <2> HIDE DEF P
    <2> QED
      BY <1>4, <2>1, <2>2, InductUpTo
  <1>12. ASSUME NEW j \in 1 .. N
         PROVE  /\ message(j) \in WriteMessage
                /\ Len(message(j).bytes) = s[j].length
                /\ message(j).op = "write" /\ message(j).file = s[j].file
                /\ message(j).offset = s[j].offset
    <2> DEFINE part == SubSeq(bytes, cur[j] + 1, cur[j] + s[j].length)
               m == message(j)
    <2>1. cur[j] = Place(s[j]) - start
      BY <1>4, <1>11
    <2>2. cur[j] \in Nat /\ cur[j] + s[j].length <= L /\ start + cur[j] = Place(s[j])
      BY <1>1, <1>5, <1>6, <2>1
    <2>3. /\ part \in Seq(Nat) /\ Len(part) = s[j].length
          /\ \A q \in 1 .. s[j].length : part[q] = start + cur[j] + q - 1
      <3> DEFINE a == cur[j]
                 n == s[j].length
      <3>1. a \in Nat /\ n \in Nat /\ a + n <= L /\ start \in Nat /\ L \in Nat
        BY <1>1, <1>5, <2>2
      <3>2. part = SubSeq(Content(start, L), a + 1, a + n)
        BY <1>2
      <3> HIDE DEF a, n, part, start, L
      <3>3. part \in Seq(Nat) /\ Len(part) = n /\ \A q \in 1 .. n : part[q] = start + a + q - 1
        <4>1. IsPart(start, L, a, n)
          BY <3>1, PartOfContent
        <4>2. start + a \in Nat
          BY <3>1
        <4>3. part = Content(start + a, n)
          BY <3>2, <4>1 DEF IsPart
        <4> QED
          BY <3>1, <4>2, <4>3 DEF Content
      <3> QED
        BY <3>3 DEF a, n
    <2> HIDE DEF part
    <2>4. m = [op |-> "write", file |-> s[j].file, offset |-> s[j].offset, bytes |-> part]
      BY DEF part
    <2> HIDE DEF m
    <2>5. /\ m.op = "write" /\ m.file = s[j].file /\ m.offset = s[j].offset /\ m.bytes = part
          /\ m \in [op : {"write"}, file : File, offset : Nat, bytes : Seq(Nat)]
      BY <1>5, <2>3, <2>4
    <2>6. m.bytes # <<>>
      BY <1>5, <2>3, <2>5
    <2>7. \A q \in 1 .. Len(m.bytes) : m.bytes[q] = Offset[m.file] + m.offset + q - 1
      BY <1>5, <2>2, <2>3, <2>5
    <2>8. Holds(i, Offset[m.file] + m.offset, Offset[m.file] + m.offset + Len(m.bytes))
      <3>1. Offset[m.file] + m.offset = Place(s[j]) /\ Len(m.bytes) = s[j].length
        BY <1>5, <2>3, <2>5
      <3> QED
        BY <1>5, <1>6, <3>1 DEF Holds, L, start
    <2>9. m.offset + Len(m.bytes) <= FileLength[m.file]
      BY <1>5, <2>3, <2>5
    <2>10. m \in WriteMessage
      BY <2>5, <2>6, <2>7, <2>8, <2>9 DEF WriteMessage
    <2> QED
      BY <2>3, <2>5, <2>10 DEF m
  <1> DEFINE w == [j \in DOMAIN s |-> message(j)]
  <1>13. w \in Seq(WriteMessage) /\ w # <<>> /\ \A j \in 1 .. N : w[j] = message(j)
    <2>1. w \in [1 .. N -> WriteMessage] /\ DOMAIN w = 1 .. N
      <3> HIDE DEF message
      <3> QED
        BY <1>4, <1>12
    <2>2. \A j \in 1 .. N : w[j] = message(j)
      <3> HIDE DEF message
      <3> QED
        BY <1>4
    <2> HIDE DEF w, message
    <2> QED
      BY <1>4, <2>1, <2>2
  <1>14. ASSUME NEW k \in File, NEW o \in 0 .. FileLength[k] - 1, InPiece(i, k, o)
         PROVE  \E n \in DOMAIN w : Writes(w[n], k, o)
    <2> DEFINE x == Offset[k] + o
    <2>1. x \in Nat /\ start <= x /\ x < start + L
      <3>1. x \in Nat /\ start <= x /\ x + 1 <= start + L
        BY <1>14, Offsets, Files DEF InPiece, Holds, start, L
      <3> QED
        BY <1>1, <3>1
    <2>2. PICK n \in 1 .. N : Place(s[n]) <= x /\ x < PlaceEnd(s[n])
      <3>1. start + L \in Nat
        BY <1>1
      <3> HIDE DEF x
      <3> QED
        BY <1>1, <1>3, <2>1, <3>1, ChainCovers DEF N
    <2> DEFINE f == s[n].file
               u == x - Offset[f]
    <2>3. /\ f \in File /\ u \in 0 .. FileLength[f] - 1 /\ Offset[f] + u = Offset[k] + o
          /\ u - s[n].offset \in 0 .. s[n].length - 1
      <3>1. /\ f \in File /\ s[n].offset \in Nat /\ s[n].length \in Nat
            /\ s[n].offset + s[n].length <= FileLength[f]
            /\ Offset[f] \in Nat /\ Place(s[n]) = Offset[f] + s[n].offset
            /\ PlaceEnd(s[n]) = Place(s[n]) + s[n].length
        BY <1>5
      <3>2. FileLength[f] \in Nat
        BY <3>1, Files
      <3> HIDE DEF f
      <3>3. u \in 0 .. FileLength[f] - 1 /\ u - s[n].offset \in 0 .. s[n].length - 1
        <4> HIDE DEF x
        <4> QED
          BY <2>1, <2>2, <3>1, <3>2
      <3>4. Offset[f] + u = x
        <4> HIDE DEF x
        <4> QED
          BY <2>1, <3>1
      <3> QED
        BY <3>1, <3>3, <3>4
    <2>4. f = k /\ u = o
      <3> HIDE DEF f, u, x
      <3> QED
        BY <2>3, ByteIsOnce
    <2>5. /\ w[n].op = "write" /\ w[n].file = k
          /\ o - w[n].offset \in 0 .. Len(w[n].bytes) - 1
      <3> HIDE DEF u, x, w
      <3>1. w[n] = message(n)
        BY <1>13
      <3> HIDE DEF message
      <3> QED
        BY <1>12, <2>3, <2>4, <3>1 DEF f
    <2>6. n \in DOMAIN w
      BY <1>4
    <2> HIDE DEF w
    <2> QED
      BY <2>5, <2>6 DEF Writes, Covers
  <1> HIDE DEF w
  <1>15. WritesOf(i, PieceContent(i)) = w
    BY <1>9 DEF w, bytes
  <1> QED
    BY <1>13, <1>14, <1>15

-----------------------------------------------------------------------------
(* The queue and who reads.                                                *)

LEMMA MessageFacts ==
    ASSUME NEW m \in Message
    PROVE  /\ m.op \in {"read", "write"}
           /\ m.op = "read" <=> m \in ReadMessage
           /\ m.op = "write" <=> m \in WriteMessage
           /\ m.op = "read" => m.section \in SectionType /\ m.reader \in Reader
  <1>1. \A e \in ReadMessage : e.op = "read" /\ e.section \in SectionType /\ e.reader \in Reader
    BY DEF ReadMessage
  <1>2. \A e \in WriteMessage : e.op = "write"
    BY DEF WriteMessage
  <1>3. m \in ReadMessage \/ m \in WriteMessage
    BY DEF Message
  <1> QED
    BY <1>1, <1>2, <1>3

LEMMA WriteFacts ==
    ASSUME NEW m \in WriteMessage
    PROVE  /\ m.op = "write" /\ m.file \in File /\ m.offset \in Nat
           /\ m.bytes \in Seq(Nat) /\ m.bytes # <<>>
           /\ m.offset + Len(m.bytes) <= FileLength[m.file]
           /\ \A j \in 1 .. Len(m.bytes) : m.bytes[j] = Offset[m.file] + m.offset + j - 1
           /\ \E i \in Piece : Holds(i, Offset[m.file] + m.offset,
                                        Offset[m.file] + m.offset + Len(m.bytes))
  BY DEF WriteMessage

\* The reads that are asked for and those that are due, one after the other.
LEMMA Joined ==
    ASSUME NEW w \in Nat, NEW f \in [1 .. w -> SectionType], NEW due \in Seq(SectionType)
    PROVE  /\ f \o due \in Seq(SectionType) /\ Len(f \o due) = w + Len(due)
           /\ \A j \in 1 .. w : (f \o due)[j] = f[j]
           /\ \A j \in 1 .. Len(due) : (f \o due)[w + j] = due[j]
  <1>1. f \in Seq(SectionType) /\ Len(f) = w
    OBVIOUS
  <1> QED
    BY <1>1

LEMMA ReadingFacts ==
    ASSUME NEW e \in Reading
    PROVE  /\ e.offset \in Nat /\ e.length \in Nat /\ e.waits \in Nat
           /\ e.due \in Seq(SectionType) /\ Len(e.due) \in Nat
           /\ e.got \in Seq(Int) /\ Len(e.got) \in Nat
           /\ Got(e) \in Nat /\ End(e) \in Nat
           /\ Got(e) = e.offset + Len(e.got)
  <1>1. /\ e.offset \in Nat /\ e.length \in Nat /\ e.waits \in Nat
        /\ e.due \in Seq(SectionType) /\ e.got \in Seq(Int)
    BY DEF Reading
  <1>2. Len(e.due) \in Nat /\ Len(e.got) \in Nat
    BY <1>1
  <1>3. End(e) \in Nat
    BY <1>1, WithinTotal DEF End, Until
  <1> QED
    BY <1>1, <1>2, <1>3 DEF Got

\* What the sections asked for, and then those that are due, are.
AskedBy(q, e, pos) ==
    /\ Asked(q, e, pos) \in Seq(SectionType)
    /\ Len(Asked(q, e, pos)) = e.waits + Len(e.due)
    /\ \A j \in 1 .. e.waits : Asked(q, e, pos)[j] = q[pos[j]].section
    /\ \A j \in 1 .. Len(e.due) : Asked(q, e, pos)[e.waits + j] = e.due[j]

LEMMA AskedIs ==
    ASSUME NEW q \in Seq(Message), NEW e \in Reading, NEW r, NEW pos,
           \A j \in 1 .. e.waits : pos[j] \in ReadsIn(q, r)
    PROVE  AskedBy(q, e, pos)
  <1> DEFINE w == e.waits
             due == e.due
             f == [j \in 1 .. w |-> q[pos[j]].section]
  <1>1. w \in Nat /\ due \in Seq(SectionType)
    BY ReadingFacts
  <1>2. \A j \in 1 .. w : q[pos[j]].section \in SectionType
    <2> SUFFICES ASSUME NEW j \in 1 .. w
                 PROVE  q[pos[j]].section \in SectionType
      OBVIOUS
    <2>1. q[pos[j]] \in Message /\ q[pos[j]].op = "read"
      BY DEF ReadsIn
    <2> QED
      BY <2>1, MessageFacts
  <1>3. Asked(q, e, pos) = f \o due
    BY DEF Asked
  <1> HIDE DEF w, due
  <1>4. f = [j \in 1 .. w |-> f[j]] /\ \A j \in 1 .. w : f[j] = q[pos[j]].section
    OBVIOUS
  <1> HIDE DEF f
  <1>5. f \in [1 .. w -> SectionType]
    BY <1>2, <1>4
  <1>7. /\ f \o due \in Seq(SectionType) /\ Len(f \o due) = w + Len(due)
        /\ \A j \in 1 .. w : (f \o due)[j] = f[j]
        /\ \A j \in 1 .. Len(due) : (f \o due)[w + j] = due[j]
    BY <1>1, <1>5, Joined
  <1>8. /\ Asked(q, e, pos) \in Seq(SectionType)
        /\ Len(Asked(q, e, pos)) = w + Len(due)
        /\ \A j \in 1 .. w : Asked(q, e, pos)[j] = q[pos[j]].section
        /\ \A j \in 1 .. Len(due) : Asked(q, e, pos)[w + j] = due[j]
    BY <1>3, <1>4, <1>7
  <1> QED
    BY <1>8 DEF AskedBy, w, due

\* What makes a turn: the positions of the reads, and the range they are.
LEMMA InTurnBy ==
    ASSUME NEW q \in Seq(Message), NEW up, NEW e \in Reading, NEW r, NEW pos,
           Positions(q, e, r, pos), Chain(Asked(q, e, pos), Got(e), End(e))
    PROVE  InTurn(q, up, e, r)
  <1> DEFINE c == Asked(q, e, pos)
  <1>1. Got(e) \in Nat /\ End(e) \in Nat /\ Len(e.due) \in Nat /\ e.waits \in Nat
    BY ReadingFacts
  <1>2. pos \in [1 .. e.waits -> ReadsIn(q, r)]
    BY DEF Positions
  <1>3. c \in Seq(SectionType) /\ Len(c) = e.waits + Len(e.due)
    <2>1. \A j \in 1 .. e.waits : pos[j] \in ReadsIn(q, r)
      BY <1>2
    <2> QED
      BY <2>1, AskedIs DEF AskedBy
  <1>4. InTurn(q, up, e, r)!1
    BY <1>2
  <1> HIDE DEF c
  <1>5. Chain(c, Got(e), End(e))
    BY DEF c
  <1>6. Got(e) <= End(e)
    BY <1>1, <1>3, <1>5, ChainWithin
  <1>7. ASSUME e.due = <<>>, e.waits = 0
        PROVE  Got(e) = End(e)
    <2>1. c = <<>>
      BY <1>3, <1>7
    <2> QED
      BY <1>5, <2>1 DEF Chain
  <1> QED
    BY <1>4, <1>6, <1>7 DEF InTurn

LEMMA SameSeq ==
    ASSUME NEW S, NEW s \in Seq(S), NEW t \in Seq(S), Len(s) = Len(t),
           \A j \in 1 .. Len(s) : s[j] = t[j]
    PROVE  s = t
  OBVIOUS

LEMMA Appended ==
    ASSUME NEW S, NEW q \in Seq(S), NEW m \in S
    PROVE  /\ Append(q, m) \in Seq(S) /\ Len(Append(q, m)) = Len(q) + 1 /\ Len(q) \in Nat
           /\ Append(q, m)[Len(q) + 1] = m
           /\ \A n \in 1 .. Len(q) : Append(q, m)[n] = q[n]
  OBVIOUS

LEMMA Taken ==
    ASSUME NEW S, NEW q \in Seq(S), q # <<>>
    PROVE  /\ Tail(q) \in Seq(S) /\ Len(Tail(q)) = Len(q) - 1
           /\ Len(q) \in Nat /\ Len(q) >= 1 /\ Head(q) = q[1] /\ Head(q) \in S
           /\ \A n \in 1 .. Len(q) - 1 : Tail(q)[n] = q[n + 1]
  OBVIOUS

\* A message of somebody else, or a write, is put into the queue.
LEMMA InTurnAppend ==
    ASSUME NEW q \in Seq(Message), NEW m \in Message, NEW up, NEW e \in Reading, NEW r,
           InTurn(q, up, e, r), ~(m.op = "read" /\ m.reader = r)
    PROVE  InTurn(Append(q, m), up, e, r)
  <1> DEFINE q2 == Append(q, m)
             N == Len(q)
  <1>1. /\ q2 \in Seq(Message) /\ Len(q2) = N + 1 /\ N \in Nat /\ q2[N + 1] = m
        /\ \A n \in 1 .. N : q2[n] = q[n]
    BY Appended
  <1> HIDE DEF q2
  <1>2. ReadsIn(q2, r) = ReadsIn(q, r)
    BY <1>1 DEF ReadsIn
  <1>3. CASE up = "up"
    <2>1. PICK pos \in [1 .. e.waits -> ReadsIn(q, r)] :
              Positions(q, e, r, pos) /\ Chain(Asked(q, e, pos), Got(e), End(e))
      BY <1>3 DEF InTurn
    <2>2. Positions(q2, e, r, pos)
      BY <1>2, <2>1 DEF Positions
    <2>3. \A j \in 1 .. e.waits : q2[pos[j]] = q[pos[j]]
      BY <1>1, <2>1 DEF ReadsIn
    <2>4. Asked(q2, e, pos) = Asked(q, e, pos)
      BY <2>3 DEF Asked
    <2>5. Chain(Asked(q2, e, pos), Got(e), End(e))
      BY <2>1, <2>4
    <2> QED
      BY <1>1, <2>2, <2>5, InTurnBy DEF q2
  <1>4. CASE up # "up"
    BY <1>4 DEF InTurn
  <1> QED
    BY <1>3, <1>4 DEF q2

\* A reader puts its next read into the queue.
LEMMA InTurnAsks ==
    ASSUME NEW q \in Seq(Message), NEW m \in Message, NEW e \in Reading, NEW r,
           InTurn(q, "up", e, r), e.due # <<>>,
           m.op = "read", m.reader = r, m.section = Head(e.due),
           NEW e2 \in Reading, e2.offset = e.offset, e2.length = e.length,
           e2.got = e.got, e2.due = Tail(e.due), e2.waits = e.waits + 1
    PROVE  InTurn(Append(q, m), "up", e2, r)
  <1> DEFINE q2 == Append(q, m)
             N == Len(q)
             w == e.waits
  <1>1. /\ q2 \in Seq(Message) /\ Len(q2) = N + 1 /\ N \in Nat /\ q2[N + 1] = m
        /\ \A n \in 1 .. N : q2[n] = q[n]
    BY Appended
  <1> HIDE DEF q2
  <1>2. PICK pos \in [1 .. w -> ReadsIn(q, r)] :
            Positions(q, e, r, pos) /\ Chain(Asked(q, e, pos), Got(e), End(e))
    BY DEF InTurn
  <1>3. w \in Nat /\ e.due \in Seq(SectionType) /\ Len(e.due) \in Nat
    BY ReadingFacts
  <1>4. /\ Tail(e.due) \in Seq(SectionType) /\ Len(Tail(e.due)) = Len(e.due) - 1
        /\ Len(e.due) >= 1 /\ Head(e.due) = e.due[1]
        /\ \A j \in 1 .. Len(e.due) - 1 : Tail(e.due)[j] = e.due[j + 1]
    BY <1>3, Taken
  <1> HIDE DEF w
  <1>5. \A n \in 1 .. N + 1 : n \in ReadsIn(q2, r) <=> n \in ReadsIn(q, r) \/ n = N + 1
    BY <1>1 DEF ReadsIn
  <1>6. \A n \in ReadsIn(q2, r) : n \in 1 .. N + 1
    BY <1>1 DEF ReadsIn
  <1>7. \A n \in ReadsIn(q, r) : n \in 1 .. N
    BY DEF ReadsIn
  <1> DEFINE pos2 == [j \in 1 .. w + 1 |-> IF j = w + 1 THEN N + 1 ELSE pos[j]]
  <1>8. /\ \A j \in 1 .. w : pos2[j] = pos[j] /\ pos[j] \in ReadsIn(q, r)
        /\ pos2[w + 1] = N + 1
    BY <1>2, <1>3
  <1>9. pos2 \in [1 .. w + 1 -> ReadsIn(q2, r)]
    <2>1. \A j \in 1 .. w + 1 : pos2[j] \in ReadsIn(q2, r)
      <3> HIDE DEF pos2
      <3> QED
        <4>1. w + 1 \in 1 .. w + 1 /\ N + 1 \in 1 .. N + 1
          BY <1>1, <1>3
        <4>2. \A n \in 1 .. N : n \in 1 .. N + 1
          BY <1>1
        <4>3. \A j \in 1 .. w + 1 : j \in 1 .. w \/ j = w + 1
          BY <1>3
        <4> QED
          BY <1>5, <1>7, <1>8, <4>1, <4>2, <4>3
    <2> QED
      BY <2>1
  <1> HIDE DEF pos2
  <1>10. \A n \in ReadsIn(q2, r) : \E j \in 1 .. w + 1 : pos2[j] = n
    <2> SUFFICES ASSUME NEW n \in ReadsIn(q2, r)
                 PROVE  \E j \in 1 .. w + 1 : pos2[j] = n
      OBVIOUS
    <2>1. CASE n = N + 1
      BY <1>3, <1>8, <2>1
    <2>2. CASE n # N + 1
      <3>1. n \in ReadsIn(q, r)
        BY <1>5, <1>6, <2>2
      <3>2. PICK j \in 1 .. w : pos[j] = n
        BY <1>2, <3>1 DEF Positions, w
      <3>3. j \in 1 .. w + 1 /\ pos2[j] = n
        BY <1>3, <1>8, <3>2
      <3> QED
        BY <3>3
    <2> QED
      BY <2>1, <2>2
  <1>11. ASSUME NEW i \in 1 .. w + 1, NEW j \in 1 .. w + 1, i < j
         PROVE  pos2[i] < pos2[j]
    <2>1. i \in 1 .. w /\ pos2[i] = pos[i] /\ pos[i] \in 1 .. N
      BY <1>3, <1>7, <1>8, <1>11
    <2>2. CASE j = w + 1
      BY <1>1, <1>8, <2>1, <2>2
    <2>3. CASE j \in 1 .. w
      <3>1. pos[i] < pos[j]
        BY <1>2, <1>11, <2>1, <2>3 DEF Positions, w
      <3> QED
        BY <1>8, <2>1, <2>3, <3>1
    <2> QED
      BY <1>3, <2>2, <2>3
  <1>12. Positions(q2, e2, r, pos2)
    BY <1>9, <1>10, <1>11 DEF Positions, w
  <1>13. /\ Asked(q, e, pos) \in Seq(SectionType) /\ Len(Asked(q, e, pos)) = w + Len(e.due)
         /\ \A j \in 1 .. w : Asked(q, e, pos)[j] = q[pos[j]].section
         /\ \A j \in 1 .. Len(e.due) : Asked(q, e, pos)[w + j] = e.due[j]
    <2>1. \A j \in 1 .. e.waits : pos[j] \in ReadsIn(q, r)
      BY <1>8 DEF w
    <2>2. AskedBy(q, e, pos)
      BY <2>1, AskedIs
    <2> QED
      BY <2>2 DEF w, AskedBy
  <1>14. /\ Asked(q2, e2, pos2) \in Seq(SectionType)
         /\ Len(Asked(q2, e2, pos2)) = w + 1 + Len(Tail(e.due))
         /\ \A j \in 1 .. w + 1 : Asked(q2, e2, pos2)[j] = q2[pos2[j]].section
         /\ \A j \in 1 .. Len(Tail(e.due)) : Asked(q2, e2, pos2)[w + 1 + j] = Tail(e.due)[j]
    <2>1. e2.waits = w + 1 /\ \A j \in 1 .. e2.waits : pos2[j] \in ReadsIn(q2, r)
      BY <1>9 DEF w
    <2>2. AskedBy(q2, e2, pos2)
      BY <1>1, <2>1, AskedIs
    <2> QED
      BY <2>1, <2>2 DEF AskedBy
  <1> DEFINE a == Asked(q, e, pos)
             b == Asked(q2, e2, pos2)
  <1> HIDE DEF a, b
  <1>15. a \in Seq(SectionType) /\ b \in Seq(SectionType) /\ Len(a) = w + Len(e.due) /\ Len(b) = Len(a)
    <2> DEFINE t == Len(Tail(e.due))
               l == Len(e.due)
    <2>0. t = l - 1 /\ l \in Nat /\ w \in Nat
      BY <1>3, <1>4
    <2> HIDE DEF t, l
    <2>3. w + 1 + t = w + l
      BY <2>0
    <2>1. w + 1 + Len(Tail(e.due)) = w + Len(e.due)
      BY <2>3 DEF t, l
    <2> QED
      BY <1>13, <1>14, <2>1 DEF a, b
  <1>16. \A j \in 1 .. Len(b) : b[j] = a[j]
    <2> SUFFICES ASSUME NEW j \in 1 .. Len(b)
                 PROVE  b[j] = a[j]
      OBVIOUS
    <2>1. CASE j \in 1 .. w
      <3>1. q2[pos2[j]] = q[pos[j]]
        BY <1>1, <1>7, <1>8, <2>1
      <3>2. j \in 1 .. w + 1
        BY <1>3, <2>1
      <3> QED
        BY <1>13, <1>14, <2>1, <3>1, <3>2 DEF a, b
    <2>2. CASE j = w + 1
      <3>1. b[w + 1] = q2[N + 1].section
        <4>1. w + 1 \in 1 .. w + 1
          BY <1>3
        <4> QED
          BY <1>8, <1>14, <4>1 DEF b
      <3>2. a[w + 1] = e.due[1]
        BY <1>4, <1>13 DEF a
      <3> QED
        BY <1>1, <1>4, <2>2, <3>1, <3>2
    <2>3. CASE j > w + 1
      <3> DEFINE d == j - (w + 1)
      <3>1. d \in 1 .. Len(e.due) - 1 /\ d + 1 \in 1 .. Len(e.due) /\ w + 1 + d = j
            /\ w + (d + 1) = j
        BY <1>3, <1>15, <2>3
      <3> HIDE DEF d
      <3>2. b[j] = Tail(e.due)[d]
        BY <1>4, <1>14, <3>1 DEF b
      <3>3. a[j] = e.due[d + 1]
        BY <1>13, <3>1 DEF a
      <3> QED
        BY <1>4, <3>1, <3>2, <3>3
    <2> QED
      BY <1>3, <1>15, <2>1, <2>2, <2>3
  <1>17. a = b
    BY <1>15, <1>16, SameSeq
  <1>18. Got(e2) = Got(e) /\ End(e2) = End(e)
    BY DEF Got, End
  <1>19. Chain(Asked(q2, e2, pos2), Got(e2), End(e2))
    BY <1>2, <1>17, <1>18 DEF a, b
  <1> QED
    BY <1>1, <1>12, <1>19, InTurnBy DEF q2

\* Somebody else's message, or a write, is taken from the queue.
LEMMA InTurnTail ==
    ASSUME NEW q \in Seq(Message), q # <<>>, NEW e \in Reading, NEW r,
           InTurn(q, "up", e, r), ~(q[1].op = "read" /\ q[1].reader = r)
    PROVE  InTurn(Tail(q), "up", e, r)
  <1> DEFINE q2 == Tail(q)
             N == Len(q)
             w == e.waits
  <1>1. /\ q2 \in Seq(Message) /\ Len(q2) = N - 1 /\ N \in Nat /\ N >= 1
        /\ \A n \in 1 .. N - 1 : q2[n] = q[n + 1]
    BY Taken
  <1> HIDE DEF q2
  <1>2. PICK pos \in [1 .. w -> ReadsIn(q, r)] :
            Positions(q, e, r, pos) /\ Chain(Asked(q, e, pos), Got(e), End(e))
    BY DEF InTurn
  <1>3. w \in Nat
    BY ReadingFacts
  <1>4. /\ \A n \in ReadsIn(q, r) : n \in 2 .. N /\ n - 1 \in ReadsIn(q2, r)
        /\ \A n \in ReadsIn(q2, r) : n + 1 \in ReadsIn(q, r) /\ n \in 1 .. N - 1
    <2>1. ASSUME NEW n \in ReadsIn(q, r)
          PROVE  n \in 2 .. N /\ n - 1 \in ReadsIn(q2, r)
      <3>1. n \in 1 .. N /\ n # 1 /\ q[n].op = "read" /\ q[n].reader = r
        BY DEF ReadsIn
      <3>2. n - 1 \in 1 .. N - 1 /\ (n - 1) + 1 = n
        BY <1>1, <3>1
      <3> QED
        BY <1>1, <3>1, <3>2 DEF ReadsIn
    <2>2. ASSUME NEW n \in ReadsIn(q2, r)
          PROVE  n + 1 \in ReadsIn(q, r) /\ n \in 1 .. N - 1
      <3>1. n \in 1 .. N - 1 /\ n + 1 \in 1 .. N /\ q2[n].op = "read" /\ q2[n].reader = r
        BY <1>1 DEF ReadsIn
      <3> QED
        BY <1>1, <3>1 DEF ReadsIn
    <2> QED
      BY <2>1, <2>2
  <1> HIDE DEF w
  <1> DEFINE pos2 == [j \in 1 .. w |-> pos[j] - 1]
  <1>5. \A j \in 1 .. w : pos2[j] = pos[j] - 1 /\ pos[j] \in ReadsIn(q, r) /\ pos[j] \in 2 .. N
    BY <1>2, <1>4
  <1>6. pos2 \in [1 .. w -> ReadsIn(q2, r)]
    BY <1>4, <1>5
  <1> HIDE DEF pos2
  <1>7. \A n \in ReadsIn(q2, r) : \E j \in 1 .. w : pos2[j] = n
    <2> SUFFICES ASSUME NEW n \in ReadsIn(q2, r)
                 PROVE  \E j \in 1 .. w : pos2[j] = n
      OBVIOUS
    <2>1. PICK j \in 1 .. w : pos[j] = n + 1
      BY <1>2, <1>4 DEF Positions, w
    <2> QED
      BY <1>4, <1>5, <2>1
  <1>8. \A i, j \in 1 .. w : i < j => pos2[i] < pos2[j]
    <2>1. \A i, j \in 1 .. w : i < j => pos[i] < pos[j]
      BY <1>2 DEF Positions, w
    <2> QED
      BY <1>5, <2>1
  <1>9. Positions(q2, e, r, pos2)
    BY <1>6, <1>7, <1>8 DEF Positions, w
  <1>10. \A j \in 1 .. w : q2[pos2[j]] = q[pos[j]]
    <2> SUFFICES ASSUME NEW j \in 1 .. w
                 PROVE  q2[pos2[j]] = q[pos[j]]
      OBVIOUS
    <2>1. pos[j] - 1 \in 1 .. N - 1 /\ (pos[j] - 1) + 1 = pos[j]
      BY <1>1, <1>5
    <2> QED
      BY <1>1, <1>5, <2>1
  <1>11. Asked(q2, e, pos2) = Asked(q, e, pos)
    BY <1>10 DEF Asked, w
  <1>12. Chain(Asked(q2, e, pos2), Got(e), End(e))
    BY <1>2, <1>11
  <1> QED
    BY <1>1, <1>9, <1>12, InTurnBy DEF q2

\* A read is answered.
LEMMA InTurnGets ==
    ASSUME NEW q \in Seq(Message), q # <<>>, NEW e \in Reading, NEW r,
           InTurn(q, "up", e, r), q[1].op = "read", q[1].reader = r,
           NEW e2 \in Reading, e2.offset = e.offset, e2.length = e.length,
           e2.due = e.due, e2.waits = e.waits - 1,
           Len(e2.got) = Len(e.got) + q[1].section.length
    PROVE  /\ Place(q[1].section) = Got(e)
           /\ InTurn(Tail(q), "up", e2, r)
  <1> DEFINE q2 == Tail(q)
             N == Len(q)
             w == e.waits
  <1>1. /\ q2 \in Seq(Message) /\ Len(q2) = N - 1 /\ N \in Nat /\ N >= 1
        /\ \A n \in 1 .. N - 1 : q2[n] = q[n + 1]
    BY Taken
  <1> HIDE DEF q2
  <1>2. PICK pos \in [1 .. w -> ReadsIn(q, r)] :
            Positions(q, e, r, pos) /\ Chain(Asked(q, e, pos), Got(e), End(e))
    BY DEF InTurn
  <1>3. w \in Nat /\ e.due \in Seq(SectionType) /\ Len(e.due) \in Nat
    BY ReadingFacts
  <1> HIDE DEF w
  <1>4. /\ \A j \in 1 .. w : pos[j] \in ReadsIn(q, r) /\ pos[j] \in 1 .. N
        /\ \A n \in ReadsIn(q, r) : \E j \in 1 .. w : pos[j] = n
        /\ \A i, j \in 1 .. w : i < j => pos[i] < pos[j]
    BY <1>2 DEF Positions, w, ReadsIn
  <1>5. w >= 1 /\ pos[1] = 1
    <2>1. 1 \in ReadsIn(q, r)
      BY <1>1 DEF ReadsIn
    <2>2. PICK j \in 1 .. w : pos[j] = 1
      BY <1>4, <2>1
    <2>3. 1 \in 1 .. w /\ pos[1] \in 1 .. N
      BY <1>3, <1>4, <2>2
    <2>4. j = 1
      BY <1>3, <1>4, <2>2, <2>3
    <2> QED
      BY <2>2, <2>3, <2>4
  <1>6. \A j \in 2 .. w : pos[j] \in 2 .. N
    <2> SUFFICES ASSUME NEW j \in 2 .. w
                 PROVE  pos[j] \in 2 .. N
      OBVIOUS
    <2>1. j \in 1 .. w /\ 1 \in 1 .. w /\ 1 < j
      BY <1>3, <1>5
    <2>2. pos[1] < pos[j] /\ pos[j] \in 1 .. N
      BY <1>4, <2>1
    <2> QED
      BY <1>5, <2>2
  <1>7. /\ \A n \in ReadsIn(q, r) : n # 1 => n - 1 \in ReadsIn(q2, r)
        /\ \A n \in ReadsIn(q2, r) : n + 1 \in ReadsIn(q, r) /\ n \in 1 .. N - 1
    <2>1. ASSUME NEW n \in ReadsIn(q, r), n # 1
          PROVE  n - 1 \in ReadsIn(q2, r)
      <3>1. n \in 1 .. N /\ q[n].op = "read" /\ q[n].reader = r
        BY DEF ReadsIn
      <3>2. n - 1 \in 1 .. N - 1 /\ (n - 1) + 1 = n
        BY <1>1, <2>1, <3>1
      <3> QED
        BY <1>1, <3>1, <3>2 DEF ReadsIn
    <2>2. ASSUME NEW n \in ReadsIn(q2, r)
          PROVE  n + 1 \in ReadsIn(q, r) /\ n \in 1 .. N - 1
      <3>1. n \in 1 .. N - 1 /\ n + 1 \in 1 .. N /\ q2[n].op = "read" /\ q2[n].reader = r
        BY <1>1 DEF ReadsIn
      <3> QED
        BY <1>1, <3>1 DEF ReadsIn
    <2> QED
      BY <2>1, <2>2
  <1> DEFINE pos2 == [j \in 1 .. w - 1 |-> pos[j + 1] - 1]
  <1>8. \A j \in 1 .. w - 1 : /\ pos2[j] = pos[j + 1] - 1 /\ pos[j + 1] \in ReadsIn(q, r)
                              /\ pos[j + 1] \in 2 .. N /\ j + 1 \in 1 .. w
    <2> SUFFICES ASSUME NEW j \in 1 .. w - 1
                 PROVE  /\ pos2[j] = pos[j + 1] - 1 /\ pos[j + 1] \in ReadsIn(q, r)
                        /\ pos[j + 1] \in 2 .. N /\ j + 1 \in 1 .. w
      OBVIOUS
    <2>1. j + 1 \in 2 .. w /\ j + 1 \in 1 .. w
      BY <1>3
    <2> QED
      BY <1>4, <1>6, <2>1
  <1>9. pos2 \in [1 .. w - 1 -> ReadsIn(q2, r)]
    <2>1. \A j \in 1 .. w - 1 : pos2[j] \in ReadsIn(q2, r)
      <3> SUFFICES ASSUME NEW j \in 1 .. w - 1
                   PROVE  pos2[j] \in ReadsIn(q2, r)
        OBVIOUS
      <3>1. pos[j + 1] \in ReadsIn(q, r) /\ pos[j + 1] # 1 /\ pos2[j] = pos[j + 1] - 1
        BY <1>8
      <3> HIDE DEF pos2
      <3> QED
        BY <1>7, <3>1
    <2> QED
      BY <2>1
  <1> HIDE DEF pos2
  <1>10. \A n \in ReadsIn(q2, r) : \E j \in 1 .. w - 1 : pos2[j] = n
    <2> SUFFICES ASSUME NEW n \in ReadsIn(q2, r)
                 PROVE  \E j \in 1 .. w - 1 : pos2[j] = n
      OBVIOUS
    <2>1. n + 1 \in ReadsIn(q, r) /\ n \in 1 .. N - 1
      BY <1>7
    <2>2. PICK j \in 1 .. w : pos[j] = n + 1
      BY <1>4, <2>1
    <2>3. j # 1
      BY <1>5, <2>1, <2>2
    <2>4. j - 1 \in 1 .. w - 1 /\ (j - 1) + 1 = j
      BY <1>3, <2>3
    <2>5. pos2[j - 1] = n
      BY <1>8, <2>1, <2>2, <2>4
    <2> QED
      BY <2>4, <2>5
  <1>11. \A i, j \in 1 .. w - 1 : i < j => pos2[i] < pos2[j]
    <2> SUFFICES ASSUME NEW i \in 1 .. w - 1, NEW j \in 1 .. w - 1, i < j
                 PROVE  pos2[i] < pos2[j]
      OBVIOUS
    <2>1. i + 1 \in 1 .. w /\ j + 1 \in 1 .. w /\ i + 1 < j + 1
      BY <1>3
    <2>2. pos[i + 1] < pos[j + 1]
      BY <1>4, <2>1
    <2> QED
      BY <1>8, <2>2
  <1>12. Positions(q2, e2, r, pos2)
    BY <1>9, <1>10, <1>11 DEF Positions, w
  <1>13. /\ Asked(q, e, pos) \in Seq(SectionType) /\ Len(Asked(q, e, pos)) = w + Len(e.due)
         /\ \A j \in 1 .. w : Asked(q, e, pos)[j] = q[pos[j]].section
         /\ \A j \in 1 .. Len(e.due) : Asked(q, e, pos)[w + j] = e.due[j]
    <2>1. \A j \in 1 .. e.waits : pos[j] \in ReadsIn(q, r)
      BY <1>4 DEF w
    <2>2. AskedBy(q, e, pos)
      BY <2>1, AskedIs
    <2> QED
      BY <2>2 DEF w, AskedBy
  <1>14. /\ Asked(q2, e2, pos2) \in Seq(SectionType)
         /\ Len(Asked(q2, e2, pos2)) = w - 1 + Len(e.due)
         /\ \A j \in 1 .. w - 1 : Asked(q2, e2, pos2)[j] = q2[pos2[j]].section
         /\ \A j \in 1 .. Len(e.due) : Asked(q2, e2, pos2)[w - 1 + j] = e.due[j]
    <2>1. e2.waits = w - 1 /\ \A j \in 1 .. e2.waits : pos2[j] \in ReadsIn(q2, r)
      BY <1>9 DEF w
    <2>2. AskedBy(q2, e2, pos2)
      BY <1>1, <2>1, AskedIs
    <2> QED
      BY <2>1, <2>2 DEF AskedBy
  <1> DEFINE a == Asked(q, e, pos)
             b == Asked(q2, e2, pos2)
  <1> HIDE DEF a, b
  <1>15. /\ a \in Seq(SectionType) /\ b \in Seq(SectionType)
         /\ Len(a) = w + Len(e.due) /\ Len(b) = w - 1 + Len(e.due) /\ a # <<>>
    <2>1. a \in Seq(SectionType) /\ Len(a) = w + Len(e.due)
      BY <1>13 DEF a
    <2>2. a # <<>>
      BY <1>3, <1>5, <2>1
    <2> QED
      BY <1>14, <2>1, <2>2 DEF b
  <1>16. /\ Tail(a) \in Seq(SectionType) /\ Len(Tail(a)) = Len(a) - 1
         /\ \A j \in 1 .. Len(a) - 1 : Tail(a)[j] = a[j + 1]
    BY <1>15, Taken
  <1>17. \A j \in 1 .. Len(b) : b[j] = Tail(a)[j]
    <2> SUFFICES ASSUME NEW j \in 1 .. Len(b)
                 PROVE  b[j] = Tail(a)[j]
      OBVIOUS
    <2>0. Tail(a)[j] = a[j + 1]
      BY <1>3, <1>15, <1>16
    <2>1. CASE j \in 1 .. w - 1
      <3>1. q2[pos2[j]] = q[pos[j + 1]]
        <4>1. pos[j + 1] - 1 \in 1 .. N - 1 /\ (pos[j + 1] - 1) + 1 = pos[j + 1]
          BY <1>1, <1>8, <2>1
        <4> QED
          BY <1>1, <1>8, <2>1, <4>1
      <3>2. j + 1 \in 1 .. w
        BY <1>3, <2>1
      <3> QED
        BY <1>13, <1>14, <2>0, <2>1, <3>1, <3>2 DEF a, b
    <2>2. CASE j > w - 1
      <3> DEFINE d == j - (w - 1)
      <3>1. d \in 1 .. Len(e.due) /\ w - 1 + d = j /\ w + d = j + 1
        BY <1>3, <1>15, <2>2
      <3> HIDE DEF d
      <3>2. b[j] = e.due[d]
        BY <1>14, <3>1 DEF b
      <3>3. a[j + 1] = e.due[d]
        BY <1>13, <3>1 DEF a
      <3> QED
        BY <2>0, <3>2, <3>3
    <2>3. j \in 1 .. w - 1 \/ j > w - 1
      BY <1>3, <1>15
    <2> QED
      BY <2>1, <2>2, <2>3
  <1>18. Tail(a) = b
    <2>1. Len(Tail(a)) = Len(b)
      BY <1>3, <1>15, <1>16
    <2> QED
      BY <1>15, <1>16, <1>17, <2>1, SameSeq
  <1>19. a[1] = q[1].section
    BY <1>3, <1>5, <1>13 DEF a
  <1>20. /\ a[1] \in SectionType /\ Place(a[1]) = Got(e)
         /\ Chain(Tail(a), PlaceEnd(a[1]), End(e))
    <2>1. Chain(a, Got(e), End(e))
      BY <1>2 DEF a
    <2> QED
      BY <1>15, <2>1, ChainTail
  <1>21. Got(e2) = PlaceEnd(a[1]) /\ End(e2) = End(e)
    <2>1. PlaceEnd(a[1]) = Place(a[1]) + a[1].length /\ a[1].length \in Nat
      BY <1>20, SectionFacts
    <2>2. e.offset \in Nat /\ Len(e.got) \in Nat
      BY ReadingFacts
    <2> QED
      BY <1>19, <1>20, <2>1, <2>2 DEF Got, End
  <1>22. Chain(Asked(q2, e2, pos2), Got(e2), End(e2))
    BY <1>18, <1>20, <1>21 DEF b
  <1>23. InTurn(q2, "up", e2, r)
    BY <1>1, <1>12, <1>22, InTurnBy
  <1> QED
    BY <1>19, <1>20, <1>23 DEF q2

\* The file manager is gone.
LEMMA InTurnDown ==
    ASSUME NEW q, NEW up, NEW e, NEW r, InTurn(q, up, e, r)
    PROVE  InTurn(<<>>, "down", e, r)
  BY DEF InTurn

\* A reader that waits for nothing has no read in the queue, ...
LEMMA NoReads ==
    ASSUME NEW q, NEW e \in Reading, NEW r, InTurn(q, "up", e, r), e.waits = 0
    PROVE  ReadsIn(q, r) = {}
  <1>1. PICK pos \in [1 .. e.waits -> ReadsIn(q, r)] : Positions(q, e, r, pos)
    BY DEF InTurn
  <1> QED
    BY <1>1 DEF Positions

\* ... and begins to read when it has none.
LEMMA InTurnStart ==
    ASSUME NEW q \in Seq(Message), NEW up, NEW e \in Reading, NEW r, ReadsIn(q, r) = {},
           e.waits = 0, e.got = <<>>, Chain(e.due, e.offset, End(e))
    PROVE  InTurn(q, up, e, r)
  <1> DEFINE pos == [j \in 1 .. 0 |-> 0]
  <1>1. pos \in [1 .. e.waits -> ReadsIn(q, r)]
    OBVIOUS
  <1>2. Positions(q, e, r, pos)
    BY <1>1 DEF Positions
  <1>3. /\ Asked(q, e, pos) \in Seq(SectionType) /\ Len(Asked(q, e, pos)) = 0 + Len(e.due)
        /\ \A j \in 1 .. Len(e.due) : Asked(q, e, pos)[0 + j] = e.due[j]
    <2>1. e.waits = 0 /\ \A j \in 1 .. e.waits : pos[j] \in ReadsIn(q, r)
      OBVIOUS
    <2> HIDE DEF pos
    <2>2. AskedBy(q, e, pos)
      BY <2>1, AskedIs
    <2> QED
      BY <2>1, <2>2 DEF AskedBy
  <1> HIDE DEF pos
  <1>4. e.due \in Seq(SectionType) /\ Len(e.due) \in Nat /\ Got(e) = e.offset
    <2>1. e.offset \in Nat /\ Len(e.got) = 0
      BY ReadingFacts
    <2> QED
      BY <2>1, ReadingFacts DEF Got
  <1>5. Asked(q, e, pos) = e.due
    <2> DEFINE a == Asked(q, e, pos)
    <2>1. a \in Seq(SectionType) /\ Len(a) = Len(e.due) /\ \A j \in 1 .. Len(a) : a[j] = e.due[j]
      BY <1>3, <1>4
    <2> HIDE DEF a
    <2>2. a = e.due
      BY <1>4, <2>1, SameSeq
    <2> QED
      BY <2>2 DEF a
  <1>6. Chain(Asked(q, e, pos), Got(e), End(e))
    BY <1>4, <1>5
  <1> QED
    BY <1>2, <1>6, InTurnBy

LEMMA Idle == NotReading \in Reading /\ GoodGot(NotReading) /\ NotReading.due = <<>>
  BY DEF NotReading, Reading, GoodGot

LEMMA InTurnIdle ==
    ASSUME NEW q \in Seq(Message), NEW up, NEW r, ReadsIn(q, r) = {}
    PROVE  InTurn(q, up, NotReading, r)
  <1>1. End(NotReading) = 0
    BY WithinTotal DEF End, Until, NotReading
  <1>2. Chain(NotReading.due, NotReading.offset, End(NotReading))
    BY <1>1, ChainEmpty DEF NotReading
  <1> QED
    BY <1>2, Idle, InTurnStart DEF NotReading

-----------------------------------------------------------------------------
(* What is written stays written.                                          *)

LEMMA ContentFacts ==
    ASSUME NEW f, IsContent(f), NEW k \in File
    PROVE  /\ DOMAIN f[k] = 0 .. FileLength[k] - 1
           /\ \A o \in 0 .. FileLength[k] - 1 :
                  f[k][o] \in {Zero, Offset[k] + o} /\ f[k][o] \in Int
  <1>1. f[k] = [o \in 0 .. FileLength[k] - 1 |-> f[k][o]]
    BY DEF IsContent
  <1>2. DOMAIN f[k] = 0 .. FileLength[k] - 1
    BY <1>1
  <1>3. \A o \in 0 .. FileLength[k] - 1 : f[k][o] \in {Zero, Offset[k] + o}
    BY DEF IsContent
  <1>4. Zero \in Int /\ \A o \in 0 .. FileLength[k] - 1 : Offset[k] + o \in Int
    BY Offsets DEF Zero
  <1> QED
    BY <1>2, <1>3, <1>4

\* f2 is f with right bytes written over a part of file l.
Overwritten(f, l, offset, b, f2) ==
    /\ IsContent(f2)
    /\ \A k \in File : \A o \in 0 .. FileLength[k] - 1 :
           f2[k][o] = IF k = l /\ Covers(offset, b, o) THEN Offset[k] + o ELSE f[k][o]

LEMMA OverwriteIs ==
    ASSUME NEW f, IsContent(f), NEW l \in File, NEW offset \in Nat, NEW b \in Seq(Nat),
           offset + Len(b) <= FileLength[l],
           \A j \in 1 .. Len(b) : b[j] = Offset[l] + offset + j - 1,
           NEW f2, f2 = [f EXCEPT ![l] = Overwrite(f[l], offset, b)]
    PROVE  Overwritten(f, l, offset, b, f2)
  <1>1. f = [k \in File |-> f[k]] /\ DOMAIN f = File
    <2>1. f = [k \in File |-> f[k]]
      BY DEF IsContent
    <2> QED
      BY <2>1
  <1> DEFINE g == Overwrite(f[l], offset, b)
  <1>2. /\ g = [o \in 0 .. FileLength[l] - 1 |-> g[o]]
        /\ \A o \in 0 .. FileLength[l] - 1 :
               g[o] = IF Covers(offset, b, o) THEN b[o - offset + 1] ELSE f[l][o]
    <2>1. DOMAIN f[l] = 0 .. FileLength[l] - 1
      BY ContentFacts
    <2> QED
      BY <2>1 DEF Overwrite
  <1>3. \A o \in 0 .. FileLength[l] - 1 : Covers(offset, b, o) => b[o - offset + 1] = Offset[l] + o
    <2> SUFFICES ASSUME NEW o \in 0 .. FileLength[l] - 1, Covers(offset, b, o)
                 PROVE  b[o - offset + 1] = Offset[l] + o
      OBVIOUS
    <2>1. o \in Int /\ Len(b) \in Nat /\ Offset[l] \in Nat
      BY Files, Offsets
    <2> DEFINE j == o - offset + 1
    <2>2. j \in 1 .. Len(b) /\ Offset[l] + offset + j - 1 = Offset[l] + o
      BY <2>1 DEF Covers
    <2> HIDE DEF j
    <2>3. b[j] = Offset[l] + o
      BY <2>2
    <2> QED
      BY <2>3 DEF j
  <1>4. \A o \in 0 .. FileLength[l] - 1 :
            g[o] = IF Covers(offset, b, o) THEN Offset[l] + o ELSE f[l][o]
    BY <1>2, <1>3
  <1>5. f2 = [k \in File |-> f2[k]] /\ f2[l] = g /\ \A k \in File : k # l => f2[k] = f[k]
    BY <1>1
  <1> HIDE DEF g
  <1>6. \A k \in File : \A o \in 0 .. FileLength[k] - 1 :
            f2[k][o] = IF k = l /\ Covers(offset, b, o) THEN Offset[k] + o ELSE f[k][o]
    BY <1>4, <1>5
  <1>7. ASSUME NEW k \in File
        PROVE  /\ f2[k] = [o \in 0 .. FileLength[k] - 1 |-> f2[k][o]]
               /\ \A o \in 0 .. FileLength[k] - 1 : f2[k][o] \in {Zero, Offset[k] + o}
    <2>1. /\ f[k] = [o \in 0 .. FileLength[k] - 1 |-> f[k][o]]
          /\ \A o \in 0 .. FileLength[k] - 1 : f[k][o] \in {Zero, Offset[k] + o}
      BY DEF IsContent
    <2>2. f2[k] = [o \in 0 .. FileLength[k] - 1 |-> f2[k][o]]
      <3>1. CASE k = l
        BY <1>2, <1>5, <3>1
      <3>2. CASE k # l
        BY <1>5, <2>1, <3>2
      <3> QED
        BY <3>1, <3>2
    <2>3. \A o \in 0 .. FileLength[k] - 1 : f2[k][o] \in {Zero, Offset[k] + o}
      BY <1>6, <2>1
    <2> QED
      BY <2>2, <2>3
  <1>8. IsContent(f2)
    BY <1>5, <1>7 DEF IsContent
  <1> QED
    BY <1>6, <1>8 DEF Overwritten

LEMMA SureAppend ==
    ASSUME NEW f, NEW q \in Seq(Message), NEW m \in Message, NEW k, NEW o
    PROVE  /\ \A n \in 1 .. Len(q) : Sure(f, q, k, o, n) => Sure(f, Append(q, m), k, o, n)
           /\ OnItsWay(f, q, k, o) => Sure(f, Append(q, m), k, o, Len(q) + 1)
           /\ OnItsWay(f, q, k, o) => OnItsWay(f, Append(q, m), k, o)
           /\ Writes(m, k, o) => OnItsWay(f, Append(q, m), k, o)
  <1> DEFINE q2 == Append(q, m)
             N == Len(q)
  <1>1. /\ q2 \in Seq(Message) /\ Len(q2) = N + 1 /\ N \in Nat /\ q2[N + 1] = m
        /\ \A n \in 1 .. N : q2[n] = q[n]
    BY Appended
  <1> HIDE DEF q2, N
  <1>2. \A n \in 1 .. N : n \in 1 .. N + 1 /\ N + 1 \in 1 .. N + 1
    BY <1>1
  <1>3. \A n \in 1 .. N : \A w \in 1 .. n : w \in 1 .. N
    BY <1>1
  <1>4. \A n \in 1 .. N : Sure(f, q, k, o, n) => Sure(f, q2, k, o, n)
    BY <1>1, <1>3 DEF Sure
  <1>5. Sure(f, q, k, o, N) => Sure(f, q2, k, o, N + 1)
    BY <1>1, <1>2 DEF Sure
  <1>6. Writes(m, k, o) => Sure(f, q2, k, o, N + 1)
    <2>1. N + 1 \in 1 .. N + 1
      BY <1>1
    <2> QED
      BY <1>1, <2>1 DEF Sure
  <1> QED
    BY <1>1, <1>4, <1>5, <1>6 DEF OnItsWay, q2, N

\* The first message is dealt with: f2 has what it wrote.
LEMMA SureTail ==
    ASSUME NEW f, NEW q \in Seq(Message), q # <<>>, NEW k, NEW o, NEW f2,
           f[k][o] = Offset[k] + o => f2[k][o] = Offset[k] + o,
           Writes(q[1], k, o) => f2[k][o] = Offset[k] + o
    PROVE  /\ \A n \in 1 .. Len(q) : Sure(f, q, k, o, n) => Sure(f2, Tail(q), k, o, n - 1)
           /\ OnItsWay(f, q, k, o) => OnItsWay(f2, Tail(q), k, o)
  <1> DEFINE q2 == Tail(q)
             N == Len(q)
  <1>1. /\ q2 \in Seq(Message) /\ Len(q2) = N - 1 /\ N \in Nat /\ N >= 1
        /\ \A n \in 1 .. N - 1 : q2[n] = q[n + 1]
    BY Taken
  <1> HIDE DEF q2, N
  <1>2. ASSUME NEW n \in 1 .. N, Sure(f, q, k, o, n)
        PROVE  Sure(f2, q2, k, o, n - 1)
    <2>1. CASE f[k][o] = Offset[k] + o
      BY <2>1 DEF Sure
    <2>2. CASE f[k][o] # Offset[k] + o
      <3>1. PICK w \in 1 .. n : Writes(q[w], k, o)
        BY <1>2, <2>2 DEF Sure
      <3>2. CASE w = 1
        BY <3>1, <3>2 DEF Sure
      <3>3. CASE w # 1
        <4>1. w - 1 \in 1 .. n - 1 /\ w - 1 \in 1 .. N - 1 /\ (w - 1) + 1 = w
          BY <1>1, <3>3
        <4>2. q2[w - 1] = q[w]
          BY <1>1, <4>1
        <4> QED
          BY <3>1, <4>1, <4>2 DEF Sure
      <3> QED
        BY <3>2, <3>3
    <2> QED
      BY <2>1, <2>2
  <1>3. N \in 1 .. N
    BY <1>1
  <1>4. OnItsWay(f, q, k, o) => OnItsWay(f2, q2, k, o)
    BY <1>1, <1>2, <1>3 DEF OnItsWay, N
  <1> QED
    BY <1>2, <1>4 DEF q2, N

-----------------------------------------------------------------------------
(* What is read is right.                                                  *)

\* The reads in a channel with one more message, and with one less.
LEMMA ReadsAppend ==
    ASSUME NEW q \in Seq(Message), NEW m \in Message, NEW r
    PROVE  \A n \in ReadsIn(Append(q, m), r) :
               \/ n \in ReadsIn(q, r) /\ n \in 1 .. Len(q) /\ Append(q, m)[n] = q[n]
               \/ n = Len(q) + 1 /\ m.op = "read" /\ m.reader = r /\ Append(q, m)[n] = m
  <1> DEFINE q2 == Append(q, m)
             N == Len(q)
  <1>1. /\ q2 \in Seq(Message) /\ Len(q2) = N + 1 /\ N \in Nat /\ q2[N + 1] = m
        /\ \A n \in 1 .. N : q2[n] = q[n]
    BY Appended
  <1> HIDE DEF q2
  <1> QED
    BY <1>1 DEF ReadsIn, q2

LEMMA ReadsTail ==
    ASSUME NEW q \in Seq(Message), q # <<>>, NEW r
    PROVE  \A n \in ReadsIn(Tail(q), r) :
               /\ n \in Nat /\ n + 1 \in ReadsIn(q, r) /\ n + 1 \in 1 .. Len(q)
               /\ Tail(q)[n] = q[n + 1]
  <1> DEFINE q2 == Tail(q)
             N == Len(q)
  <1>1. /\ q2 \in Seq(Message) /\ Len(q2) = N - 1 /\ N \in Nat /\ N >= 1
        /\ \A n \in 1 .. N - 1 : q2[n] = q[n + 1]
    BY Taken
  <1> HIDE DEF q2
  <1> QED
    BY <1>1 DEF ReadsIn, q2

\* The bytes of a section are bytes of its file.
LEMMA SectionBytes ==
    ASSUME NEW s \in SectionType
    PROVE  s.file \in File /\ \A o \in BytesOf(s) : o \in 0 .. FileLength[s.file] - 1
  <1> DEFINE L == FileLength[s.file]
             a == s.offset
             n == s.length
  <1>1. s.file \in File /\ a \in Nat /\ n \in Nat /\ a + n <= L /\ L \in Nat
    BY SectionFacts, Files
  <1> HIDE DEF L, a, n
  <1>2. \A o \in a .. a + n - 1 : o \in 0 .. L - 1
    BY <1>1
  <1> QED
    BY <1>1, <1>2 DEF BytesOf, L, a, n

LEMMA GoodAppend ==
    ASSUME NEW f, NEW q \in Seq(Message), NEW m \in Message, NEW e, NEW r,
           ReaderGood(f, q, "up", e, r), ~(m.op = "read" /\ m.reader = r)
    PROVE  ReaderGood(f, Append(q, m), "up", e, r)
  <1> DEFINE q2 == Append(q, m)
  <1>1. ASSUME NEW n \in ReadsIn(q2, r)
        PROVE  GoodRead(f, q2, n)
    <2>1. n \in ReadsIn(q, r) /\ n \in 1 .. Len(q) /\ q2[n] = q[n]
      BY <1>1, ReadsAppend
    <2>2. GoodRead(f, q, n)
      BY <2>1 DEF ReaderGood
    <2> HIDE DEF q2
    <2>3. \A o \in BytesOf(q2[n].section) : Sure(f, q, q2[n].section.file, o, n)
      BY <2>1, <2>2 DEF GoodRead
    <2>4. \A k, o : Sure(f, q, k, o, n) => Sure(f, q2, k, o, n)
      BY <2>1, SureAppend DEF q2
    <2> QED
      BY <2>3, <2>4 DEF GoodRead
  <1>2. GoodDue(f, q2, e)
    BY SureAppend DEF ReaderGood, GoodDue
  <1> QED
    BY <1>1, <1>2 DEF ReaderGood

LEMMA GoodAsks ==
    ASSUME NEW f, NEW q \in Seq(Message), NEW m \in Message, NEW e \in Reading, NEW r,
           ReaderGood(f, q, "up", e, r), e.due # <<>>,
           m.op = "read", m.reader = r, m.section = Head(e.due),
           NEW e2, e2.offset = e.offset, e2.got = e.got, e2.due = Tail(e.due)
    PROVE  ReaderGood(f, Append(q, m), "up", e2, r)
  <1> DEFINE q2 == Append(q, m)
             due == e.due
             s == due[1]
             due2 == Tail(e.due)
  <1>1. /\ due2 \in Seq(SectionType) /\ Len(due2) = Len(due) - 1
        /\ Len(due) \in Nat /\ Len(due) >= 1 /\ Head(e.due) = s
        /\ \A j \in 1 .. Len(due) - 1 : due2[j] = due[j + 1]
    BY ReadingFacts, Taken
  <1>2. \A j \in 1 .. Len(due) : \A o \in BytesOf(due[j]) : OnItsWay(f, q, due[j].file, o)
    BY DEF ReaderGood, GoodDue
  <1> HIDE DEF due, due2, q2
  <1>3. \A o \in BytesOf(s) : OnItsWay(f, q, s.file, o)
    <2>1. 1 \in 1 .. Len(due)
      BY <1>1
    <2> QED
      BY <1>2, <2>1
  <1> HIDE DEF s
  <1>4. ASSUME NEW n \in ReadsIn(q2, r)
        PROVE  GoodRead(f, q2, n)
    <2>1. CASE n \in ReadsIn(q, r) /\ n \in 1 .. Len(q) /\ q2[n] = q[n]
      <3>1. GoodRead(f, q, n)
        BY <2>1 DEF ReaderGood
      <3>2. \A o \in BytesOf(q2[n].section) : Sure(f, q, q2[n].section.file, o, n)
        BY <2>1, <3>1 DEF GoodRead
      <3>3. \A k, o : Sure(f, q, k, o, n) => Sure(f, q2, k, o, n)
        BY <2>1, SureAppend DEF q2
      <3> QED
        BY <3>2, <3>3 DEF GoodRead
    <2>2. CASE n = Len(q) + 1 /\ q2[n] = m
      <3>1. q2[n].section = s
        BY <1>1, <2>2
      <3>2. \A k, o : OnItsWay(f, q, k, o) => Sure(f, q2, k, o, n)
        BY <2>2, SureAppend DEF q2
      <3> QED
        BY <1>3, <3>1, <3>2 DEF GoodRead
    <2> QED
      BY <2>1, <2>2, ReadsAppend DEF q2
  <1>5. GoodDue(f, q2, e2)
    <2>1. ASSUME NEW j \in 1 .. Len(due2), NEW o \in BytesOf(due2[j])
          PROVE  OnItsWay(f, q2, due2[j].file, o)
      <3>1. j + 1 \in 1 .. Len(due) /\ due2[j] = due[j + 1]
        BY <1>1
      <3>2. OnItsWay(f, q, due2[j].file, o)
        BY <1>2, <2>1, <3>1
      <3> QED
        BY <3>2, SureAppend DEF q2
    <2> QED
      BY <2>1 DEF GoodDue, due2
  <1>6. GoodGot(e2)
    BY DEF ReaderGood, GoodGot
  <1> QED
    BY <1>4, <1>5, <1>6 DEF ReaderGood, q2

\* What dealing with the first message does to a file, for the bytes that matter.
Dealt(q, f, f2) ==
    \A k \in File : \A o \in 0 .. FileLength[k] - 1 :
        /\ f[k][o] = Offset[k] + o => f2[k][o] = Offset[k] + o
        /\ Writes(q[1], k, o) => f2[k][o] = Offset[k] + o

LEMMA GoodTail ==
    ASSUME NEW f, NEW f2, NEW q \in Seq(Message), q # <<>>, Dealt(q, f, f2),
           NEW e \in Reading, NEW r, ReaderGood(f, q, "up", e, r),
           NEW e2, e2.due = e.due, GoodGot(e2)
    PROVE  ReaderGood(f2, Tail(q), "up", e2, r)
  <1> DEFINE q2 == Tail(q)
  <1>1. ASSUME NEW s \in SectionType, NEW o \in BytesOf(s)
        PROVE  /\ \A n \in 1 .. Len(q) : Sure(f, q, s.file, o, n) => Sure(f2, q2, s.file, o, n - 1)
               /\ OnItsWay(f, q, s.file, o) => OnItsWay(f2, q2, s.file, o)
    <2>1. s.file \in File /\ o \in 0 .. FileLength[s.file] - 1
      BY <1>1, SectionBytes
    <2> DEFINE k == s.file
    <2>2. /\ f[k][o] = Offset[k] + o => f2[k][o] = Offset[k] + o
          /\ Writes(q[1], k, o) => f2[k][o] = Offset[k] + o
      BY <2>1 DEF Dealt
    <2> HIDE DEF k
    <2>3. /\ \A n \in 1 .. Len(q) : Sure(f, q, k, o, n) => Sure(f2, q2, k, o, n - 1)
          /\ OnItsWay(f, q, k, o) => OnItsWay(f2, q2, k, o)
      BY <2>2, SureTail
    <2> QED
      BY <2>3 DEF k
  <1>2. ASSUME NEW n \in ReadsIn(q2, r)
        PROVE  GoodRead(f2, q2, n)
    <2>1. /\ n \in Nat /\ n + 1 \in ReadsIn(q, r) /\ n + 1 \in 1 .. Len(q) /\ q2[n] = q[n + 1]
      BY <1>2, ReadsTail
    <2>2. GoodRead(f, q, n + 1)
      BY <2>1 DEF ReaderGood
    <2> DEFINE m == q[n + 1]
               s == m.section
    <2>3. s \in SectionType
      <3>1. q[n + 1] \in Message /\ q[n + 1].op = "read"
        BY <2>1 DEF ReadsIn
      <3> QED
        BY <3>1, MessageFacts
    <2>4. q2[n].section = s
      BY <2>1
    <2> HIDE DEF q2
    <2>5. \A o \in BytesOf(s) : Sure(f, q, s.file, o, n + 1)
      BY <2>2 DEF GoodRead
    <2> HIDE DEF s
    <2>6. \A o \in BytesOf(s) : Sure(f2, q2, s.file, o, n)
      <3>1. (n + 1) - 1 = n
        BY <2>1
      <3>2. ASSUME NEW o \in BytesOf(s)
            PROVE  Sure(f2, q2, s.file, o, (n + 1) - 1)
        BY <1>1, <2>1, <2>3, <2>5
      <3> QED
        BY <3>1, <3>2
    <2> QED
      BY <2>4, <2>6 DEF GoodRead
  <1>3. GoodDue(f2, q2, e2)
    <2> DEFINE due == e.due
    <2>1. due \in Seq(SectionType)
      BY ReadingFacts
    <2>2. \A j \in 1 .. Len(due) : \A o \in BytesOf(due[j]) : OnItsWay(f, q, due[j].file, o)
      BY DEF ReaderGood, GoodDue
    <2> HIDE DEF due, q2
    <2>3. \A j \in 1 .. Len(due) : due[j] \in SectionType
      BY <2>1
    <2>4. \A j \in 1 .. Len(due) : \A o \in BytesOf(due[j]) : OnItsWay(f2, q2, due[j].file, o)
      BY <1>1, <2>2, <2>3
    <2> QED
      BY <2>4 DEF GoodDue, due
  <1> QED
    BY <1>2, <1>3 DEF ReaderGood, q2

\* What read_file gets, and where it is put.
BytesRead(f, s) ==
    [j \in 1 .. s.length |->
        LET o == s.offset + j - 1
        IN IF o \in DOMAIN f[s.file] THEN f[s.file][o] ELSE Zero]

LEMMA BytesReadAre ==
    ASSUME NEW f, IsContent(f), NEW s \in SectionType
    PROVE  /\ BytesRead(f, s) \in Seq(Int) /\ Len(BytesRead(f, s)) = s.length
           /\ \A j \in 1 .. s.length :
                  /\ s.offset + j - 1 \in BytesOf(s)
                  /\ BytesRead(f, s)[j] = f[s.file][s.offset + j - 1]
  <1> DEFINE k == s.file
             a == s.offset
             n == s.length
  <1>1. k \in File /\ a \in Nat /\ n \in Nat /\ a + n <= FileLength[k] /\ FileLength[k] \in Nat
    BY SectionFacts, Files
  <1>2. /\ DOMAIN f[k] = 0 .. FileLength[k] - 1
        /\ \A o \in 0 .. FileLength[k] - 1 : f[k][o] \in Int
    BY <1>1, ContentFacts
  <1>3. BytesRead(f, s) = [j \in 1 .. n |-> IF a + j - 1 \in DOMAIN f[k] THEN f[k][a + j - 1]
                                            ELSE Zero]
    BY DEF BytesRead
  <1>4. \A j \in 1 .. n : a + j - 1 \in 0 .. FileLength[k] - 1 /\ a + j - 1 \in a .. a + n - 1
    BY <1>1
  <1> DEFINE b == [j \in 1 .. n |-> f[k][a + j - 1]]
  <1>5. BytesRead(f, s) = b
    BY <1>2, <1>3, <1>4
  <1>6. b \in Seq(Int) /\ Len(b) = n
    <2>1. \A j \in 1 .. n : f[k][a + j - 1] \in Int
      BY <1>2, <1>4
    <2>2. b \in [1 .. n -> Int]
      BY <2>1
    <2>3. b \in Seq(Int) /\ Len(b) = n
      <3> HIDE DEF b, n
      <3> QED
        BY <1>1, <2>2
    <2> QED
      BY <2>3
  <1>7. \A j \in 1 .. n : a + j - 1 \in BytesOf(s)
    BY <1>4 DEF BytesOf
  <1> QED
    BY <1>5, <1>6, <1>7

\* The bytes a reader has, once it has some more.
LEMMA MoreBytes ==
    ASSUME NEW g \in Seq(Int), NEW b \in Seq(Int)
    PROVE  /\ g \o b \in Seq(Int) /\ Len(g \o b) = Len(g) + Len(b)
           /\ Len(g) \in Nat /\ Len(b) \in Nat
           /\ \A j \in 1 .. Len(g) : (g \o b)[j] = g[j]
           /\ \A j \in 1 .. Len(b) : (g \o b)[Len(g) + j] = b[j]
  OBVIOUS

\* What is got is what was there or what the file has at that place.
FromFile(f, s, e, g2, j) ==
    \/ j \in 1 .. Len(e.got) /\ g2[j] = e.got[j]
    \/ \E o \in BytesOf(s) : /\ g2[j] = f[s.file][o]
                             /\ Offset[s.file] + o = e.offset + j - 1

LEMMA GotIs ==
    ASSUME NEW f, IsContent(f), NEW s \in SectionType, NEW e \in Reading, Place(s) = Got(e),
           NEW g2, g2 = e.got \o BytesRead(f, s), NEW j \in 1 .. Len(g2)
    PROVE  FromFile(f, s, e, g2, j)
  <1> DEFINE g == e.got
             b == BytesRead(f, s)
             k == s.file
             a == s.offset
             x == e.offset
  <1>1. g \in Seq(Int) /\ x \in Nat /\ Len(g) \in Nat /\ Got(e) = x + Len(g)
    BY ReadingFacts
  <1>2. b \in Seq(Int) /\ Len(b) = s.length /\ s.length \in Nat /\ a \in Nat
        /\ Place(s) = Offset[k] + a /\ Offset[k] \in Nat
    BY BytesReadAre, SectionFacts
  <1>3. \A i \in 1 .. Len(b) : a + i - 1 \in BytesOf(s) /\ b[i] = f[k][a + i - 1]
    BY <1>2, BytesReadAre
  <1> HIDE DEF g, b, k, a, x
  <1>4. /\ g2 = g \o b /\ Len(g2) = Len(g) + Len(b) /\ Len(b) \in Nat
        /\ \A i \in 1 .. Len(g) : g2[i] = g[i]
        /\ \A i \in 1 .. Len(b) : g2[Len(g) + i] = b[i]
    BY <1>1, <1>2, MoreBytes DEF g, b
  <1>5. CASE j \in 1 .. Len(g)
    BY <1>4, <1>5 DEF g, FromFile
  <1>6. CASE j \notin 1 .. Len(g)
    <2> DEFINE i == j - Len(g)
               L == Len(g)
    <2>1. i \in 1 .. Len(b) /\ L + i = j /\ L \in Nat
      BY <1>1, <1>4, <1>6
    <2> HIDE DEF i
    <2>2. g2[j] = b[i]
      BY <1>4, <2>1
    <2>3. a + i - 1 \in BytesOf(s) /\ b[i] = f[k][a + i - 1]
      BY <1>3, <2>1
    <2>4. Offset[k] + a = x + L
      BY <1>1, <1>2
    <2> HIDE DEF L
    <2>5. Offset[k] + (a + i - 1) = x + j - 1
      <3> DEFINE z == Offset[k]
      <3>1. z \in Nat /\ a \in Nat /\ x \in Nat /\ z + a = x + L /\ L + i = j /\ i \in Int
            /\ L \in Nat
        BY <1>1, <1>2, <2>1, <2>4
      <3> HIDE DEF z
      <3>2. z + (a + i - 1) = x + j - 1
        BY <3>1
      <3> QED
        BY <3>2 DEF z
    <2> QED
      BY <2>2, <2>3, <2>5 DEF k, x, FromFile
  <1> QED
    BY <1>5, <1>6

\* What a good read gets is right.
LEMMA GoodGets ==
    ASSUME NEW f, IsContent(f), NEW q \in Seq(Message), q # <<>>, NEW e \in Reading, NEW r,
           ReaderGood(f, q, "up", e, r), q[1].op = "read", q[1].reader = r,
           Place(q[1].section) = Got(e),
           NEW e2, e2.offset = e.offset, e2.got = e.got \o BytesRead(f, q[1].section)
    PROVE  GoodGot(e2)
  <1> DEFINE m == q[1]
             s == m.section
             g2 == e.got \o BytesRead(f, s)
  <1>1. m \in Message /\ s \in SectionType /\ Len(q) >= 1 /\ Len(q) \in Nat
    <2>1. q[1] \in Message /\ Len(q) >= 1 /\ Len(q) \in Nat
      OBVIOUS
    <2> QED
      BY <2>1, MessageFacts
  <1>2. \A o \in BytesOf(s) : f[s.file][o] = Offset[s.file] + o
    <2>1. 1 \in ReadsIn(q, r)
      BY <1>1 DEF ReadsIn
    <2>2. GoodRead(f, q, 1)
      BY <2>1 DEF ReaderGood
    <2>3. \A k, o : ~Writes(q[1], k, o)
      BY DEF Writes
    <2>4. \A o \in BytesOf(s) : Sure(f, q, s.file, o, 1)
      BY <2>2 DEF GoodRead
    <2>5. \A n \in 1 .. 1 : n = 1
      OBVIOUS
    <2> QED
      BY <2>3, <2>4, <2>5 DEF Sure
  <1>3. Place(s) = Got(e) /\ g2 = e.got \o BytesRead(f, s) /\ e2.got = g2
    OBVIOUS
  <1> HIDE DEF m, s, g2
  <1>4. ASSUME NEW j \in 1 .. Len(g2)
        PROVE  g2[j] = e.offset + j - 1
    <2>1. FromFile(f, s, e, g2, j)
      BY <1>1, <1>3, <1>4, GotIs
    <2>2. \A i \in 1 .. Len(e.got) : e.got[i] = e.offset + i - 1
      BY DEF ReaderGood, GoodGot
    <2> QED
      BY <1>2, <2>1, <2>2 DEF FromFile
  <1> QED
    BY <1>3, <1>4 DEF GoodGot

-----------------------------------------------------------------------------
(* The steps of the file manager and of those that use it.                 *)

\* A byte that is on its way stays so.
Forward(f, q, f2, q2) ==
    \A k \in File : \A o \in 0 .. FileLength[k] - 1 :
        OnItsWay(f, q, k, o) => OnItsWay(f2, q2, k, o)

LEMMA ForwardPieces ==
    ASSUME NEW f, NEW q, NEW f2, NEW q2, Forward(f, q, f2, q2), NEW i,
           PieceOnItsWay(f, q, i)
    PROVE  PieceOnItsWay(f2, q2, i)
  BY DEF Forward, PieceOnItsWay

LEMMA ForwardSame == \A f, q : Forward(f, q, f, q)
  BY DEF Forward

LEMMA StoreStarts ==
    ASSUME NEW R \in SUBSET Reader, StoreInit
    PROVE  StoreInv(R)
  <1>1. IsContent(files)
    <2>1. PICK present \in SUBSET File :
              files = [k \in File |-> [o \in 0 .. FileLength[k] - 1 |->
                                          IF k \in present THEN Offset[k] + o ELSE Zero]]
      BY DEF StoreInit
    <2> QED
      BY <2>1 DEF IsContent
  <1>2. /\ queue = <<>> /\ queue \in Seq(Message) /\ Len(queue) = 0 /\ fm = "up"
        /\ \A r \in Reader : reading[r] = NotReading
    BY DEF StoreInit
  <1>3. reading \in [Reader -> Reading]
    BY Idle DEF StoreInit
  <1>4. Len(queue) <= Capacity
    BY <1>2, Sizes
  <1>5. \A r \in Reader : ReadsIn(queue, r) = {}
    BY <1>2 DEF ReadsIn
  <1>6. \A r \in Reader : InTurn(queue, fm, reading[r], r)
    BY <1>2, <1>5, InTurnIdle
  <1>7. \A r \in Reader : ReaderGood(files, queue, fm, reading[r], r)
    <2>1. GoodDue(files, queue, NotReading)
      BY Idle DEF GoodDue
    <2> QED
      BY <1>2, <1>5, <2>1, Idle DEF ReaderGood
  <1> QED
    BY <1>1, <1>2, <1>3, <1>4, <1>6, <1>7 DEF StoreInv, StoreAt

\* A write is put into the channel.
LEMMA StoreEnqueues ==
    ASSUME NEW R \in SUBSET Reader, StoreInv(R), NEW m \in WriteMessage, Enqueue(m),
           UNCHANGED <<files, fm, reading>>
    PROVE  /\ StoreInv(R)' /\ Forward(files, queue, files', queue')
           /\ \A k, o : Writes(m, k, o) => OnItsWay(files', queue', k, o)
  <1>1. m \in Message /\ m.op = "write"
    BY WriteFacts DEF Message
  <1>2. /\ fm = "up" /\ Len(queue) < Capacity /\ queue' = Append(queue, m)
        /\ queue \in Seq(Message)
    BY DEF Enqueue, StoreInv, StoreAt
  <1> DEFINE q2 == Append(queue, m)
  <1>3. q2 \in Seq(Message) /\ Len(q2) <= Capacity
    BY <1>1, <1>2, Appended, Sizes
  <1>4. \A r \in Reader : InTurn(q2, fm, reading[r], r)
    BY <1>1, <1>2, InTurnAppend DEF StoreInv, StoreAt
  <1>5. \A r \in R : ReaderGood(files, q2, fm, reading[r], r)
    BY <1>1, <1>2, GoodAppend DEF StoreInv, StoreAt
  <1>6. /\ Forward(files, queue, files, q2)
        /\ \A k, o : Writes(m, k, o) => OnItsWay(files, q2, k, o)
    BY <1>1, <1>2, SureAppend DEF Forward
  <1> HIDE DEF q2
  <1>7. StoreAt(files, q2, fm, reading, R)
    BY <1>2, <1>3, <1>4, <1>5 DEF StoreInv, StoreAt
  <1>8. queue' = q2 /\ files' = files /\ fm' = fm /\ reading' = reading
    BY <1>2 DEF q2
  <1> QED
    BY <1>6, <1>7, <1>8 DEF StoreInv

\* Only r's reading changes, and for the others all is as before.
LEMMA OneReader ==
    ASSUME NEW R \in SUBSET Reader, NEW f, NEW q, NEW up, NEW rd, NEW r \in Reader,
           IsContent(f), q \in Seq(Message), Len(q) <= Capacity,
           up \in {"up", "down"}, up = "down" => q = <<>>,
           rd \in [Reader -> Reading],
           \A p \in Reader \ {r} : InTurn(q, up, rd[p], p),
           \A p \in R \ {r} : ReaderGood(f, q, up, rd[p], p),
           InTurn(q, up, rd[r], r), r \in R => ReaderGood(f, q, up, rd[r], r)
    PROVE  StoreAt(f, q, up, rd, R)
  BY DEF StoreAt

LEMMA StoreSends ==
    ASSUME NEW R \in SUBSET Reader, StoreInv(R), NEW r \in Reader, SendRead(r)
    PROVE  /\ StoreInv(R)' /\ Forward(files, queue, files', queue')
           /\ UNCHANGED <<files, fm>> /\ fm = "up"
           /\ \A p \in Reader : /\ reading'[p].offset = reading[p].offset
                                /\ reading'[p].length = reading[p].length
                                /\ reading'[p].got = reading[p].got
  <1> DEFINE e == reading[r]
             m == [op |-> "read", section |-> Head(e.due), reader |-> r]
             q2 == Append(queue, m)
             rd2 == [reading EXCEPT ![r].due = Tail(@), ![r].waits = @ + 1]
             e2 == rd2[r]
  <1>1. /\ fm = "up" /\ Len(queue) < Capacity /\ queue' = q2
        /\ queue \in Seq(Message) /\ e.due # <<>> /\ reading' = rd2
        /\ UNCHANGED <<files, fm>>
    BY DEF Enqueue, SendRead, StoreInv, StoreAt
  <1>2. e \in Reading /\ reading \in [Reader -> Reading] /\ reading = [p \in Reader |-> reading[p]]
    BY DEF StoreInv, StoreAt
  <1>3. /\ Tail(e.due) \in Seq(SectionType) /\ Head(e.due) \in SectionType
    BY <1>1, <1>2, ReadingFacts, Taken
  <1>4. /\ e2.offset = e.offset /\ e2.length = e.length /\ e2.got = e.got
        /\ e2.due = Tail(e.due) /\ e2.waits = e.waits + 1
        /\ e2 = [offset |-> e2.offset, length |-> e2.length, due |-> e2.due,
                 waits |-> e2.waits, got |-> e2.got]
        /\ \A p \in Reader \ {r} : rd2[p] = reading[p]
        /\ rd2 = [p \in Reader |-> rd2[p]]
    BY <1>2 DEF Reading
  <1>5. m \in Message /\ m.op = "read" /\ m.reader = r /\ m.section = Head(e.due)
    BY <1>3 DEF Message, ReadMessage
  <1> HIDE DEF m, rd2
  <1>6. e2 \in Reading
    <2>0. /\ e.offset \in Nat /\ e.length \in Nat /\ e.got \in Seq(Int) /\ e.waits \in Nat
      BY <1>2, ReadingFacts
    <2> HIDE DEF e2, e
    <2>1. /\ e2.offset \in Nat /\ e2.length \in Nat /\ e2.got \in Seq(Int)
          /\ e2.due \in Seq(SectionType) /\ e2.waits \in Nat
      BY <1>3, <1>4, <2>0
    <2> QED
      BY <1>4, <2>1 DEF Reading
  <1>7. q2 \in Seq(Message) /\ Len(q2) <= Capacity
    BY <1>1, <1>5, Appended, Sizes
  <1>8. InTurn(q2, fm, e2, r)
    <2>1. InTurn(queue, "up", e, r)
      BY <1>1 DEF StoreInv, StoreAt
    <2>2. InTurn(q2, "up", e2, r)
      BY <1>1, <1>2, <1>4, <1>5, <1>6, <2>1, InTurnAsks
    <2> QED
      BY <1>1, <2>2
  <1>9. r \in R => ReaderGood(files, q2, fm, e2, r)
    <2> SUFFICES ASSUME r \in R
                 PROVE  ReaderGood(files, q2, "up", e2, r)
      BY <1>1
    <2>1. ReaderGood(files, queue, "up", e, r)
      BY <1>1 DEF StoreInv, StoreAt
    <2> QED
      BY <1>1, <1>2, <1>4, <1>5, <2>1, GoodAsks
  <1>10. ASSUME NEW p \in Reader \ {r}
         PROVE  /\ InTurn(q2, fm, rd2[p], p)
                /\ p \in R => ReaderGood(files, q2, fm, rd2[p], p)
    <2>1. /\ InTurn(queue, "up", reading[p], p) /\ reading[p] \in Reading
          /\ p \in R => ReaderGood(files, queue, "up", reading[p], p)
      BY <1>1 DEF StoreInv, StoreAt
    <2>2. ~(m.op = "read" /\ m.reader = p) /\ rd2[p] = reading[p]
      BY <1>4, <1>5
    <2> QED
      BY <1>1, <1>5, <2>1, <2>2, InTurnAppend, GoodAppend
  <1>11. Forward(files, queue, files, q2)
    BY <1>1, <1>5, SureAppend DEF Forward
  <1> HIDE DEF q2, e2
  <1>12. rd2 \in [Reader -> Reading] /\ rd2[r] = e2
    BY <1>4, <1>6 DEF StoreInv, StoreAt, e2
  <1>13. IsContent(files)
    BY DEF StoreInv, StoreAt
  <1>14. StoreAt(files, q2, fm, rd2, R)
    BY <1>1, <1>7, <1>8, <1>9, <1>10, <1>12, <1>13, OneReader
  <1>15. queue' = q2 /\ reading' = rd2 /\ files' = files /\ fm' = fm
    BY <1>1 DEF q2
  <1>16. \A p \in Reader : /\ rd2[p].offset = reading[p].offset
                           /\ rd2[p].length = reading[p].length /\ rd2[p].got = reading[p].got
    BY <1>4, <1>12
  <1> QED
    BY <1>1, <1>11, <1>14, <1>15, <1>16 DEF StoreInv

\* Right bytes stay right; and only those of piece i change.
Grows(f, f2) ==
    \A k \in File : \A o \in 0 .. FileLength[k] - 1 :
        f[k][o] = Offset[k] + o => f2[k][o] = Offset[k] + o
OnlyIn(i, f, f2) ==
    \A k \in File : \A o \in 0 .. FileLength[k] - 1 :
        ~InPiece(i, k, o) => f2[k][o] = f[k][o]

LEMMA FirstOf ==
    ASSUME NEW S, NEW b \in Seq(S), NEW n \in 1 .. Len(b)
    PROVE  /\ SubSeq(b, 1, n) \in Seq(S) /\ Len(SubSeq(b, 1, n)) = n
           /\ \A j \in 1 .. n : SubSeq(b, 1, n)[j] = b[j]
           /\ n = Len(b) => SubSeq(b, 1, n) = b
  OBVIOUS

\* f2 is f after m or a part of it is written, and after all of it.
WroteSome(f, m, f2) ==
    IsContent(f2) /\ Grows(f, f2) /\ \E i \in Piece : OnlyIn(i, f, f2)
WroteAll(f, m, f2) ==
    \A k \in File : \A o \in 0 .. FileLength[k] - 1 :
        Writes(m, k, o) => f2[k][o] = Offset[k] + o

\* What a write, or the first n bytes of one, does to the files.
LEMMA WriteDoes ==
    ASSUME NEW f, IsContent(f), NEW m \in WriteMessage, NEW n \in 1 .. Len(m.bytes),
           NEW b, b = SubSeq(m.bytes, 1, n),
           NEW f2, f2 = [f EXCEPT ![m.file] = Overwrite(f[m.file], m.offset, b)]
    PROVE  WroteSome(f, m, f2) /\ (n = Len(m.bytes) => WroteAll(f, m, f2))
  <1> DEFINE l == m.file
             a == m.offset
             c == m.bytes
             L == FileLength[l]
             z == Offset[l]
  <1>1. /\ l \in File /\ a \in Nat /\ c \in Seq(Nat) /\ Len(c) \in Nat /\ a + Len(c) <= L
        /\ L \in Nat /\ z \in Nat
        /\ \A j \in 1 .. Len(c) : c[j] = z + a + j - 1
    BY WriteFacts, Files, Offsets
  <1>2. PICK i \in Piece : Holds(i, z + a, z + a + Len(c))
    BY WriteFacts
  <1>3. f2 = [f EXCEPT ![l] = Overwrite(f[l], a, b)]
    OBVIOUS
  <1>4. n \in 1 .. Len(c) /\ b = SubSeq(c, 1, n) /\ m.op = "write"
    BY WriteFacts
  <1> HIDE DEF l, a, c
  <1>5. /\ b \in Seq(Nat) /\ Len(b) = n /\ \A j \in 1 .. n : b[j] = c[j]
    <2>1. c \in Seq(Nat)
      BY <1>1
    <2>2. /\ SubSeq(c, 1, n) \in Seq(Nat) /\ Len(SubSeq(c, 1, n)) = n
          /\ \A j \in 1 .. n : SubSeq(c, 1, n)[j] = c[j]
      BY <1>4, <2>1, FirstOf
    <2> QED
      BY <1>4, <2>2
  <1>6. a + Len(b) <= L /\ \A j \in 1 .. Len(b) : b[j] = z + a + j - 1
    <2> HIDE DEF L, z
    <2>1. a + n <= L
      BY <1>1, <1>4
    <2>2. \A j \in 1 .. n : j \in 1 .. Len(c)
      BY <1>1, <1>4
    <2> QED
      BY <1>1, <1>5, <2>1, <2>2
  <1>7. /\ IsContent(f2)
        /\ \A k \in File : \A o \in 0 .. FileLength[k] - 1 :
               f2[k][o] = IF k = l /\ Covers(a, b, o) THEN Offset[k] + o ELSE f[k][o]
    <2>1. l \in File /\ a \in Nat /\ b \in Seq(Nat) /\ a + Len(b) <= FileLength[l]
          /\ \A j \in 1 .. Len(b) : b[j] = Offset[l] + a + j - 1
      BY <1>1, <1>5, <1>6
    <2>2. Overwritten(f, l, a, b, f2)
      BY <1>3, <2>1, OverwriteIs
    <2> QED
      BY <2>2 DEF Overwritten
  <1>8. Grows(f, f2)
    BY <1>7 DEF Grows
  <1>9. OnlyIn(i, f, f2)
    <2> SUFFICES ASSUME NEW k \in File, NEW o \in 0 .. FileLength[k] - 1,
                        k = l, Covers(a, b, o)
                 PROVE  InPiece(i, k, o)
      BY <1>7 DEF OnlyIn
    <2>1. o \in Int /\ o - a >= 0 /\ o - a <= n - 1 /\ n <= Len(c) /\ n \in Nat
      BY <1>1, <1>4, <1>5, Files DEF Covers
    <2> DEFINE x == i * PieceLength
               y == i * PieceLength + PieceSize(i)
    <2>2. x <= z + a /\ z + a + Len(c) <= y /\ x \in Int /\ y \in Int
      <3>1. i * PieceLength \in Nat /\ PieceSize(i) \in Nat
        BY PieceRange
      <3> QED
        BY <1>2, <3>1 DEF Holds
    <2> HIDE DEF x, y, z
    <2>3. x <= z + o /\ z + o + 1 <= y
      BY <1>1, <2>1, <2>2
    <2> QED
      BY <2>3 DEF InPiece, Holds, x, y, z
  <1>10. ASSUME n = Len(c), NEW k \in File, NEW o \in 0 .. FileLength[k] - 1, Writes(m, k, o)
         PROVE  f2[k][o] = Offset[k] + o
    <2>1. k = l /\ Covers(a, c, o)
      BY <1>10 DEF Writes, l, a, c
    <2>2. Covers(a, b, o)
      BY <1>5, <1>10, <2>1 DEF Covers
    <2> QED
      BY <1>7, <2>1, <2>2
  <1> QED
    BY <1>7, <1>8, <1>9, <1>10 DEF WroteSome, WroteAll, c

\* The channel without its first message.
LEMMA TailTyped ==
    ASSUME NEW q \in Seq(Message), q # <<>>, Len(q) <= Capacity
    PROVE  /\ Tail(q) \in Seq(Message) /\ Len(Tail(q)) <= Capacity
           /\ q[1] = Head(q) /\ q[1] \in Message
  <1>1. /\ Tail(q) \in Seq(Message) /\ Len(Tail(q)) = Len(q) - 1 /\ Len(q) \in Nat
        /\ q[1] = Head(q) /\ Head(q) \in Message
    BY Taken
  <1> DEFINE N == Len(q)
             T == Len(Tail(q))
  <1> HIDE DEF N, T
  <1>2. T = N - 1 /\ N \in Nat /\ N <= Capacity /\ Capacity \in Nat
    BY <1>1, Sizes DEF N, T
  <1>3. T <= Capacity
    BY <1>2
  <1> QED
    BY <1>1, <1>3 DEF T

\* A task or a process that dies leaves a part of a write.
LEMMA CutShortDoes ==
    ASSUME IsContent(files), queue \in Seq(Message), Len(queue) <= Capacity, CutShort
    PROVE  /\ IsContent(files') /\ Grows(files, files')
           /\ \/ UNCHANGED files
              \/ /\ queue # <<>> /\ queue[1].op = "write"
                 /\ \E i \in Piece : OnlyIn(i, files, files')
  <1>1. CASE UNCHANGED files
    BY <1>1 DEF Grows
  <1>2. CASE ~UNCHANGED files
    <2> DEFINE m == Head(queue)
               g == files'
    <2>1. queue # <<>> /\ m.op = "write"
      BY <1>2 DEF CutShort
    <2>2. PICK n \in 1 .. Len(m.bytes) :
              files' = [files EXCEPT ![m.file] =
                           Overwrite(files[m.file], m.offset, SubSeq(m.bytes, 1, n))]
      BY <1>2 DEF CutShort
    <2>3. m \in WriteMessage /\ m = queue[1]
      BY <2>1, TailTyped, MessageFacts
    <2>4. g = [files EXCEPT ![m.file] =
                  Overwrite(files[m.file], m.offset, SubSeq(m.bytes, 1, n))]
      BY <2>2
    <2> HIDE DEF m, g
    <2>5. WroteSome(files, m, g)
      BY <2>2, <2>3, <2>4, WriteDoes
    <2> QED
      BY <2>1, <2>3, <2>5 DEF WroteSome, g
  <1> QED
    BY <1>1, <1>2

\* The file manager is gone.
LEMMA StoreFails ==
    ASSUME NEW R \in SUBSET Reader, StoreInv(R), FileManagerFails
    PROVE  /\ StoreInv(R)' /\ UNCHANGED reading /\ fm' = "down"
           /\ Grows(files, files')
           /\ \/ UNCHANGED files
              \/ /\ queue # <<>> /\ queue[1].op = "write"
                 /\ \E i \in Piece : OnlyIn(i, files, files')
  <1>1. queue' = <<>> /\ fm' = "down" /\ UNCHANGED reading
    BY DEF FileManagerFails
  <1>2. /\ IsContent(files') /\ Grows(files, files')
        /\ \/ UNCHANGED files
           \/ /\ queue # <<>> /\ queue[1].op = "write"
              /\ \E i \in Piece : OnlyIn(i, files, files')
    <2>1. /\ IsContent(files) /\ queue \in Seq(Message) /\ Len(queue) <= Capacity
          /\ CutShort
      BY DEF FileManagerFails, StoreInv, StoreAt
    <2> QED
      BY <2>1, CutShortDoes
  <1>3. <<>> \in Seq(Message) /\ Len(<<>>) = 0 /\ 0 <= Capacity
    BY Sizes
  <1>4. \A r \in Reader : InTurn(<<>>, "down", reading[r], r)
    BY InTurnDown DEF StoreInv, StoreAt
  <1> DEFINE f2 == files'
  <1>5. \A r \in R : ReaderGood(f2, <<>>, "down", reading[r], r)
    <2>1. \A r : ReadsIn(<<>>, r) = {}
      BY DEF ReadsIn
    <2> QED
      BY <2>1 DEF StoreInv, StoreAt, ReaderGood
  <1> HIDE DEF f2
  <1>6. StoreAt(f2, <<>>, "down", reading, R)
    BY <1>2, <1>3, <1>4, <1>5 DEF StoreInv, StoreAt, f2
  <1> QED
    BY <1>1, <1>2, <1>6 DEF StoreInv, f2

LEMMA StoreWrites ==
    ASSUME NEW R \in SUBSET Reader, StoreInv(R), DoWrite
    PROVE  /\ StoreInv(R)' /\ Forward(files, queue, files', queue')
           /\ UNCHANGED <<fm, reading>> /\ fm = "up"
           /\ Grows(files, files') /\ \E i \in Piece : OnlyIn(i, files, files')
           /\ queue # <<>> /\ queue[1].op = "write"
  <1>1. /\ fm = "up" /\ queue # <<>> /\ UNCHANGED <<fm, reading>>
        /\ queue \in Seq(Message) /\ Len(queue) <= Capacity /\ IsContent(files)
    BY DEF DoWrite, StoreInv, StoreAt
  <1> DEFINE m == queue[1]
             q2 == Tail(queue)
             f2 == [files EXCEPT ![m.file] = Overwrite(files[m.file], m.offset, m.bytes)]
  <1>2. q2 \in Seq(Message) /\ Len(q2) <= Capacity /\ m = Head(queue) /\ m \in Message
    BY <1>1, TailTyped
  <1>3. queue' = q2 /\ files' = f2 /\ m.op = "write"
    BY <1>2 DEF DoWrite, Takes
  <1>4. m \in WriteMessage
    BY <1>2, <1>3, MessageFacts
  <1>5. m.bytes \in Seq(Nat) /\ m.bytes # <<>>
    BY <1>4, WriteFacts
  <1>6. SubSeq(m.bytes, 1, Len(m.bytes)) = m.bytes /\ Len(m.bytes) \in 1 .. Len(m.bytes)
    <2> DEFINE b == m.bytes
    <2>1. b \in Seq(Nat) /\ b # <<>>
      BY <1>5
    <2> HIDE DEF b
    <2>2. Len(b) \in 1 .. Len(b)
      BY <2>1
    <2>3. SubSeq(b, 1, Len(b)) = b
      BY <2>1, <2>2, FirstOf
    <2> QED
      BY <2>2, <2>3 DEF b
  <1> HIDE DEF m, q2
  <1>7. /\ IsContent(f2) /\ Grows(files, f2) /\ \E i \in Piece : OnlyIn(i, files, f2)
        /\ \A k \in File : \A o \in 0 .. FileLength[k] - 1 :
               Writes(m, k, o) => f2[k][o] = Offset[k] + o
    <2> DEFINE n == Len(m.bytes)
    <2>1. n \in 1 .. Len(m.bytes) /\ m.bytes = SubSeq(m.bytes, 1, n) /\ n = Len(m.bytes)
      BY <1>6
    <2>2. f2 = [files EXCEPT ![m.file] = Overwrite(files[m.file], m.offset, m.bytes)]
      OBVIOUS
    <2> HIDE DEF n, f2
    <2>3. IsContent(files) /\ m \in WriteMessage
      BY <1>1, <1>4
    <2>4. WroteSome(files, m, f2) /\ WroteAll(files, m, f2)
      BY <2>1, <2>2, <2>3, WriteDoes
    <2> QED
      BY <2>4 DEF WroteSome, WroteAll
  <1> HIDE DEF f2
  <1>8. Dealt(queue, files, f2)
    BY <1>7 DEF Dealt, Grows, m
  <1>9. ASSUME NEW r \in Reader
        PROVE  /\ InTurn(q2, fm, reading[r], r)
               /\ r \in R => ReaderGood(f2, q2, fm, reading[r], r)
    <2>1. /\ InTurn(queue, "up", reading[r], r) /\ reading[r] \in Reading
          /\ r \in R => ReaderGood(files, queue, "up", reading[r], r)
      BY <1>1 DEF StoreInv, StoreAt
    <2>2. ~(queue[1].op = "read" /\ queue[1].reader = r)
      BY <1>3 DEF m
    <2>3. InTurn(q2, "up", reading[r], r)
      BY <1>1, <2>1, <2>2, InTurnTail DEF q2
    <2>4. r \in R => ReaderGood(f2, q2, "up", reading[r], r)
      <3>1. r \in R => GoodGot(reading[r])
        BY <2>1 DEF ReaderGood
      <3> QED
        BY <1>1, <1>8, <2>1, <3>1, GoodTail DEF q2
    <2> QED
      BY <1>1, <2>3, <2>4
  <1>10. StoreAt(f2, q2, fm, reading, R)
    <2>1. reading \in [Reader -> Reading]
      BY DEF StoreInv, StoreAt
    <2> QED
      BY <1>1, <1>2, <1>7, <1>9, <2>1 DEF StoreAt
  <1>11. Forward(files, queue, f2, q2)
    <2> SUFFICES ASSUME NEW k \in File, NEW o \in 0 .. FileLength[k] - 1
                 PROVE  OnItsWay(files, queue, k, o) => OnItsWay(f2, q2, k, o)
      BY DEF Forward
    <2>1. /\ files[k][o] = Offset[k] + o => f2[k][o] = Offset[k] + o
          /\ Writes(queue[1], k, o) => f2[k][o] = Offset[k] + o
      BY <1>8 DEF Dealt
    <2> QED
      BY <1>1, <2>1, SureTail DEF q2
  <1> QED
    BY <1>1, <1>3, <1>7, <1>10, <1>11 DEF StoreInv, m

\* A reader with a read in the channel waits for it.
LEMMA Waits ==
    ASSUME NEW q \in Seq(Message), NEW e \in Reading, NEW r, InTurn(q, "up", e, r),
           NEW n \in ReadsIn(q, r)
    PROVE  e.waits - 1 \in Nat /\ e # NotReading
  <1>1. PICK pos \in [1 .. e.waits -> ReadsIn(q, r)] : Positions(q, e, r, pos)
    BY DEF InTurn
  <1>2. PICK j \in 1 .. e.waits : pos[j] = n
    BY <1>1 DEF Positions
  <1>3. e.waits \in Nat /\ e.waits # 0
    BY <1>2, ReadingFacts
  <1>4. NotReading.waits = 0
    BY DEF NotReading
  <1> QED
    BY <1>3, <1>4

\* The bytes that a reader r gets are those of the file, at their place.
Gets(r) ==
    /\ \A p \in Reader \ {r} : reading'[p] = reading[p]
    /\ reading[r] # NotReading
    /\ reading'[r].offset = reading[r].offset /\ reading'[r].length = reading[r].length
    /\ \E s \in SectionType : \A j \in 1 .. Len(reading'[r].got) :
           FromFile(files, s, reading[r], reading'[r].got, j)

LEMMA StoreReads ==
    ASSUME NEW R \in SUBSET Reader, StoreInv(R), DoRead
    PROVE  /\ StoreInv(R)' /\ Forward(files, queue, files', queue')
           /\ UNCHANGED <<files, fm>> /\ fm = "up"
           /\ queue # <<>> /\ queue' = Tail(queue)
           /\ \E r \in Reader : Gets(r)
  <1>1. /\ fm = "up" /\ queue # <<>> /\ UNCHANGED <<files, fm>>
        /\ queue \in Seq(Message) /\ Len(queue) <= Capacity /\ IsContent(files)
        /\ reading \in [Reader -> Reading] /\ reading = [p \in Reader |-> reading[p]]
    BY DEF DoRead, StoreInv, StoreAt
  <1> DEFINE m == queue[1]
             q2 == Tail(queue)
             r == m.reader
             s == m.section
             e == reading[r]
             b == BytesRead(files, s)
             rd2 == [reading EXCEPT ![r].got = @ \o b, ![r].waits = @ - 1]
             e2 == rd2[r]
  <1>2. q2 \in Seq(Message) /\ Len(q2) <= Capacity /\ m = Head(queue) /\ m \in Message
    BY <1>1, TailTyped
  <1>3. queue' = q2 /\ reading' = rd2 /\ m.op = "read"
    BY <1>2 DEF DoRead, Takes, BytesRead
  <1>4. r \in Reader /\ s \in SectionType
    BY <1>2, <1>3, MessageFacts
  <1>5. e \in Reading /\ b \in Seq(Int) /\ Len(b) = s.length /\ s.length \in Nat
    BY <1>1, <1>4, BytesReadAre, SectionFacts
  <1> HIDE DEF m, q2, b, s, r
  <1>6. /\ e2.offset = e.offset /\ e2.length = e.length /\ e2.got = e.got \o b
        /\ e2.due = e.due /\ e2.waits = e.waits - 1
        /\ e2 = [offset |-> e2.offset, length |-> e2.length, due |-> e2.due,
                 waits |-> e2.waits, got |-> e2.got]
        /\ \A p \in Reader \ {r} : rd2[p] = reading[p]
        /\ rd2 = [p \in Reader |-> rd2[p]]
    BY <1>1, <1>4, <1>5 DEF Reading
  <1> HIDE DEF rd2
  <1>7. /\ InTurn(queue, "up", e, r)
        /\ r \in R => ReaderGood(files, queue, "up", e, r)
    BY <1>1, <1>4 DEF StoreInv, StoreAt
  <1>8. e.waits - 1 \in Nat /\ e # NotReading
    <2>1. 1 \in ReadsIn(queue, r)
      <3>1. 1 \in 1 .. Len(queue)
        BY <1>1
      <3> QED
        BY <1>3, <3>1 DEF ReadsIn, r, m
    <2> QED
      BY <1>1, <1>5, <1>7, <2>1, Waits
  <1>9. /\ e.got \o b \in Seq(Int) /\ Len(e.got \o b) = Len(e.got) + s.length
        /\ Len(e.got) \in Nat
    <2> DEFINE g == e.got
    <2>1. g \in Seq(Int) /\ b \in Seq(Int) /\ Len(b) = s.length
      BY <1>5, ReadingFacts
    <2> HIDE DEF g
    <2>2. g \o b \in Seq(Int) /\ Len(g \o b) = Len(g) + Len(b) /\ Len(g) \in Nat
      BY <2>1, MoreBytes
    <2> QED
      BY <2>1, <2>2 DEF g
  <1>10. e2 \in Reading
    <2>1. /\ e2.offset \in Nat /\ e2.length \in Nat /\ e2.got \in Seq(Int)
          /\ e2.due \in Seq(SectionType) /\ e2.waits \in Nat
      BY <1>5, <1>6, <1>8, <1>9, ReadingFacts
    <2> HIDE DEF e2
    <2> QED
      BY <1>6, <2>1 DEF Reading
  <1>11. Place(s) = Got(e) /\ InTurn(q2, "up", e2, r)
    <2>1. queue[1].op = "read" /\ queue[1].reader = r /\ queue[1].section = s
      BY <1>3 DEF m, r, s
    <2>2. Len(e2.got) = Len(e.got) + queue[1].section.length
      BY <1>6, <1>9, <2>1
    <2>3. Place(queue[1].section) = Got(e) /\ InTurn(Tail(queue), "up", e2, r)
      <3> HIDE DEF e, e2
      <3> QED
        BY <1>1, <1>5, <1>6, <1>7, <1>10, <2>1, <2>2, InTurnGets
    <2> QED
      BY <2>1, <2>3 DEF q2
  <1>12. Dealt(queue, files, files)
    BY <1>3 DEF Dealt, Writes, m
  <1>13. r \in R => ReaderGood(files, q2, "up", e2, r)
    <2> SUFFICES ASSUME r \in R
                 PROVE  ReaderGood(files, q2, "up", e2, r)
      OBVIOUS
    <2>1. queue[1].op = "read" /\ queue[1].reader = r /\ queue[1].section = s
      BY <1>3 DEF m, r, s
    <2> HIDE DEF e, e2
    <2>2. GoodGot(e2)
      <3>1. Place(queue[1].section) = Got(e) /\ e2.got = e.got \o BytesRead(files, queue[1].section)
        BY <1>6, <1>11, <2>1 DEF b
      <3> QED
        BY <1>1, <1>5, <1>6, <1>7, <2>1, <3>1, GoodGets
    <2> QED
      BY <1>1, <1>5, <1>6, <1>7, <1>12, <2>2, GoodTail DEF q2
  <1>14. ASSUME NEW p \in Reader \ {r}
         PROVE  /\ InTurn(q2, fm, rd2[p], p)
                /\ p \in R => ReaderGood(files, q2, fm, rd2[p], p)
    <2>1. /\ InTurn(queue, "up", reading[p], p) /\ reading[p] \in Reading
          /\ p \in R => ReaderGood(files, queue, "up", reading[p], p)
      BY <1>1 DEF StoreInv, StoreAt
    <2>2. ~(queue[1].op = "read" /\ queue[1].reader = p) /\ rd2[p] = reading[p]
      BY <1>6 DEF r, m
    <2>3. InTurn(q2, "up", reading[p], p)
      BY <1>1, <2>1, <2>2, InTurnTail DEF q2
    <2>4. p \in R => ReaderGood(files, q2, "up", reading[p], p)
      <3>1. p \in R => GoodGot(reading[p])
        BY <2>1 DEF ReaderGood
      <3> QED
        BY <1>1, <1>12, <2>1, <3>1, GoodTail DEF q2
    <2> QED
      BY <1>1, <2>2, <2>3, <2>4
  <1>15. rd2 \in [Reader -> Reading]
    BY <1>6, <1>10, <1>1
  <1>16. StoreAt(files, q2, fm, rd2, R)
    BY <1>1, <1>2, <1>4, <1>11, <1>13, <1>14, <1>15, OneReader
  <1>17. Forward(files, queue, files, q2)
    <2> SUFFICES ASSUME NEW k \in File, NEW o \in 0 .. FileLength[k] - 1
                 PROVE  OnItsWay(files, queue, k, o) => OnItsWay(files, q2, k, o)
      BY DEF Forward
    <2>1. Writes(queue[1], k, o) => files[k][o] = Offset[k] + o
      BY <1>12 DEF Dealt
    <2> QED
      BY <1>1, <2>1, SureTail DEF q2
  <1>18. Gets(r)
    <2>1. \A j \in 1 .. Len(e2.got) : FromFile(files, s, e, e2.got, j)
      <3>1. e2.got = e.got \o BytesRead(files, s)
        BY <1>6 DEF b
      <3> QED
        BY <1>1, <1>4, <1>5, <1>11, <3>1, GotIs
    <2> QED
      BY <1>3, <1>4, <1>6, <1>8, <2>1 DEF Gets
  <1> QED
    BY <1>1, <1>3, <1>4, <1>16, <1>17, <1>18 DEF StoreInv, q2

\* A read begins: of any range, for a reader in R of bytes on their way.
LEMMA StoreBegins ==
    ASSUME NEW R \in SUBSET Reader, StoreInv(R), NEW r \in Reader,
           NEW offset \in Nat, NEW length \in Nat,
           offset + length < Limit \/ Total <= offset, StartRead(r, offset, length), UNCHANGED <<files, queue, fm>>,
           r \in R /\ fm = "up" =>
               \A k \in File : \A o \in 0 .. FileLength[k] - 1 :
                   offset <= Offset[k] + o /\ Offset[k] + o < offset + length =>
                       OnItsWay(files, queue, k, o)
    PROVE  /\ StoreInv(R)'
           /\ \A p \in Reader \ {r} : reading'[p] = reading[p]
           /\ reading'[r].got = <<>>
           /\ reading'[r].offset = offset /\ reading'[r].length = length
  <1> DEFINE c == Sections(offset, length)
             e2 == [NotReading EXCEPT !.offset = offset, !.length = length, !.due = c]
             rd2 == [reading EXCEPT ![r] = e2]
  <1>1. /\ c \in Seq(SectionType) /\ Chain(c, offset, Until(offset, length))
    BY SectionsChain
  <1>2. reading' = rd2 /\ reading[r] = NotReading /\ reading \in [Reader -> Reading]
        /\ queue \in Seq(Message) /\ InTurn(queue, fm, NotReading, r)
        /\ fm \in {"up", "down"} /\ (fm = "down" => queue = <<>>)
    <2>1. reading[r] = NotReading /\ reading' = rd2
      BY DEF StartRead
    <2>2. /\ reading \in [Reader -> Reading] /\ queue \in Seq(Message)
          /\ InTurn(queue, fm, reading[r], r)
          /\ fm \in {"up", "down"} /\ (fm = "down" => queue = <<>>)
      BY DEF StoreInv, StoreAt
    <2> QED
      BY <2>1, <2>2
  <1> HIDE DEF c
  <1>3. e2 \in Reading /\ e2.got = <<>> /\ e2.waits = 0 /\ e2.offset = offset
        /\ e2.length = length /\ e2.due = c
    <2>1. /\ e2.got = <<>> /\ e2.waits = 0 /\ e2.offset = offset /\ e2.length = length
          /\ e2.due = c
      BY DEF NotReading
    <2>2. e2 \in Reading
      BY <1>1, Idle DEF Reading
    <2> QED
      BY <2>1, <2>2
  <1> HIDE DEF e2
  <1>4. rd2 \in [Reader -> Reading] /\ rd2[r] = e2 /\ \A p \in Reader \ {r} : rd2[p] = reading[p]
    BY <1>2, <1>3
  <1> HIDE DEF rd2
  <1>5. ReadsIn(queue, r) = {}
    <2>1. CASE fm = "up"
      <3>1. NotReading \in Reading /\ NotReading.waits = 0
        BY Idle DEF NotReading
      <3> QED
        BY <1>2, <2>1, <3>1, NoReads
    <2>2. CASE fm = "down"
      BY <1>2, <2>2 DEF ReadsIn
    <2> QED
      BY <1>2, <2>1, <2>2
  <1>6. InTurn(queue, fm, e2, r)
    <2>1. Chain(e2.due, e2.offset, End(e2))
      BY <1>1, <1>3 DEF End
    <2> QED
      BY <1>2, <1>3, <1>5, <2>1, InTurnStart
  <1>7. r \in R => ReaderGood(files, queue, fm, e2, r)
    <2> SUFFICES ASSUME r \in R, fm = "up"
                 PROVE  GoodDue(files, queue, e2)
      BY <1>3, <1>5 DEF ReaderGood, GoodGot
    <2> SUFFICES ASSUME NEW j \in 1 .. Len(c), NEW o \in BytesOf(c[j])
                 PROVE  OnItsWay(files, queue, c[j].file, o)
      BY <1>3 DEF GoodDue
    <2> DEFINE s == c[j]
               k == s.file
               z == Offset[k]
               to == Until(offset, length)
    <2>1. s \in SectionType /\ offset <= Place(s) /\ PlaceEnd(s) <= to
      <3>1. to \in Nat
        BY WithinTotal DEF Until
      <3> HIDE DEF to
      <3>2. \A i \in 1 .. Len(c) : offset <= Place(c[i]) /\ PlaceEnd(c[i]) <= to
        BY <1>1, <3>1, ChainWithin DEF to
      <3>3. c[j] \in SectionType
        BY <1>1
      <3> QED
        BY <3>2, <3>3
    <2>2. to <= offset + length
      BY WithinTotal DEF Until
    <2> HIDE DEF to, s
    <2>3. k \in File /\ o \in 0 .. FileLength[k] - 1
      BY <2>1, SectionBytes DEF s
    <2>4. offset <= Offset[k] + o /\ Offset[k] + o < offset + length
      <3>1. /\ Place(s) = z + s.offset /\ PlaceEnd(s) = z + s.offset + s.length
            /\ z \in Nat /\ s.offset \in Nat /\ s.length \in Nat
        BY <2>1, SectionFacts
      <3>2. o \in Int /\ s.offset <= o /\ o <= s.offset + s.length - 1
        BY <3>1 DEF BytesOf, s
      <3>3. to \in Nat
        BY WithinTotal DEF Until, to
      <3> DEFINE a == s.offset
                 n == s.length
      <3>4. offset <= z + a /\ a <= o /\ z \in Nat /\ a \in Nat /\ o \in Int
        BY <2>1, <3>1, <3>2
      <3>5. z + a + n <= offset + length /\ o <= a + n - 1 /\ n \in Nat
        BY <2>1, <2>2, <3>1, <3>2, <3>3
      <3> HIDE DEF a, n, z
      <3>6. offset <= z + o
        BY <3>4
      <3>7. z + o < offset + length
        BY <3>4, <3>5
      <3> QED
        BY <3>6, <3>7 DEF z
    <2> QED
      BY <2>3, <2>4 DEF s
  <1>8. StoreAt(files, queue, fm, rd2, R)
    <2>1. /\ IsContent(files) /\ Len(queue) <= Capacity
          /\ \A p \in Reader : InTurn(queue, fm, reading[p], p)
          /\ \A p \in R : ReaderGood(files, queue, fm, reading[p], p)
      BY DEF StoreInv, StoreAt
    <2>2. /\ \A p \in Reader \ {r} : InTurn(queue, fm, rd2[p], p)
          /\ \A p \in R \ {r} : ReaderGood(files, queue, fm, rd2[p], p)
      BY <1>4, <2>1
    <2> QED
      BY <1>2, <1>4, <1>6, <1>7, <2>1, <2>2, OneReader
  <1> QED
    BY <1>2, <1>3, <1>4, <1>8 DEF StoreInv

\* A reader is done, gives up as the file manager is gone, or reads nothing.
LEMMA StoreStops ==
    ASSUME NEW R \in SUBSET Reader, StoreInv(R), NEW r \in Reader, StopReading(r),
           HasRead(r) \/ fm = "down" \/ reading[r] = NotReading,
           UNCHANGED <<files, queue, fm>>
    PROVE  /\ StoreInv(R)' /\ reading'[r] = NotReading
           /\ \A p \in Reader \ {r} : reading'[p] = reading[p]
  <1> DEFINE rd2 == [reading EXCEPT ![r] = NotReading]
  <1>1. reading' = rd2
    BY DEF StopReading
  <1>2. /\ reading \in [Reader -> Reading] /\ queue \in Seq(Message)
        /\ InTurn(queue, fm, reading[r], r) /\ reading[r] \in Reading
        /\ fm \in {"up", "down"} /\ (fm = "down" => queue = <<>>)
    BY DEF StoreInv, StoreAt
  <1>3. /\ rd2 \in [Reader -> Reading] /\ rd2[r] = NotReading
        /\ \A p \in Reader \ {r} : rd2[p] = reading[p]
    BY <1>2, Idle
  <1> HIDE DEF rd2
  <1>4. ReadsIn(queue, r) = {}
    <2>1. CASE fm = "up"
      <3>1. reading[r].waits = 0
        BY <2>1 DEF HasRead, NotReading
      <3> QED
        BY <1>2, <2>1, <3>1, NoReads
    <2>2. CASE fm = "down"
      BY <1>2, <2>2 DEF ReadsIn
    <2> QED
      BY <1>2, <2>1, <2>2
  <1>5. InTurn(queue, fm, NotReading, r)
    BY <1>2, <1>4, InTurnIdle
  <1>6. ReaderGood(files, queue, fm, NotReading, r)
    BY <1>4, Idle DEF ReaderGood, GoodDue
  <1>7. StoreAt(files, queue, fm, rd2, R)
    <2>1. /\ IsContent(files) /\ Len(queue) <= Capacity
          /\ \A p \in Reader : InTurn(queue, fm, reading[p], p)
          /\ \A p \in R : ReaderGood(files, queue, fm, reading[p], p)
      BY DEF StoreInv, StoreAt
    <2>2. /\ \A p \in Reader \ {r} : InTurn(queue, fm, rd2[p], p)
          /\ \A p \in R \ {r} : ReaderGood(files, queue, fm, rd2[p], p)
      BY <1>3, <2>1
    <2> QED
      BY <1>2, <1>3, <1>5, <1>6, <2>1, <2>2, OneReader
  <1> QED
    BY <1>1, <1>3, <1>7 DEF StoreInv

\* The process dies and starts again.
LEMMA StoreCrashes ==
    ASSUME NEW R \in SUBSET Reader, StoreInv(R), StoreCrash
    PROVE  /\ StoreInv(R)' /\ Grows(files, files') /\ fm' = "up" /\ queue' = <<>>
           /\ \A r \in Reader : reading'[r] = NotReading
  <1>1. /\ queue' = <<>> /\ fm' = "up" /\ reading' = [r \in Reader |-> NotReading]
        /\ queue \in Seq(Message) /\ Len(queue) <= Capacity /\ IsContent(files)
    BY DEF StoreCrash, StoreInv, StoreAt
  <1>2. IsContent(files') /\ Grows(files, files')
    BY <1>1, CutShortDoes DEF StoreCrash
  <1>3. <<>> \in Seq(Message) /\ Len(<<>>) = 0 /\ 0 <= Capacity
    BY Sizes
  <1>4. \A r \in Reader : ReadsIn(<<>>, r) = {} /\ InTurn(<<>>, "up", NotReading, r)
    <2>1. \A r \in Reader : ReadsIn(<<>>, r) = {}
      BY DEF ReadsIn
    <2> QED
      BY <1>3, <2>1, InTurnIdle
  <1> DEFINE f2 == files'
             rd2 == [r \in Reader |-> NotReading]
  <1>5. \A r \in Reader : ReaderGood(f2, <<>>, "up", NotReading, r)
    BY <1>4, Idle DEF ReaderGood, GoodDue
  <1>6. rd2 \in [Reader -> Reading] /\ \A r \in Reader : rd2[r] = NotReading
    BY Idle
  <1> HIDE DEF f2, rd2
  <1>7. StoreAt(f2, <<>>, "up", rd2, R)
    BY <1>2, <1>3, <1>4, <1>5, <1>6 DEF StoreAt, f2
  <1> QED
    BY <1>1, <1>2, <1>6, <1>7 DEF StoreInv, f2, rd2

\* Fewer readers may be promised right bytes, or one more that reads nothing.
LEMMA FewerReaders ==
    ASSUME NEW R, StoreInv(R), NEW S, S \subseteq R
    PROVE  StoreInv(S)
  BY DEF StoreInv, StoreAt

LEMMA IdleIsGood ==
    ASSUME NEW f, NEW q, NEW up, NEW rd, NEW R, StoreAt(f, q, up, rd, R),
           NEW r \in Reader, rd[r] = NotReading
    PROVE  ReaderGood(f, q, up, rd[r], r)
  <1>1. /\ InTurn(q, up, NotReading, r) /\ q \in Seq(Message)
        /\ up \in {"up", "down"} /\ (up = "down" => q = <<>>)
    BY DEF StoreAt
  <1>2. ReadsIn(q, r) = {}
    <2>1. CASE up = "up"
      <3>1. NotReading \in Reading /\ NotReading.waits = 0
        BY Idle DEF NotReading
      <3> QED
        BY <1>1, <2>1, <3>1, NoReads
    <2>2. CASE up = "down"
      BY <1>1, <2>2 DEF ReadsIn
    <2> QED
      BY <1>1, <2>1, <2>2
  <1> QED
    BY <1>2, Idle DEF ReaderGood, GoodDue

LEMMA MoreReaders ==
    ASSUME NEW f, NEW q, NEW up, NEW rd, NEW R, StoreAt(f, q, up, rd, R),
           NEW S \in SUBSET Reader, \A r \in S \ R : rd[r] = NotReading
    PROVE  StoreAt(f, q, up, rd, S)
  <1>1. ASSUME NEW r \in S
        PROVE  ReaderGood(f, q, up, rd[r], r)
    <2>1. CASE r \in R
      BY <2>1 DEF StoreAt
    <2>2. CASE r \notin R
      BY <2>2, IdleIsGood
    <2> QED
      BY <2>1, <2>2
  <1> QED
    BY <1>1 DEF StoreAt

LEMMA StoreStutters ==
    ASSUME NEW R, StoreInv(R), UNCHANGED storeVars
    PROVE  StoreInv(R)' /\ Forward(files, queue, files', queue')
  BY ForwardSame DEF StoreInv, storeVars

-----------------------------------------------------------------------------
(* Pieces that are whole.                                                  *)

LEMMA WholeIs ==
    ASSUME NEW f, IsContent(f), NEW i \in Piece
    PROVE  i \in Whole(f) <=> \A k \in File : \A o \in 0 .. FileLength[k] - 1 :
                                  InPiece(i, k, o) => f[k][o] = Offset[k] + o
  <1> DEFINE x == i * PieceLength
             n == PieceSize(i)
  <1>1. /\ x \in Nat /\ n \in Nat /\ (i + 1) * PieceLength = x + PieceLength
        /\ x + n = IF x + PieceLength <= Total THEN x + PieceLength ELSE Total
    <2>1. i \in Nat /\ (i + 1) * PieceLength = i * PieceLength + PieceLength
      BY PieceRange, Sizes
    <2> QED
      BY <2>1, PieceRange, WithinTotal DEF Until
  <1>2. ASSUME NEW k \in File, NEW o \in 0 .. FileLength[k] - 1
        PROVE  InPiece(i, k, o) <=> Offset[k] + o \in x .. (i + 1) * PieceLength - 1
    <2> DEFINE y == Offset[k] + o
    <2>1. y \in Nat /\ y < Total
      BY Offsets, Files, WithinTotal
    <2>2. InPiece(i, k, o) <=> x <= y /\ y + 1 <= x + n
      BY DEF InPiece, Holds
    <2> DEFINE z == (i + 1) * PieceLength
               T == Total
    <2>3. /\ x \in Nat /\ n \in Nat /\ z = x + PieceLength /\ PieceLength \in Nat
          /\ x + n = (IF z <= T THEN z ELSE T) /\ T \in Nat /\ y < T
      BY <1>1, <2>1, Sizes, WithinTotal
    <2> HIDE DEF x, n, y, z, T
    <2>4. y \in x .. z - 1 <=> x <= y /\ y + 1 <= x + n
      BY <2>1, <2>3
    <2> QED
      BY <2>2, <2>4 DEF y, z
  <1>3. i \in Whole(f) <=> \A k \in File : \A o \in 0 .. FileLength[k] - 1 :
            Offset[k] + o \in x .. (i + 1) * PieceLength - 1 => f[k][o] = Offset[k] + o
    <2>1. \A k \in File : DOMAIN f[k] = 0 .. FileLength[k] - 1
      BY ContentFacts
    <2> QED
      BY <2>1 DEF Whole
  <1> QED
    BY <1>2, <1>3

\* More is right, so more pieces are whole.
LEMMA WholeGrows ==
    ASSUME NEW f, NEW f2, IsContent(f), IsContent(f2), Grows(f, f2)
    PROVE  Whole(f) \subseteq Whole(f2) /\ Whole(f2) \subseteq Piece
  <1>1. Whole(f) \subseteq Piece /\ Whole(f2) \subseteq Piece
    BY DEF Whole
  <1> QED
    BY <1>1, WholeIs DEF Grows

\* A byte is of one piece only.
LEMMA PieceOfByte ==
    ASSUME NEW i \in Piece, NEW j \in Piece, NEW k \in File,
           NEW o \in 0 .. FileLength[k] - 1, InPiece(i, k, o), InPiece(j, k, o)
    PROVE  i = j
  <1> DEFINE x == Offset[k] + o
  <1>1. x \in Nat
    BY Offsets, Files
  <1>2. Holds(i, x, x + 1) /\ Holds(j, x, x + 1)
    BY DEF InPiece
  <1> HIDE DEF x
  <1>3. x + 1 \in Nat /\ x < x + 1 /\ x <= x
    BY <1>1
  <1> QED
    BY <1>1, <1>2, <1>3, PiecesApart

\* A write makes one piece whole, or none.
LEMMA WholeByOne ==
    ASSUME NEW f, NEW f2, IsContent(f), IsContent(f2), NEW i \in Piece, OnlyIn(i, f, f2)
    PROVE  Whole(f2) \subseteq Whole(f) \cup {i}
  <1> SUFFICES ASSUME NEW j \in Whole(f2), j # i
               PROVE  j \in Whole(f)
    OBVIOUS
  <1>1. j \in Piece
    BY DEF Whole
  <1>2. ASSUME NEW k \in File, NEW o \in 0 .. FileLength[k] - 1, InPiece(j, k, o)
        PROVE  f[k][o] = Offset[k] + o
    <2>1. ~InPiece(i, k, o)
      BY <1>1, <1>2, PieceOfByte
    <2>2. f2[k][o] = f[k][o]
      BY <2>1 DEF OnlyIn
    <2>3. f2[k][o] = Offset[k] + o
      BY <1>1, <1>2, WholeIs
    <2> QED
      BY <2>2, <2>3
  <1> QED
    BY <1>1, <1>2, WholeIs

\* A piece that is whole is on its way.
LEMMA WholeOnItsWay ==
    ASSUME NEW f, NEW q, IsContent(f), NEW i \in Whole(f)
    PROVE  PieceOnItsWay(f, q, i)
  <1>1. i \in Piece
    BY DEF Whole
  <1> QED
    BY <1>1, WholeIs DEF PieceOnItsWay, OnItsWay, Sure

\* The byte that the last of the writes of it leaves.
LastWritten(q, k, o, x) ==
    LET writes == {n \in DOMAIN q : Writes(q[n], k, o)}
        last == q[Max(writes)]
    IN IF writes = {} THEN x ELSE last.bytes[o - last.offset + 1]

LEMMA LastIsRight ==
    ASSUME NEW q \in Seq(Message), NEW k \in File, NEW o \in 0 .. FileLength[k] - 1,
           NEW x
    PROVE  IF \E n \in 1 .. Len(q) : Writes(q[n], k, o)
           THEN LastWritten(q, k, o, x) = Offset[k] + o
           ELSE LastWritten(q, k, o, x) = x
  <1> DEFINE writes == {n \in DOMAIN q : Writes(q[n], k, o)}
             w == Max(writes)
             m == q[w]
  <1>1. DOMAIN q = 1 .. Len(q) /\ Len(q) \in Nat
    OBVIOUS
  <1>2. CASE writes = {}
    <2>1. ~\E n \in 1 .. Len(q) : Writes(q[n], k, o)
      BY <1>1, <1>2
    <2> QED
      BY <1>2, <2>1 DEF LastWritten
  <1>3. CASE writes # {}
    <2>1. w \in writes
      <3>1. writes \in SUBSET (1 .. Len(q))
        BY <1>1
      <3> HIDE DEF writes
      <3> QED
        BY <1>1, <1>3, <3>1, MaxOf
    <2>2. /\ w \in 1 .. Len(q) /\ Writes(m, k, o)
          /\ \E n \in 1 .. Len(q) : Writes(q[n], k, o)
      BY <1>1, <2>1
    <2>3. LastWritten(q, k, o, x) = m.bytes[o - m.offset + 1]
      BY <1>3 DEF LastWritten
    <2> HIDE DEF writes, w
    <2>4. m \in WriteMessage /\ m.file = k /\ Covers(m.offset, m.bytes, o)
      <3>1. m \in Message
        BY <2>2
      <3>2. m.op = "write" /\ m.file = k /\ Covers(m.offset, m.bytes, o)
        BY <2>2 DEF Writes
      <3> QED
        BY <3>1, <3>2, MessageFacts
    <2> DEFINE a == m.offset
               b == m.bytes
               z == Offset[k]
               j == o - a + 1
    <2>5. /\ a \in Nat /\ b \in Seq(Nat) /\ \A i \in 1 .. Len(b) : b[i] = z + a + i - 1
      BY <2>4, WriteFacts
    <2>6. z \in Nat /\ Len(b) \in Nat /\ o \in Int /\ o - a \in 0 .. Len(b) - 1
      BY <2>4, <2>5, Offsets, Files DEF Covers
    <2> HIDE DEF m, a, b, z
    <2>7. j \in 1 .. Len(b) /\ z + a + j - 1 = z + o
      BY <2>5, <2>6
    <2> HIDE DEF j
    <2>8. b[j] = z + o
      BY <2>5, <2>7
    <2> QED
      BY <2>2, <2>3, <2>8 DEF a, b, z, j
  <1> QED
    BY <1>2, <1>3

\* Once the channel is empty, the bytes that were on their way are right.
LEMMA SettledIs ==
    ASSUME NEW R, StoreInv(R)
    PROVE  /\ IsContent(Settled)
           /\ \A k \in File : \A o \in 0 .. FileLength[k] - 1 :
                  OnItsWay(files, queue, k, o) => Settled[k][o] = Offset[k] + o
  <1>1. IsContent(files) /\ queue \in Seq(Message)
    BY DEF StoreInv, StoreAt
  <1> DEFINE g == Settled
  <1>2. /\ g = [k \in File |-> g[k]]
        /\ \A k \in File : /\ g[k] = [o \in DOMAIN files[k] |-> g[k][o]]
                           /\ \A o \in DOMAIN files[k] :
                                  g[k][o] = LastWritten(queue, k, o, files[k][o])
    BY DEF Settled, LastWritten
  <1> HIDE DEF g
  <1>3. ASSUME NEW k \in File, NEW o \in 0 .. FileLength[k] - 1
        PROVE  /\ g[k][o] \in {Zero, Offset[k] + o}
               /\ OnItsWay(files, queue, k, o) => g[k][o] = Offset[k] + o
    <2>1. /\ o \in DOMAIN files[k] /\ files[k][o] \in {Zero, Offset[k] + o}
      BY <1>1, ContentFacts
    <2> DEFINE x == files[k][o]
    <2>2. g[k][o] = LastWritten(queue, k, o, x)
      BY <1>2, <2>1
    <2>3. IF \E n \in 1 .. Len(queue) : Writes(queue[n], k, o)
          THEN LastWritten(queue, k, o, x) = Offset[k] + o
          ELSE LastWritten(queue, k, o, x) = x
      <3> HIDE DEF x
      <3> QED
        BY <1>1, LastIsRight
    <2> QED
      BY <2>1, <2>2, <2>3 DEF OnItsWay, Sure
  <1>4. \A k \in File : g[k] = [o \in 0 .. FileLength[k] - 1 |-> g[k][o]]
    BY <1>1, <1>2, ContentFacts
  <1>5. IsContent(g)
    BY <1>2, <1>3, <1>4 DEF IsContent
  <1> QED
    BY <1>3, <1>5 DEF g

\* So a piece that is on its way will be whole.
LEMMA WholeOnceSettled ==
    ASSUME NEW R, StoreInv(R), NEW i \in Piece, PieceOnItsWay(files, queue, i)
    PROVE  i \in Whole(Settled)
  <1> DEFINE g == Settled
  <1>1. IsContent(g) /\ \A k \in File : \A o \in 0 .. FileLength[k] - 1 :
            InPiece(i, k, o) => g[k][o] = Offset[k] + o
    BY SettledIs DEF PieceOnItsWay
  <1> HIDE DEF g
  <1>2. i \in Whole(g)
    BY <1>1, WholeIs
  <1> QED
    BY <1>2 DEF g

\* What the readers in R have is a prefix of what they asked for, and in the end all
\* of it.
LEMMA GotIsRight ==
    ASSUME NEW R, StoreInv(R), NEW r \in R, R \subseteq Reader
    PROVE  LET right == Content(reading[r].offset, reading[r].length)
           IN /\ IsPrefix(reading[r].got, right)
              /\ HasRead(r) /\ (reading[r].length = 0 \/
                                reading[r].offset + reading[r].length <= Total) =>
                     reading[r].got = right
  <1> DEFINE e == reading[r]
             g == e.got
             x == e.offset
             n == e.length
  <1>1. e \in Reading /\ InTurn(queue, fm, e, r) /\ GoodGot(e)
    BY DEF StoreInv, StoreAt, ReaderGood
  <1>2. /\ g \in Seq(Int) /\ Len(g) \in Nat /\ x \in Nat /\ n \in Nat
        /\ Got(e) = x + Len(g) /\ \A j \in 1 .. Len(g) : g[j] = x + j - 1
    BY <1>1, ReadingFacts DEF GoodGot
  <1>3. x + Len(g) <= End(e) /\ End(e) <= x + n /\ End(e) \in Nat
    <2>1. Got(e) <= End(e)
      BY <1>1 DEF InTurn
    <2>2. End(e) \in Nat
      BY <1>1, ReadingFacts
    <2>3. End(e) <= x + n
      BY <1>2, WithinTotal DEF End, Until
    <2> QED
      BY <1>2, <2>1, <2>2, <2>3
  <1>4. Len(g) <= n
    <2> DEFINE l == Len(g)
               y == End(e)
    <2>1. x + l <= y /\ y <= x + n /\ l \in Nat /\ y \in Nat /\ x \in Nat /\ n \in Nat
      BY <1>2, <1>3
    <2> HIDE DEF l, y, x, n
    <2>2. l <= n
      BY <2>1
    <2> QED
      BY <2>2 DEF l
  <1>8. HasRead(r) /\ (n = 0 \/ x + n <= Total) => Len(g) = n
    <2> SUFFICES ASSUME HasRead(r), n = 0 \/ x + n <= Total
                 PROVE  Len(g) = n
      OBVIOUS
    <2>1. Got(e) = End(e)
      BY <1>1 DEF InTurn, HasRead
    <2>2. n # 0 => End(e) = x + n
      BY DEF End, Until
    <2> DEFINE l == Len(g)
               y == End(e)
    <2>3. x + l = y /\ l <= n /\ l \in Nat /\ x \in Nat /\ n \in Nat /\ (n # 0 => y = x + n)
      BY <1>2, <1>4, <2>1, <2>2
    <2> HIDE DEF l, y, x, n
    <2>4. l = n
      BY <2>3
    <2> QED
      BY <2>4 DEF l
  <1> HIDE DEF e, g, x, n
  <1> DEFINE c == Content(x, n)
  <1>5. c \in Seq(Int) /\ Len(c) = n /\ \A j \in 1 .. n : c[j] = x + j - 1
    <2>1. c = [j \in 1 .. n |-> x + j - 1]
      BY DEF Content
    <2> QED
      BY <1>2, <2>1
  <1> HIDE DEF c
  <1>6. g = SubSeq(c, 1, Len(g))
    <2> DEFINE l == Len(g)
               p == SubSeq(c, 1, l)
    <2>1. p \in Seq(Int) /\ Len(p) = l /\ \A j \in 1 .. l : p[j] = c[j]
      <3> HIDE DEF l
      <3>1. l \in 0 .. Len(c)
        BY <1>2, <1>4, <1>5 DEF l
      <3> QED
        BY <1>5, <3>1
    <2>2. \A j \in 1 .. l : g[j] = p[j]
      BY <1>2, <1>4, <1>5, <2>1
    <2> HIDE DEF p, l
    <2>3. g = p
      BY <1>2, <2>1, <2>2, SameSeq DEF l
    <2> QED
      BY <2>3 DEF p, l
  <1>7. Len(g) <= Len(c)
    BY <1>4, <1>5
  <1>9. Len(g) = n => g = c
    BY <1>2, <1>5, SameSeq
  <1> QED
    BY <1>6, <1>7, <1>8, <1>9 DEF IsPrefix, e, g, x, n, c
=============================================================================
