----------------------------- MODULE PieceStore -----------------------------
(***************************************************************************)
(* Where the bytes of a torrent are kept: pieces and blocks as ranges of   *)
(* the concatenated files (torrent.rs), and the task that reads and writes *)
(* the files (file_manager.rs), which works through one queue.  A byte is  *)
(* its place in the torrent, or Zero where nothing was written: a byte     *)
(* that read_at does not find in a short file stays zero too.              *)
(***************************************************************************)
EXTENDS Integers, Sequences, SequencesExt

CONSTANTS
    FileLength,   \* the lengths of the files, in order
    PieceLength,
    NumPieces,
    BLOCK_SIZE,
    Width,        \* of u32
    Capacity,     \* of the file manager's channel; 32 in the code
    Reader        \* the tasks that read

File == 1 .. Len(FileLength)
Piece == 0 .. NumPieces - 1
Zero == -1

Wrap(n) == n % 2 ^ Width

\* from_metainfo: where each file starts.
Offset[k \in File] ==
    IF k = 1 THEN 0 ELSE Wrap(Offset[k - 1] + FileLength[k - 1])
FileEnd(k) == Wrap(Offset[k] + FileLength[k])

\* The pieces cover the files, and the end of every file, and of the last piece
\* were it whole, is a u32: otherwise the arithmetic below wraps, or panics in a
\* debug build.
ASSUME GeometryAssumption ==
    /\ FileLength \in Seq(Nat \ {0}) /\ FileLength # <<>>
    /\ {PieceLength, NumPieces, BLOCK_SIZE, Width, Capacity} \subseteq Nat \ {0}
    /\ \A k \in File : Offset[k] + FileLength[k] < 2 ^ Width
    /\ NumPieces * PieceLength < 2 ^ Width
    /\ (NumPieces - 1) * PieceLength < FileEnd(Len(FileLength))
    /\ FileEnd(Len(FileLength)) <= NumPieces * PieceLength

PieceStart(i) == Wrap(i * PieceLength)
PieceSize(i) ==
    Min({Wrap(PieceStart(i) + PieceLength), FileEnd(Len(FileLength))}) - PieceStart(i)
BlocksOf(i) ==
    {[index |-> i, begin |-> BLOCK_SIZE * j,
      length |-> Min({BLOCK_SIZE * (j + 1), PieceSize(i)}) - BLOCK_SIZE * j] :
        j \in 0 .. (PieceSize(i) - 1) \div BLOCK_SIZE}

\* (mutant of Section) the place in the torrent for the place in the file.
SectionFromTorrentStart(k, start, end) ==
    [file |-> k, offset |-> Max({Offset[k], start}),
     length |-> Min({FileEnd(k), end}) - Max({Offset[k], start})]

\* What file k holds of the bytes from start to end.
Section(k, start, end) ==
    [file |-> k, offset |-> Max({Offset[k], start}) - Offset[k],
     length |-> Min({FileEnd(k), end}) - Max({Offset[k], start})]

\* get_file_sections: the loop over the files.
Sections(offset, length) ==
    LET end == Wrap(offset + length)
        Misses(k) == offset >= FileEnd(k) \/ end <= Offset[k]
        found[k \in 0 .. Len(FileLength)] ==
            IF k = 0 THEN <<>>
            ELSE IF Misses(k) THEN found[k - 1]
                 ELSE Append(found[k - 1], Section(k, offset, end))
    IN found[Len(FileLength)]

\* The right bytes of a range, and of a piece: the ones its hash is of.
Content(offset, length) == [j \in 1 .. length |-> offset + j - 1]
PieceContent(i) == Content(i * PieceLength, PieceSize(i))

\* write_piece: one message for every section.
WritesOf(i, bytes) ==
    LET s == Sections(PieceStart(i), Len(bytes))
        cur[j \in DOMAIN s] == IF j = 1 THEN 0 ELSE cur[j - 1] + s[j - 1].length
    IN [j \in DOMAIN s |->
           [op |-> "write", file |-> s[j].file, offset |-> s[j].offset,
            bytes |-> SubSeq(bytes, cur[j] + 1, cur[j] + s[j].length)]]

VARIABLES
    files,    \* the content of each file
    queue,    \* the file manager's channel
    fm,       \* "up", or "down" once its task panicked
    reading   \* of each reader: the range, the sections not asked for yet, the
              \* number asked for and not answered, the bytes so far

storeVars == <<files, queue, fm, reading>>

NotReading == [offset |-> 0, length |-> 0, due |-> <<>>, waits |-> 0, got |-> <<>>]

\* Files that are new, or complete already.
StoreInit ==
    /\ \E present \in SUBSET File :
           files = [k \in File |-> [o \in 0 .. FileLength[k] - 1 |->
                                       IF k \in present THEN Offset[k] + o ELSE Zero]]
    /\ queue = <<>> /\ fm = "up" /\ reading = [r \in Reader |-> NotReading]

\* (mutant of Enqueue) the channel takes any number of messages.
EnqueueAnyway(m) == fm = "up" /\ queue' = Append(queue, m)

Enqueue(m) ==
    /\ fm = "up" /\ Len(queue) < Capacity
    /\ queue' = Append(queue, m)

\* read_block and check_piece_hash: join_all asks for the sections in order ...
StartRead(r, offset, length) ==
    /\ reading[r] = NotReading
    /\ reading' = [reading EXCEPT ![r] =
           [NotReading EXCEPT !.offset = offset, !.length = length,
                              !.due = Sections(offset, length)]]
SendRead(r) ==
    /\ reading[r].due # <<>>
    /\ Enqueue([op |-> "read", section |-> Head(reading[r].due), reader |-> r])
    /\ reading' = [reading EXCEPT ![r].due = Tail(@), ![r].waits = @ + 1]
    /\ UNCHANGED <<files, fm>>
\* ... and is done when all are answered, or panics when the file manager is gone.
\* (No bytes from the start of the torrent are read in the step that asks for them.)
HasRead(r) ==
    reading[r] # NotReading /\ reading[r].due = <<>> /\ reading[r].waits = 0
ReadPanics(r) == fm = "down" /\ reading[r] # NotReading /\ ~HasRead(r)
StopReading(r) == reading' = [reading EXCEPT ![r] = NotReading]

Covers(offset, bytes, o) == o - offset \in 0 .. Len(bytes) - 1
Overwrite(content, offset, bytes) ==
    [o \in DOMAIN content |->
        IF Covers(offset, bytes, o) THEN bytes[o - offset + 1] ELSE content[o]]

\* (mutant of Takes) the newest message is served first.
TakesNewest(m, rest) == m = Last(queue) /\ rest = Front(queue)

\* rx.recv()
Takes(m, rest) == m = Head(queue) /\ rest = Tail(queue)

DoWrite ==
    /\ fm = "up" /\ queue # <<>>
    /\ \E m \in ToSet(queue) :
          /\ Takes(m, queue') /\ m.op = "write"
          /\ files' = [files EXCEPT ![m.file] = Overwrite(@, m.offset, m.bytes)]
    /\ UNCHANGED <<fm, reading>>
DoRead ==
    /\ fm = "up" /\ queue # <<>>
    /\ \E m \in ToSet(queue) :
          /\ Takes(m, queue') /\ m.op = "read"
          /\ LET s == m.section
                 bytes == [j \in 1 .. s.length |->
                              LET o == s.offset + j - 1
                              IN IF o \in DOMAIN files[s.file] THEN files[s.file][o]
                                 ELSE Zero]
             IN reading' = [reading EXCEPT ![m.reader].got = @ \o bytes,
                                           ![m.reader].waits = @ - 1]
    /\ UNCHANGED <<files, fm>>

\* The write under way may be done in part, the others are not.
CutShort ==
    \/ UNCHANGED files
    \/ /\ queue # <<>> /\ Head(queue).op = "write"
       /\ LET m == Head(queue)
          IN \E n \in 1 .. Len(m.bytes) :
                 files' = [files EXCEPT ![m.file] =
                              Overwrite(@, m.offset, SubSeq(m.bytes, 1, n))]

\* An error of the file system: unwrap panics, and the queue goes with the task.
FileManagerFails ==
    /\ fm = "up" /\ queue # <<>> /\ CutShort
    /\ fm' = "down" /\ queue' = <<>>
    /\ UNCHANGED reading

\* The process dies.
StoreCrash ==
    /\ CutShort
    /\ queue' = <<>> /\ fm' = "up" /\ reading' = [r \in Reader |-> NotReading]

\* The pieces that are whole in files of content f, and once the queue is done.
Whole(f) ==
    {i \in Piece : \A k \in File : \A o \in DOMAIN f[k] :
        Offset[k] + o \in i * PieceLength .. (i + 1) * PieceLength - 1 =>
            f[k][o] = Offset[k] + o}
Writes(m, k, o) == m.op = "write" /\ m.file = k /\ Covers(m.offset, m.bytes, o)
Settled ==
    [k \in File |-> [o \in DOMAIN files[k] |->
        LET writes == {n \in DOMAIN queue : Writes(queue[n], k, o)}
            last == queue[Max(writes)]
        IN IF writes = {} THEN files[k][o] ELSE last.bytes[o - last.offset + 1]]]
=============================================================================
