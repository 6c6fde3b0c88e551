---------------------------- MODULE PeerMessages ----------------------------
(***************************************************************************)
(* The messages between peers and their bytes: PeerMessage::as_bytes and   *)
(* PeerMessage::from_bytes (peer.rs).  A byte is a number in 0 .. 255; a   *)
(* frame is a big-endian length of four bytes and as many bytes of body.   *)
(***************************************************************************)
EXTENDS Integers, Sequences

Byte == 0 .. 255
\* The numbers of 32 bits, each from its four bytes.
U32 == {n \in Nat : n \div 256^3 < 256}

\* The values of PeerMessage: numbers are u32, and so is the length of a frame.
PeerMessage ==
    [type : {"Choke", "Unchoke", "Interested", "NotInterested"}]
    \cup [type : {"Have"}, index : U32]
    \cup {m \in [type : {"Bitfield"}, bits : Seq(BOOLEAN)] :
            1 + (Len(m.bits) + 7) \div 8 \in U32}
    \cup [type : {"Request", "Cancel"}, index : U32, begin : U32, length : U32]
    \cup {m \in [type : {"Piece"}, index : U32, begin : U32, bytes : Seq(Byte)] :
            9 + Len(m.bytes) \in U32}

\* PeerMessage, by its id; Port and the extension protocol are not in the enum.
Type == <<"Choke", "Unchoke", "Interested", "NotInterested", "Have",
          "Bitfield", "Request", "Piece", "Cancel">>

\* The shortest body from which the fields of each type can be taken.
Shortest == <<1, 1, 1, 1, 5, 1, 13, 9, 13>>

Word(n) == [i \in 1 .. 4 |-> (n \div 256^(4 - i)) % 256]
WordAt(bytes, i) == ((bytes[i] * 256 + bytes[i + 1]) * 256 + bytes[i + 2]) * 256
                    + bytes[i + 3]

\* Eight pieces to a byte, the first in the highest bit, the last byte padded.
Pack(bits) ==
    LET Bit(k) == IF k <= Len(bits) /\ bits[k] THEN 1 ELSE 0
        Octet(k) == 128 * Bit(k + 1) + 64 * Bit(k + 2) + 32 * Bit(k + 3)
                    + 16 * Bit(k + 4) + 8 * Bit(k + 5) + 4 * Bit(k + 6)
                    + 2 * Bit(k + 7) + Bit(k + 8)
    IN  [b \in 1 .. (Len(bits) + 7) \div 8 |-> Octet(8 * (b - 1))]
Unpack(bytes) ==
    [k \in 1 .. 8 * Len(bytes) |->
        (bytes[(k - 1) \div 8 + 1] \div 2^(7 - ((k - 1) % 8))) % 2 = 1]

\* (mutant of Parses) > in place of >=.
ParsesLonger(body) ==
    /\ body # <<>> /\ body[1] < Len(Type)
    /\ Len(body) > Shortest[body[1] + 1]

Parses(body) ==
    /\ body # <<>> /\ body[1] < Len(Type)
    /\ Len(body) >= Shortest[body[1] + 1]

\* from_bytes; bytes beyond the fields of a type are ignored.
FromBytes(body) ==
    LET type == Type[body[1] + 1]
    IN  CASE type = "Have" -> [type |-> type, index |-> WordAt(body, 2)]
          [] type = "Bitfield" -> [type |-> type, bits |-> Unpack(Tail(body))]
          [] type \in {"Request", "Cancel"} ->
                 [type |-> type, index |-> WordAt(body, 2),
                  begin |-> WordAt(body, 6), length |-> WordAt(body, 10)]
          [] type = "Piece" ->
                 [type |-> type, index |-> WordAt(body, 2),
                  begin |-> WordAt(body, 6), bytes |-> SubSeq(body, 10, Len(body))]
          [] OTHER -> [type |-> type]

Id(type) == CHOOSE id \in 0 .. Len(Type) - 1 : Type[id + 1] = type
Framed(body) == Word(Len(body)) \o body

AsBytes(m) ==
    Framed(<<Id(m.type)>> \o
        CASE m.type = "Have" -> Word(m.index)
          [] m.type = "Bitfield" -> Pack(m.bits)
          [] m.type \in {"Request", "Cancel"} ->
                 Word(m.index) \o Word(m.begin) \o Word(m.length)
          [] m.type = "Piece" -> Word(m.index) \o Word(m.begin) \o m.bytes
          [] OTHER -> <<>>)
=============================================================================
