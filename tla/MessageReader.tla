--------------------------- MODULE MessageReader ---------------------------
(***************************************************************************)
(* PeerMessageReader::next (peer.rs): the stream of bytes from a peer cut  *)
(* into frames and parsed.                                                 *)
(*                                                                         *)
(* next() is one branch of the handler's select!, and dropped at its await *)
(* whenever another branch is ready.  What it has read is then in the two  *)
(* buffers; a step is one read, from that await to the next one or to the  *)
(* return.  TCP may hand over any number of the bytes there are.           *)
(***************************************************************************)
EXTENDS PeerMessages

VARIABLES
    stream,        \* the bytes the peer sent that are not read yet
    length_buf,    \* length_buf[..length_buf_len]
    message_size,  \* message_buf.len()
    message_buf,   \* message_buf[..message_buf_len]
    received       \* the messages next() has returned

readerVars == <<stream, length_buf, message_size, message_buf, received>>

\* PeerMessageReader::new
ReaderInit ==
    length_buf = <<>> /\ message_size = 0 /\ message_buf = <<>> /\ received = <<>>

\* AsyncReadExt::read into the rest of a buffer: at least one byte of those
\* there are.  Without any it waits; at the end of the stream, or with no
\* rest, it returns zero bytes, which changes nothing.
Reads(n, rest) ==
    /\ n <= rest
    /\ n <= Len(stream)
    /\ stream' = SubSeq(stream, n + 1, Len(stream))
Read(n) == SubSeq(stream, 1, n)

\* A length of zero (keep-alive) leaves no message buffer: the next length
\* is read.
ReadLength(n) ==
    /\ message_size = 0
    /\ Reads(n, 4 - Len(length_buf))
    /\ LET length == length_buf \o Read(n)
       IN  IF Len(length) = 4
           THEN length_buf' = <<>> /\ message_size' = WordAt(length, 1)
           ELSE length_buf' = length /\ UNCHANGED message_size
    /\ UNCHANGED <<message_buf, received>>

ReadPart(n) ==
    /\ message_size # 0
    /\ Reads(n, message_size - Len(message_buf))
    /\ Len(message_buf) + n < message_size
    /\ message_buf' = message_buf \o Read(n)
    /\ UNCHANGED <<length_buf, message_size, received>>

\* The whole body is there.  If it does not parse, the `?' returns with both
\* buffers as they are: every later call reads nothing and fails again.
ReadMessage(n) ==
    /\ message_size # 0
    /\ Reads(n, message_size - Len(message_buf))
    /\ LET body == message_buf \o Read(n)
       IN  /\ Len(body) = message_size
           /\ IF Parses(body)
              THEN /\ received' = Append(received, FromBytes(body))
                   /\ message_buf' = <<>> /\ message_size' = 0
              ELSE message_buf' = body /\ UNCHANGED <<message_size, received>>
    /\ UNCHANGED length_buf

\* (mutant of DropNext) what was read lives in the future and dies with it.
DropNextAndBuffers ==
    /\ length_buf' = <<>> /\ message_size' = 0 /\ message_buf' = <<>>
    /\ UNCHANGED <<stream, received>>

\* Another branch of select! is taken: the future is dropped at its await.
DropNext == UNCHANGED readerVars
=============================================================================
