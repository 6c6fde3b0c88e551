----------------------------- MODULE Connection -----------------------------
(***************************************************************************)
(* The select! loop of a peer's handler (peer.rs) as far as it concerns    *)
(* the connection alone: messages read by PeerMessageReader::next, what    *)
(* PeerInfo counts of them, and the tick that interrupts the reading.  The *)
(* other end is a client like this one, or one that also knows keep-alives *)
(* and messages this one does not; it is unchoked and requests blocks.     *)
(***************************************************************************)
EXTENDS MessageReader, PeerStats

CONSTANTS
    Message,                \* the messages of this program the peer may send
    Wanted,                 \* BlockInfo of the blocks requested from it
    MAX_ALLOWED_BLOCK_SIZE, \* constants.rs
    MaxSent,                \* bound: frames the peer sends
    MaxLost,                \* bound: last bytes that never arrive
    MaxTicks                \* bound: seconds

ASSUME ConnectionAssumption ==
    /\ Message \subseteq PeerMessage
    /\ {MAX_ALLOWED_BLOCK_SIZE, MaxSent, MaxLost, MaxTicks} \subseteq Nat

\* Frames of other clients: a keep-alive and a message with an id beyond 8.
KeepAlive == [type |-> "KeepAlive"]
Unknown == [type |-> "Unknown"]
FrameOf(m) ==
    IF m = KeepAlive THEN Word(0)
    ELSE IF m = Unknown THEN Framed(<<20, 0>>) ELSE AsBytes(m)
Frame == Message \cup {KeepAlive, Unknown}
Bytes(frames) == FoldLeft(LAMBDA bytes, m : bytes \o FrameOf(m), <<>>, frames)

VARIABLES
    sent,              \* what the peer's writer is told to send, in order
    lost,              \* how many of the last bytes never arrive
    requested_blocks,  \* PeerInfo.requested_blocks
    stats,             \* the counters of PeerInfo
    accepted,          \* lengths of the blocks accepted in each second, last first
    overflow_checks,   \* whether the build has them: debug has, release has not
    handler            \* "running", "returned" or "panicked"

vars == <<stream, length_buf, message_size, message_buf, received, sent, lost,
          requested_blocks, stats, accepted, overflow_checks, handler>>

Init ==
    /\ sent \in SeqOf(Frame, MaxSent)
    /\ lost \in 0 .. MaxLost
    /\ lost <= Len(Bytes(sent))
    /\ stream = SubSeq(Bytes(sent), 1, Len(Bytes(sent)) - lost)
    /\ ReaderInit
    /\ requested_blocks = Wanted
    /\ stats = NewStats
    /\ accepted = <<0>>
    /\ overflow_checks \in BOOLEAN
    /\ handler = "running"

BlockInfo(m) == [index |-> m.index, begin |-> m.begin, length |-> Len(m.bytes)]

\* The branch of a message for the counters; Download and Choking have the rest.
Ignore ==
    UNCHANGED <<requested_blocks, stats, accepted, handler>>
HandlePiece(m) ==
    LET info == BlockInfo(m)
    IN  IF info \notin requested_blocks THEN Ignore
        ELSE /\ requested_blocks' = requested_blocks \ {info}
             /\ accepted' = [accepted EXCEPT ![1] = @ + info.length]
             /\ IF overflow_checks /\ ChunkPanics(stats.down, info.length)
                THEN handler' = "panicked" /\ UNCHANGED stats
                ELSE /\ stats' = DownloadedChunk(stats, info.length)
                     /\ UNCHANGED handler
HandleRequest(m) ==
    /\ UNCHANGED <<requested_blocks, accepted>>
    /\ IF m.length > MAX_ALLOWED_BLOCK_SIZE
       THEN handler' = "returned" /\ UNCHANGED stats
       ELSE IF overflow_checks /\ ChunkPanics(stats.up, m.length)
       THEN handler' = "panicked" /\ UNCHANGED stats
       ELSE stats' = UploadedChunk(stats, m.length) /\ UNCHANGED handler

Handle(m) ==
    CASE m.type = "Piece" -> HandlePiece(m)
      [] m.type = "Request" -> HandleRequest(m)
      [] OTHER -> Ignore

\* peer_message_reader.next() is polled and reads; what it returns is handled.
\* Err does not match Ok(..), so the loop goes on with the other branches.
Receive(n) ==
    /\ handler = "running"
    /\ ReadLength(n) \/ ReadPart(n) \/ ReadMessage(n)
    /\ IF received' # received THEN Handle(Last(received')) ELSE Ignore
    /\ UNCHANGED <<sent, lost, overflow_checks>>

\* one_sec_interval.tick()
Second ==
    /\ handler = "running" /\ Len(accepted) <= MaxTicks
    /\ DropNext
    /\ accepted' = <<0>> \o accepted
    /\ IF overflow_checks /\ TickPanics(stats)
       THEN handler' = "panicked" /\ UNCHANGED stats
       ELSE stats' = Tick(stats) /\ UNCHANGED handler
    /\ UNCHANGED <<sent, lost, requested_blocks, overflow_checks>>

Next == Second \/ \E n \in 1 .. Len(stream) : Receive(n)

Spec == Init /\ [][Next]_vars
FairSpec == Spec /\ WF_vars(\E n \in 1 .. Len(stream) : Receive(n))

-----------------------------------------------------------------------------
(* Properties.                                                             *)

\* What the peer's messages are for this client: keep-alives are none, and a
\* bitfield comes in whole bytes.
Meaning(m) ==
    IF m.type = "Bitfield"
    THEN [type |-> "Bitfield", bits |-> [k \in 1 .. 8 * ((Len(m.bits) + 7) \div 8) |->
                                            k <= Len(m.bits) /\ m.bits[k]]]
    ELSE m
Told(frames) ==
    FoldLeft(LAMBDA told, m : IF m = KeepAlive THEN told ELSE Append(told, Meaning(m)),
             <<>>, frames)
\* None of the first k frames is unknown, and they have arrived whole.
Known(k) == \A i \in 1 .. k : sent[i] # Unknown
Come(k) == Known(k) /\ Len(Bytes(SubSeq(sent, 1, k))) + lost <= Len(Bytes(sent))
Heard == Told(SubSeq(sent, 1, CHOOSE k \in 0 .. Len(sent) :
                                  Come(k) /\ (k < Len(sent) => ~ Come(k + 1))))

\* The variables have their types.
TypeOK ==
    /\ {stream, length_buf, message_buf} \subseteq Seq(Byte)
    /\ Len(length_buf) < 4 /\ message_size \in U32 /\ Len(message_buf) <= message_size
    /\ received \in Seq(PeerMessage) /\ requested_blocks \subseteq Wanted
    /\ stats.down.total \in 0 .. 2^Width - 1 /\ stats.up.total \in 0 .. 2^Width - 1
    /\ Len(stats.down.rolling) \in 1 .. ROLLING_AVERAGE_SIZE
    /\ stats.queue_size \in Nat \ {0}
    /\ handler \in {"running", "returned", "panicked"}

\* Whatever sizes the reads have and wherever the tick cuts them off, next()
\* returns the messages the peer sent, whole, once and in order, up to the first
\* that does not parse (peer.rs:49).
InOrder == \E k \in 0 .. Len(sent) : Known(k) /\ received = Told(SubSeq(sent, 1, k))

\* next() keeps nothing back: when there is nothing left to read, or nothing more
\* is read behind a message that does not parse, all that arrived whole is handled,
\* however often next() was dropped on the way (peer.rs:44).
Drained == stream = <<>> \/ (message_size # 0 /\ Len(message_buf) = message_size)
NothingMissed == Drained => received = Heard

\* ... and it comes to that as long as the handler runs (peer.rs:661).
AllHeard == <>((Drained /\ received = Heard) \/ handler # "running")

\* The window holds exactly what was accepted in the last seconds, also when
\* the u32 total has wrapped in between (peer_info.rs:150).
WindowIsRecent ==
    handler = "running" =>
        Wrap(SumOf(stats.down.rolling)) =
        Wrap(SumOf(SubSeq(accepted, 2, Min({Len(accepted), ROLLING_AVERAGE_SIZE + 1}))))
=============================================================================
