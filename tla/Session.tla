------------------------------ MODULE Session ------------------------------
(***************************************************************************)
(* A run of the client from its start to a crash, and the next one: the    *)
(* torrent file, the hash check of what is on disk, the first question to  *)
(* the tracker, then peers that are told of pieces and read blocks while   *)
(* pieces are completed, written and announced (main.rs, manager.rs,       *)
(* torrent.rs, peer.rs).  A crash ends the process at any step; only the   *)
(* files are left.  How blocks are downloaded is in Download, who may      *)
(* upload in Choking; a piece arrives here as a whole.                     *)
(***************************************************************************)
EXTENDS Integers, Sequences, FiniteSets, MetaInfo, PieceStore, Tracker

CONSTANTS
    Peer,
    TrackerPeer,   \* the peers the tracker may name; the others come in by themselves
    Requesting,    \* the peers that ask for blocks
    Requested,     \* what they may ask for: BlockInfos, of any range
    MAX_ALLOWED_BLOCK_SIZE,
    Breakable,     \* the peers whose connection may fail
    TorrentFiles,  \* the torrent files to start from
    Announce, MoreUrls,  \* the URLs of its announce and of its announce-list
    MaxCrashes     \* bound

ASSUME SessionAssumption ==
    /\ TrackerPeer \subseteq Peer
    /\ Reader = Peer \cup {"main"} /\ "main" \notin Peer
    /\ Requested \subseteq [index : Nat, begin : Nat, length : Nat]
    /\ {MAX_ALLOWED_BLOCK_SIZE, MaxCrashes} \subseteq Nat

\* The torrent ends at least one largest block below 2^Width.  Otherwise the end of
\* a range that begins in the torrent may wrap in get_file_sections.
ASSUME LargestAssumption ==
    FileEnd(Len(FileLength)) + MAX_ALLOWED_BLOCK_SIZE <= 2 ^ Width

VARIABLES
    torrentFile,  \* what torrents/testing.torrent holds
    main,         \* "loading", "checking", "contacting", "starting", "looping",
                  \* "accepting"; "deaf" without its select loop, "panicked", "exited"
    checked,      \* the pieces check_whole_hash is done with
    good,         \* and those that were right
    downloaded,   \* downloaded_pieces
    listed,       \* Torrent.peers
    accepted,     \* the peer of listener.accept() while it is not pushed yet
    conn,         \* of each peer: "absent", "started", "ready" (it has a mailbox),
                  \* "open", "mute" (its writer is dead), "gone"
    mail,         \* its PieceDownloaded messages; ClientMessage
    outbox,       \* its writer's channel; PeerWriterMessage
    told,         \* the pieces the remote side knows we have
    writing,      \* the piece a handler has completed, and how far it is
    crashes       \* so far (bound)

peerVars == <<listed, conn, mail, outbox, told>>
checkVars == <<torrentFile, checked, good, accepted, crashes>>
\* What only the main task changes.
startVars == <<checkVars, trackerVars>>
vars == <<startVars, main, downloaded, peerVars, writing, storeVars>>

SendBitfield == [type |-> "bitfield"]
SendHave(i) == [type |-> "have", piece |-> i]
SendBlock(b) == [type |-> "block", block |-> b]

NotWriting == [stage |-> "idle", piece |-> 0, due |-> <<>>, by |-> "nobody"]

\* What a process has before it reads anything.
Fresh(m, c, g, d, l, a, co, ma, o, t, w) ==
    /\ m = "loading" /\ c = 0 /\ g = {} /\ d = {} /\ l = {} /\ a = {} /\ w = NotWriting
    /\ co = [p \in Peer |-> "absent"] /\ ma = [p \in Peer |-> {}]
    /\ o = [p \in Peer |-> <<>>] /\ t = [p \in Peer |-> {}]

Init ==
    /\ Fresh(main, checked, good, downloaded, listed, accepted, conn, mail, outbox, told,
             writing)
    /\ torrentFile \in TorrentFiles /\ crashes = 0
    /\ StoreInit /\ TrackerInit

-----------------------------------------------------------------------------
(* Starting.                                                               *)

\* main and add_torrent_from_file: unwrap ends the process on a bad file.
Load ==
    /\ main = "loading"
    /\ main' = IF FromBencode(torrentFile) THEN "checking" ELSE "exited"
    /\ UNCHANGED <<startVars, downloaded, peerVars, writing, storeVars>>

\* check_piece_hash asks for a whole piece length, of the last piece too.
CheckPiece ==
    /\ main = "checking" /\ checked < NumPieces
    /\ StartRead("main", PieceStart(checked), PieceLength)
    /\ UNCHANGED <<startVars, main, downloaded, peerVars, writing, files, queue,
                   fm>>

\* (mutant of HashMatches) any piece of the right length will do.
LengthMatches(i, bytes) == Len(bytes) = PieceSize(i)

HashMatches(i, bytes) == bytes = PieceContent(i)

PieceChecked ==
    /\ main = "checking" /\ HasRead("main")
    /\ good' = IF HashMatches(checked, reading["main"].got)
               THEN good \cup {checked} ELSE good
    /\ checked' = checked + 1 /\ StopReading("main")
    /\ UNCHANGED <<torrentFile, main, downloaded, peerVars, writing, accepted, crashes,
                   files, queue, fm, trackerVars>>

\* The port may be taken by now: expect panics.
AllChecked ==
    /\ main = "checking" /\ checked = NumPieces
    /\ downloaded' = good
    /\ \/ main' = "contacting" /\ AskTrackers(<<Announce>> \o AnnounceList(torrentFile, MoreUrls))
       \/ main' = "panicked" /\ UNCHANGED trackerVars
    /\ UNCHANGED <<checkVars, peerVars, writing, storeVars>>

Contact ==
    /\ main = "contacting" /\ TrackerNext
    /\ UNCHANGED <<checkVars, main, downloaded, peerVars, writing, storeVars>>

\* The peers of the answer are started before they are in the list.
StartPeers ==
    /\ main = "contacting" /\ asking = "done"
    /\ main' = "starting"
    /\ conn' = IF answer.named
               THEN [p \in Peer |-> IF p \in TrackerPeer THEN "started" ELSE "absent"]
               ELSE conn
    /\ UNCHANGED <<startVars, downloaded, listed, mail, outbox, told, writing,
                   storeVars>>

\* time::interval panics on an interval of zero, and with it the select loop is
\* gone before it began; the peers are at work all the same.
Publish ==
    /\ main = "starting"
    /\ main' = IF answer.interval = "zero" THEN "deaf" ELSE "looping"
    /\ listed' = {p \in Peer : conn[p] # "absent"}
    /\ answer' = Junk
    /\ UNCHANGED <<checkVars, downloaded, conn, mail, outbox, told, writing,
                   urls, asking, transaction_id, net, lost, repeated, storeVars>>

\* The main task panics: no tracker answered, an assertion, the file manager.
MainPanics ==
    /\ \/ main = "contacting" /\ asking \in {"failed", "panicked"}
       \/ main = "checking" /\ ReadPanics("main")
    /\ main' = "panicked"
    /\ UNCHANGED <<startVars, downloaded, peerVars, writing, storeVars>>

-----------------------------------------------------------------------------
(* A peer: its mailbox, its handler and its writer.                        *)

\* listener.accept(): started first, then pushed; the lock of the peers is held
\* while a piece is announced, which is one step here.
AcceptPeer(p) ==
    /\ main = "looping" /\ p \notin TrackerPeer /\ conn[p] = "absent"
    /\ main' = "accepting" /\ conn' = [conn EXCEPT ![p] = "started"]
    /\ accepted' = {p}
    /\ UNCHANGED <<torrentFile, checked, good, crashes, trackerVars, downloaded,
                   listed, mail, outbox, told, writing, storeVars>>
PushPeer(p) ==
    /\ main = "accepting" /\ p \in accepted /\ accepted' = {}
    /\ main' = "looping" /\ listed' = listed \cup {p}
    /\ UNCHANGED <<torrentFile, checked, good, crashes, trackerVars, downloaded,
                   conn, mail, outbox, told, writing, storeVars>>

\* start_handler makes the mailbox, then the connection; the bitfield is queued
\* here and taken from downloaded_pieces only when the writer gets to it.
HandlerReady(p) ==
    /\ conn[p] = "started" /\ conn' = [conn EXCEPT ![p] = "ready"]
    /\ UNCHANGED <<startVars, main, downloaded, listed, mail, outbox, told,
                   writing, storeVars>>
Handshake(p) ==
    /\ conn[p] = "ready" /\ conn' = [conn EXCEPT ![p] = "open"]
    /\ outbox' = [outbox EXCEPT ![p] = <<SendBitfield>>]
    /\ UNCHANGED <<startVars, main, downloaded, listed, mail, told, writing,
                   storeVars>>

HandlerFree(p) == conn[p] \in {"open", "mute"} /\ writing.by # p

\* The connection fails, the handler finds its writer dead, or it is asked for more
\* than the largest block: disconnect_peer.
Disconnect(p) ==
    /\ \/ conn[p] = "ready" /\ p \in Breakable
       \/ HandlerFree(p) /\ (p \in Breakable \/ conn[p] = "mute")
       \/ /\ HandlerFree(p) /\ p \in Requesting
          /\ \E b \in Requested : b.length > MAX_ALLOWED_BLOCK_SIZE
    /\ conn' = [conn EXCEPT ![p] = "gone"] /\ listed' = listed \ {p}
    /\ mail' = [mail EXCEPT ![p] = {}] /\ outbox' = [outbox EXCEPT ![p] = <<>>]
    /\ UNCHANGED <<startVars, main, downloaded, told, writing, storeVars>>

TakeMail(p) ==
    /\ HandlerFree(p) /\ conn[p] = "open"
    /\ \E i \in mail[p] :
          /\ mail' = [mail EXCEPT ![p] = @ \ {i}]
          /\ outbox' = [outbox EXCEPT ![p] = Append(@, SendHave(i))]
    /\ UNCHANGED <<startVars, main, downloaded, listed, conn, told, writing,
                   storeVars>>

\* A remote side that is not choked (see Choking) asks for any range, of pieces it
\* was told of or not, in the torrent or beyond it; one at a time (bound).
RemoteRequest(p) ==
    /\ p \in Requesting /\ HandlerFree(p) /\ conn[p] = "open"
    /\ reading[p] = NotReading
    /\ \A k \in DOMAIN outbox[p] : outbox[p][k].type # "block"
    /\ \E b \in Requested :
          /\ b.length <= MAX_ALLOWED_BLOCK_SIZE
          /\ outbox' = [outbox EXCEPT ![p] = Append(@, SendBlock(b))]
    /\ UNCHANGED <<startVars, main, downloaded, listed, conn, mail, told,
                   writing, storeVars>>

\* The writer takes the next message; a block is read first.
WriterTells(p) ==
    /\ conn[p] = "open" /\ reading[p] = NotReading /\ outbox[p] # <<>>
    /\ \/ /\ Head(outbox[p]).type = "bitfield"
          /\ told' = [told EXCEPT ![p] = downloaded]
       \/ /\ Head(outbox[p]).type = "have"
          /\ told' = [told EXCEPT ![p] = @ \cup {Head(outbox[p]).piece}]
    /\ outbox' = [outbox EXCEPT ![p] = Tail(@)]
    /\ UNCHANGED <<startVars, main, downloaded, listed, conn, mail, writing,
                   storeVars>>
WriterReads(p) ==
    /\ conn[p] = "open" /\ outbox[p] # <<>>
    /\ Head(outbox[p]).type = "block"
    /\ LET b == Head(outbox[p]).block
       IN StartRead(p, Wrap(PieceStart(b.index) + b.begin), b.length)
    /\ outbox' = [outbox EXCEPT ![p] = Tail(@)]
    /\ UNCHANGED <<startVars, main, downloaded, listed, conn, mail, told,
                   writing, files, queue, fm>>
WriterSends(p) ==
    /\ HasRead(p) /\ Len(reading[p].got) = reading[p].length /\ StopReading(p)
    /\ UNCHANGED <<startVars, main, downloaded, peerVars, writing, files, queue,
                   fm>>

\* What a debug build panics on and another wraps.
Overflows(b) ==
    \/ b.index * PieceLength + b.begin >= 2 ^ Width
    \/ b.index * PieceLength + b.begin + b.length >= 2 ^ Width

\* The file manager is gone, fewer bytes were read than were asked for
\* (assert_eq!), or the range overflows.
WriterPanics(p) ==
    /\ \/ ReadPanics(p)
       \/ HasRead(p) /\ Len(reading[p].got) # reading[p].length
       \/ /\ conn[p] = "open" /\ reading[p] = NotReading /\ outbox[p] # <<>>
          /\ Head(outbox[p]).type = "block" /\ Overflows(Head(outbox[p]).block)
    /\ StopReading(p)
    /\ conn' = [conn EXCEPT ![p] = IF @ = "open" THEN "mute" ELSE @]
    /\ UNCHANGED <<startVars, main, downloaded, listed, mail, outbox, told,
                   writing, files, queue, fm>>

-----------------------------------------------------------------------------
(* A completed piece: written, marked, announced (try_choose_new_piece).   *)

\* (mutant of After) announced before it is marked.
AfterSwapped(stage) ==
    CASE stage = "write" -> "announce"
      [] stage = "announce" -> "mark"
      [] stage = "mark" -> "idle"

After(stage) ==
    CASE stage = "write" -> "mark"
      [] stage = "mark" -> "announce"
      [] stage = "announce" -> "idle"

\* writing, once the step of its stage is taken.
Advanced ==
    IF After(writing.stage) = "idle" THEN NotWriting
    ELSE [writing EXCEPT !.stage = After(@), !.due = <<>>]

\* The pieces are downloaded in order; the last block of one reaches handler p.
CompletePiece(p) ==
    /\ main \in {"looping", "accepting", "deaf"} /\ HandlerFree(p)
    /\ writing = NotWriting
    /\ \E i \in Piece \ downloaded :
          /\ 0 .. i - 1 \subseteq downloaded
          /\ writing' = [stage |-> "write", piece |-> i, by |-> p,
                         due |-> WritesOf(i, PieceContent(i))]
    /\ UNCHANGED <<startVars, main, downloaded, peerVars, storeVars>>
WriteSection ==
    /\ writing.stage = "write"
    /\ Enqueue(Head(writing.due))
    /\ writing' = IF Len(writing.due) = 1 THEN Advanced
                  ELSE [writing EXCEPT !.due = Tail(@)]
    /\ UNCHANGED <<startVars, main, downloaded, peerVars, files, fm, reading>>
\* expect panics: the handler is gone, and still listed.
WriteFails ==
    /\ writing.stage = "write" /\ fm = "down"
    /\ LET p == writing.by
       IN /\ conn' = [conn EXCEPT ![p] = "gone"]
          /\ mail' = [mail EXCEPT ![p] = {}] /\ outbox' = [outbox EXCEPT ![p] = <<>>]
    /\ writing' = NotWriting
    /\ UNCHANGED <<startVars, main, downloaded, listed, told, storeVars>>
Mark ==
    /\ writing.stage = "mark"
    /\ downloaded' = downloaded \cup {writing.piece}
    /\ writing' = Advanced
    /\ UNCHANGED <<startVars, main, peerVars, storeVars>>

HasMailbox(p) == conn[p] \in {"ready", "open", "mute"}

\* send_message to every listed peer; without a mailbox it is dropped.
AnnouncePiece ==
    /\ writing.stage = "announce"
    /\ mail' = [p \in Peer |-> IF p \in listed /\ HasMailbox(p)
                               THEN mail[p] \cup {writing.piece} ELSE mail[p]]
    /\ writing' = Advanced
    /\ UNCHANGED <<startVars, main, downloaded, listed, conn, outbox, told,
                   storeVars>>

-----------------------------------------------------------------------------
FileManager ==
    /\ DoWrite \/ DoRead \/ FileManagerFails \/ \E r \in Reader : SendRead(r)
    /\ UNCHANGED <<startVars, main, downloaded, peerVars, writing>>

\* The process is gone, and started again.
Crash ==
    /\ crashes < MaxCrashes /\ crashes' = crashes + 1
    /\ main # "loading"
    /\ Fresh(main', checked', good', downloaded', listed', accepted', conn', mail',
             outbox', told', writing')
    /\ StoreCrash
    /\ TrackerCrash
    /\ UNCHANGED torrentFile

\* The main task, as far as the answer of a tracker.
Starting ==
    \/ Load \/ CheckPiece \/ PieceChecked \/ AllChecked \/ Contact \/ StartPeers
    \/ Publish \/ MainPanics

Next ==
    \/ Starting
    \/ \E p \in Peer :
          \/ AcceptPeer(p) \/ PushPeer(p) \/ HandlerReady(p) \/ Handshake(p)
          \/ Disconnect(p) \/ TakeMail(p) \/ RemoteRequest(p) \/ WriterTells(p)
          \/ WriterReads(p) \/ WriterSends(p) \/ WriterPanics(p) \/ CompletePiece(p)
    \/ WriteSection \/ WriteFails \/ Mark \/ AnnouncePiece
    \/ FileManager \/ Crash

Spec == Init /\ [][Next]_vars

\* The main task is scheduled whenever it can go on.
FairSpec == Spec /\ WF_vars(Starting)

-----------------------------------------------------------------------------
TypeOK ==
    /\ main \in {"loading", "checking", "contacting", "starting", "looping",
                 "accepting", "deaf", "panicked", "exited"}
    /\ checked \in 0 .. NumPieces /\ good \cup downloaded \subseteq Piece
    /\ listed \subseteq Peer /\ accepted \subseteq Peer
    /\ conn \in [Peer -> {"absent", "started", "ready", "open", "mute", "gone"}]
    /\ mail \in [Peer -> SUBSET Piece] /\ told \in [Peer -> SUBSET Piece]
    /\ \A p \in Peer : ToSet(outbox[p]) \subseteq
           {SendBitfield} \cup {SendHave(i) : i \in Piece}
                \cup {SendBlock(b) : b \in Requested}
    /\ writing.stage \in {"idle", "write", "mark", "announce"}
    /\ \A k \in File : files[k] \in [0 .. FileLength[k] - 1 -> Nat \cup {Zero}]
    /\ fm \in {"up", "down"} /\ Len(queue) <= Capacity
    /\ answer \in Response

\* What is read for a peer is within the pieces it was told of.
AsksWithin(p) ==
    reading[p].offset .. reading[p].offset + reading[p].length - 1 \subseteq
        UNION {PieceStart(i) .. PieceStart(i) + PieceSize(i) - 1 : i \in told[p]}

\* A peer that asks within the pieces it was told of gets their bytes, all of
\* them (peer.rs:515), even when they were written a moment ago and span files
\* (torrent.rs:644); one that asks for anything else is promised nothing.
ServedIsGood ==
    \A p \in Peer : AsksWithin(p) =>
        LET right == Content(reading[p].offset, reading[p].length)
        IN /\ IsPrefix(reading[p].got, right)
           /\ HasRead(p) => reading[p].got = right

\* A piece is marked as downloaded while its bytes are still in the channel: as
\* long as the file manager lives they all get to the files (file_manager.rs:43).
KeptIsOnItsWay == fm = "up" => downloaded \subseteq Whole(Settled)

\* Over crashes and restarts the pieces that count are those that are whole on
\* disk, whatever was queued, half written or marked when the process died.
Safe == INSTANCE Archive WITH kept <- downloaded, safe <- Whole(files)
ArchiveSpec == Safe!Spec

\* peer.rs:503: the bitfield is taken when it is sent and a Have is queued when a
\* piece is done; no piece falls between the two for a peer the tracker named.
EachPieceTold ==
    \A p \in TrackerPeer :
        conn[p] = "open" /\ SendBitfield \notin ToSet(outbox[p]) =>
            \A i \in downloaded :
                \/ i \in told[p] \cup mail[p] \/ SendHave(i) \in ToSet(outbox[p])
                \/ writing.stage = "announce" /\ writing.piece = i

\* torrent.rs:887, "should retry": unless an answer is lost, the first question to
\* the trackers comes to an end, an answer, an error or a panic.
Answered == main = "contacting" ~> main # "contacting" \/ lost > 0
=============================================================================
