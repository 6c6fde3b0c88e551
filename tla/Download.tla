------------------------------ MODULE Download ------------------------------
(***************************************************************************)
(* The download of a torrent: how the blocks of the piece being downloaded *)
(* are handed to the peers' handlers, received, timed out, handed out      *)
(* again, assembled and verified (torrent.rs, peer.rs, peer_info.rs).      *)
(*                                                                         *)
(* Concurrent tasks: the main task of start_downloading, one handler per   *)
(* peer, one writer per peer, one timer per block request.  A step of the  *)
(* model is what a task does between two points at which another task can  *)
(* see or change what it works on; the mutex guards a task keeps from one  *)
(* step to the next are read off `handler' (HoldsPeerInfo, QueueFree).     *)
(* A Vec<BlockInfo> is a bag, [Block -> Nat]: its order decides nothing    *)
(* that is stated here, how often a block occurs in it does.               *)
(***************************************************************************)
EXTENDS Integers, FiniteSets, Functions

CONSTANTS
    Peer,         \* the remote addresses, each the subject of one Peer object
    TrackerPeer,  \* those named by the first tracker response
    NumPieces,    \* metainfo.pieces.len()
    BlockCount,   \* BlockCount[i]: the number of blocks of piece i
    Bitfield,     \* the piece sets a peer may announce in a bitfield message
    Breakable,    \* the peers whose connection may stop accepting writes
    Unsteady,     \* bound: those that may make a handler end
    Fickle,       \* bound: those that may choke us again
    TickSize,     \* the sizes the download rate may give queue_size
    MaxQueue,     \* bound: queue_size is not told apart above it
    MaxCorrupt,   \* bound: corrupt blocks delivered in a behaviour
    MaxAlerts     \* bound: timers about to alert the peers at one time

Piece == 0 .. NumPieces - 1
None == -1

BlocksOf(i) == [index : {i}, begin : 0 .. BlockCount[i] - 1]
Block == UNION {BlocksOf(i) : i \in Piece}

ASSUME DownloadAssumption ==
    /\ NumPieces \in Nat \ {0}
    /\ BlockCount \in [Piece -> Nat \ {0}]
    /\ TrackerPeer \subseteq Peer
    /\ Breakable \subseteq Peer
    /\ Unsteady \subseteq Peer
    /\ Bitfield \subseteq SUBSET Piece
    /\ MaxQueue \in Nat /\ MaxQueue >= 2
    /\ TickSize \subseteq 1 .. MaxQueue
    /\ MaxCorrupt \in Nat
    /\ MaxAlerts \in Nat \ {0}

VARIABLES
    main,                     \* where start_downloading is
    arriving,                 \* the accepted peer whose Peer is not pushed yet
    peers,                    \* Torrent.peers
    handler,                  \* where each Peer's start_handler is
    writer,                   \* whether the Peer's writer task still receives
    mail,                     \* ClientMessages sent to the handler
    peer_choking,             \* PeerInfo.peer_choking
    am_interested,            \* PeerInfo.am_interested
    piece_availability,       \* PeerInfo.piece_availability, as a set
    queue_size,               \* PeerInfo.queue_size
    requested_blocks,         \* PeerInfo.requested_blocks
    hand,                     \* the block a handler took and has not stored
    timers,                   \* request timeouts that have not fired
    alerts,                   \* timers about to alert_peers_updated_job_queue
    blocks_to_download,       \* Torrent.blocks_to_download
    downloading_piece_index,  \* Torrent.downloading_piece_index
    downloading_piece,        \* Torrent.downloading_piece
    downloaded_pieces,        \* Torrent.downloaded_pieces, as a set
    corrupt                   \* corrupt blocks delivered so far (bound)

mainVars    == <<main, arriving>>
infoVars    == <<peer_choking, am_interested, piece_availability>>
requestVars == <<queue_size, requested_blocks, timers>>
pieceVars   == <<downloading_piece_index, downloading_piece, downloaded_pieces>>

vars == <<main, arriving, peers, handler, writer, mail, peer_choking,
          am_interested, piece_availability, queue_size, requested_blocks,
          hand, timers, alerts, blocks_to_download, downloading_piece_index,
          downloading_piece, downloaded_pieces, corrupt>>

HandlerState == {"absent", "spawned", "connecting", "idle", "store", "choose", "update",
                 "spinning", "leaving", "gone", "panicked"}
UpdatedJobQueue == [type |-> "UpdatedJobQueue"]
PieceDownloaded(i) == [type |-> "PieceDownloaded", index |-> i]
ClientMessage == {UpdatedJobQueue} \cup {PieceDownloaded(i) : i \in Piece}
SlotVector == UNION {[0 .. n - 1 -> {"none", "good", "bad"}] :
                        n \in {0} \cup {BlockCount[i] : i \in Piece}}
Received == [info : Block, good : BOOLEAN]

-----------------------------------------------------------------------------
(* Locks and helpers.                                                      *)

\* The handler keeps the guard of its peer_info from one step to the next.
HoldsPeerInfo(p) == handler[p] \in {"store", "choose", "spinning"}

\* Nobody is stuck in try_get_new_jobs, with the guard of blocks_to_download.
QueueFree == \A p \in Peer : handler[p] # "spinning"

\* peer_sender is Some(tx) and its receiver is not dropped.
HasReceiver(p) ==
    handler[p] \notin {"absent", "spawned", "leaving", "gone", "panicked"}

\* send_message to every listed peer: nothing happens without a receiver.  The
\* mailbox is a set: only that a message is still to be handled matters here.
SendAll(to, messages) ==
    [p \in Peer |-> IF p \in to /\ HasReceiver(p)
                    THEN mail[p] \cup messages ELSE mail[p]]

\* position(|x| *x == false): the first piece not yet downloaded.
Missing(done) == Piece \ done
IsFirstMissing(i, done) ==
    i \in Missing(done) /\ \A j \in Missing(done) : i <= j

NoBlocks == [b \in Block |-> 0]
Put(bag, set) == [b \in Block |-> bag[b] + IF b \in set THEN 1 ELSE 0]
Drop(bag, set) == [b \in Block |-> bag[b] - IF b \in set THEN 1 ELSE 0]

\* A Vec<Option<Block>> of n elements, all None.
EmptySlots(n) == [k \in 0 .. n - 1 |-> "none"]

\* (mutant of IsComplete) any() in place of all().
IsCompleteAny ==
    /\ downloading_piece_index # None
    /\ \E k \in DOMAIN downloading_piece : downloading_piece[k] # "none"

\* downloading_piece.iter().all(|x| x.is_some()) && the index is Some.
IsComplete ==
    /\ downloading_piece_index # None
    /\ \A k \in DOMAIN downloading_piece : downloading_piece[k] # "none"

HashMatches == \A k \in DOMAIN downloading_piece : downloading_piece[k] = "good"

Goto(p, state) == handler' = [handler EXCEPT ![p] = state]

-----------------------------------------------------------------------------
Init ==
    /\ main = "publish"
    /\ arriving = {}
    /\ peers = {}
    /\ handler = [p \in Peer |-> IF p \in TrackerPeer THEN "spawned" ELSE "absent"]
    /\ writer = [p \in Peer |-> TRUE]
    /\ mail = [p \in Peer |-> {}]
    /\ peer_choking = [p \in Peer |-> TRUE]
    /\ am_interested = [p \in Peer |-> FALSE]
    /\ piece_availability = [p \in Peer |-> {}]
    /\ queue_size = [p \in Peer |-> 2]
    /\ requested_blocks = [p \in Peer |-> NoBlocks]
    /\ hand = [p \in Peer |-> {}]
    /\ timers = [p \in Peer |-> NoBlocks]
    /\ alerts = 0
    /\ blocks_to_download = NoBlocks
    /\ downloading_piece_index = None
    /\ downloading_piece = EmptySlots(0)
    /\ downloaded_pieces \in SUBSET Piece   \* what check_whole_hash found
    /\ corrupt = 0

-----------------------------------------------------------------------------
(* The main task.                                                          *)

\* The peers of the tracker response are started before they are listed.
PublishPeers ==
    /\ main = "publish"
    /\ main' = "choose"
    /\ peers' = TrackerPeer
    /\ UNCHANGED <<arriving, handler, writer, mail, infoVars, requestVars, hand,
                   alerts, blocks_to_download, pieceVars, corrupt>>

\* The new piece's blocks go to the queue and it becomes the current piece.
StartPiece(i) ==
    /\ downloading_piece' = EmptySlots(BlockCount[i])
    /\ downloading_piece_index' = i
    /\ blocks_to_download' = Put(blocks_to_download, BlocksOf(i))

\* (mutant of StartFirstMissing) position() over the wrong flag.
StartFirstDownloaded(done) ==
    \E i \in Piece : IsFirstMissing(i, Piece \ done) /\ StartPiece(i)

StartFirstMissing(done) == \E i \in Piece : IsFirstMissing(i, done) /\ StartPiece(i)

ChooseFirstPiece ==
    /\ main = "choose"
    /\ QueueFree
    /\ main' = "alert"
    /\ IF Missing(downloaded_pieces) = {}
       THEN UNCHANGED <<blocks_to_download, downloading_piece_index, downloading_piece>>
       ELSE StartFirstMissing(downloaded_pieces)
    /\ UNCHANGED <<arriving, peers, handler, writer, mail, infoVars, requestVars,
                   hand, alerts, downloaded_pieces, corrupt>>

FirstAlert ==
    /\ main = "alert"
    /\ main' = "loop"
    /\ mail' = SendAll(peers, {UpdatedJobQueue})
    /\ UNCHANGED <<arriving, peers, handler, writer, infoVars, requestVars, hand,
                   alerts, blocks_to_download, pieceVars, corrupt>>

\* listener.accept(): the new Peer is started, then pushed under the peers lock.
AcceptPeer(p) ==
    /\ main = "loop" /\ arriving = {}
    /\ handler[p] = "absent"
    /\ arriving' = {p}
    /\ Goto(p, "spawned")
    /\ UNCHANGED <<main, peers, writer, mail, infoVars, requestVars, hand,
                   alerts, blocks_to_download, pieceVars, corrupt>>

PushPeer(p) ==
    /\ p \in arriving
    /\ arriving' = {}
    /\ peers' = peers \cup {p}
    /\ UNCHANGED <<main, handler, writer, mail, infoVars, requestVars, hand,
                   alerts, blocks_to_download, pieceVars, corrupt>>

-----------------------------------------------------------------------------
(* A peer's connection: its handler, and the writer task that serves it.   *)

\* The spawned task runs: peer_sender is set, the connection is attempted.
StartHandler(p) ==
    /\ handler[p] = "spawned"
    /\ Goto(p, "connecting")
    /\ UNCHANGED <<mainVars, peers, writer, mail, infoVars, requestVars, hand,
                   alerts, blocks_to_download, pieceVars, corrupt>>

\* start_connection returns: the handshakes are done, or one failed or timed out.
Connect(p) ==
    /\ handler[p] = "connecting"
    /\ Goto(p, "idle") \/ (p \in Unsteady /\ Goto(p, "leaving"))
    /\ UNCHANGED <<mainVars, peers, writer, mail, infoVars, requestVars, hand,
                   alerts, blocks_to_download, pieceVars, corrupt>>

\* write_all fails: the writer task ends and its receiver is dropped.
WriterFails(p) ==
    /\ p \in Breakable
    /\ writer[p]
    /\ handler[p] \notin {"absent", "spawned", "connecting"}
    /\ writer' = [writer EXCEPT ![p] = FALSE]
    /\ UNCHANGED <<mainVars, peers, handler, mail, infoVars, requestVars, hand,
                   alerts, blocks_to_download, pieceVars, corrupt>>

\* A send of the handler that concerns no block (a choke, an unchoke, a block
\* to upload) finds the writer gone.
SendFails(p) ==
    /\ handler[p] = "idle"
    /\ ~writer[p]
    /\ Goto(p, "leaving")
    /\ UNCHANGED <<mainVars, peers, writer, mail, infoVars, requestVars, hand,
                   alerts, blocks_to_download, pieceVars, corrupt>>

\* start_handler has returned; its receiver and its messages are dropped.
DisconnectPeer(p) ==
    /\ handler[p] = "leaving"
    /\ Goto(p, "gone")
    /\ peers' = peers \ {p}
    /\ mail' = [mail EXCEPT ![p] = {}]
    /\ UNCHANGED <<mainVars, writer, infoVars, requestVars, hand, alerts,
                   blocks_to_download, pieceVars, corrupt>>

-----------------------------------------------------------------------------
(* The messages a handler receives.                                        *)

\* As written: a piece that both sides have makes the peer interesting.
IsInterested(p, available) == downloaded_pieces \cap available # {}

\* check_if_interested: a change is sent and followed by a look at the queue.
CheckIfInterested(p, available) ==
    LET interested == IsInterested(p, available)
    IN  /\ am_interested' = [am_interested EXCEPT ![p] = interested]
        /\ Goto(p, IF interested = am_interested[p] THEN "idle"
                   ELSE IF writer[p] THEN "update" ELSE "leaving")

HandleUpdatedJobQueue(p) ==
    /\ handler[p] = "idle"
    /\ UpdatedJobQueue \in mail[p]
    /\ mail' = [mail EXCEPT ![p] = @ \ {UpdatedJobQueue}]
    /\ Goto(p, "update")
    /\ UNCHANGED <<mainVars, peers, writer, infoVars, requestVars, hand, alerts,
                   blocks_to_download, pieceVars, corrupt>>

\* HAVE is sent first; the handler returns when that fails.
HandlePieceDownloaded(p) ==
    /\ handler[p] = "idle"
    /\ \E i \in Piece :
          /\ PieceDownloaded(i) \in mail[p]
          /\ mail' = [mail EXCEPT ![p] = @ \ {PieceDownloaded(i)}]
    /\ IF writer[p] THEN CheckIfInterested(p, piece_availability[p])
       ELSE Goto(p, "leaving") /\ UNCHANGED am_interested
    /\ UNCHANGED <<mainVars, peers, writer, peer_choking, piece_availability,
                   requestVars, hand, alerts, blocks_to_download, pieceVars, corrupt>>

\* Choke and Unchoke: requests already made are left as they are.
PeerChokes(p, choking) ==
    /\ handler[p] = "idle"
    /\ choking => p \in Fickle
    /\ peer_choking' = [peer_choking EXCEPT ![p] = choking]
    /\ Goto(p, "update")
    /\ UNCHANGED <<mainVars, peers, writer, mail, am_interested, piece_availability,
                   requestVars, hand, alerts, blocks_to_download, pieceVars, corrupt>>

PeerAnnounces(p, available) ==
    /\ handler[p] = "idle"
    /\ piece_availability' = [piece_availability EXCEPT ![p] = available]
    /\ CheckIfInterested(p, available)
    /\ UNCHANGED <<mainVars, peers, writer, mail, peer_choking, requestVars, hand,
                   alerts, blocks_to_download, pieceVars, corrupt>>

PeerHave(p) ==
    \E i \in UNION Bitfield : PeerAnnounces(p, piece_availability[p] \cup {i})

PeerBitfield(p) == \E available \in Bitfield : PeerAnnounces(p, available)

\* HAVE of an index out of range: the handler returns an error.
PeerBadHave(p) ==
    /\ p \in Unsteady
    /\ handler[p] = "idle"
    /\ Goto(p, "leaving")
    /\ UNCHANGED <<mainVars, peers, writer, mail, infoVars, requestVars, hand,
                   alerts, blocks_to_download, pieceVars, corrupt>>

\* A bitfield with fewer bits than pieces: the slice panics, and the handler's
\* task ends without disconnect_peer.
PeerShortBitfield(p) ==
    /\ p \in Unsteady
    /\ handler[p] = "idle"
    /\ Goto(p, "panicked")
    /\ mail' = [mail EXCEPT ![p] = {}]
    /\ UNCHANGED <<mainVars, peers, writer, infoVars, requestVars, hand, alerts,
                   blocks_to_download, pieceVars, corrupt>>

\* An equal BlockInfo is among the peer's requested_blocks.
IsRequested(p, b) == requested_blocks[p][b] > 0

\* Only a requested block is accepted; any other is dropped without effect.
\* The handler keeps the guard of peer_info until the block is dealt with.
PeerPiece(p, b, good) ==
    /\ handler[p] = "idle"
    /\ IsRequested(p, b)
    /\ good \/ corrupt < MaxCorrupt
    /\ corrupt' = IF good THEN corrupt ELSE corrupt + 1
    /\ requested_blocks' = [requested_blocks EXCEPT ![p] = Drop(@, {b})]
    /\ queue_size' = [queue_size EXCEPT ![p] = IF @ < MaxQueue THEN @ + 1 ELSE @]
    /\ hand' = [hand EXCEPT ![p] = {[info |-> b, good |-> good]}]
    /\ Goto(p, "store")
    /\ UNCHANGED <<mainVars, peers, writer, mail, infoVars, timers, alerts,
                   blocks_to_download, pieceVars>>

\* PeerInfo::tick: in slow start nothing changes, afterwards the size follows
\* the download rate and is at least 1.
Tick(p) ==
    /\ handler[p] = "idle"
    /\ \E size \in TickSize : queue_size' = [queue_size EXCEPT ![p] = size]
    /\ UNCHANGED <<mainVars, peers, handler, writer, mail, infoVars, requested_blocks,
                   timers, hand, alerts, blocks_to_download, pieceVars, corrupt>>

-----------------------------------------------------------------------------
(* block_downloaded: the slot is filled under one guard of downloading_piece *)
(* and the piece examined under the next.                                    *)

StoreBlock(p) ==
    /\ handler[p] = "store"
    /\ \E block \in hand[p] :
          downloading_piece' = [downloading_piece EXCEPT
              ![block.info.begin] = IF block.good THEN "good" ELSE "bad"]
    /\ hand' = [hand EXCEPT ![p] = {}]
    /\ Goto(p, "choose")
    /\ UNCHANGED <<mainVars, peers, writer, mail, infoVars, requestVars, alerts,
                   blocks_to_download, downloading_piece_index, downloaded_pieces, corrupt>>

\* try_choose_new_piece, and the guard of peer_info is dropped.  The locks of
\* the piece and of the queue are kept from the first line to the last.
PieceIncomplete(p) ==
    /\ ~IsComplete
    /\ UNCHANGED <<mail, blocks_to_download, downloading_piece_index,
                   downloading_piece, downloaded_pieces>>

\* The hash differs: all blocks go back to the queue.  Nobody is alerted.
PieceBad(p) ==
    /\ IsComplete /\ ~HashMatches
    /\ QueueFree
    /\ downloading_piece' = EmptySlots(BlockCount[downloading_piece_index])
    /\ blocks_to_download' = Put(blocks_to_download, BlocksOf(downloading_piece_index))
    /\ UNCHANGED <<mail, downloading_piece_index, downloaded_pieces>>

\* The hash matches: the piece is written and announced, the next one is chosen.
PieceGood(p) ==
    LET i == downloading_piece_index
        done == downloaded_pieces \cup {i}
    IN  /\ IsComplete /\ HashMatches
        /\ QueueFree
        /\ downloaded_pieces' = done
        /\ mail' = SendAll(peers, {PieceDownloaded(i), UpdatedJobQueue})
        /\ IF Missing(done) = {}
           THEN /\ downloading_piece_index' = None
                /\ UNCHANGED <<downloading_piece, blocks_to_download>>
           ELSE StartFirstMissing(done)

TryChooseNewPiece(p) ==
    /\ handler[p] = "choose"
    /\ PieceIncomplete(p) \/ PieceBad(p) \/ PieceGood(p)
    /\ Goto(p, "update")
    /\ UNCHANGED <<mainVars, peers, writer, infoVars, requestVars, hand, alerts, corrupt>>

-----------------------------------------------------------------------------
(* try_update_job_queue and the request timers.                            *)

Room(p) == queue_size[p] - SumFunction(requested_blocks[p])
Queued == {b \in Block : blocks_to_download[b] > 0}
Usable(p) == {b \in Queued : b.index \in piece_availability[p]}

\* try_get_new_jobs returns None.
NoJobs(p) == Room(p) <= 0 \/ peer_choking[p] \/ Queued = {}

\* The while loop is left once there is no room or nothing is queued; with room
\* left and only blocks queued that the peer does not have it turns for ever.
LoopEnds(p) == Cardinality(Usable(p)) >= Room(p) \/ Usable(p) = Queued

\* The blocks the loop moves to requested_blocks.
IsTaken(p, jobs) ==
    /\ jobs \subseteq Usable(p)
    /\ Cardinality(jobs) = IF Cardinality(Usable(p)) >= Room(p)
                           THEN Room(p) ELSE Cardinality(Usable(p))

\* (mutant of MoveJobs) the jobs are cloned, not removed.
CloneJobs(p, jobs) ==
    /\ UNCHANGED blocks_to_download
    /\ requested_blocks' = [requested_blocks EXCEPT ![p] = Put(@, jobs)]

MoveJobs(p, jobs) ==
    /\ blocks_to_download' = Drop(blocks_to_download, jobs)
    /\ requested_blocks' = [requested_blocks EXCEPT ![p] = Put(@, jobs)]

\* (mutant of CreateTimeouts) one timer for the batch, after the loop.
CreateOneTimeout(p, sent) ==
    timers' = [timers EXCEPT ![p] = IF sent = {} THEN @
                                    ELSE Put(@, {CHOOSE b \in sent : TRUE})]

\* (mutant of CreateTimeouts) the async block is built but never spawned.
BuildTimeouts(p, sent) == UNCHANGED timers

\* One task per job that sleeps for seven seconds.
CreateTimeouts(p, sent) == timers' = [timers EXCEPT ![p] = Put(@, sent)]

\* Each job is sent to the writer and gets its timer after that; a send that
\* fails ends the handler, and the remaining jobs get none.
SendJobs(p, jobs, sent) ==
    /\ CreateTimeouts(p, sent)
    /\ \/ /\ writer[p] /\ sent = jobs
          /\ Goto(p, "idle")
          /\ UNCHANGED writer
       \/ /\ sent # jobs
          /\ writer[p] => p \in Breakable
          /\ ~writer[p] => sent = {}
          /\ Goto(p, "leaving")
          /\ writer' = [writer EXCEPT ![p] = FALSE]

UpdateJobQueue(p) ==
    /\ handler[p] = "update"
    /\ QueueFree
    /\ \/ /\ NoJobs(p)
          /\ Goto(p, "idle")
          /\ UNCHANGED <<writer, timers, requested_blocks, blocks_to_download>>
       \/ /\ ~NoJobs(p) /\ LoopEnds(p)
          /\ \E jobs \in SUBSET Usable(p) : \E sent \in SUBSET jobs :
                IsTaken(p, jobs) /\ MoveJobs(p, jobs) /\ SendJobs(p, jobs, sent)
       \/ /\ ~NoJobs(p) /\ ~LoopEnds(p)
          /\ \E jobs \in SUBSET Usable(p) : IsTaken(p, jobs) /\ MoveJobs(p, jobs)
          /\ Goto(p, "spinning")
          /\ UNCHANGED <<writer, timers>>
    /\ UNCHANGED <<mainVars, peers, mail, infoVars, queue_size, hand, alerts,
                   pieceVars, corrupt>>

\* (mutant of TryRemoveJob) remove() without the check of position().
RemoveJobUnchecked(p, b) ==
    /\ requested_blocks' = [requested_blocks EXCEPT ![p][b] = @ - 1]
    /\ blocks_to_download' = Put(blocks_to_download, {b})
    /\ alerts' = alerts + 1

\* (mutant of TryRemoveJob) the push has slipped out of the if.
PushJobAnyway(p, b) ==
    /\ requested_blocks' = [requested_blocks EXCEPT ![p][b] = 0]
    /\ blocks_to_download' = Put(blocks_to_download, {b})
    /\ alerts' = alerts + 1

\* (mutant of TryRemoveJob) the caller does not alert the peers.
RemoveJobSilently(p, b) ==
    IF requested_blocks[p][b] > 0
    THEN /\ requested_blocks' = [requested_blocks EXCEPT ![p] = Drop(@, {b})]
         /\ blocks_to_download' = Put(blocks_to_download, {b})
         /\ UNCHANGED alerts
    ELSE UNCHANGED <<requested_blocks, blocks_to_download, alerts>>

\* try_remove_job: an equal BlockInfo goes back to the queue, whichever request
\* it stems from, and the caller will alert the peers.
TryRemoveJob(p, b) ==
    IF requested_blocks[p][b] > 0
    THEN /\ requested_blocks' = [requested_blocks EXCEPT ![p] = Drop(@, {b})]
         /\ blocks_to_download' = Put(blocks_to_download, {b})
         /\ alerts' = alerts + 1
    ELSE UNCHANGED <<requested_blocks, blocks_to_download, alerts>>

Timeout(p, b) ==
    /\ timers[p][b] > 0
    /\ ~HoldsPeerInfo(p) /\ QueueFree
    /\ alerts < MaxAlerts
    /\ timers' = [timers EXCEPT ![p] = Drop(@, {b})]
    /\ TryRemoveJob(p, b)
    /\ UNCHANGED <<mainVars, peers, handler, writer, mail, infoVars, queue_size,
                   hand, pieceVars, corrupt>>

\* The timer that removed a job alerts the peers, with no other lock held.
Alert ==
    /\ alerts > 0
    /\ alerts' = alerts - 1
    /\ mail' = SendAll(peers, {UpdatedJobQueue})
    /\ UNCHANGED <<mainVars, peers, handler, writer, infoVars, requestVars, hand,
                   blocks_to_download, pieceVars, corrupt>>

-----------------------------------------------------------------------------
\* What the handler does next when it is not waiting in its select loop.
HandlerRuns(p) ==
    \/ StartHandler(p) \/ Connect(p) \/ DisconnectPeer(p)
    \/ StoreBlock(p) \/ TryChooseNewPiece(p) \/ UpdateJobQueue(p)

\* The branches of the select loop.
HandlesClientMessage(p) == HandleUpdatedJobQueue(p) \/ HandlePieceDownloaded(p)

HandlesPeerMessage(p) ==
    \/ \E choking \in BOOLEAN : PeerChokes(p, choking)
    \/ PeerHave(p) \/ PeerBitfield(p) \/ PeerBadHave(p) \/ PeerShortBitfield(p)
    \/ \E b \in Block, good \in BOOLEAN : PeerPiece(p, b, good)

MainStep ==
    \/ PublishPeers \/ ChooseFirstPiece \/ FirstAlert
    \/ \E p \in Peer : AcceptPeer(p) \/ PushPeer(p)

PeerStep(p) ==
    \/ HandlerRuns(p) \/ HandlesClientMessage(p) \/ HandlesPeerMessage(p) \/ Tick(p)
    \/ WriterFails(p) \/ SendFails(p)

Next ==
    \/ MainStep \/ Alert
    \/ \E p \in Peer : PeerStep(p) \/ \E b \in Block : Timeout(p, b)

Spec == Init /\ [][Next]_vars

\* The runtime runs every task that can run, its mutexes and channels are first
\* come first served, select! picks its branch at random, and a timer fires.  A
\* write to a peer completes or, if the peer is Breakable, may fail; nothing is
\* assumed of what a peer sends.
Fairness ==
    /\ WF_vars(PublishPeers) /\ WF_vars(ChooseFirstPiece) /\ WF_vars(FirstAlert)
    /\ WF_vars(Alert)
    /\ \A p \in Peer :
          /\ WF_vars(PushPeer(p))
          /\ WF_vars(HandlerRuns(p))
          /\ SF_vars(HandlesClientMessage(p))
          /\ \A b \in Block : SF_vars(Timeout(p, b))

FairSpec == Spec /\ Fairness

-----------------------------------------------------------------------------
(* What must hold.                                                         *)

\* Every variable stays in its range; the handlers keep a block in hand only
\* between taking it out of requested_blocks and storing it.
TypeOK ==
    /\ main \in {"publish", "choose", "alert", "loop"}
    /\ arriving \subseteq Peer
    /\ peers \subseteq Peer
    /\ handler \in [Peer -> HandlerState]
    /\ writer \in [Peer -> BOOLEAN]
    /\ mail \in [Peer -> SUBSET ClientMessage]
    /\ peer_choking \in [Peer -> BOOLEAN]
    /\ am_interested \in [Peer -> BOOLEAN]
    /\ piece_availability \in [Peer -> SUBSET Piece]
    /\ queue_size \in [Peer -> 1 .. MaxQueue]
    /\ requested_blocks \in [Peer -> [Block -> Nat]]
    /\ hand \in [Peer -> SUBSET Received]
    /\ timers \in [Peer -> [Block -> Nat]]
    /\ alerts \in 0 .. MaxAlerts
    /\ blocks_to_download \in [Block -> Nat]
    /\ downloading_piece_index \in Piece \cup {None}
    /\ downloading_piece \in SlotVector
    /\ downloaded_pieces \subseteq Piece
    /\ corrupt \in 0 .. MaxCorrupt

\* The peers that answer for block b: it is in their requested_blocks or their
\* handler has just taken it out of there.
Holders(b) == {p \in Peer : \/ requested_blocks[p][b] > 0
                            \/ \E block \in hand[p] : block.info = b}

IsStored(b) == downloading_piece[b.begin] # "none"

\* A block of the piece being downloaded is in exactly one place: queued once,
\* or requested from (or just received by) one peer, or stored.  No interleaving
\* of receptions, timeouts, failed hashes and disconnections loses it or makes a
\* second copy.  A block of any other piece is nowhere.
InOnePlace(b) ==
    IF b.index = downloading_piece_index
    THEN \/ /\ blocks_to_download[b] = 1 /\ Holders(b) = {} /\ ~IsStored(b)
         \/ /\ blocks_to_download[b] = 0 /\ ~IsStored(b)
            /\ \E p \in Peer : Holders(b) = {p}
         \/ /\ blocks_to_download[b] = 0 /\ Holders(b) = {} /\ IsStored(b)
    ELSE blocks_to_download[b] = 0 /\ Holders(b) = {}

BlockInOnePlace == \A b \in Block : InOnePlace(b)

\* torrent.rs:463 asserts, with a question mark, that nothing is queued when a
\* piece has completely arrived.
QueueEmptyWhenComplete ==
    IsComplete => \A b \in Block : blocks_to_download[b] = 0

\* A piece is downloaded once: the current piece is the first one missing, and
\* there is none only before the first choice or when nothing is missing.
CurrentIsFirstMissing ==
    IF downloading_piece_index = None
    THEN main \in {"publish", "choose"} \/ Missing(downloaded_pieces) = {}
    ELSE IsFirstMissing(downloading_piece_index, downloaded_pieces)

\* A handler has a block in hand only between taking it out of requested_blocks
\* and storing it, and a BlockInfo occurs once among what a peer answers for.
HandMatchesHandler ==
    \A p \in Peer :
        IF handler[p] = "store" THEN \E block \in Received : hand[p] = {block}
                                ELSE hand[p] = {}
HeldOnce ==
    \A p \in Peer, b \in Block :
        /\ requested_blocks[p][b] <= 1
        /\ \A block \in hand[p] : requested_blocks[p][block.info] = 0

\* There is one slot for each block of the current piece; no piece is current
\* before the first choice.
SlotsMatchPiece ==
    IF downloading_piece_index = None THEN TRUE
    ELSE /\ main \notin {"publish", "choose"}
         /\ DOMAIN downloading_piece = 0 .. BlockCount[downloading_piece_index] - 1

\* The invariant that every step preserves: the one above needs the rest, as a
\* block in hand is stored later and must still have its slot then.
Inv ==
    /\ TypeOK
    /\ HandMatchesHandler
    /\ HeldOnce
    /\ SlotsMatchPiece
    /\ BlockInOnePlace
    /\ CurrentIsFirstMissing

\* A request without a timer is forgotten: its block never returns to the queue.
\* It happens only when the writer is gone, or to a handler that never gets out
\* of try_get_new_jobs.
UntimedOnlyWithoutWriter ==
    \A p \in Peer, b \in Block :
        requested_blocks[p][b] > 0 /\ timers[p][b] = 0
            => ~writer[p] \/ handler[p] = "spinning"

\* The download keeps the promise of PieceLedger: interleaved receptions, late
\* and repeated answers never overwrite a slot, and no piece is judged early.
Ledger == INSTANCE PieceLedger WITH
    kept <- downloaded_pieces,
    current <- downloading_piece_index,
    filled <- IF downloading_piece_index = None THEN {}
              ELSE {k \in DOMAIN downloading_piece : downloading_piece[k] # "none"}

LedgerSpec == Ledger!Spec

-----------------------------------------------------------------------------
(* What must eventually happen.                                            *)

\* A handler that turns in try_get_new_jobs for ever (HandlerReturns) keeps the
\* guard of blocks_to_download, which every timer and every handler then waits
\* for.  What follows is claimed only of a download that this has not stopped.
Spins == ~QueueFree

\* peer.rs:382: "after some time check if the block was downloaded".  A request
\* is answered or its block goes back to the queue, unless a handler spins: a
\* first timer may itself wake the peer that has none of the queued pieces, and
\* the timers of the other blocks of the batch then never get the guard.
RequestsResolved ==
    \A p \in Peer, b \in Block : []<>(requested_blocks[p][b] = 0 \/ Spins)

\* A handler that left its select loop to deal with a message returns to it, so
\* that it keeps updating its statistics every second (peer.rs:753).
HandlerReturns ==
    \A p \in Peer : handler[p] \in {"store", "choose", "update"}
                        ~> handler[p] \in {"idle", "leaving", "gone"}

\* A peer that would take block b if its handler looked at the queue, which one
\* that is about to look at it may also never do.
Willing(p, b) ==
    /\ handler[p] \in {"idle", "update"}
    /\ ~peer_choking[p]
    /\ b.index \in piece_availability[p]
    /\ Room(p) > 0

\* An accepted peer is started before it is pushed to Torrent.peers
\* (torrent.rs:271-273).  One that lets us request as early as that may have
\* looked at the queue before an alert that its mailbox does not get.
UnchokesUnlisted(p) == p \in arriving /\ ~peer_choking[p]

\* No lost wake-up: a queued block and a peer that would take it do not stay
\* side by side for ever, unless a handler spins or the peer let us request
\* before it was listed.
NoStall ==
    \A p \in Peer :
        []~UnchokesUnlisted(p)
            => []<>((\A b \in Block : ~(blocks_to_download[b] > 0 /\ Willing(p, b)))
                        \/ Spins)
=============================================================================
