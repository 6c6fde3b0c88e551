-------------------------------- MODULE Locks --------------------------------
(***************************************************************************)
(* Which task waits for which: the mutexes and bounded channels of the     *)
(* whole program, taken and given back where the code does (torrent.rs,    *)
(* peer.rs).                                                               *)
(*                                                                         *)
(* The label of a task names the await it has reached: the lock it asks    *)
(* for, or the channel it sends to.  A step is what it does from there to  *)
(* the next await; a guard it drops before that is not seen to be taken.   *)
(* Blocks are only counted, and what is in messages is left out: where the *)
(* code tests it, both outcomes are possible.  The lock of                 *)
(* downloading_piece_index is always taken right after that of             *)
(* downloading_piece and dropped with it, and is one with it here; a       *)
(* peer_sender's lock is kept while a send waits for room in the mailbox,  *)
(* which makes the next sender wait for that same room.                    *)
(***************************************************************************)
EXTENDS Integers, Sequences, FiniteSets, SequencesExt

CONSTANTS
    Peer,            \* the remote addresses, each the subject of one Peer object
    TrackerPeer,     \* those named by the tracker, in order
    Unsteady,        \* those whose connection may fail or end
    Pieces,          \* how many pieces are to be downloaded; none when seeding
    Blocks,          \* how many blocks a piece has
    MailCapacity,    \* capacity of a handler's mailbox
    WriterCapacity   \* capacity of a writer's channel

ASSUME LocksAssumption ==
    /\ TrackerPeer \in Seq(Peer)
    /\ Unsteady \subseteq Peer
    /\ Pieces \in Nat
    /\ Blocks \in Nat \ {0}
    /\ MailCapacity \in Nat \ {0}
    /\ WriterCapacity \in Nat \ {0}

VARIABLES
    pc,      \* the await each task has reached
    owner,   \* the task that holds each lock, or Nobody
    peers,   \* Torrent.peers
    todo,    \* the peers a task's loop over the peers has still to visit
    mail,    \* how many ClientMessages are in each handler's mailbox
    outbox,  \* how many messages are in each writer's channel
    missing,    \* how many pieces are not downloaded
    queued,     \* how many blocks are in blocks_to_download
    requested,  \* how many are in each PeerInfo.requested_blocks
    stored      \* how many slots of downloading_piece are filled

workVars == <<missing, queued, requested, stored>>
vars == <<pc, owner, peers, todo, mail, outbox, missing, queued, requested, stored>>

Main == [task |-> "main"]
Handler(p) == [task |-> "handler", of |-> p]
Writer(p) == [task |-> "writer", of |-> p]
Timer(p) == [task |-> "timer", of |-> p]
Task == {Main} \cup [task : {"handler", "writer", "timer"}, of : Peer]
Nobody == [task |-> "nobody"]

Peers == [lock |-> "peers"]
Info(p) == [lock |-> "peer_info", of |-> p]
Piece == [lock |-> "downloading_piece"]
Queue == [lock |-> "blocks_to_download"]
Done == [lock |-> "downloaded_pieces"]
Lock == {Peers, Piece, Queue, Done} \cup [lock : {"peer_info"}, of : Peer]

\* The peers of the tracker are started before they are listed.
FirstLabel(t) ==
    CASE t.task = "main" -> "publish"
      [] t.task = "handler" -> IF \E k \in DOMAIN TrackerPeer : TrackerPeer[k] = t.of
                               THEN "spawned" ELSE "absent"
      [] t.task = "writer" -> "absent"
      [] t.task = "timer" -> "off"

Init ==
    /\ pc = [t \in Task |-> FirstLabel(t)]
    /\ owner = [l \in Lock |-> Nobody]
    /\ peers = <<>>
    /\ todo = [t \in Task |-> <<>>]
    /\ mail = [p \in Peer |-> 0]
    /\ outbox = [p \in Peer |-> 0]
    /\ missing = Pieces
    /\ queued = 0
    /\ requested = [p \in Peer |-> 0]
    /\ stored = 0

-----------------------------------------------------------------------------
(* Taking and dropping guards, sending.                                    *)

At(t, label) == [pc EXCEPT ![t] = label]
Go(t, label) == pc' = At(t, label)

Free(l) == owner[l] = Nobody
Take(t, l) == Free(l) /\ owner' = [owner EXCEPT ![l] = t]
Drop(locks) == owner' = [l \in Lock |-> IF l \in locks THEN Nobody ELSE owner[l]]

\* The guard of l is dropped before the next await.
Use(l) == Free(l) /\ UNCHANGED owner

HasReceiver(p) ==
    pc[Handler(p)] \notin {"absent", "spawned", "leave", "gone"}

\* send_message waits for room in the mailbox of a handler that runs.
SendMessage(p) ==
    IF HasReceiver(p)
    THEN mail[p] < MailCapacity /\ mail' = [mail EXCEPT ![p] = @ + 1]
    ELSE UNCHANGED mail

\* The handler sends to its writer with the guards of locks kept, and goes on at
\* next.  When the writer is gone it returns: its guards and mailbox are dropped.
SendToWriter(p, next, locks) ==
    /\ Drop(locks)
    /\ \/ /\ pc[Writer(p)] # "dead"
          /\ outbox[p] < WriterCapacity
          /\ outbox' = [outbox EXCEPT ![p] = @ + 1]
          /\ pc' = next
          /\ UNCHANGED mail
       \/ /\ pc[Writer(p)] = "dead"
          /\ pc' = At(Handler(p), "leave")
          /\ mail' = [mail EXCEPT ![p] = 0]
          /\ UNCHANGED outbox

-----------------------------------------------------------------------------
(* Broadcasts, by any task: the lock of the peers is kept throughout.      *)

LockPeersForAlert(t) ==
    /\ pc[t] = "alertPeers"
    /\ Take(t, Peers)
    /\ todo' = [todo EXCEPT ![t] = peers]
    /\ Go(t, "alert")
    /\ UNCHANGED <<peers, mail, outbox, workVars>>

SendToNext(t) ==
    /\ pc[t] \in {"alert", "announce"}
    /\ todo[t] # <<>>
    /\ SendMessage(Head(todo[t]))
    /\ todo' = [todo EXCEPT ![t] = Tail(@)]
    /\ UNCHANGED <<pc, owner, peers, outbox, workVars>>

\* alert_peers_updated_job_queue returns to its caller: start_downloading, the
\* handler in try_choose_new_piece, or the timer.
AlertReturns(t, to, locks) ==
    /\ pc[t] = "alert"
    /\ todo[t] = <<>>
    /\ Drop(locks)
    /\ Go(t, to)
    /\ UNCHANGED <<peers, todo, mail, outbox, workVars>>

-----------------------------------------------------------------------------
(* The main task.                                                          *)

PublishPeers ==
    /\ pc[Main] = "publish"
    /\ Use(Peers)
    /\ peers' = TrackerPeer
    /\ Go(Main, "first")
    /\ UNCHANGED <<todo, mail, outbox, workVars>>

\* choose_first_piece.
LockFirstPiece ==
    /\ pc[Main] = "first" /\ Take(Main, Piece) /\ Go(Main, "firstQueue")
    /\ UNCHANGED <<peers, todo, mail, outbox, workVars>>

LockFirstQueue ==
    /\ pc[Main] = "firstQueue" /\ Take(Main, Queue) /\ Go(Main, "firstDone")
    /\ UNCHANGED <<peers, todo, mail, outbox, workVars>>

ChooseFirstPiece ==
    /\ pc[Main] = "firstDone"
    /\ Free(Done)
    /\ Drop({Piece, Queue})
    /\ queued' = IF missing = 0 THEN 0 ELSE Blocks
    /\ Go(Main, "alertPeers")
    /\ UNCHANGED <<peers, todo, mail, outbox, missing, requested, stored>>

\* The branches of select!; the two unchoke intervals and a connection.
Select ==
    /\ pc[Main] = "select"
    /\ \E label \in {"progress", "optimistic"} : Go(Main, label)
    /\ UNCHANGED <<owner, peers, todo, mail, outbox, workVars>>

AcceptPeer(p) ==
    /\ pc[Main] = "select"
    /\ pc[Handler(p)] = "absent"
    /\ pc' = [pc EXCEPT ![Main] = "push", ![Handler(p)] = "spawned"]
    /\ todo' = [todo EXCEPT ![Main] = <<p>>]
    /\ UNCHANGED <<owner, peers, mail, outbox, workVars>>

PushPeer ==
    /\ pc[Main] = "push"
    /\ Use(Peers)
    /\ peers' = peers \o todo[Main]
    /\ todo' = [todo EXCEPT ![Main] = <<>>]
    /\ Go(Main, "select")
    /\ UNCHANGED <<mail, outbox, workVars>>

ShowProgress ==
    /\ pc[Main] = "progress" /\ Use(Done) /\ Go(Main, "regular")
    /\ UNCHANGED <<peers, todo, mail, outbox, workVars>>

\* regular_unchoke keeps the guard of the peers to its end.
LockPeersForRates ==
    /\ pc[Main] = "regular"
    /\ Take(Main, Peers)
    /\ todo' = [todo EXCEPT ![Main] = peers]
    /\ Go(Main, "rates")
    /\ UNCHANGED <<peers, mail, outbox, workVars>>

\* So does the optimistic unchoke.  Any listed peer may be the old one.
LockPeersForOptimistic ==
    /\ pc[Main] = "optimistic"
    /\ Take(Main, Peers)
    /\ \/ /\ \E k \in DOMAIN peers : todo' = [todo EXCEPT ![Main] = <<peers[k]>>]
          /\ Go(Main, "chokeOld")
       \/ /\ todo' = [todo EXCEPT ![Main] = peers]
          /\ Go(Main, "scan")
    /\ UNCHANGED <<peers, mail, outbox, workVars>>

ChokeOld ==
    /\ pc[Main] = "chokeOld"
    /\ SendMessage(Head(todo[Main]))
    /\ todo' = [todo EXCEPT ![Main] = peers]
    /\ Go(Main, "scan")
    /\ UNCHANGED <<owner, peers, outbox, workVars>>

\* The peer_info of one peer after the other is looked at.
ReadInfo ==
    /\ pc[Main] \in {"rates", "scan"}
    /\ todo[Main] # <<>>
    /\ Use(Info(Head(todo[Main])))
    /\ todo' = [todo EXCEPT ![Main] = Tail(@)]
    /\ UNCHANGED <<pc, peers, mail, outbox, workVars>>

\* The peers are sorted by what was read.
SortPeers ==
    /\ pc[Main] = "rates"
    /\ todo[Main] = <<>>
    /\ \E order \in [DOMAIN peers -> DOMAIN peers] :
          /\ \A j, k \in DOMAIN peers : order[j] = order[k] => j = k
          /\ peers' = [k \in DOMAIN peers |-> peers[order[k]]]
    /\ todo' = [todo EXCEPT ![Main] = peers']
    /\ Go(Main, "visit")
    /\ UNCHANGED <<owner, mail, outbox, workVars>>

\* The next peer is the optimistic one, or its peer_info is looked at.
VisitPeer ==
    /\ pc[Main] = "visit"
    /\ todo[Main] # <<>>
    /\ \/ todo' = [todo EXCEPT ![Main] = Tail(@)] /\ UNCHANGED <<pc, owner>>
       \/ Use(Info(Head(todo[Main]))) /\ Go(Main, "unchoke") /\ UNCHANGED todo
    /\ UNCHANGED <<peers, mail, outbox, workVars>>

Unchoke ==
    /\ pc[Main] = "unchoke"
    /\ SendMessage(Head(todo[Main]))
    /\ todo' = [todo EXCEPT ![Main] = Tail(@)]
    /\ Go(Main, "visit")
    /\ UNCHANGED <<owner, peers, outbox, workVars>>

\* All are visited, or there are downloaders enough.
RegularUnchokeReturns ==
    /\ pc[Main] = "visit"
    /\ todo' = [todo EXCEPT ![Main] = <<>>]
    /\ Drop({Peers})
    /\ Go(Main, "select")
    /\ UNCHANGED <<peers, mail, outbox, workVars>>

\* Any peer, or none, is picked and sent an Unchoke.
PickPeer ==
    /\ pc[Main] = "scan"
    /\ todo[Main] = <<>>
    /\ \E k \in DOMAIN peers : todo' = [todo EXCEPT ![Main] = <<peers[k]>>]
    /\ Go(Main, "unchokeNew")
    /\ UNCHANGED <<owner, peers, mail, outbox, workVars>>

PickNobody ==
    /\ pc[Main] = "scan"
    /\ todo[Main] = <<>>
    /\ Drop({Peers})
    /\ Go(Main, "select")
    /\ UNCHANGED <<peers, todo, mail, outbox, workVars>>

UnchokeNew ==
    /\ pc[Main] = "unchokeNew"
    /\ SendMessage(Head(todo[Main]))
    /\ todo' = [todo EXCEPT ![Main] = <<>>]
    /\ Drop({Peers})
    /\ Go(Main, "select")
    /\ UNCHANGED <<peers, outbox, workVars>>

-----------------------------------------------------------------------------
(* A handler: its start, and what arrives in its select loop.              *)

StartHandler(p) ==
    /\ pc[Handler(p)] = "spawned"
    /\ Go(Handler(p), "connect")
    /\ UNCHANGED <<owner, peers, todo, mail, outbox, workVars>>

\* The writer starts with the bitfield, which is sent before anything else.
Connect(p) ==
    /\ pc[Handler(p)] = "connect"
    /\ Use(Info(p))
    /\ pc' = [pc EXCEPT ![Handler(p)] = "idle", ![Writer(p)] = "bitfield"]
    /\ UNCHANGED <<peers, todo, mail, outbox, workVars>>

Leave(p) ==
    /\ Go(Handler(p), "leave")
    /\ mail' = [mail EXCEPT ![p] = 0]

ConnectFails(p) ==
    /\ p \in Unsteady
    /\ pc[Handler(p)] = "connect"
    /\ Leave(p)
    /\ UNCHANGED <<owner, peers, todo, outbox, workVars>>

ReceiveClientMessage(p) ==
    /\ pc[Handler(p)] = "idle"
    /\ mail[p] > 0
    /\ mail' = [mail EXCEPT ![p] = @ - 1]
    /\ \E label \in {"sendHave", "choke", "job"} :
          /\ label = "sendHave" => missing < Pieces
          /\ Go(Handler(p), label)
    /\ UNCHANGED <<owner, peers, todo, outbox, workVars>>

\* A message from the peer, or the tick of one_sec_interval.
ReceivePeerMessage(p) ==
    /\ pc[Handler(p)] = "idle"
    /\ Go(Handler(p), "peerMessage")
    /\ UNCHANGED <<owner, peers, todo, mail, outbox, workVars>>

IntervalTicks(p) ==
    /\ pc[Handler(p)] = "idle"
    /\ Go(Handler(p), "tick")
    /\ UNCHANGED <<owner, peers, todo, mail, outbox, workVars>>

Tick(p) ==
    /\ pc[Handler(p)] = "tick" /\ Use(Info(p)) /\ Go(Handler(p), "idle")
    /\ UNCHANGED <<peers, todo, mail, outbox, workVars>>

\* retain()
Without(seq, p) ==
    FoldLeft(LAMBDA kept, q : IF q = p THEN kept ELSE Append(kept, q), <<>>, seq)

\* disconnect_peer.
DisconnectPeer(p) ==
    /\ pc[Handler(p)] = "leave"
    /\ Use(Peers)
    /\ peers' = Without(peers, p)
    /\ Go(Handler(p), "gone")
    /\ UNCHANGED <<todo, mail, outbox, workVars>>

-----------------------------------------------------------------------------
(* A handler deals with a message.                                         *)

\* (mutant of HandleBriefly) drop(peer_info) is forgotten.
HandleKeepingGuard(p) ==
    /\ pc[Handler(p)] = "peerMessage"
    /\ \/ Take(Handler(p), Info(p)) /\ \E label \in {"job", "interest"} : Go(Handler(p), label)
       \/ Use(Info(p)) /\ Go(Handler(p), "idle")
    /\ UNCHANGED <<peers, todo, mail, outbox, workVars>>

\* Messages whose guard of peer_info is dropped before the next await.
HandleBriefly(p) ==
    /\ pc[Handler(p)] = "peerMessage"
    /\ Use(Info(p))
    /\ \E label \in {"job", "interest", "idle"} : Go(Handler(p), label)
    /\ UNCHANGED <<peers, todo, mail, outbox, workVars>>

\* A request is passed to the writer with the guard of peer_info kept.
PeerRequests(p) ==
    /\ pc[Handler(p)] = "peerMessage"
    /\ Take(Handler(p), Info(p))
    /\ Go(Handler(p), "sendBlock")
    /\ UNCHANGED <<peers, todo, mail, outbox, workVars>>

\* A requested block is stored, with that guard kept.
PeerPiece(p) ==
    /\ pc[Handler(p)] = "peerMessage"
    /\ requested[p] > 0
    /\ Take(Handler(p), Info(p))
    /\ requested' = [requested EXCEPT ![p] = @ - 1]
    /\ Go(Handler(p), "store")
    /\ UNCHANGED <<peers, todo, mail, outbox, missing, queued, stored>>

\* A message the handler returns on.
HandleBadMessage(p) ==
    /\ p \in Unsteady
    /\ pc[Handler(p)] = "peerMessage"
    /\ Use(Info(p))
    /\ Leave(p)
    /\ UNCHANGED <<peers, todo, outbox, workVars>>

\* ClientMessage::Choke and Unchoke.
HandleWord(p) ==
    /\ pc[Handler(p)] = "choke"
    /\ \/ Use(Info(p)) /\ Go(Handler(p), "idle")
       \/ Take(Handler(p), Info(p)) /\ Go(Handler(p), "sendChoke")
    /\ UNCHANGED <<peers, todo, mail, outbox, workVars>>

\* check_if_interested.
LockInfoForInterest(p) ==
    /\ pc[Handler(p)] = "interest"
    /\ Take(Handler(p), Info(p))
    /\ Go(Handler(p), "interestDone")
    /\ UNCHANGED <<peers, todo, mail, outbox, workVars>>

\* (mutant of CheckIfInterested) drop(peer_info) is forgotten.
CheckKeepingGuard(p) ==
    /\ pc[Handler(p)] = "interestDone"
    /\ Free(Done)
    /\ \/ Drop({Info(p)}) /\ Go(Handler(p), "idle")
       \/ UNCHANGED owner /\ Go(Handler(p), "sendInterested")
    /\ UNCHANGED <<peers, todo, mail, outbox, workVars>>

CheckIfInterested(p) ==
    /\ pc[Handler(p)] = "interestDone"
    /\ Free(Done)
    /\ Drop({Info(p)})
    /\ \E label \in {"idle", "sendInterested"} : Go(Handler(p), label)
    /\ UNCHANGED <<peers, todo, mail, outbox, workVars>>

\* try_update_job_queue: both guards live as long as the `if let'.
LockInfoForJobs(p) ==
    /\ pc[Handler(p)] = "job"
    /\ Take(Handler(p), Info(p))
    /\ Go(Handler(p), "jobQueue")
    /\ UNCHANGED <<peers, todo, mail, outbox, workVars>>

\* Nothing to request, or the peer chokes; the guards go with the `if let'.
NoJobs(p) ==
    /\ pc[Handler(p)] = "jobQueue"
    /\ Free(Queue)
    /\ Drop({Info(p)})
    /\ Go(Handler(p), "idle")
    /\ UNCHANGED <<peers, todo, mail, outbox, workVars>>

TryGetNewJobs(p) ==
    /\ pc[Handler(p)] = "jobQueue"
    /\ queued > 0
    /\ Take(Handler(p), Queue)
    /\ queued' = queued - 1
    /\ requested' = [requested EXCEPT ![p] = @ + 1]
    /\ Go(Handler(p), "sendJob")
    /\ UNCHANGED <<peers, todo, mail, outbox, missing, stored>>

\* One job stands for a batch: each send waits with the same guards.  The job gets
\* its timer, of which one at a time is followed here.
SendJob(p) ==
    /\ pc[Handler(p)] = "sendJob"
    /\ SendToWriter(p, [pc EXCEPT ![Handler(p)] = "idle",
                                  ![Timer(p)] = IF @ = "off" THEN "asleep" ELSE @],
                    {Info(p), Queue})
    /\ UNCHANGED <<peers, todo, workVars>>

\* The other sends to the writer.
SendHave(p) ==
    /\ pc[Handler(p)] = "sendHave"
    /\ SendToWriter(p, At(Handler(p), "interest"), {})
    /\ UNCHANGED <<peers, todo, workVars>>

SendInterested(p) ==
    /\ pc[Handler(p)] = "sendInterested"
    /\ SendToWriter(p, At(Handler(p), "job"), {})
    /\ UNCHANGED <<peers, todo, workVars>>

SendChokeOrBlock(p) ==
    /\ pc[Handler(p)] \in {"sendChoke", "sendBlock"}
    /\ SendToWriter(p, At(Handler(p), "idle"), {Info(p)})
    /\ UNCHANGED <<peers, todo, workVars>>

-----------------------------------------------------------------------------
(* block_downloaded and try_choose_new_piece: the guard of peer_info is    *)
(* the caller's, those of the piece and the queue are kept to the end.     *)

StoreBlock(p) ==
    /\ pc[Handler(p)] = "store"
    /\ Use(Piece)
    /\ stored' = stored + 1
    /\ Go(Handler(p), "choose")
    /\ UNCHANGED <<peers, todo, mail, outbox, missing, queued, requested>>

\* The piece is incomplete, or examined with its lock kept.
LockPiece(p) ==
    /\ pc[Handler(p)] = "choose"
    /\ IF stored < Blocks THEN Free(Piece) /\ Drop({Info(p)}) /\ Go(Handler(p), "job")
       ELSE Take(Handler(p), Piece) /\ Go(Handler(p), "chooseQueue")
    /\ UNCHANGED <<peers, todo, mail, outbox, workVars>>

\* (mutant of BadPiece) the slots are not emptied.
BadPieceKept(p) ==
    /\ pc[Handler(p)] = "chooseQueue"
    /\ Free(Queue)
    /\ Drop({Info(p), Piece})
    /\ queued' = queued + stored
    /\ Go(Handler(p), "job")
    /\ UNCHANGED <<peers, todo, mail, outbox, missing, requested, stored>>

\* (mutant of BadPiece) the blocks are not queued again.
BadPieceForgotten(p) ==
    /\ pc[Handler(p)] = "chooseQueue"
    /\ Free(Queue)
    /\ Drop({Info(p), Piece})
    /\ stored' = 0
    /\ Go(Handler(p), "job")
    /\ UNCHANGED <<peers, todo, mail, outbox, missing, queued, requested>>

\* The hash differs: all blocks are queued again.
BadPiece(p) ==
    /\ pc[Handler(p)] = "chooseQueue"
    /\ Free(Queue)
    /\ Drop({Info(p), Piece})
    /\ queued' = queued + stored
    /\ stored' = 0
    /\ Go(Handler(p), "job")
    /\ UNCHANGED <<peers, todo, mail, outbox, missing, requested>>

\* The piece is written with the lock of the queue kept too.
GoodPiece(p) ==
    /\ pc[Handler(p)] = "chooseQueue"
    /\ Take(Handler(p), Queue)
    /\ Go(Handler(p), "mark")
    /\ UNCHANGED <<peers, todo, mail, outbox, workVars>>

MarkDownloaded(p) ==
    /\ pc[Handler(p)] = "mark"
    /\ Use(Done)
    /\ missing' = missing - 1
    /\ Go(Handler(p), "announcePeers")
    /\ UNCHANGED <<peers, todo, mail, outbox, queued, requested, stored>>

LockPeersToAnnounce(p) ==
    /\ pc[Handler(p)] = "announcePeers"
    /\ Take(Handler(p), Peers)
    /\ todo' = [todo EXCEPT ![Handler(p)] = peers]
    /\ Go(Handler(p), "announce")
    /\ UNCHANGED <<peers, mail, outbox, workVars>>

AnnounceEnds(p) ==
    /\ pc[Handler(p)] = "announce"
    /\ todo[Handler(p)] = <<>>
    /\ Drop({Peers})
    /\ Go(Handler(p), "next")
    /\ UNCHANGED <<peers, todo, mail, outbox, workVars>>

\* The next piece, if one is missing, is begun.
ChooseNext(p) ==
    /\ pc[Handler(p)] = "next"
    /\ Use(Done)
    /\ queued' = IF missing = 0 THEN 0 ELSE Blocks
    /\ stored' = 0
    /\ Go(Handler(p), "alertPeers")
    /\ UNCHANGED <<peers, todo, mail, outbox, missing, requested>>

\* The alert returns, try_choose_new_piece too, and peer_info is dropped.
NewPieceChosen(p) ==
    AlertReturns(Handler(p), "job", {Peers, Queue, Piece, Info(p)})

-----------------------------------------------------------------------------
(* A writer, and the timers of a peer's requests.                          *)

\* SendBitfield: the guard of downloaded_pieces lives until the write is done.
LockDoneForBitfield(p) ==
    /\ pc[Writer(p)] = "bitfield" /\ Take(Writer(p), Done) /\ Go(Writer(p), "writeBitfield")
    /\ UNCHANGED <<peers, todo, mail, outbox, workVars>>

WriteBitfield(p) ==
    /\ pc[Writer(p)] = "writeBitfield" /\ Drop({Done}) /\ Go(Writer(p), "recv")
    /\ UNCHANGED <<peers, todo, mail, outbox, workVars>>

ReceiveAndWrite(p) ==
    /\ pc[Writer(p)] = "recv" /\ outbox[p] > 0
    /\ outbox' = [outbox EXCEPT ![p] = @ - 1]
    /\ Go(Writer(p), "write")
    /\ UNCHANGED <<owner, peers, todo, mail, workVars>>

Write(p) ==
    /\ pc[Writer(p)] = "write" /\ Go(Writer(p), "recv")
    /\ UNCHANGED <<owner, peers, todo, mail, outbox, workVars>>

WriteFails(p) ==
    /\ p \in Unsteady
    /\ pc[Writer(p)] \in {"write", "writeBitfield"}
    /\ Drop(IF pc[Writer(p)] = "writeBitfield" THEN {Done} ELSE {})
    /\ Go(Writer(p), "dead")
    /\ outbox' = [outbox EXCEPT ![p] = 0]
    /\ UNCHANGED <<peers, todo, mail, workVars>>

\* The request's seven seconds are over.
TimerFires(p) ==
    /\ pc[Timer(p)] = "asleep" /\ Go(Timer(p), "timer")
    /\ UNCHANGED <<owner, peers, todo, mail, outbox, workVars>>

LockInfoForTimer(p) ==
    /\ pc[Timer(p)] = "timer" /\ Take(Timer(p), Info(p)) /\ Go(Timer(p), "timerQueue")
    /\ UNCHANGED <<peers, todo, mail, outbox, workVars>>

TryRemoveJob(p) ==
    /\ pc[Timer(p)] = "timerQueue"
    /\ Free(Queue)
    /\ Drop({Info(p)})
    /\ \/ /\ Go(Timer(p), "off")
          /\ UNCHANGED <<queued, requested>>
       \/ /\ requested[p] > 0
          /\ requested' = [requested EXCEPT ![p] = @ - 1]
          /\ queued' = queued + 1
          /\ Go(Timer(p), "alertPeers")
    /\ UNCHANGED <<peers, todo, mail, outbox, missing, stored>>

-----------------------------------------------------------------------------
MainStep ==
    \/ PublishPeers \/ LockFirstPiece \/ LockFirstQueue \/ ChooseFirstPiece
    \/ LockPeersForAlert(Main) \/ SendToNext(Main) \/ AlertReturns(Main, "select", {Peers})
    \/ PushPeer \/ ShowProgress
    \/ LockPeersForRates \/ ReadInfo \/ SortPeers \/ VisitPeer \/ Unchoke
    \/ RegularUnchokeReturns
    \/ LockPeersForOptimistic \/ ChokeOld \/ PickPeer \/ PickNobody \/ UnchokeNew

\* What a handler does outside its select loop.
HandlerStep(p) ==
    \/ StartHandler(p) \/ Connect(p) \/ Tick(p) \/ DisconnectPeer(p)
    \/ HandleBriefly(p) \/ PeerRequests(p) \/ PeerPiece(p) \/ HandleBadMessage(p) \/ HandleWord(p)
    \/ LockInfoForInterest(p) \/ CheckIfInterested(p)
    \/ LockInfoForJobs(p) \/ NoJobs(p) \/ TryGetNewJobs(p) \/ SendJob(p)
    \/ SendHave(p) \/ SendInterested(p) \/ SendChokeOrBlock(p)
    \/ StoreBlock(p) \/ LockPiece(p) \/ BadPiece(p) \/ GoodPiece(p) \/ MarkDownloaded(p)
    \/ LockPeersToAnnounce(p) \/ AnnounceEnds(p) \/ ChooseNext(p)
    \/ LockPeersForAlert(Handler(p)) \/ SendToNext(Handler(p)) \/ NewPieceChosen(p)

WriterStep(p) ==
    LockDoneForBitfield(p) \/ WriteBitfield(p) \/ ReceiveAndWrite(p) \/ Write(p)

TimerStep(p) ==
    \/ TimerFires(p) \/ LockInfoForTimer(p) \/ TryRemoveJob(p)
    \/ LockPeersForAlert(Timer(p)) \/ SendToNext(Timer(p))
    \/ AlertReturns(Timer(p), "off", {Peers})

PeerStep(p) ==
    \/ AcceptPeer(p) \/ ConnectFails(p) \/ WriteFails(p)
    \/ ReceiveClientMessage(p) \/ ReceivePeerMessage(p) \/ IntervalTicks(p)
    \/ HandlerStep(p) \/ WriterStep(p) \/ TimerStep(p)

Next == MainStep \/ Select \/ \E p \in Peer : PeerStep(p)

Spec == Init /\ [][Next]_vars

\* The runtime's mutexes and channels are first come first served, and select!
\* does not pass over a branch for ever; a peer reads what is written to it.
Fairness ==
    /\ SF_vars(MainStep)
    /\ \A p \in Peer :
          /\ SF_vars(HandlerStep(p)) /\ SF_vars(ReceiveClientMessage(p))
          /\ SF_vars(WriterStep(p)) /\ SF_vars(TimerStep(p))

FairSpec == Spec /\ Fairness

-----------------------------------------------------------------------------
(* What a task waits for.                                                  *)

AsksForPeers == {"publish", "push", "regular", "optimistic", "announcePeers",
                 "alertPeers", "leave"}
AsksForInfo  == {"connect", "tick", "peerMessage", "choke", "interest", "job", "timer"}
AsksForPiece == {"first", "store", "choose"}
AsksForQueue == {"firstQueue", "chooseQueue", "jobQueue", "timerQueue"}
AsksForDone  == {"firstDone", "progress", "interestDone", "mark", "next", "bitfield"}
SendsOut     == {"sendHave", "sendInterested", "sendChoke", "sendBlock", "sendJob"}
SendsMail    == {"alert", "announce", "unchoke", "chokeOld", "unchokeNew"}
Visits       == {"rates", "scan", "visit"}

AskedLocks(t) ==
    CASE pc[t] \in AsksForPeers -> {Peers}
      [] pc[t] \in AsksForInfo  -> {Info(t.of)}
      [] pc[t] \in AsksForPiece -> {Piece}
      [] pc[t] \in AsksForQueue -> {Queue}
      [] pc[t] \in AsksForDone  -> {Done}
      [] pc[t] \in Visits /\ todo[t] # <<>> -> {Info(Head(todo[t]))}
      [] OTHER -> {}

\* A full mailbox or channel keeps t waiting for the task that empties it.
MailIsFull(t) ==
    /\ pc[t] \in SendsMail /\ todo[t] # <<>>
    /\ HasReceiver(Head(todo[t])) /\ mail[Head(todo[t])] = MailCapacity
ChannelIsFull(t) ==
    /\ pc[t] \in SendsOut
    /\ pc[Writer(t.of)] # "dead" /\ outbox[t.of] = WriterCapacity

\* The tasks that must move before t can.
WaitsFor(t) ==
    ({owner[l] : l \in AskedLocks(t) \cap Lock} \ {Nobody})
        \cup (IF MailIsFull(t) THEN {Handler(Head(todo[t]))} ELSE {})
        \cup (IF ChannelIsFull(t) THEN {Writer(t.of)} ELSE {})

-----------------------------------------------------------------------------
(* What must hold.                                                         *)

Label == AsksForPeers \cup AsksForInfo \cup AsksForPiece \cup AsksForQueue
             \cup AsksForDone \cup SendsOut \cup SendsMail \cup Visits
             \cup {"select", "absent", "spawned", "idle", "gone",
                   "recv", "write", "writeBitfield", "dead", "off", "asleep"}

\* Every variable stays in its range, the channels within their capacity.
TypeOK ==
    /\ pc \in [Task -> Label]
    /\ owner \in [Lock -> Task \cup {Nobody}]
    /\ peers \in Seq(Peer)
    /\ todo \in [Task -> Seq(Peer)]
    /\ mail \in [Peer -> 0 .. MailCapacity]
    /\ outbox \in [Peer -> 0 .. WriterCapacity]
    /\ missing \in 0 .. Pieces
    /\ queued \in 0 .. Blocks
    /\ requested \in [Peer -> 0 .. Blocks]
    /\ stored \in 0 .. Blocks

\* Where the blocks of the piece under way are: queued, requested of a peer (its
\* first, second, ... request), in the hands of the handler that received it, or
\* stored.
Outstanding == {x \in Peer \X (1 .. Blocks) : x[2] <= requested[x[1]]}
InHand == {p \in Peer : pc[Handler(p)] = "store"}
UnderWay == queued + Cardinality(Outstanding) + Cardinality(InHand) + stored

\* choose_first_piece has been through, and a piece is missing or the last one is
\* being announced, with its slots still filled (torrent.rs:479-507).
IsAnnouncing(p) == pc[Handler(p)] \in {"announcePeers", "announce", "next"}
HasPiece ==
    /\ pc[Main] \notin {"publish", "first", "firstQueue", "firstDone"}
    /\ missing > 0 \/ \E p \in Peer : IsAnnouncing(p)

\* No block is lost and none is copied, through requests, time-outs, bad pieces and
\* the guards between them: as long as there is a piece to download, as many blocks
\* are queued, requested, in a hand or stored as it has, and otherwise none.  (Which
\* block is where, Download's BlockInOnePlace says.)
NoBlockLost == UnderWay = IF HasPiece THEN Blocks ELSE 0

\* Among any tasks that wait there is one that waits for none of them.
NoCircle(waits) ==
    LET blocked == {t \in Task : waits[t] # {}}
    IN  \A S \in (SUBSET blocked) \ {{}} : \E t \in S : waits[t] \cap S = {}

\* No deadlock: tasks do not wait for each other, or for themselves, in a circle.
NoCircularWait == NoCircle([t \in Task |-> WaitsFor(t)])

\* The order in which a task may ask for locks while it holds others.
Rank(l) == CASE l.lock = "peer_info" -> 1
             [] l.lock = "downloading_piece" -> 2
             [] l.lock = "blocks_to_download" -> 3
             [] l.lock = "downloaded_pieces" -> 5

\* Apart from the lock of the peers, and the mailboxes filled under it, every task
\* asks for locks in one order: peer_info, piece, queue, then room in a writer's
\* channel, then downloaded_pieces.
InOrder ==
    \A t \in Task : \A l \in Lock \ {Peers} : owner[l] = t =>
        /\ \A m \in AskedLocks(t) \ {Peers} : Rank(l) < Rank(m)
        /\ pc[t] \in SendsOut => Rank(l) < 4

\* Whatever deadlock there is needs the lock of the peers or a mailbox: no circle of
\* waiting tasks is made of the other locks and the writers' channels alone.
InnerWaits(t) ==
    {u \in Task : \/ \E l \in Lock \ {Peers} : l \in AskedLocks(t) /\ owner[l] = u
                  \/ ChannelIsFull(t) /\ u = Writer(t.of)}

NoInnerCircle == NoCircle([t \in Task |-> InnerWaits(t)])

\* A handler that has received a message of its peer comes back to its select loop,
\* where it updates its statistics every second (peer.rs:753).
HandlerReturns ==
    \A p \in Peer :
        pc[Handler(p)] = "peerMessage" ~> pc[Handler(p)] \in {"idle", "leave", "gone"}
=============================================================================
