---------------------------- MODULE SeedingProofs ----------------------------
(***************************************************************************)
(* What holds of Locks when nothing is to be downloaded, for every set of  *)
(* peers and every capacity of the channels: no deadlock at all.  The      *)
(* argument: without a piece to complete only the main task keeps the lock *)
(* of the peers, and whoever asks for it holds nothing that is waited for, *)
(* so that this lock and the mailboxes come first in the order.            *)
(***************************************************************************)
EXTENDS LocksProofs

\* Where a handler can be that never has a block, and the main task while it
\* keeps the lock of the peers.
SeedLabel == {"absent", "spawned", "connect", "idle", "tick", "peerMessage", "choke",
              "interest", "interestDone", "job", "jobQueue", "sendInterested",
              "sendChoke", "sendBlock", "leave", "gone"}
Round == {"alert", "rates", "scan", "visit", "unchoke", "chokeOld", "unchokeNew"}

Seeding ==
    /\ missing = 0 /\ queued = 0 /\ requested = [p \in Peer |-> 0]
    /\ \A p \in Peer : pc[Timer(p)] = "off" /\ pc[Handler(p)] \in SeedLabel
    /\ owner[Peers] # Nobody => owner[Peers] = Main /\ pc[Main] \in Round
    /\ pc[Main] # "announce"

-----------------------------------------------------------------------------
(* Seeding is inductive.                                                   *)

LEMMA InitSeeding == Pieces = 0 /\ Init => Seeding
  <1> SUFFICES ASSUME Pieces = 0, Init PROVE Seeding
    OBVIOUS
  <1>1. \A t \in Task : pc[t] = FirstLabel(t)
    BY DEF Init
  <1>2. ASSUME NEW p \in Peer PROVE pc[Timer(p)] = "off" /\ pc[Handler(p)] \in SeedLabel
    BY <1>1, Tasks DEF FirstLabel, SeedLabel
  <1>3. pc[Main] # "announce"
    BY <1>1, Tasks DEF FirstLabel
  <1> QED
    BY <1>2, <1>3, SharedLocks DEF Init, Seeding

\* The main task moves, and takes or keeps the lock of the peers for a round.
LEMMA MainSeeds ==
    ASSUME Guarded, Seeding, NEW label, Go(Main, label), label # "announce",
           missing' = 0, queued' = 0, UNCHANGED requested,
           owner'[Peers] # Nobody => owner'[Peers] = Main /\ label \in Round
    PROVE  Seeding'
  <1>1. pc'[Main] = label /\ \A t \in Task \ {Main} : pc'[t] = pc[t]
    BY Tasks DEF Guarded, Go, At
  <1>2. ASSUME NEW p \in Peer PROVE pc'[Timer(p)] = "off" /\ pc'[Handler(p)] \in SeedLabel
    BY <1>1, Tasks DEF Seeding
  <1> QED
    BY <1>1, <1>2 DEF Seeding

\* A handler moves and leaves that lock alone.
LEMMA HandlerSeeds ==
    ASSUME Guarded, Seeding, NEW p \in Peer, NEW label \in SeedLabel, Go(Handler(p), label),
           UNCHANGED <<missing, queued, requested>>, owner'[Peers] = owner[Peers]
    PROVE  Seeding'
  <1>1. pc'[Handler(p)] = label /\ \A t \in Task \ {Handler(p)} : pc'[t] = pc[t]
    BY Tasks DEF Guarded, Go, At
  <1>2. ASSUME NEW q \in Peer PROVE pc'[Timer(q)] = "off" /\ pc'[Handler(q)] \in SeedLabel
    BY <1>1, Tasks DEF Seeding
  <1>3. pc'[Main] = pc[Main]
    BY <1>1, Tasks
  <1> QED
    BY <1>2, <1>3 DEF Seeding

\* So does a writer.
LEMMA WriterSeeds ==
    ASSUME Guarded, Seeding, NEW p \in Peer, NEW label, Go(Writer(p), label),
           UNCHANGED <<missing, queued, requested>>, owner'[Peers] = owner[Peers]
    PROVE  Seeding'
  <1>1. \A t \in Task \ {Writer(p)} : pc'[t] = pc[t]
    BY Tasks DEF Guarded, Go, At
  <1>2. ASSUME NEW q \in Peer PROVE pc'[Timer(q)] = "off" /\ pc'[Handler(q)] \in SeedLabel
    BY <1>1, Tasks DEF Seeding
  <1>3. pc'[Main] = pc[Main]
    BY <1>1, Tasks
  <1> QED
    BY <1>2, <1>3 DEF Seeding

\* Nobody moves and no lock changes hands.
LEMMA StaysSeeding ==
    ASSUME Seeding, UNCHANGED <<pc, owner, workVars>>
    PROVE  Seeding'
  BY DEF Seeding, workVars

LEMMA MainStepSeeds ==
    ASSUME Guarded, Seeding, MainStep \/ Select
    PROVE  Seeding'
  <1> USE SharedLocks, MainSeeds DEF Seeding, Round, workVars
  <1>1. CASE PublishPeers
    BY <1>1 DEF PublishPeers, Use, Free
  <1>2. CASE LockFirstPiece
    BY <1>2 DEF LockFirstPiece, Take, Guarded
  <1>3. CASE LockFirstQueue
    BY <1>3 DEF LockFirstQueue, Take, Guarded
  <1>4. CASE ChooseFirstPiece
    BY <1>4 DEF ChooseFirstPiece, Drop
  <1>5. CASE LockPeersForAlert(Main)
    BY <1>5 DEF LockPeersForAlert, Take, Guarded
  <1>6. CASE SendToNext(Main)
    BY <1>6, StaysSeeding DEF SendToNext
  <1>7. CASE AlertReturns(Main, "select", {Peers})
    BY <1>7 DEF AlertReturns, Drop
  <1>8. CASE PushPeer
    BY <1>8 DEF PushPeer, Use, Free
  <1>9. CASE ShowProgress
    BY <1>9 DEF ShowProgress, Use
  <1>10. CASE LockPeersForRates
    BY <1>10 DEF LockPeersForRates, Take, Guarded
  <1>11. CASE ReadInfo
    BY <1>11, StaysSeeding DEF ReadInfo, Use
  <1>12. CASE SortPeers
    BY <1>12 DEF SortPeers
  <1>13. CASE VisitPeer
    BY <1>13, StaysSeeding DEF VisitPeer, Use
  <1>14. CASE Unchoke
    BY <1>14 DEF Unchoke
  <1>15. CASE RegularUnchokeReturns
    BY <1>15 DEF RegularUnchokeReturns, Drop
  <1>16. CASE LockPeersForOptimistic
    BY <1>16 DEF LockPeersForOptimistic, Take, Guarded
  <1>17. CASE ChokeOld
    BY <1>17 DEF ChokeOld
  <1>18. CASE PickPeer
    BY <1>18 DEF PickPeer
  <1>19. CASE PickNobody
    BY <1>19 DEF PickNobody, Drop
  <1>20. CASE UnchokeNew
    BY <1>20 DEF UnchokeNew, Drop
  <1>21. CASE Select
    BY <1>21 DEF Select
  <1> QED
    BY <1>1, <1>2, <1>3, <1>4, <1>5, <1>6, <1>7, <1>8, <1>9, <1>10, <1>11, <1>12, <1>13,
       <1>14, <1>15, <1>16, <1>17, <1>18, <1>19, <1>20, <1>21 DEF MainStep

\* A handler is spawned, or connects and starts its writer.
LEMMA StartsSeed ==
    ASSUME Guarded, Seeding, NEW p \in Peer, AcceptPeer(p) \/ Connect(p)
    PROVE  Seeding'
  <1>1. CASE AcceptPeer(p)
    <2>1. /\ pc' = [pc EXCEPT ![Main] = "push", ![Handler(p)] = "spawned"]
          /\ pc[Main] = "select" /\ UNCHANGED <<owner, workVars>>
      BY <1>1 DEF AcceptPeer
    <2>2. ASSUME NEW q \in Peer PROVE pc'[Timer(q)] = "off" /\ pc'[Handler(q)] \in SeedLabel
      BY <2>1, Tasks DEF Guarded, Seeding, SeedLabel
    <2>3. owner[Peers] = Nobody
      BY <2>1 DEF Seeding, Round
    <2>4. pc'[Main] # "announce"
      BY <2>1, Tasks DEF Guarded
    <2> QED
      BY <2>1, <2>2, <2>3, <2>4 DEF Seeding, workVars
  <1>2. CASE Connect(p)
    <2>1. /\ pc' = [pc EXCEPT ![Handler(p)] = "idle", ![Writer(p)] = "bitfield"]
          /\ UNCHANGED <<owner, workVars>>
      BY <1>2 DEF Connect, Use
    <2>2. ASSUME NEW q \in Peer PROVE pc'[Timer(q)] = "off" /\ pc'[Handler(q)] \in SeedLabel
      BY <2>1, Tasks DEF Guarded, Seeding, SeedLabel
    <2>3. pc'[Main] = pc[Main]
      BY <2>1, Tasks DEF Guarded
    <2> QED
      BY <2>1, <2>2, <2>3 DEF Seeding, workVars
  <1> QED
    BY <1>1, <1>2

\* What a handler does on its own, or with its writer.
LEMMA HandlerStepSeeds ==
    ASSUME Pieces = 0, Guarded, Seeding, NEW p \in Peer,
           \/ StartHandler(p) \/ Tick(p) \/ DisconnectPeer(p) \/ ConnectFails(p)
           \/ ReceiveClientMessage(p) \/ ReceivePeerMessage(p) \/ IntervalTicks(p)
           \/ HandleBriefly(p) \/ PeerRequests(p) \/ HandleBadMessage(p) \/ HandleWord(p)
           \/ LockInfoForInterest(p) \/ CheckIfInterested(p)
           \/ LockInfoForJobs(p) \/ NoJobs(p)
           \/ SendInterested(p) \/ SendChokeOrBlock(p)
    PROVE  Seeding'
  <1> USE SharedLocks, InfoLock, HandlerSeeds DEF SeedLabel, workVars
  <1>1. CASE StartHandler(p)
    BY <1>1 DEF StartHandler
  <1>2. CASE Tick(p)
    BY <1>2 DEF Tick, Use
  <1>3. CASE DisconnectPeer(p)
    BY <1>3 DEF DisconnectPeer, Use
  <1>4. CASE ConnectFails(p)
    BY <1>4 DEF ConnectFails, Leave
  <1>5. CASE ReceiveClientMessage(p)
    BY <1>5 DEF ReceiveClientMessage, Seeding
  <1>6. CASE ReceivePeerMessage(p)
    BY <1>6 DEF ReceivePeerMessage
  <1>7. CASE IntervalTicks(p)
    BY <1>7 DEF IntervalTicks
  <1>8. CASE HandleBriefly(p)
    BY <1>8 DEF HandleBriefly, Use
  <1>9. CASE PeerRequests(p)
    BY <1>9 DEF PeerRequests, Take, Guarded
  <1>10. CASE HandleBadMessage(p)
    BY <1>10 DEF HandleBadMessage, Leave, Use
  <1>11. CASE HandleWord(p)
    BY <1>11 DEF HandleWord, Take, Use, Guarded
  <1>12. CASE LockInfoForInterest(p)
    BY <1>12 DEF LockInfoForInterest, Take, Guarded
  <1>13. CASE CheckIfInterested(p)
    BY <1>13 DEF CheckIfInterested, Drop
  <1>14. CASE LockInfoForJobs(p)
    BY <1>14 DEF LockInfoForJobs, Take, Guarded
  <1>15. CASE NoJobs(p)
    BY <1>15 DEF NoJobs, Drop
  <1>16. CASE SendInterested(p)
    BY <1>16 DEF SendInterested, SendToWriter, Drop, Go
  <1>17. CASE SendChokeOrBlock(p)
    BY <1>17 DEF SendChokeOrBlock, SendToWriter, Drop, Go
  <1> QED
    BY <1>1, <1>2, <1>3, <1>4, <1>5, <1>6, <1>7, <1>8, <1>9, <1>10, <1>11, <1>12, <1>13,
       <1>14, <1>15, <1>16, <1>17

\* The writer takes no lock but that of downloaded_pieces.
LEMMA WriterStepSeeds ==
    ASSUME Guarded, Seeding, NEW p \in Peer, WriterStep(p) \/ WriteFails(p)
    PROVE  Seeding'
  <1> USE SharedLocks, WriterSeeds DEF workVars
  <1>1. CASE LockDoneForBitfield(p)
    BY <1>1 DEF LockDoneForBitfield, Take, Guarded
  <1>2. CASE WriteBitfield(p)
    BY <1>2 DEF WriteBitfield, Drop
  <1>3. CASE ReceiveAndWrite(p)
    BY <1>3 DEF ReceiveAndWrite
  <1>4. CASE Write(p)
    BY <1>4 DEF Write
  <1>5. CASE WriteFails(p)
    BY <1>5 DEF WriteFails, Drop
  <1> QED
    BY <1>1, <1>2, <1>3, <1>4, <1>5 DEF WriterStep

\* Without blocks there are no timers, and no handler comes to store one.
LEMMA NoDownloadSteps ==
    ASSUME Seeding, NEW p \in Peer
    PROVE  /\ ~TimerStep(p) /\ ~PeerPiece(p) /\ ~TryGetNewJobs(p)
           /\ ~SendJob(p) /\ ~SendHave(p)
           /\ ~StoreBlock(p) /\ ~LockPiece(p) /\ ~BadPiece(p) /\ ~GoodPiece(p)
           /\ ~MarkDownloaded(p) /\ ~LockPeersToAnnounce(p) /\ ~AnnounceEnds(p)
           /\ ~ChooseNext(p) /\ ~LockPeersForAlert(Handler(p)) /\ ~SendToNext(Handler(p))
           /\ ~NewPieceChosen(p)
  <1>1. /\ pc[Timer(p)] = "off" /\ pc[Handler(p)] \in SeedLabel
        /\ queued = 0 /\ requested[p] = 0
    BY DEF Seeding
  <1>2. ~TimerStep(p)
    BY <1>1 DEF TimerStep, TimerFires, LockInfoForTimer, TryRemoveJob, LockPeersForAlert,
                SendToNext, AlertReturns
  <1>3. ~PeerPiece(p) /\ ~TryGetNewJobs(p)
    BY <1>1 DEF PeerPiece, TryGetNewJobs
  <1>4. /\ ~SendJob(p) /\ ~SendHave(p) /\ ~StoreBlock(p) /\ ~LockPiece(p) /\ ~BadPiece(p)
        /\ ~GoodPiece(p) /\ ~MarkDownloaded(p) /\ ~LockPeersToAnnounce(p)
    BY <1>1 DEF SeedLabel, SendJob, SendHave, StoreBlock, LockPiece, BadPiece, GoodPiece,
                MarkDownloaded, LockPeersToAnnounce
  <1>5. /\ ~AnnounceEnds(p) /\ ~ChooseNext(p) /\ ~LockPeersForAlert(Handler(p))
        /\ ~SendToNext(Handler(p)) /\ ~NewPieceChosen(p)
    BY <1>1 DEF SeedLabel, AnnounceEnds, ChooseNext, LockPeersForAlert, SendToNext,
                NewPieceChosen, AlertReturns
  <1> QED
    BY <1>2, <1>3, <1>4, <1>5

LEMMA NextSeeding ==
    ASSUME Pieces = 0, Guarded, Seeding, [Next]_vars
    PROVE  Seeding'
  <1>1. CASE MainStep \/ Select
    BY <1>1, MainStepSeeds
  <1>2. ASSUME NEW p \in Peer, PeerStep(p) PROVE Seeding'
    <2>1. CASE HandlerStep(p)
      <3>1. \/ StartHandler(p) \/ Connect(p) \/ Tick(p) \/ DisconnectPeer(p)
            \/ HandleBriefly(p) \/ PeerRequests(p) \/ HandleBadMessage(p) \/ HandleWord(p)
            \/ LockInfoForInterest(p) \/ CheckIfInterested(p)
            \/ LockInfoForJobs(p) \/ NoJobs(p)
            \/ SendInterested(p) \/ SendChokeOrBlock(p)
        BY <2>1, NoDownloadSteps DEF HandlerStep
      <3> QED
        BY <3>1, StartsSeed, HandlerStepSeeds
    <2>2. CASE WriterStep(p) \/ WriteFails(p)
      BY <2>2, WriterStepSeeds
    <2>3. CASE AcceptPeer(p)
      BY <2>3, StartsSeed
    <2>4. CASE ConnectFails(p) \/ ReceiveClientMessage(p) \/ ReceivePeerMessage(p)
               \/ IntervalTicks(p)
      BY <2>4, HandlerStepSeeds
    <2>5. ~TimerStep(p)
      BY NoDownloadSteps
    <2> QED
      BY <1>2, <2>1, <2>2, <2>3, <2>4, <2>5 DEF PeerStep
  <1>3. CASE UNCHANGED vars
    <2>1. UNCHANGED <<pc, owner, workVars>>
      BY <1>3 DEF vars, workVars
    <2> QED
      BY <2>1, StaysSeeding
  <1>4. MainStep \/ Select \/ (\E p \in Peer : PeerStep(p)) \/ UNCHANGED vars
    BY DEF Next
  <1> QED
    BY <1>1, <1>2, <1>3, <1>4

-----------------------------------------------------------------------------
(* No circle.                                                              *)

\* How far in the order what a task waits for is: the peers, what the main task
\* needs in a round, and then as in WaitRank.
SeedRank(t) ==
    IF pc[t] = "leave" THEN 0
    ELSE IF t = Main /\ pc[Main] \in Round THEN 1
    ELSE IF pc[t] \in AsksForInfo THEN 2
    ELSE WaitRank(t)

\* Each kind of task that holds one of the ordered locks, and where.
LEMMA Holders ==
    ASSUME Guarded, Seeding, NEW u \in Task, NEW l \in Lock \ {Peers}, owner[l] = u
    PROVE  \/ /\ \E p \in Peer : u = Handler(p) /\ l = Info(p)
              /\ pc[u] \in {"interestDone", "jobQueue", "sendChoke", "sendBlock"}
           \/ u = Main /\ pc[u] = "firstQueue" /\ l = Piece
           \/ u = Main /\ pc[u] = "firstDone" /\ l \in {Piece, Queue}
           \/ \E p \in Peer : u = Writer(p) /\ pc[u] = "writeBitfield" /\ l = Done
  <1>1. l \in HoldsAt(u, pc[u])
    BY DEF Guarded, HoldsOnly
  <1>2. CASE u = Main
    BY <1>1, <1>2, Tasks DEF HoldsAt
  <1>3. ASSUME NEW p \in Peer, u = Handler(p)
        PROVE  l = Info(p) /\ pc[u] \in {"interestDone", "jobQueue", "sendChoke", "sendBlock"}
    BY <1>1, <1>3, Tasks DEF HoldsAt, HandlerHolds, Seeding, SeedLabel
  <1>4. ASSUME NEW p \in Peer, u = Writer(p) PROVE pc[u] = "writeBitfield" /\ l = Done
    BY <1>1, <1>4, Tasks DEF HoldsAt
  <1>5. ASSUME NEW p \in Peer, u = Timer(p) PROVE FALSE
    BY <1>1, <1>5, Tasks DEF HoldsAt, Seeding
  <1>6. u = Main \/ \E p \in Peer : u \in {Handler(p), Writer(p), Timer(p)}
    BY DEF Task, Main, Handler, Writer, Timer
  <1> QED
    BY <1>2, <1>3, <1>4, <1>5, <1>6

\* A task that is not the main one is at none of the labels of a broadcast or a
\* round, and asks for the peers only when it leaves.
LEMMA OthersAreSimple ==
    ASSUME Guarded, Seeding, NEW t \in Task \ {Main}
    PROVE  pc[t] \notin SendsMail /\ (pc[t] \in AsksForPeers => pc[t] = "leave")
  <1>1. \E p \in Peer : t \in {Handler(p), Writer(p), Timer(p)}
    BY DEF Task, Main, Handler, Writer, Timer
  <1>2. pc[t] \in SeedLabel \cup WriterLabel \cup {"off"}
    BY <1>1 DEF Guarded, StartedInOrder, Seeding
  <1> QED
    BY <1>2 DEF SeedLabel, WriterLabel, SendsMail, AsksForPeers

\* Whoever is waited for waits for something later.
LEMMA SeedWaitsAscend ==
    ASSUME Guarded, Seeding, NEW t \in Task, NEW u \in Task, u \in WaitsFor(t),
           WaitsFor(u) # {}
    PROVE  SeedRank(t) < SeedRank(u)
  <1>1. ASSUME NEW l \in Lock, l \in AskedLocks(t), owner[l] = u
        PROVE  SeedRank(t) < SeedRank(u)
    <2>1. CASE l = Peers
      <3>1. u = Main /\ pc[Main] \in Round
        BY <1>1, <2>1, NobodyIsNoTask DEF Seeding
      <3>2. SeedRank(u) = 1
        BY <3>1 DEF SeedRank, Round
      <3>3. pc[t] \in AsksForPeers
        BY <1>1, <2>1, SharedLocks DEF AskedLocks, Info, Peers
      <3>4. t # Main
        BY <3>1, <3>3 DEF Round, AsksForPeers
      <3>5. pc[t] = "leave"
        BY <3>3, <3>4, OthersAreSimple
      <3> QED
        BY <3>2, <3>5 DEF SeedRank
    <2>2. ASSUME NEW p, l = Info(p)
          PROVE  SeedRank(t) < SeedRank(u)
      <3>1. /\ u # Main /\ pc[u] \in {"interestDone", "jobQueue", "sendChoke", "sendBlock"}
        BY <1>1, <2>2, Holders, Tasks DEF Info, Peers, Piece, Queue, Done
      <3>2. SeedRank(u) >= 3
        BY <3>1 DEF SeedRank, WaitRank, AsksForInfo, SendsOut, Visits, AsksForPiece,
                    AsksForQueue
      <3>3. pc[t] \in AsksForInfo \cup Visits
        BY <1>1, <2>2 DEF AskedLocks, Info, Peers, Piece, Queue, Done
      <3>4. SeedRank(t) <= 2
        BY <3>3 DEF SeedRank, WaitRank, AsksForInfo, Visits, SendsOut
      <3>5. SeedRank(t) \in Nat /\ SeedRank(u) \in Nat
        BY DEF SeedRank, WaitRank
      <3> QED
        BY <3>2, <3>4, <3>5
    <2>3. CASE l \in {Piece, Queue, Done}
      <3>1. \/ u = Main /\ pc[u] = "firstQueue" /\ l = Piece
            \/ u = Main /\ pc[u] = "firstDone" /\ l \in {Piece, Queue}
            \/ \E p \in Peer : u = Writer(p) /\ pc[u] = "writeBitfield"
        BY <1>1, <2>3, Holders, SharedLocks, InfoLock
      <3>2. pc[u] # "writeBitfield"
        BY DEF WaitsFor, AskedLocks, MailIsFull, ChannelIsFull, AsksForPeers, AsksForInfo,
               AsksForPiece, AsksForQueue, AsksForDone, SendsOut, SendsMail, Visits
      <3>3. /\ l = Piece => pc[t] \in AsksForPiece
            /\ l = Queue => pc[t] \in AsksForQueue
        BY <1>1 DEF AskedLocks, Info, Peers, Piece, Queue, Done
      <3>4. /\ l = Piece => SeedRank(t) = 2
            /\ l = Queue => SeedRank(t) = 3
        BY <3>3 DEF SeedRank, WaitRank, Round, AsksForInfo, AsksForPiece, AsksForQueue,
                    SendsOut, Visits
      <3>5. /\ pc[u] = "firstQueue" => SeedRank(u) = 3
            /\ pc[u] = "firstDone" => SeedRank(u) = 5
        BY DEF SeedRank, WaitRank, Round, AsksForInfo, AsksForPiece, AsksForQueue,
               SendsOut, Visits
      <3> QED
        BY <3>1, <3>2, <3>4, <3>5
    <2> QED
      BY <2>1, <2>2, <2>3 DEF Lock, Info
  <1>2. CASE MailIsFull(t) /\ u = Handler(Head(todo[t]))
    <2>1. t = Main /\ pc[t] \in SendsMail
      BY <1>2, OthersAreSimple DEF MailIsFull
    <2>2. PICK p \in Peer : u = Handler(p) /\ p = Head(todo[t])
      BY <1>2 DEF Task, Main, Handler
    <2>3. pc[u] \in SeedLabel \ {"absent", "spawned", "leave", "gone"} /\ u # Main
      BY <1>2, <2>2, Tasks DEF MailIsFull, HasReceiver, Seeding
    <2>4. SeedRank(u) \in {2, 3, 4, 5}
      BY <2>3 DEF SeedRank, WaitRank, SeedLabel, AsksForInfo, SendsOut, Visits,
                  AsksForPiece, AsksForQueue
    <2>5. SeedRank(t) = 1
      BY <2>1 DEF SeedRank, SendsMail, Round, Seeding
    <2> QED
      BY <2>4, <2>5
  <1>3. CASE ChannelIsFull(t) /\ u = Writer(t.of)
    <2>1. t.of \in Peer
      BY <1>3 DEF Task, Writer, Main
    <2>2. pc[u] \in WriterLabel /\ u # Main
      BY <1>3, <2>1, Tasks DEF Guarded, StartedInOrder
    <2>3. SeedRank(u) = 5
      BY <2>2 DEF WriterLabel, SeedRank, WaitRank, SendsOut, AsksForInfo, Visits,
                  AsksForPiece, AsksForQueue
    <2>4. SeedRank(t) = 4
      BY <1>3 DEF ChannelIsFull, SeedRank, WaitRank, SendsOut, AsksForInfo, Round
    <2> QED
      BY <2>3, <2>4
  <1> QED
    BY <1>1, <1>2, <1>3 DEF WaitsFor

\* So there is no circle at all: the task that waits for the last thing in the
\* order waits for none of the others.
LEMMA SeedingNoCircularWait == Guarded /\ Seeding => NoCircularWait
  <1> SUFFICES ASSUME Guarded, Seeding, NEW S, S # {},
                      \A t \in S : t \in Task /\ WaitsFor(t) # {}
               PROVE  \E t \in S : WaitsFor(t) \cap S = {}
    BY DEF NoCircularWait, NoCircle
  <1>1. \A t \in S : SeedRank(t) \in 0 .. 5
    BY DEF SeedRank, WaitRank
  <1>2. PICK t \in S : \A u \in S : SeedRank(u) <= SeedRank(t)
    <2>1. CASE \E t \in S : SeedRank(t) = 5
      BY <1>1, <2>1
    <2>2. CASE \A t \in S : SeedRank(t) # 5
      BY <1>1, <2>2
    <2> QED
      BY <2>1, <2>2
  <1>3. \A u \in WaitsFor(t) \cap S : FALSE
    BY <1>1, <1>2, SeedWaitsAscend
  <1> QED
    BY <1>3

\* A seeder never deadlocks, however many peers come and however small the
\* channels are: what the rounds of the main task wait for never waits for the
\* lock of the peers.
THEOREM NoDeadlockSeeding ==
    ASSUME Pieces = 0
    PROVE  Spec => []NoCircularWait
  <1>1. Init => Guarded /\ Seeding
    BY InitGuarded, InitSeeding
  <1>2. Guarded /\ Seeding /\ [Next]_vars => Guarded' /\ Seeding'
    BY NextGuarded, NextSeeding
  <1>3. Guarded /\ Seeding => NoCircularWait
    BY SeedingNoCircularWait
  <1> QED
    BY <1>1, <1>2, <1>3, PTL DEF Spec
=============================================================================
