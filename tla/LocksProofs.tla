----------------------------- MODULE LocksProofs -----------------------------
(***************************************************************************)
(* What holds of Locks for every set of peers, every amount of work and    *)
(* every capacity of the channels.  The argument: where a task waits says  *)
(* which locks it can hold (Guarded), and every label asks only for a lock *)
(* that comes after all of those.  Types need two more: that lists and     *)
(* channels keep their range (Typed), and where the blocks of the piece    *)
(* under way are (Working).                                                *)
(***************************************************************************)
EXTENDS Locks, Induction, FiniteSetTheorems, TLAPS

\* The locks, but for that of the peers, that a task at a label may hold.
HandlerHolds(p, label) ==
    CASE label \in {"store", "choose", "interestDone", "jobQueue",
                    "sendChoke", "sendBlock"} -> {Info(p)}
      [] label = "chooseQueue" -> {Info(p), Piece}
      [] label = "sendJob" -> {Info(p), Queue}
      [] label \in {"mark", "announcePeers", "announce", "next", "alertPeers", "alert"}
           -> {Info(p), Piece, Queue}
      [] OTHER -> {}

HoldsAt(t, label) ==
    CASE t.task = "handler" -> HandlerHolds(t.of, label)
      [] t.task = "main" -> CASE label = "firstQueue" -> {Piece}
                              [] label = "firstDone" -> {Piece, Queue}
                              [] OTHER -> {}
      [] t.task = "timer" -> IF label = "timerQueue" THEN {Info(t.of)} ELSE {}
      [] OTHER -> IF label = "writeBitfield" THEN {Done} ELSE {}

\* A handler that has no connection yet has no writer; a writer does little.
Unconnected == {"absent", "spawned", "connect"}
WriterLabel == {"absent", "bitfield", "writeBitfield", "recv", "write", "dead"}
StartedInOrder ==
    \A p \in Peer : /\ pc[Handler(p)] \in Unconnected => pc[Writer(p)] = "absent"
                    /\ pc[Writer(p)] \in WriterLabel

\* Where a task waits says what it may hold.
HoldsOnly(t) == \A l \in Lock \ {Peers} : owner[l] = t => l \in HoldsAt(t, pc[t])

Guarded ==
    /\ pc = [t \in Task |-> pc[t]]
    /\ owner \in [Lock -> Task \cup {Nobody}]
    /\ \A t \in Task : HoldsOnly(t)
    /\ StartedInOrder

\* A move to label that starts no writer and undoes no connection.
InOrderOfStart(t, label) ==
    /\ t.task = "writer" => pc[t] # "absent" /\ label \in WriterLabel
    /\ t.task = "handler" /\ label \in Unconnected => pc[t] \in Unconnected

-----------------------------------------------------------------------------
(* Tasks and locks.                                                        *)

\* The locks that exist once are different locks.
LEMMA SharedLocks ==
    /\ Peers \in Lock /\ Piece \in Lock /\ Queue \in Lock /\ Done \in Lock
    /\ Peers # Piece /\ Peers # Queue /\ Peers # Done
    /\ Piece # Queue /\ Piece # Done /\ Queue # Done
  BY DEF Lock, Peers, Piece, Queue, Done

\* The peer_info of each peer has a lock of its own.
LEMMA InfoLock ==
    \A p \in Peer : /\ Info(p) \in Lock
                    /\ Info(p) \notin {Peers, Piece, Queue, Done}
                    /\ \A q \in Peer : Info(p) = Info(q) => p = q
  BY DEF Lock, Peers, Piece, Queue, Done, Info

\* A task is known by its kind and its peer.
LEMMA Tasks ==
    /\ Main \in Task /\ Main.task = "main"
    /\ \A p \in Peer : /\ Handler(p) \in Task /\ Handler(p).task = "handler" /\ Handler(p).of = p
                       /\ Writer(p) \in Task /\ Writer(p).task = "writer" /\ Writer(p).of = p
                       /\ Timer(p) \in Task /\ Timer(p).task = "timer" /\ Timer(p).of = p
  BY DEF Task, Main, Handler, Writer, Timer

\* No task is nobody.
LEMMA NobodyIsNoTask == Nobody \notin Task
  BY DEF Nobody, Task, Main

-----------------------------------------------------------------------------
(* A task that moves to another label keeps what it may hold there.        *)

\* Whoever moves, the others hold what they held, or less.
LEMMA Moves ==
    ASSUME Guarded, NEW t \in Task, NEW label, Go(t, label),
           InOrderOfStart(t, label),
           owner' \in [Lock -> Task \cup {Nobody}],
           \A l \in Lock : owner'[l] \in {owner[l], t, Nobody},
           \A l \in Lock \ {Peers} : owner'[l] = t => l \in HoldsAt(t, label)
    PROVE  Guarded'
  <1>1. pc' = [u \in Task |-> pc'[u]] /\ pc'[t] = label /\ \A u \in Task \ {t} : pc'[u] = pc[u]
    BY DEF Guarded, Go, At
  <1>2. ASSUME NEW u \in Task, NEW l \in Lock \ {Peers}, owner'[l] = u
        PROVE  l \in HoldsAt(u, pc'[u])
    <2>1. CASE u = t
      BY <1>1, <1>2, <2>1
    <2>2. CASE u # t
      <3>1. owner[l] = u
        BY <1>2, <2>2, NobodyIsNoTask
      <3> QED
        BY <1>1, <1>2, <2>2, <3>1 DEF Guarded, HoldsOnly
    <2> QED
      BY <2>1, <2>2
  <1>3. StartedInOrder'
    BY <1>1, Tasks DEF Guarded, StartedInOrder, InOrderOfStart
  <1> QED
    BY <1>1, <1>2, <1>3 DEF Guarded, HoldsOnly

\* No lock is taken or dropped.
LEMMA MovesKeeping ==
    ASSUME Guarded, NEW t \in Task, NEW label, Go(t, label),
           InOrderOfStart(t, label),
           UNCHANGED owner,
           HoldsAt(t, pc[t]) \subseteq HoldsAt(t, label)
    PROVE  Guarded'
  <1>1. \A l \in Lock \ {Peers} : owner'[l] = t => l \in HoldsAt(t, label)
    BY DEF Guarded, HoldsOnly
  <1>2. owner' \in [Lock -> Task \cup {Nobody}]
    BY DEF Guarded
  <1> QED
    BY <1>1, <1>2, Moves

\* A lock that is free is taken.
LEMMA MovesTaking ==
    ASSUME Guarded, NEW t \in Task, NEW label, Go(t, label),
           InOrderOfStart(t, label),
           NEW m \in Lock, Take(t, m),
           HoldsAt(t, pc[t]) \subseteq HoldsAt(t, label),
           m \in HoldsAt(t, label) \cup {Peers}
    PROVE  Guarded'
  <1>1. owner' \in [Lock -> Task \cup {Nobody}]
    BY DEF Guarded, Take
  <1>2. \A l \in Lock : owner'[l] = IF l = m THEN t ELSE owner[l]
    BY DEF Guarded, Take
  <1>3. \A l \in Lock \ {Peers} : owner'[l] = t => l \in HoldsAt(t, label)
    BY <1>2 DEF Guarded, HoldsOnly
  <1> QED
    BY <1>1, <1>2, <1>3, Moves

\* Locks are dropped.
LEMMA MovesDropping ==
    ASSUME Guarded, NEW t \in Task, NEW label, Go(t, label),
           InOrderOfStart(t, label),
           NEW S, Drop(S),
           HoldsAt(t, pc[t]) \subseteq HoldsAt(t, label) \cup S
    PROVE  Guarded'
  <1>1. owner' \in [Lock -> Task \cup {Nobody}]
    BY DEF Guarded, Drop
  <1>2. \A l \in Lock : owner'[l] = IF l \in S THEN Nobody ELSE owner[l]
    BY DEF Drop
  <1>3. \A l \in Lock \ {Peers} : owner'[l] = t => l \in HoldsAt(t, label)
    BY <1>2, NobodyIsNoTask DEF Guarded, HoldsOnly
  <1> QED
    BY <1>1, <1>2, <1>3, Moves

\* Guards are kept or dropped, and another task that holds nothing may be started.
LEMMA GuardsShrink ==
    ASSUME Guarded, NEW S, Drop(S),
           pc' = [t \in Task |-> pc'[t]],
           StartedInOrder',
           \A t \in Task : HoldsAt(t, pc[t]) \subseteq HoldsAt(t, pc'[t]) \cup S
    PROVE  Guarded'
  <1>1. owner' \in [Lock -> Task \cup {Nobody}]
    BY DEF Guarded, Drop
  <1>2. \A l \in Lock : owner'[l] = IF l \in S THEN Nobody ELSE owner[l]
    BY DEF Drop
  <1>3. \A u \in Task : \A l \in Lock \ {Peers} : owner'[l] = u => l \in HoldsAt(u, pc'[u])
    BY <1>2, NobodyIsNoTask DEF Guarded, HoldsOnly
  <1> QED
    BY <1>1, <1>3 DEF Guarded, HoldsOnly

\* Nobody moves and no lock changes hands.
LEMMA StaysGuarded ==
    ASSUME Guarded, UNCHANGED <<pc, owner>>
    PROVE  Guarded'
  BY DEF Guarded, HoldsOnly, StartedInOrder
-----------------------------------------------------------------------------
(* Every step keeps Guarded: the main task.                                *)

\* The main task outside the unchoke rounds.
LEMMA MainGuarded ==
    ASSUME Guarded, PublishPeers \/ LockFirstPiece \/ LockFirstQueue \/ ChooseFirstPiece
             \/ PushPeer \/ ShowProgress \/ Select
    PROVE  Guarded'
  <1> USE Tasks, SharedLocks, InfoLock
      DEF HoldsAt, HandlerHolds, InOrderOfStart, Unconnected, WriterLabel
  <1>1. CASE PublishPeers
    BY <1>1, MovesKeeping DEF PublishPeers, Use
  <1>2. CASE LockFirstPiece
    BY <1>2, MovesTaking DEF LockFirstPiece
  <1>3. CASE LockFirstQueue
    BY <1>3, MovesTaking DEF LockFirstQueue
  <1>4. CASE ChooseFirstPiece
    BY <1>4, MovesDropping DEF ChooseFirstPiece
  <1>5. CASE PushPeer
    BY <1>5, MovesKeeping DEF PushPeer, Use
  <1>6. CASE ShowProgress
    BY <1>6, MovesKeeping DEF ShowProgress, Use
  <1>7. CASE Select
    BY <1>7, MovesKeeping DEF Select
  <1> QED
    BY <1>1, <1>2, <1>3, <1>4, <1>5, <1>6, <1>7

\* The unchoke rounds hold the lock of the peers only.
LEMMA RoundsGuarded ==
    ASSUME Guarded, LockPeersForRates \/ ReadInfo \/ SortPeers \/ VisitPeer \/ Unchoke
             \/ RegularUnchokeReturns \/ LockPeersForOptimistic \/ ChokeOld
             \/ PickPeer \/ PickNobody \/ UnchokeNew
    PROVE  Guarded'
  <1> USE Tasks, SharedLocks, InfoLock
      DEF HoldsAt, HandlerHolds, InOrderOfStart, Unconnected, WriterLabel
  <1>1. CASE LockPeersForRates
    BY <1>1, MovesTaking DEF LockPeersForRates
  <1>2. CASE ReadInfo
    BY <1>2, StaysGuarded DEF ReadInfo, Use
  <1>3. CASE SortPeers
    BY <1>3, MovesKeeping DEF SortPeers
  <1>4. CASE VisitPeer
    BY <1>4, MovesKeeping, StaysGuarded DEF VisitPeer, Use
  <1>5. CASE Unchoke
    BY <1>5, MovesKeeping DEF Unchoke
  <1>6. CASE RegularUnchokeReturns
    BY <1>6, MovesDropping DEF RegularUnchokeReturns
  <1>7. CASE LockPeersForOptimistic
    BY <1>7, MovesTaking DEF LockPeersForOptimistic
  <1>8. CASE ChokeOld
    BY <1>8, MovesKeeping DEF ChokeOld
  <1>9. CASE PickPeer
    BY <1>9, MovesKeeping DEF PickPeer
  <1>10. CASE PickNobody
    BY <1>10, MovesDropping DEF PickNobody
  <1>11. CASE UnchokeNew
    BY <1>11, MovesDropping DEF UnchokeNew
  <1> QED
    BY <1>1, <1>2, <1>3, <1>4, <1>5, <1>6, <1>7, <1>8, <1>9, <1>10, <1>11
-----------------------------------------------------------------------------
(* Handlers.                                                               *)

\* A handler that starts, returns or deals with a message briefly.
LEMMA BriefGuarded ==
    ASSUME Guarded, NEW p \in Peer,
           StartHandler(p) \/ ReceiveClientMessage(p)
             \/ ReceivePeerMessage(p) \/ IntervalTicks(p) \/ Tick(p)
             \/ DisconnectPeer(p) \/ ConnectFails(p) \/ HandleBriefly(p)
             \/ HandleBadMessage(p)
    PROVE  Guarded'
  <1> USE Tasks, SharedLocks, InfoLock
      DEF HoldsAt, HandlerHolds, InOrderOfStart, Unconnected, WriterLabel
  <1>1. CASE StartHandler(p)
    BY <1>1, MovesKeeping DEF StartHandler
  <1>2. CASE ReceiveClientMessage(p)
    BY <1>2, MovesKeeping DEF ReceiveClientMessage
  <1>3. CASE ReceivePeerMessage(p)
    BY <1>3, MovesKeeping DEF ReceivePeerMessage
  <1>4. CASE IntervalTicks(p)
    BY <1>4, MovesKeeping DEF IntervalTicks
  <1>5. CASE Tick(p)
    BY <1>5, MovesKeeping DEF Tick, Use
  <1>6. CASE DisconnectPeer(p)
    BY <1>6, MovesKeeping DEF DisconnectPeer, Use
  <1>7. CASE ConnectFails(p)
    BY <1>7, MovesKeeping DEF ConnectFails, Leave
  <1>8. CASE HandleBriefly(p)
    BY <1>8, MovesKeeping DEF HandleBriefly, Use
  <1>9. CASE HandleBadMessage(p)
    BY <1>9, MovesKeeping DEF HandleBadMessage, Leave, Use
  <1> QED
    BY <1>1, <1>2, <1>3, <1>4, <1>5, <1>6, <1>7, <1>8, <1>9

\* A handler that takes the guard of its peer_info, or drops it.
LEMMA MessageGuarded ==
    ASSUME Guarded, NEW p \in Peer,
           PeerRequests(p) \/ PeerPiece(p) \/ HandleWord(p)
             \/ LockInfoForInterest(p) \/ CheckIfInterested(p)
             \/ LockInfoForJobs(p) \/ NoJobs(p) \/ TryGetNewJobs(p)
    PROVE  Guarded'
  <1> USE Tasks, SharedLocks, InfoLock
      DEF HoldsAt, HandlerHolds, InOrderOfStart, Unconnected, WriterLabel
  <1>1. CASE PeerRequests(p)
    BY <1>1, MovesTaking DEF PeerRequests
  <1>2. CASE PeerPiece(p)
    BY <1>2, MovesTaking DEF PeerPiece
  <1>3. CASE HandleWord(p)
    BY <1>3, MovesKeeping, MovesTaking DEF HandleWord, Use
  <1>4. CASE LockInfoForInterest(p)
    BY <1>4, MovesTaking DEF LockInfoForInterest
  <1>5. CASE CheckIfInterested(p)
    BY <1>5, MovesDropping DEF CheckIfInterested
  <1>6. CASE LockInfoForJobs(p)
    BY <1>6, MovesTaking DEF LockInfoForJobs
  <1>7. CASE NoJobs(p)
    BY <1>7, MovesDropping DEF NoJobs
  <1>8. CASE TryGetNewJobs(p)
    BY <1>8, MovesTaking DEF TryGetNewJobs
  <1> QED
    BY <1>1, <1>2, <1>3, <1>4, <1>5, <1>6, <1>7, <1>8

\* A handler that completes a piece.
LEMMA PieceGuarded ==
    ASSUME Guarded, NEW p \in Peer,
           StoreBlock(p) \/ LockPiece(p) \/ BadPiece(p) \/ GoodPiece(p)
             \/ MarkDownloaded(p) \/ LockPeersToAnnounce(p)
             \/ AnnounceEnds(p) \/ ChooseNext(p) \/ NewPieceChosen(p)
    PROVE  Guarded'
  <1> USE Tasks, SharedLocks, InfoLock
      DEF HoldsAt, HandlerHolds, InOrderOfStart, Unconnected, WriterLabel
  <1>1. CASE StoreBlock(p)
    BY <1>1, MovesKeeping DEF StoreBlock, Use
  <1>2. CASE LockPiece(p)
    BY <1>2, MovesDropping, MovesTaking DEF LockPiece
  <1>3. CASE BadPiece(p)
    BY <1>3, MovesDropping DEF BadPiece
  <1>4. CASE GoodPiece(p)
    BY <1>4, MovesTaking DEF GoodPiece
  <1>5. CASE MarkDownloaded(p)
    BY <1>5, MovesKeeping DEF MarkDownloaded, Use
  <1>6. CASE LockPeersToAnnounce(p)
    BY <1>6, MovesTaking DEF LockPeersToAnnounce
  <1>7. CASE AnnounceEnds(p)
    BY <1>7, MovesDropping DEF AnnounceEnds
  <1>8. CASE ChooseNext(p)
    BY <1>8, MovesKeeping DEF ChooseNext, Use
  <1>9. CASE NewPieceChosen(p)
    BY <1>9, MovesDropping DEF NewPieceChosen, AlertReturns
  <1> QED
    BY <1>1, <1>2, <1>3, <1>4, <1>5, <1>6, <1>7, <1>8, <1>9
-----------------------------------------------------------------------------
(* Writers and timers, and what any task does.                             *)

\* A writer, and a timer.
LEMMA WriterAndTimerGuarded ==
    ASSUME Guarded, NEW p \in Peer,
           LockDoneForBitfield(p) \/ WriteBitfield(p)
             \/ ReceiveAndWrite(p) \/ Write(p) \/ WriteFails(p)
             \/ TimerFires(p) \/ LockInfoForTimer(p) \/ TryRemoveJob(p)
    PROVE  Guarded'
  <1> USE Tasks, SharedLocks, InfoLock
      DEF HoldsAt, HandlerHolds, InOrderOfStart, Unconnected, WriterLabel
  <1>1. CASE LockDoneForBitfield(p)
    BY <1>1, MovesTaking DEF LockDoneForBitfield
  <1>2. CASE WriteBitfield(p)
    BY <1>2, MovesDropping DEF WriteBitfield
  <1>3. CASE ReceiveAndWrite(p)
    BY <1>3, MovesKeeping DEF ReceiveAndWrite
  <1>4. CASE Write(p)
    BY <1>4, MovesKeeping DEF Write
  <1>5. CASE WriteFails(p)
    BY <1>5, MovesDropping DEF WriteFails
  <1>6. CASE TimerFires(p)
    BY <1>6, MovesKeeping DEF TimerFires
  <1>7. CASE LockInfoForTimer(p)
    BY <1>7, MovesTaking DEF LockInfoForTimer
  <1>8. CASE TryRemoveJob(p)
    BY <1>8, MovesDropping DEF TryRemoveJob
  <1> QED
    BY <1>1, <1>2, <1>3, <1>4, <1>5, <1>6, <1>7, <1>8

\* A broadcast, by any task: only the lock of the peers is taken, and what is
\* dropped at its end is all that may be held.
LEMMA BroadcastGuarded ==
    ASSUME Guarded, NEW t \in Task, t.task # "writer",
           LockPeersForAlert(t) \/ SendToNext(t)
    PROVE  Guarded'
  <1>1. CASE LockPeersForAlert(t)
    <2>1. HoldsAt(t, "alertPeers") \subseteq HoldsAt(t, "alert")
      BY Tasks DEF HoldsAt, HandlerHolds
    <2>2. InOrderOfStart(t, "alert")
      BY DEF InOrderOfStart, Unconnected
    <2> QED
      BY <1>1, <2>1, <2>2, MovesTaking, SharedLocks DEF LockPeersForAlert
  <1>2. CASE SendToNext(t)
    BY <1>2, StaysGuarded DEF SendToNext
  <1> QED
    BY <1>1, <1>2

\* The main task and the timers hold nothing else during a broadcast.
LEMMA AlertReturnsGuarded ==
    ASSUME Guarded, NEW t \in Task, t.task \in {"main", "timer"}, NEW to,
           AlertReturns(t, to, {Peers})
    PROVE  Guarded'
  <1>1. HoldsAt(t, "alert") = {} /\ InOrderOfStart(t, to)
    BY DEF HoldsAt, InOrderOfStart
  <1> QED
    BY <1>1, MovesDropping DEF AlertReturns

-----------------------------------------------------------------------------
(* Steps that move two tasks, or move a handler to one of two labels.      *)

\* A handler that is spawned holds nothing, nor does the task that spawns it.
LEMMA AcceptGuarded ==
    ASSUME Guarded, NEW p \in Peer, AcceptPeer(p)
    PROVE  Guarded'
  <1>1. /\ pc' = [t \in Task |-> pc'[t]]
        /\ pc[Main] = "select" /\ pc[Handler(p)] = "absent" /\ pc'[Handler(p)] = "spawned"
        /\ \A t \in Task \ {Main, Handler(p)} : pc'[t] = pc[t]
    BY Tasks DEF Guarded, AcceptPeer
  <1>2. Drop({})
    BY DEF Guarded, AcceptPeer, Drop
  <1>3. HoldsAt(Main, "select") = {} /\ HoldsAt(Handler(p), "absent") = {}
    BY Tasks DEF HoldsAt, HandlerHolds
  <1>4. \A t \in Task : HoldsAt(t, pc[t]) \subseteq HoldsAt(t, pc'[t]) \cup {}
    BY <1>1, <1>3
  <1>5. StartedInOrder'
    BY <1>1, Tasks DEF Guarded, StartedInOrder, Unconnected
  <1> QED
    BY <1>1, <1>2, <1>4, <1>5, GuardsShrink

\* Nor does a handler that connects, nor the writer that it starts.
LEMMA ConnectGuarded ==
    ASSUME Guarded, NEW p \in Peer, Connect(p)
    PROVE  Guarded'
  <1>1. /\ pc' = [t \in Task |-> pc'[t]]
        /\ pc[Handler(p)] = "connect" /\ pc'[Handler(p)] = "idle"
        /\ pc'[Writer(p)] = "bitfield"
        /\ \A t \in Task \ {Writer(p), Handler(p)} : pc'[t] = pc[t]
    BY Tasks DEF Guarded, Connect
  <1>2. pc[Writer(p)] = "absent"
    BY <1>1 DEF Guarded, StartedInOrder, Unconnected
  <1>3. Drop({})
    BY DEF Guarded, Connect, Use, Drop
  <1>4. HoldsAt(Handler(p), "connect") = {} /\ HoldsAt(Writer(p), "absent") = {}
    BY Tasks DEF HoldsAt, HandlerHolds
  <1>5. \A t \in Task : HoldsAt(t, pc[t]) \subseteq HoldsAt(t, pc'[t]) \cup {}
    BY <1>1, <1>2, <1>4
  <1>6. StartedInOrder'
    BY <1>1, Tasks DEF Guarded, StartedInOrder, Unconnected, WriterLabel
  <1> QED
    BY <1>1, <1>3, <1>5, <1>6, GuardsShrink

\* A send to the writer drops the guards its caller kept, whether it succeeds or
\* the handler returns.
LEMMA SendsGuarded ==
    ASSUME Guarded, NEW p \in Peer, NEW next, NEW S,
           SendToWriter(p, next, S),
           HoldsAt(Handler(p), pc[Handler(p)]) \subseteq S,
           next = [t \in Task |-> next[t]],
           next[Handler(p)] \notin Unconnected,
           \A t \in Task \ {Handler(p)} :
               /\ HoldsAt(t, pc[t]) \subseteq HoldsAt(t, next[t])
               /\ t.task # "timer" => next[t] = pc[t]
    PROVE  Guarded'
  <1>1. Drop(S) /\ (pc' = next \/ pc' = At(Handler(p), "leave"))
    BY DEF SendToWriter
  <1>2. pc' = [t \in Task |-> pc'[t]]
    BY <1>1 DEF Guarded, At
  <1>3. /\ pc'[Handler(p)] \notin Unconnected
        /\ \A t \in Task \ {Handler(p)} :
              /\ HoldsAt(t, pc[t]) \subseteq HoldsAt(t, pc'[t])
              /\ t.task # "timer" => pc'[t] = pc[t]
    BY <1>1, Tasks DEF Guarded, At, Unconnected
  <1>4. StartedInOrder'
    BY <1>3, Tasks DEF Guarded, StartedInOrder
  <1> QED
    BY <1>1, <1>2, <1>3, <1>4, GuardsShrink

\* Each send of a handler.
LEMMA HandlerSendsGuarded ==
    ASSUME Guarded, NEW p \in Peer,
           SendJob(p) \/ SendHave(p) \/ SendInterested(p) \/ SendChokeOrBlock(p)
    PROVE  Guarded'
  <1>1. CASE SendJob(p)
    <2> DEFINE next == [pc EXCEPT ![Handler(p)] = "idle",
                                  ![Timer(p)] = IF @ = "off" THEN "asleep" ELSE @]
    <2>1. HoldsAt(Handler(p), pc[Handler(p)]) \subseteq {Info(p), Queue}
      BY <1>1, Tasks DEF SendJob, HoldsAt, HandlerHolds
    <2>2. next = [t \in Task |-> next[t]] /\ next[Handler(p)] = "idle"
      BY Tasks DEF Guarded
    <2>3. \A t \in Task \ {Handler(p)} :
              /\ HoldsAt(t, pc[t]) \subseteq HoldsAt(t, next[t])
              /\ t.task # "timer" => next[t] = pc[t]
      BY Tasks DEF Guarded, HoldsAt
    <2>4. SendToWriter(p, next, {Info(p), Queue})
      BY <1>1 DEF SendJob
    <2> HIDE DEF next
    <2> QED
      BY <2>1, <2>2, <2>3, <2>4, SendsGuarded DEF Unconnected
  <1>2. ASSUME NEW label, label \notin Unconnected, NEW S,
               SendToWriter(p, At(Handler(p), label), S),
               HoldsAt(Handler(p), pc[Handler(p)]) \subseteq S
        PROVE  Guarded'
    <2> DEFINE next == At(Handler(p), label)
    <2>1. next = [t \in Task |-> next[t]] /\ next[Handler(p)] = label
      BY Tasks DEF Guarded, At
    <2>2. \A t \in Task \ {Handler(p)} :
              /\ HoldsAt(t, pc[t]) \subseteq HoldsAt(t, next[t])
              /\ t.task # "timer" => next[t] = pc[t]
      BY DEF Guarded, At
    <2>3. SendToWriter(p, next, S)
      BY <1>2
    <2> HIDE DEF next
    <2> QED
      BY <1>2, <2>1, <2>2, <2>3, SendsGuarded
  <1>3. CASE SendHave(p)
    BY <1>2, <1>3, Tasks DEF SendHave, HoldsAt, HandlerHolds, Unconnected
  <1>4. CASE SendInterested(p)
    BY <1>2, <1>4, Tasks DEF SendInterested, HoldsAt, HandlerHolds, Unconnected
  <1>5. CASE SendChokeOrBlock(p)
    BY <1>2, <1>5, Tasks DEF SendChokeOrBlock, HoldsAt, HandlerHolds, Unconnected
  <1> QED
    BY <1>1, <1>3, <1>4, <1>5

-----------------------------------------------------------------------------
(* The theorems.                                                           *)

\* At the start no task holds a lock.
LEMMA InitGuarded == Init => Guarded
  <1> SUFFICES ASSUME Init PROVE Guarded
    OBVIOUS
  <1>1. pc = [t \in Task |-> pc[t]]
    BY DEF Init
  <1>4. \A p \in Peer : pc[Writer(p)] = "absent"
    <2> TAKE p \in Peer
    <2>1. Writer(p) \in Task /\ Writer(p).task = "writer"
      BY Tasks
    <2> QED
      BY <2>1 DEF Init, FirstLabel
  <1>2. owner \in [Lock -> Task \cup {Nobody}] /\ \A l \in Lock : owner[l] = Nobody
    BY DEF Init
  <1>3. \A t \in Task : HoldsOnly(t)
    BY <1>2, NobodyIsNoTask DEF HoldsOnly
  <1> QED
    BY <1>1, <1>2, <1>3, <1>4 DEF Guarded, StartedInOrder, WriterLabel

\* Guarded is inductive.
LEMMA NextGuarded ==
    ASSUME Guarded, [Next]_vars
    PROVE  Guarded'
  <1>1. CASE MainStep \/ Select
    BY <1>1, MainGuarded, RoundsGuarded, BroadcastGuarded, AlertReturnsGuarded, Tasks
    DEF MainStep
  <1>2. ASSUME NEW p \in Peer, PeerStep(p)
        PROVE  Guarded'
    <2>1. CASE HandlerStep(p)
      BY <2>1, BriefGuarded, MessageGuarded, PieceGuarded, ConnectGuarded,
         HandlerSendsGuarded, BroadcastGuarded, Tasks
      DEF HandlerStep
    <2>2. CASE WriterStep(p)
      BY <2>2, WriterAndTimerGuarded DEF WriterStep
    <2>3. CASE TimerStep(p)
      BY <2>3, WriterAndTimerGuarded, BroadcastGuarded, AlertReturnsGuarded, Tasks
      DEF TimerStep
    <2> QED
      BY <1>2, <2>1, <2>2, <2>3, AcceptGuarded, BriefGuarded, WriterAndTimerGuarded
      DEF PeerStep
  <1>3. CASE UNCHANGED vars
    BY <1>3, StaysGuarded DEF vars
  <1> QED
    BY <1>1, <1>2, <1>3 DEF Next

\* What a task may hold comes, in the order, before what it asks for.
LEMMA GuardedInOrder == Guarded => InOrder
  <1> SUFFICES ASSUME Guarded, NEW t \in Task, NEW l \in Lock \ {Peers}, owner[l] = t
               PROVE  /\ \A m \in AskedLocks(t) \ {Peers} : Rank(l) < Rank(m)
                      /\ pc[t] \in SendsOut => Rank(l) < 4
    BY DEF InOrder
  <1>1. l \in HoldsAt(t, pc[t])
    BY DEF Guarded, HoldsOnly
  <1>2. /\ Rank(Piece) = 2 /\ Rank(Queue) = 3 /\ Rank(Done) = 5
        /\ \A p : Rank(Info(p)) = 1
    BY DEF Rank, Piece, Queue, Done, Info
  <1> QED
    BY <1>1, <1>2, Tasks
    DEF HoldsAt, HandlerHolds, AskedLocks, AsksForPeers, AsksForInfo, AsksForPiece,
        AsksForQueue, AsksForDone, SendsOut, Visits

\* How far in the order what a task waits for is; the last is waited for with
\* nothing kept that comes after it.
WaitRank(t) == IF pc[t] \in SendsOut THEN 4
               ELSE IF pc[t] \in AsksForInfo \cup Visits THEN 1
               ELSE IF pc[t] \in AsksForPiece THEN 2
               ELSE IF pc[t] \in AsksForQueue THEN 3
               ELSE 5

\* It is the rank of the lock that is asked for.
LEMMA RankOfWait ==
    ASSUME NEW t \in Task, NEW l \in AskedLocks(t) \ {Peers}
    PROVE  WaitRank(t) = Rank(l)
  <1>1. /\ Rank(Piece) = 2 /\ Rank(Queue) = 3 /\ Rank(Done) = 5
        /\ \A p : Rank(Info(p)) = 1
    BY DEF Rank, Piece, Queue, Done, Info
  <1> QED
    BY <1>1
    DEF WaitRank, AskedLocks, AsksForPeers, AsksForInfo, AsksForPiece, AsksForQueue,
        AsksForDone, SendsOut, Visits

\* A task is waited for by those that wait for something earlier in the order.
LEMMA WaitsAscend ==
    ASSUME Guarded, NEW t \in Task, NEW u \in InnerWaits(t), InnerWaits(u) # {}
    PROVE  WaitRank(t) < WaitRank(u)
  <1>1. u \in Task
    BY DEF InnerWaits
  <1>2. \/ pc[u] \in SendsOut /\ WaitRank(u) = 4
        \/ \E m \in AskedLocks(u) \ {Peers} : WaitRank(u) = Rank(m)
    BY <1>1, RankOfWait DEF InnerWaits, ChannelIsFull, WaitRank
  <1>3. CASE ChannelIsFull(t) /\ u = Writer(t.of)
    <2>1. WaitRank(t) = 4
      BY <1>3 DEF ChannelIsFull, WaitRank
    <2>2. t.of \in Peer
      BY <1>1, <1>3 DEF Task, Writer, Main
    <2>3. pc[u] \in WriterLabel
      BY <1>3, <2>2 DEF Guarded, StartedInOrder
    <2>4. WaitRank(u) = 5
      BY <2>3 DEF WriterLabel, WaitRank, SendsOut, AsksForInfo, Visits, AsksForPiece,
                  AsksForQueue
    <2> QED
      BY <2>1, <2>4
  <1>4. CASE \E l \in Lock \ {Peers} : l \in AskedLocks(t) /\ owner[l] = u
    <2>1. PICK l \in Lock \ {Peers} : l \in AskedLocks(t) /\ owner[l] = u
      BY <1>4
    <2>2. WaitRank(t) = Rank(l)
      BY <2>1, RankOfWait
    <2>3. /\ \A m \in AskedLocks(u) \ {Peers} : Rank(l) < Rank(m)
          /\ pc[u] \in SendsOut => Rank(l) < 4
      BY <1>1, <2>1, GuardedInOrder DEF InOrder
    <2> QED
      BY <1>2, <2>2, <2>3
  <1> QED
    BY <1>3, <1>4 DEF InnerWaits

\* So there is no circle: the task that waits for the last thing in the order waits
\* for none of the others.
LEMMA GuardedNoInnerCircle == Guarded => NoInnerCircle
  <1> SUFFICES ASSUME Guarded, NEW S, S # {},
                      \A t \in S : t \in Task /\ InnerWaits(t) # {}
               PROVE  \E t \in S : InnerWaits(t) \cap S = {}
    BY DEF NoInnerCircle, NoCircle
  <1>1. \A t \in S : WaitRank(t) \in 1 .. 5
    BY DEF WaitRank
  <1>2. PICK t \in S : \A u \in S : WaitRank(u) <= WaitRank(t)
    <2>1. CASE \E t \in S : WaitRank(t) = 5
      BY <1>1, <2>1
    <2>2. CASE \A t \in S : WaitRank(t) # 5
      BY <1>1, <2>2
    <2> QED
      BY <2>1, <2>2
  <1>3. \A u \in InnerWaits(t) \cap S : FALSE
    BY <1>1, <1>2, WaitsAscend
  <1> QED
    BY <1>3

\* Where a task waits determines what it holds, whatever the others do: each of
\* the drops and scopes of peer.rs and torrent.rs is where it must be.
THEOREM LocksTaken == Spec => []Guarded
  BY InitGuarded, NextGuarded, PTL DEF Spec

\* All locks but that of the peers are asked for in one order, by every task and
\* for any number of peers: peer_info, piece, queue, a writer's channel,
\* downloaded_pieces.
THEOREM LocksInOrder == Spec => []InOrder
  BY LocksTaken, GuardedInOrder, PTL

\* No deadlock is made of these locks and the writers' channels alone, however many
\* peers there are.
THEOREM NoInnerDeadlock == Spec => []NoInnerCircle
  BY LocksTaken, GuardedNoInnerCircle, PTL

-----------------------------------------------------------------------------
(* Types: what every step keeps of the tasks, lists and channels (Typed).  *)

\* There is a peer to send to where the main task sends to one.
Aimed == pc[Main] \in {"unchoke", "chokeOld", "unchokeNew"} => todo[Main] # <<>>

Typed ==
    /\ pc \in [Task -> Label]
    /\ owner \in [Lock -> Task \cup {Nobody}]
    /\ peers \in Seq(Peer)
    /\ todo \in [Task -> Seq(Peer)]
    /\ mail \in [Peer -> 0 .. MailCapacity]
    /\ outbox \in [Peer -> 0 .. WriterCapacity]
    /\ Aimed

\* retain() leaves a list of peers.
LEMMA WithoutType ==
    ASSUME NEW s \in Seq(Peer), NEW p
    PROVE  Without(s, p) \in Seq(Peer)
  <1> DEFINE T == Seq(Peer)
             step == [x \in T \X Peer |-> IF x[2] = p THEN x[1] ELSE Append(x[1], x[2])]
             Solves(it) == it = [t \in SUBSET DOMAIN s |->
                 IF t = {} THEN <<>>
                 ELSE IF s[Max(t)] = p THEN it[t \ {Max(t)}]
                      ELSE Append(it[t \ {Max(t)}], s[Max(t)])]
             iter == CHOOSE it : Solves(it)
  <1>1. FoldOver(T, Peer, <<>>, step)
    <2>1. <<>> \in T /\ step \in [T \X Peer -> T]
      OBVIOUS
    <2> QED BY <2>1 DEF FoldOver
  <1>2. \E g : Solves(g)
    <2>1. PICK g \in [SUBSET DOMAIN s -> T] : IsIteration(g, <<>>, step, s)
      <3> HIDE DEF step, T
      <3> QED BY <1>1, IterationExists
    <2>2. ASSUME NEW t \in (SUBSET DOMAIN s) \ {{}}
          PROVE  g[t] = IF s[Max(t)] = p THEN g[t \ {Max(t)}]
                        ELSE Append(g[t \ {Max(t)}], s[Max(t)])
      <3>1. g[t] = step[<<g[t \ {Max(t)}], s[Max(t)]>>] /\ Max(t) \in DOMAIN s
        BY <2>1 DEF IsIteration
      <3>2. <<g[t \ {Max(t)}], s[Max(t)]>> \in T \X Peer
        BY <3>1
      <3> QED BY <3>1, <3>2
    <2>3. g[{}] = <<>>
      BY <2>1 DEF IsIteration
    <2>4. Solves(g)
      <3> HIDE DEF T, step
      <3> QED BY <2>2, <2>3
    <2> QED BY <2>4
  <1>3. Solves(iter)
    <2> HIDE DEF Solves
    <2> QED BY <1>2
  <1>4. Iterates(iter, step, T, <<>>, s)
    <2>1. DOMAIN s = 1 .. Len(s)
      OBVIOUS
    <2>2. ASSUME NEW t \in (SUBSET (1 .. Len(s))) \ {{}}, iter[t \ {Max(t)}] \in T
          PROVE  iter[t] = step[<<iter[t \ {Max(t)}], s[Max(t)]>>]
      <3>1. iter[t] = IF s[Max(t)] = p THEN iter[t \ {Max(t)}]
                      ELSE Append(iter[t \ {Max(t)}], s[Max(t)])
        <4> HIDE DEF iter
        <4> QED BY <1>3, <2>1
      <3>2. Max(t) \in 1 .. Len(s)
        <4>1. Len(s) \in Nat
          OBVIOUS
        <4> QED BY <4>1, MaxOf
      <3>3. <<iter[t \ {Max(t)}], s[Max(t)]>> \in T \X Peer
        BY <2>2, <3>2
      <3> HIDE DEF iter
      <3> QED BY <3>1, <3>3
    <2>3. iter[{}] = <<>>
        <4> HIDE DEF iter
        <4> QED BY <1>3, <2>1
    <2> HIDE DEF iter, step
    <2> QED BY <2>2, <2>3 DEF Iterates
  <1>5. Without(s, p) = iter[DOMAIN s]
    BY DEF Without, FoldLeft, MapThenFoldSet
  <1>6. iter[DOMAIN s] = FoldBy(step, <<>>, s)
    <2> HIDE DEF iter, step, T
    <2> QED BY <1>1, <1>4, FoldIsFoldBy
  <1>7. FoldBy(step, <<>>, s) \in T
    <2> HIDE DEF step, T
    <2> QED BY <1>1, FoldByType
  <1> QED
    BY <1>5, <1>6, <1>7

-----------------------------------------------------------------------------
(* The parts of a type.                                                    *)

\* A task moves to a label.
LEMMA GoType ==
    ASSUME pc \in [Task -> Label], NEW t \in Task, NEW label \in Label, Go(t, label)
    PROVE  pc' \in [Task -> Label]
  BY DEF Go, At

\* Locks are taken by tasks.
LEMMA OwnerType ==
    ASSUME owner \in [Lock -> Task \cup {Nobody}]
    PROVE  /\ \A l \in Lock : Use(l) => owner' \in [Lock -> Task \cup {Nobody}]
           /\ \A t \in Task, l \in Lock : Take(t, l) => owner' \in [Lock -> Task \cup {Nobody}]
           /\ \A S : Drop(S) => owner' \in [Lock -> Task \cup {Nobody}]
  BY DEF Use, Take, Drop

\* A mailbox is not filled beyond its capacity.
LEMMA MailType ==
    ASSUME mail \in [Peer -> 0 .. MailCapacity], NEW p \in Peer, SendMessage(p)
    PROVE  mail' \in [Peer -> 0 .. MailCapacity]
  <1>1. MailCapacity \in Nat
    BY LocksAssumption
  <1>2. mail[p] \in 0 .. MailCapacity
    OBVIOUS
  <1>3. CASE HasReceiver(p)
    <2>1. mail[p] + 1 \in 0 .. MailCapacity
      BY <1>1, <1>2, <1>3 DEF SendMessage
    <2> QED BY <1>3, <2>1 DEF SendMessage
  <1>4. CASE ~ HasReceiver(p)
    BY <1>4 DEF SendMessage
  <1> QED BY <1>3, <1>4

\* A task that moves to another label with its list of peers.
LEMMA TypedMoves ==
    ASSUME Typed, NEW t \in Task, NEW label \in Label, Go(t, label),
           owner' \in [Lock -> Task \cup {Nobody}],
           peers' \in Seq(Peer),
           todo' \in [Task -> Seq(Peer)],
           t # Main => todo'[Main] = todo[Main],
           t = Main => (label \in {"unchoke", "chokeOld", "unchokeNew"} => todo'[Main] # <<>>),
           mail' \in [Peer -> 0 .. MailCapacity],
           outbox' \in [Peer -> 0 .. WriterCapacity]
    PROVE  Typed'
  <1>1. pc' \in [Task -> Label]
    BY GoType DEF Typed
  <1>2. Aimed'
    BY Tasks DEF Typed, Aimed, Go, At
  <1> QED
    BY <1>1, <1>2 DEF Typed

\* A task that moves and leaves the peers and the channels alone.
LEMMA TypedQuietMoves ==
    ASSUME Typed, NEW t \in Task, NEW label \in Label, Go(t, label),
           owner' \in [Lock -> Task \cup {Nobody}],
           t = Main => label \notin {"unchoke", "chokeOld", "unchokeNew"},
           UNCHANGED <<peers, todo, mail, outbox>>
    PROVE  Typed'
  <1> QED
    BY TypedMoves DEF Typed

\* The lists of the main task.
LEMMA MainTyped ==
    ASSUME Typed, PublishPeers \/ LockFirstPiece \/ LockFirstQueue \/ ChooseFirstPiece
             \/ PushPeer \/ ShowProgress \/ Select
    PROVE  Typed'
  <1> USE Tasks, SharedLocks, InfoLock, OwnerType
      DEF Label, AsksForPeers, AsksForInfo, AsksForPiece, AsksForQueue, AsksForDone,
          SendsOut, SendsMail, Visits
  <1>1. CASE PublishPeers
    <2>1. owner' \in [Lock -> Task \cup {Nobody}] /\ peers' \in Seq(Peer)
      BY <1>1, LocksAssumption DEF PublishPeers, Typed
    <2> QED
      BY <1>1, <2>1, TypedMoves DEF PublishPeers, Typed
  <1>2. CASE LockFirstPiece
    BY <1>2, TypedQuietMoves DEF LockFirstPiece, Typed
  <1>3. CASE LockFirstQueue
    BY <1>3, TypedQuietMoves DEF LockFirstQueue, Typed
  <1>4. CASE ChooseFirstPiece
    BY <1>4, TypedQuietMoves DEF ChooseFirstPiece, Typed
  <1>5. CASE PushPeer
    <2>1. owner' \in [Lock -> Task \cup {Nobody}] /\ peers' \in Seq(Peer)
      BY <1>5 DEF PushPeer, Typed
    <2>2. todo' \in [Task -> Seq(Peer)]
      BY <1>5 DEF PushPeer, Typed
    <2> QED
      BY <1>5, <2>1, <2>2, TypedMoves DEF PushPeer, Typed
  <1>6. CASE ShowProgress
    BY <1>6, TypedQuietMoves DEF ShowProgress, Typed
  <1>7. CASE Select
    BY <1>7, TypedQuietMoves DEF Select, Typed
  <1> QED
    BY <1>1, <1>2, <1>3, <1>4, <1>5, <1>6, <1>7

\* The main task has s to visit.
MainLists(s) == todo' = [todo EXCEPT ![Main] = s]

\* The main task moves with another list of peers.
LEMMA MainMoves ==
    ASSUME Typed, NEW label \in Label, Go(Main, label),
           NEW s \in Seq(Peer), MainLists(s),
           label \in {"unchoke", "chokeOld", "unchokeNew"} => s # <<>>,
           owner' \in [Lock -> Task \cup {Nobody}],
           peers' \in Seq(Peer),
           mail' \in [Peer -> 0 .. MailCapacity],
           UNCHANGED outbox
    PROVE  Typed'
  <1>1. todo' \in [Task -> Seq(Peer)] /\ todo'[Main] = s
    BY Tasks DEF Typed, MainLists
  <1> QED
    BY <1>1, TypedMoves, Tasks DEF Typed

\* The unchoke rounds.
LEMMA RoundsTyped ==
    ASSUME Typed, LockPeersForRates \/ ReadInfo \/ SortPeers \/ VisitPeer \/ Unchoke
             \/ RegularUnchokeReturns \/ LockPeersForOptimistic \/ ChokeOld
             \/ PickPeer \/ PickNobody \/ UnchokeNew
    PROVE  Typed'
  <1> USE DEF Label, AsksForPeers, AsksForInfo, AsksForPiece, AsksForQueue, AsksForDone,
          SendsOut, SendsMail, Visits
  <1>0. /\ todo[Main] \in Seq(Peer) /\ peers \in Seq(Peer)
        /\ todo[Main] # <<>> => Head(todo[Main]) \in Peer /\ Tail(todo[Main]) \in Seq(Peer)
        /\ <<>> \in Seq(Peer)
        /\ owner \in [Lock -> Task \cup {Nobody}]
        /\ mail \in [Peer -> 0 .. MailCapacity]
    BY Tasks DEF Typed
  <1>12. \A k \in DOMAIN peers : <<peers[k]>> \in Seq(Peer) /\ <<peers[k]>> # <<>>
    BY <1>0
  <1>1. CASE LockPeersForRates
    <2>1. owner' \in [Lock -> Task \cup {Nobody}]
      BY <1>1, OwnerType, Tasks, SharedLocks DEF LockPeersForRates, Typed
    <2>9. MainLists(peers)
      BY <1>1 DEF LockPeersForRates, MainLists
    <2>10. Go(Main, "rates") /\ UNCHANGED <<peers, mail, outbox>>
      BY <1>1 DEF LockPeersForRates
    <2> QED
      BY <1>0, <2>1, <2>9, <2>10, MainMoves
  <1>2. CASE ReadInfo
    <2>1. Go(Main, pc[Main]) /\ pc[Main] \in Label /\ pc[Main] \in {"rates", "scan"}
      BY <1>2, Tasks DEF ReadInfo, Typed, Go, At
    <2>2. UNCHANGED <<owner, peers, mail, outbox>> /\ MainLists(Tail(todo[Main]))
          /\ todo[Main] # <<>>
      BY <1>2 DEF ReadInfo, Use, MainLists
    <2> QED
      BY <1>0, <2>1, <2>2, MainMoves
  <1>3. CASE SortPeers
    <2>1. peers' \in [1 .. Len(peers) -> Peer] /\ Len(peers) \in Nat
      <3>1. PICK order \in [DOMAIN peers -> DOMAIN peers] :
                peers' = [k \in DOMAIN peers |-> peers[order[k]]]
        BY <1>3 DEF SortPeers
      <3> QED BY <1>0, <3>1
    <2>2. peers' \in Seq(Peer)
      BY <2>1
    <2>3. MainLists(peers')
      BY <1>3 DEF SortPeers, MainLists
    <2>10. Go(Main, "visit") /\ UNCHANGED <<owner, mail, outbox>>
      BY <1>3 DEF SortPeers
    <2> QED
      BY <1>0, <2>2, <2>3, <2>10, MainMoves
  <1>4. CASE VisitPeer
    <2>1. CASE todo' = [todo EXCEPT ![Main] = Tail(@)] /\ UNCHANGED <<pc, owner>>
      <3>1. Go(Main, pc[Main]) /\ pc[Main] \in Label /\ pc[Main] = "visit"
        BY <1>4, <2>1, Tasks DEF VisitPeer, Typed, Go, At
      <3>2. MainLists(Tail(todo[Main]))
        BY <2>1 DEF MainLists
      <3> QED
        BY <1>0, <1>4, <2>1, <3>1, <3>2, MainMoves DEF VisitPeer
    <2>2. CASE Use(Info(Head(todo[Main]))) /\ Go(Main, "unchoke") /\ UNCHANGED todo
      BY <1>0, <1>4, <2>2, TypedMoves, Tasks DEF VisitPeer, Typed, Use
    <2> QED
      BY <1>4, <2>1, <2>2 DEF VisitPeer
  <1>5. CASE Unchoke
    <2>1. Head(todo[Main]) \in Peer /\ Tail(todo[Main]) \in Seq(Peer)
      BY <1>0, <1>5 DEF Unchoke, Typed, Aimed
    <2>2. mail' \in [Peer -> 0 .. MailCapacity]
      BY <1>0, <1>5, <2>1, MailType DEF Unchoke
    <2>9. PICK s \in Seq(Peer) : MainLists(s)
      BY <2>1, <1>5 DEF Unchoke, MainLists
    <2>10. Go(Main, "visit") /\ UNCHANGED <<owner, peers, outbox>>
      BY <1>5 DEF Unchoke
    <2>11. /\ "visit" \in Label /\ "visit" \notin {"unchoke", "chokeOld", "unchokeNew"}
           /\ peers' \in Seq(Peer) /\ UNCHANGED outbox /\ Go(Main, "visit")
           /\ owner' \in [Lock -> Task \cup {Nobody}]
      BY <1>0, <2>10
    <2> HIDE DEF Label
    <2> QED
      BY <2>2, <2>9, <2>11, MainMoves
  <1>6. CASE RegularUnchokeReturns
    <2>1. owner' \in [Lock -> Task \cup {Nobody}]
      BY <1>0, <1>6, OwnerType DEF RegularUnchokeReturns
    <2>9. PICK s \in Seq(Peer) : MainLists(s)
      BY <1>0, <1>6 DEF RegularUnchokeReturns, MainLists
    <2>10. Go(Main, "select") /\ UNCHANGED <<peers, mail, outbox>>
      BY <1>6 DEF RegularUnchokeReturns
    <2>11. /\ "select" \in Label /\ "select" \notin {"unchoke", "chokeOld", "unchokeNew"}
           /\ peers' \in Seq(Peer) /\ UNCHANGED outbox /\ Go(Main, "select")
           /\ mail' \in [Peer -> 0 .. MailCapacity]
      BY <1>0, <2>10
    <2> HIDE DEF Label
    <2> QED
      BY <2>1, <2>9, <2>11, MainMoves
  <1>7. CASE LockPeersForOptimistic
    <2>1. owner' \in [Lock -> Task \cup {Nobody}]
      BY <1>0, <1>7, OwnerType, Tasks, SharedLocks DEF LockPeersForOptimistic
    <2>4. UNCHANGED <<peers, mail, outbox>>
      BY <1>7 DEF LockPeersForOptimistic
    <2>2. CASE /\ \E k \in DOMAIN peers : todo' = [todo EXCEPT ![Main] = <<peers[k]>>]
               /\ Go(Main, "chokeOld")
      <3>1. PICK k \in DOMAIN peers : MainLists(<<peers[k]>>)
        BY <2>2 DEF MainLists
      <3> QED
        BY <1>0, <1>12, <2>1, <2>2, <2>4, <3>1, MainMoves
    <2>3. CASE todo' = [todo EXCEPT ![Main] = peers] /\ Go(Main, "scan")
      <3>1. MainLists(peers)
        BY <2>3 DEF MainLists
      <3>2. Go(Main, "scan")
        BY <2>3
      <3> QED
        BY <1>0, <2>1, <2>4, <3>1, <3>2, MainMoves
    <2> QED
      BY <1>7, <2>2, <2>3 DEF LockPeersForOptimistic
  <1>8. CASE ChokeOld
    <2>1. Head(todo[Main]) \in Peer
      BY <1>0, <1>8 DEF ChokeOld, Typed, Aimed
    <2>2. mail' \in [Peer -> 0 .. MailCapacity]
      BY <1>0, <1>8, <2>1, MailType DEF ChokeOld
    <2>9. MainLists(peers)
      BY <1>8 DEF ChokeOld, MainLists
    <2>10. Go(Main, "scan") /\ UNCHANGED <<owner, peers, outbox>>
      BY <1>8 DEF ChokeOld
    <2>11. /\ "scan" \in Label /\ "scan" \notin {"unchoke", "chokeOld", "unchokeNew"}
           /\ peers' \in Seq(Peer) /\ UNCHANGED outbox /\ Go(Main, "scan")
           /\ owner' \in [Lock -> Task \cup {Nobody}]
      BY <1>0, <2>10 DEF Typed
    <2> HIDE DEF Label
    <2> QED
      BY <1>0, <2>2, <2>9, <2>11, MainMoves
  <1>9. CASE PickPeer
    <2>1. PICK k \in DOMAIN peers : MainLists(<<peers[k]>>)
      BY <1>9 DEF PickPeer, MainLists
    <2>10. Go(Main, "unchokeNew") /\ UNCHANGED <<owner, peers, mail, outbox>>
      BY <1>9 DEF PickPeer
    <2> QED
      BY <1>0, <1>12, <2>1, <2>10, MainMoves
  <1>10. CASE PickNobody
    BY <1>0, <1>10, TypedQuietMoves, OwnerType, Tasks DEF PickNobody
  <1>11. CASE UnchokeNew
    <2>1. Head(todo[Main]) \in Peer
      BY <1>0, <1>11 DEF UnchokeNew, Typed, Aimed
    <2>2. mail' \in [Peer -> 0 .. MailCapacity]
      BY <1>0, <1>11, <2>1, MailType DEF UnchokeNew
    <2>3. owner' \in [Lock -> Task \cup {Nobody}]
      BY <1>0, <1>11, OwnerType DEF UnchokeNew
    <2>9. PICK s \in Seq(Peer) : MainLists(s)
      BY <1>0, <1>11 DEF UnchokeNew, MainLists
    <2>10. Go(Main, "select") /\ UNCHANGED <<peers, outbox>>
      BY <1>11 DEF UnchokeNew
    <2>11. /\ "select" \in Label /\ "select" \notin {"unchoke", "chokeOld", "unchokeNew"}
           /\ peers' \in Seq(Peer) /\ UNCHANGED outbox /\ Go(Main, "select")
      BY <1>0, <2>10
    <2> HIDE DEF Label
    <2> QED
      BY <2>2, <2>3, <2>9, <2>11, MainMoves
  <1> QED
    BY <1>1, <1>2, <1>3, <1>4, <1>5, <1>6, <1>7, <1>8, <1>9, <1>10, <1>11

\* A handler that starts, returns or deals with a message briefly.
LEMMA BriefTyped ==
    ASSUME Typed, NEW p \in Peer,
           StartHandler(p) \/ ReceiveClientMessage(p) \/ ReceivePeerMessage(p)
             \/ IntervalTicks(p) \/ Tick(p) \/ DisconnectPeer(p)
             \/ ConnectFails(p) \/ HandleBriefly(p) \/ HandleBadMessage(p)
    PROVE  Typed'
  <1> USE Tasks, SharedLocks, InfoLock, OwnerType
      DEF Label, AsksForPeers, AsksForInfo, AsksForPiece, AsksForQueue, AsksForDone,
          SendsOut, SendsMail, Visits
  <1>1. CASE StartHandler(p)
    BY <1>1, TypedQuietMoves DEF StartHandler, Typed
  <1>2. CASE ReceiveClientMessage(p)
    <2>1. mail' \in [Peer -> 0 .. MailCapacity]
      BY <1>2, LocksAssumption DEF ReceiveClientMessage, Typed
    <2> QED
      BY <1>2, <2>1, TypedMoves DEF ReceiveClientMessage, Typed
  <1>3. CASE ReceivePeerMessage(p)
    BY <1>3, TypedQuietMoves DEF ReceivePeerMessage, Typed
  <1>4. CASE IntervalTicks(p)
    BY <1>4, TypedQuietMoves DEF IntervalTicks, Typed
  <1>5. CASE Tick(p)
    BY <1>5, TypedQuietMoves DEF Tick, Typed
  <1>6. CASE DisconnectPeer(p)
    <2>1. peers' \in Seq(Peer)
      BY <1>6, WithoutType DEF DisconnectPeer, Typed
    <2> QED
      BY <1>6, <2>1, TypedMoves DEF DisconnectPeer, Typed
  <1>7. CASE ConnectFails(p)
    <2>1. mail' \in [Peer -> 0 .. MailCapacity]
      BY <1>7, LocksAssumption DEF ConnectFails, Typed, Leave
    <2> QED
      BY <1>7, <2>1, TypedMoves DEF ConnectFails, Typed, Leave
  <1>8. CASE HandleBriefly(p)
    BY <1>8, TypedQuietMoves DEF HandleBriefly, Typed
  <1>9. CASE HandleBadMessage(p)
    <2>1. mail' \in [Peer -> 0 .. MailCapacity]
      BY <1>9, LocksAssumption DEF HandleBadMessage, Typed, Leave
    <2> QED
      BY <1>9, <2>1, TypedMoves DEF HandleBadMessage, Typed, Leave
  <1> QED
    BY <1>1, <1>2, <1>3, <1>4, <1>5, <1>6, <1>7, <1>8, <1>9

\* A handler that takes the guard of its peer_info, or drops it.
LEMMA MessageTyped ==
    ASSUME Typed, NEW p \in Peer,
           PeerRequests(p) \/ PeerPiece(p) \/ HandleWord(p)
             \/ LockInfoForInterest(p) \/ CheckIfInterested(p) \/ LockInfoForJobs(p)
             \/ NoJobs(p) \/ TryGetNewJobs(p)
    PROVE  Typed'
  <1> USE Tasks, SharedLocks, InfoLock, OwnerType
      DEF Label, AsksForPeers, AsksForInfo, AsksForPiece, AsksForQueue, AsksForDone,
          SendsOut, SendsMail, Visits
  <1>1. CASE PeerRequests(p)
    BY <1>1, TypedQuietMoves DEF PeerRequests, Typed
  <1>2. CASE PeerPiece(p)
    BY <1>2, TypedQuietMoves DEF PeerPiece, Typed
  <1>3. CASE HandleWord(p)
    BY <1>3, TypedQuietMoves DEF HandleWord, Typed
  <1>4. CASE LockInfoForInterest(p)
    BY <1>4, TypedQuietMoves DEF LockInfoForInterest, Typed
  <1>5. CASE CheckIfInterested(p)
    BY <1>5, TypedQuietMoves DEF CheckIfInterested, Typed
  <1>6. CASE LockInfoForJobs(p)
    BY <1>6, TypedQuietMoves DEF LockInfoForJobs, Typed
  <1>7. CASE NoJobs(p)
    BY <1>7, TypedQuietMoves DEF NoJobs, Typed
  <1>8. CASE TryGetNewJobs(p)
    BY <1>8, TypedQuietMoves DEF TryGetNewJobs, Typed
  <1> QED
    BY <1>1, <1>2, <1>3, <1>4, <1>5, <1>6, <1>7, <1>8

\* A handler that completes a piece.
LEMMA PieceTyped ==
    ASSUME Typed, NEW p \in Peer,
           StoreBlock(p) \/ LockPiece(p) \/ BadPiece(p)
             \/ GoodPiece(p) \/ MarkDownloaded(p) \/ LockPeersToAnnounce(p)
             \/ AnnounceEnds(p) \/ ChooseNext(p) \/ NewPieceChosen(p)
    PROVE  Typed'
  <1> USE Tasks, SharedLocks, InfoLock, OwnerType
      DEF Label, AsksForPeers, AsksForInfo, AsksForPiece, AsksForQueue, AsksForDone,
          SendsOut, SendsMail, Visits
  <1>1. CASE StoreBlock(p)
    BY <1>1, TypedQuietMoves DEF StoreBlock, Typed
  <1>2. CASE LockPiece(p)
    BY <1>2, TypedQuietMoves DEF LockPiece, Typed
  <1>3. CASE BadPiece(p)
    BY <1>3, TypedQuietMoves DEF BadPiece, Typed
  <1>4. CASE GoodPiece(p)
    BY <1>4, TypedQuietMoves DEF GoodPiece, Typed
  <1>5. CASE MarkDownloaded(p)
    BY <1>5, TypedQuietMoves DEF MarkDownloaded, Typed
  <1>6. CASE LockPeersToAnnounce(p)
    <2>1. todo' \in [Task -> Seq(Peer)] /\ todo'[Main] = todo[Main]
      BY <1>6 DEF LockPeersToAnnounce, Typed
    <2>2. owner' \in [Lock -> Task \cup {Nobody}]
      BY <1>6 DEF LockPeersToAnnounce, Typed
    <2>3. Go(Handler(p), "announce") /\ "announce" \in Label
      BY <1>6 DEF LockPeersToAnnounce
    <2> QED
      BY <1>6, <2>1, <2>2, <2>3, TypedMoves DEF LockPeersToAnnounce, Typed
  <1>7. CASE AnnounceEnds(p)
    BY <1>7, TypedQuietMoves DEF AnnounceEnds, Typed
  <1>8. CASE ChooseNext(p)
    BY <1>8, TypedQuietMoves DEF ChooseNext, Typed
  <1>9. CASE NewPieceChosen(p)
    BY <1>9, TypedQuietMoves DEF NewPieceChosen, AlertReturns, Typed
  <1> QED
    BY <1>1, <1>2, <1>3, <1>4, <1>5, <1>6, <1>7, <1>8, <1>9

\* A writer, and a timer.
LEMMA WriterAndTimerTyped ==
    ASSUME Typed, NEW p \in Peer,
           LockDoneForBitfield(p) \/ WriteBitfield(p) \/ ReceiveAndWrite(p)
             \/ Write(p) \/ WriteFails(p) \/ TimerFires(p)
             \/ LockInfoForTimer(p) \/ TryRemoveJob(p)
    PROVE  Typed'
  <1> USE Tasks, SharedLocks, InfoLock, OwnerType
      DEF Label, AsksForPeers, AsksForInfo, AsksForPiece, AsksForQueue, AsksForDone,
          SendsOut, SendsMail, Visits
  <1>1. CASE LockDoneForBitfield(p)
    BY <1>1, TypedQuietMoves DEF LockDoneForBitfield, Typed
  <1>2. CASE WriteBitfield(p)
    BY <1>2, TypedQuietMoves DEF WriteBitfield, Typed
  <1>3. CASE ReceiveAndWrite(p)
    <2>1. outbox' \in [Peer -> 0 .. WriterCapacity]
      BY <1>3, LocksAssumption DEF ReceiveAndWrite, Typed
    <2> QED
      BY <1>3, <2>1, TypedMoves DEF ReceiveAndWrite, Typed
  <1>4. CASE Write(p)
    BY <1>4, TypedQuietMoves DEF Write, Typed
  <1>5. CASE WriteFails(p)
    <2>1. outbox' \in [Peer -> 0 .. WriterCapacity]
      BY <1>5, LocksAssumption DEF WriteFails, Typed
    <2> QED
      BY <1>5, <2>1, TypedMoves DEF WriteFails, Typed
  <1>6. CASE TimerFires(p)
    BY <1>6, TypedQuietMoves DEF TimerFires, Typed
  <1>7. CASE LockInfoForTimer(p)
    BY <1>7, TypedQuietMoves DEF LockInfoForTimer, Typed
  <1>8. CASE TryRemoveJob(p)
    BY <1>8, TypedQuietMoves DEF TryRemoveJob, Typed
  <1> QED
    BY <1>1, <1>2, <1>3, <1>4, <1>5, <1>6, <1>7, <1>8

\* A broadcast, by any task.
LEMMA BroadcastTyped ==
    ASSUME Typed, NEW t \in Task, LockPeersForAlert(t) \/ SendToNext(t)
    PROVE  Typed'
  <1>0. /\ owner \in [Lock -> Task \cup {Nobody}] /\ peers \in Seq(Peer)
        /\ todo \in [Task -> Seq(Peer)] /\ mail \in [Peer -> 0 .. MailCapacity]
        /\ outbox \in [Peer -> 0 .. WriterCapacity]
    BY DEF Typed
  <1>1. CASE LockPeersForAlert(t)
    <2>1. todo' \in [Task -> Seq(Peer)] /\ (t # Main => todo'[Main] = todo[Main])
      BY <1>0, <1>1, Tasks DEF LockPeersForAlert
    <2>2. owner' \in [Lock -> Task \cup {Nobody}]
      BY <1>0, <1>1, OwnerType, SharedLocks DEF LockPeersForAlert
    <2>3. /\ Go(t, "alert") /\ "alert" \in Label
          /\ "alert" \notin {"unchoke", "chokeOld", "unchokeNew"}
          /\ UNCHANGED <<peers, mail, outbox>>
      BY <1>1 DEF LockPeersForAlert, Label, SendsMail
    <2> QED
      BY <1>0, <2>1, <2>2, <2>3, TypedMoves
  <1>2. CASE SendToNext(t)
    <2>1. Head(todo[t]) \in Peer
      BY <1>0, <1>2 DEF SendToNext
    <2>2. mail' \in [Peer -> 0 .. MailCapacity]
      BY <1>0, <1>2, <2>1, MailType DEF SendToNext
    <2>3. todo' \in [Task -> Seq(Peer)] /\ (t # Main => todo'[Main] = todo[Main])
      BY <1>0, <1>2, Tasks DEF SendToNext
    <2>4. /\ Go(t, pc[t]) /\ pc[t] \in Label
          /\ pc[t] \notin {"unchoke", "chokeOld", "unchokeNew"}
          /\ UNCHANGED <<owner, peers, outbox>>
      BY <1>2 DEF SendToNext, Typed, Go, At
    <2> QED
      BY <1>0, <2>2, <2>3, <2>4, TypedMoves
  <1> QED
    BY <1>1, <1>2

\* The end of a broadcast.
LEMMA AlertReturnsTyped ==
    ASSUME Typed, NEW t \in Task, NEW to \in {"select", "off"}, NEW S, AlertReturns(t, to, S)
    PROVE  Typed'
  <1>1. owner' \in [Lock -> Task \cup {Nobody}] /\ Go(t, to)
        /\ UNCHANGED <<peers, todo, mail, outbox>>
    BY OwnerType DEF AlertReturns, Typed
  <1>2. to \in Label /\ to \notin {"unchoke", "chokeOld", "unchokeNew"}
    BY DEF Label
  <1> QED
    BY <1>1, <1>2, TypedQuietMoves

\* Two tasks move.
LEMMA PairsTyped ==
    ASSUME Typed, NEW p \in Peer, AcceptPeer(p) \/ Connect(p)
    PROVE  Typed'
  <1>1. CASE AcceptPeer(p)
    <2>1. pc' \in [Task -> Label]
      BY <1>1 DEF AcceptPeer, Typed, Label, AsksForPeers
    <2>2. pc'[Main] = "push"
      BY <1>1, Tasks DEF AcceptPeer, Typed
    <2>3. todo' \in [Task -> Seq(Peer)]
      <3>1. <<p>> \in Seq(Peer)
        OBVIOUS
      <3> QED BY <1>1, <3>1 DEF AcceptPeer, Typed
    <2> QED
      BY <1>1, <2>1, <2>2, <2>3 DEF AcceptPeer, Typed, Aimed
  <1>2. CASE Connect(p)
    <2>1. pc' \in [Task -> Label]
      BY <1>2 DEF Connect, Typed, Label, AsksForDone
    <2>2. pc'[Main] = pc[Main]
      BY <1>2, Tasks DEF Connect, Typed
    <2> QED
      BY <1>2, <2>1, <2>2 DEF Connect, Use, Typed, Aimed
  <1> QED
    BY <1>1, <1>2

\* A send to the writer, within its capacity.
LEMMA SendsTyped ==
    ASSUME Typed, NEW p \in Peer, NEW next \in [Task -> Label], NEW S,
           SendToWriter(p, next, S), next[Main] = pc[Main],
           UNCHANGED <<peers, todo>>
    PROVE  Typed'
  <1>1. owner' \in [Lock -> Task \cup {Nobody}]
    BY OwnerType DEF SendToWriter, Typed
  <1>2. outbox' \in [Peer -> 0 .. WriterCapacity]
    <2>1. outbox[p] \in 0 .. WriterCapacity /\ WriterCapacity \in Nat
      BY LocksAssumption DEF Typed
    <2>2. outbox[p] < WriterCapacity => outbox[p] + 1 \in 0 .. WriterCapacity
      BY <2>1
    <2> QED
      BY <2>2 DEF SendToWriter, Typed
  <1>5. /\ mail' = mail \/ mail' = [mail EXCEPT ![p] = 0]
        /\ pc' = next \/ pc' = At(Handler(p), "leave")
    BY DEF SendToWriter
  <1>3. mail' \in [Peer -> 0 .. MailCapacity]
    <2>1. 0 \in 0 .. MailCapacity /\ mail \in [Peer -> 0 .. MailCapacity]
      BY LocksAssumption DEF Typed
    <2> QED
      BY <1>5, <2>1
  <1>4. pc' \in [Task -> Label] /\ pc'[Main] = pc[Main]
    <2>1. At(Handler(p), "leave") \in [Task -> Label]
      BY DEF Typed, At, Label, AsksForPeers
    <2>2. At(Handler(p), "leave")[Main] = pc[Main]
      BY Tasks DEF Typed, At
    <2> QED
      BY <1>5, <2>1, <2>2
  <1> QED
    BY <1>1, <1>2, <1>3, <1>4 DEF Typed, Aimed

\* Each send of a handler.
LEMMA HandlerSendsTyped ==
    ASSUME Typed, NEW p \in Peer,
           SendJob(p) \/ SendHave(p) \/ SendInterested(p) \/ SendChokeOrBlock(p)
    PROVE  Typed'
  <1>1. CASE SendJob(p)
    <2> DEFINE next == [pc EXCEPT ![Handler(p)] = "idle",
                                  ![Timer(p)] = IF @ = "off" THEN "asleep" ELSE @]
    <2>0. pc \in [Task -> Label] /\ Main # Handler(p) /\ Main # Timer(p)
      BY Tasks DEF Typed
    <2>1. next \in [Task -> Label] /\ next[Main] = pc[Main]
      BY <2>0, Tasks DEF Label
    <2>2. SendToWriter(p, next, {Info(p), Queue}) /\ UNCHANGED <<peers, todo>>
      BY <1>1 DEF SendJob
    <2> HIDE DEF next
    <2> QED
      BY <2>1, <2>2, SendsTyped
  <1>2. ASSUME NEW label \in {"interest", "job", "idle"}, NEW S,
               SendToWriter(p, At(Handler(p), label), S), UNCHANGED <<peers, todo>>
        PROVE  Typed'
    <2> DEFINE next == At(Handler(p), label)
    <2>1. next \in [Task -> Label] /\ next[Main] = pc[Main]
      BY Tasks DEF Typed, Label, AsksForInfo, At
    <2>2. SendToWriter(p, next, S)
      BY <1>2
    <2> HIDE DEF next
    <2> QED
      BY <1>2, <2>1, <2>2, SendsTyped
  <1>3. CASE SendHave(p)
    <2>1. PICK S : SendToWriter(p, At(Handler(p), "interest"), S)
      BY <1>3 DEF SendHave
    <2> QED
      BY <1>2, <1>3, <2>1 DEF SendHave
  <1>4. CASE SendInterested(p)
    <2>1. PICK S : SendToWriter(p, At(Handler(p), "job"), S)
      BY <1>4 DEF SendInterested
    <2> QED
      BY <1>2, <1>4, <2>1 DEF SendInterested
  <1>5. CASE SendChokeOrBlock(p)
    BY <1>2, <1>5 DEF SendChokeOrBlock
  <1> QED
    BY <1>1, <1>3, <1>4, <1>5

\* At the start.
LEMMA InitTyped == Init => Typed
  <1> SUFFICES ASSUME Init PROVE Typed
    OBVIOUS
  <1>1. pc \in [Task -> Label]
    BY DEF Init, FirstLabel, Label, AsksForPeers, Task, Main
  <1>2. pc[Main] = "publish"
    BY Tasks DEF Init, FirstLabel
  <1>3. todo \in [Task -> Seq(Peer)] /\ peers \in Seq(Peer)
    <2>1. <<>> \in Seq(Peer)
      OBVIOUS
    <2> QED BY <2>1 DEF Init
  <1>4. /\ mail \in [Peer -> 0 .. MailCapacity] /\ outbox \in [Peer -> 0 .. WriterCapacity]
        /\ owner \in [Lock -> Task \cup {Nobody}]
    BY LocksAssumption DEF Init
  <1> QED
    BY <1>1, <1>2, <1>3, <1>4 DEF Typed, Aimed

\* Typed is inductive.
LEMMA NextTyped ==
    ASSUME Typed, [Next]_vars
    PROVE  Typed'
  <1>1. CASE MainStep \/ Select
    BY <1>1, MainTyped, RoundsTyped, BroadcastTyped, AlertReturnsTyped, Tasks
    DEF MainStep
  <1>2. ASSUME NEW p \in Peer, PeerStep(p)
        PROVE  Typed'
    <2>1. CASE HandlerStep(p)
      BY <2>1, BriefTyped, MessageTyped, PieceTyped, PairsTyped,
         HandlerSendsTyped, BroadcastTyped, Tasks
      DEF HandlerStep
    <2>2. CASE WriterStep(p)
      BY <2>2, WriterAndTimerTyped DEF WriterStep
    <2>3. CASE TimerStep(p)
      BY <2>3, WriterAndTimerTyped, BroadcastTyped, AlertReturnsTyped, Tasks
      DEF TimerStep
    <2> QED
      BY <1>2, <2>1, <2>2, <2>3, PairsTyped, BriefTyped, WriterAndTimerTyped
      DEF PeerStep
  <1>3. CASE UNCHANGED vars
    BY <1>3 DEF vars, Typed, Aimed
  <1> QED
    BY <1>1, <1>2, <1>3 DEF Next

-----------------------------------------------------------------------------
(* The blocks of the piece under way (Working): whoever has got a piece    *)
(* complete keeps its lock to the next, and every step moves a block from  *)
(* one place to the next.                                                  *)

\* How far the piece has come that a task works on.
Stage(t, label) ==
    CASE t.task = "main" /\ label \in {"publish", "first"} -> "starting"
      [] t.task = "main" /\ label \in {"firstQueue", "firstDone"} -> "choosing"
      [] t.task = "handler" /\ label = "store" -> "in hand"
      [] t.task = "handler" /\ label \in {"chooseQueue", "mark"} -> "complete"
      [] t.task = "handler" /\ label \in {"announcePeers", "announce", "next"} -> "marked"
      [] t.task = "handler" /\ label \in {"alertPeers", "alert"} -> "begun"
      [] OTHER -> "none"

Doing(t) == Stage(t, pc[t])

\* From the choice of a piece to that of the next, its lock is the task's.
PieceNeeded == {"choosing", "complete", "marked", "begun"}
PieceHeld == \A t \in Task : Doing(t) \in PieceNeeded => owner[Piece] = t

\* The numbers, and that they add up.
Counted ==
    /\ missing \in 0 .. Pieces /\ queued \in Nat /\ stored \in Nat
    /\ requested \in [Peer -> 0 .. Blocks]
    /\ IsFiniteSet(Outstanding) /\ IsFiniteSet(InHand)
    /\ UnderWay \in {0, Blocks}

\* Nothing is under way before the first piece; all of a piece is stored from when
\* it is found complete.
InStages ==
    \A t \in Task : /\ Doing(t) \in {"starting", "choosing"} => UnderWay = 0
                    /\ Doing(t) \in {"complete", "marked"} => stored = Blocks

\* All pieces are had when nothing is under way, or the last has just been marked.
LastMarked == missing = 0 => UnderWay = 0 \/ \E t \in Task : Doing(t) = "marked"

\* The first piece is not chosen yet.
IsStarting == Doing(Main) \in {"starting", "choosing"}

\* From then on something is under way until nothing is missing.
NoneForgotten == missing > 0 => IsStarting \/ UnderWay = Blocks

Working == PieceHeld /\ Counted /\ InStages /\ LastMarked /\ NoneForgotten

-----------------------------------------------------------------------------
\* What is counted are numbers of blocks.
LEMMA Counts ==
    ASSUME Counted
    PROVE  /\ Cardinality(Outstanding) \in Nat /\ Cardinality(InHand) \in Nat
           /\ queued \in 0 .. Blocks /\ stored \in 0 .. Blocks
           /\ UnderWay \in Nat /\ Blocks \in Nat /\ Blocks # 0
  <1>1. Cardinality(Outstanding) \in Nat /\ Cardinality(InHand) \in Nat
    BY FS_CardinalityType DEF Counted
  <1>2. Blocks \in Nat /\ Blocks # 0
    BY LocksAssumption
  <1> QED
    BY <1>1, <1>2 DEF Counted, UnderWay

\* The sets that are counted depend on the handlers in "store" and on requested.
LEMMA SameCounts ==
    /\ UNCHANGED requested => Outstanding' = Outstanding
    /\ (\A p \in Peer : (pc'[Handler(p)] = "store") <=> (pc[Handler(p)] = "store")) => InHand' = InHand
  BY DEF Outstanding, InHand

\* Whatever moves, as long as no task's stage changes, nor the piece's owner.
LEMMA QuietWork ==
    ASSUME Working, UNCHANGED workVars, owner'[Piece] = owner[Piece],
           \A t \in Task : Stage(t, pc'[t]) = Stage(t, pc[t])
    PROVE  Working'
  <1>1. \A t \in Task : Doing(t)' = Doing(t)
    BY DEF Doing
  <1>2. InHand' = InHand
    <2>1. ASSUME NEW p \in Peer
          PROVE  (pc'[Handler(p)] = "store") <=> (pc[Handler(p)] = "store")
      <3>1. Stage(Handler(p), pc'[Handler(p)]) = Stage(Handler(p), pc[Handler(p)])
        BY Tasks
      <3> QED
        BY <3>1, Tasks DEF Stage
    <2> QED
      BY <2>1, SameCounts
  <1>3. Outstanding' = Outstanding
    BY SameCounts DEF workVars
  <1>4. UnderWay' = UnderWay
    BY <1>2, <1>3 DEF UnderWay, workVars
  <1>5. PieceHeld'
    BY <1>1 DEF Working, PieceHeld
  <1>6. Counted'
    BY <1>2, <1>3, <1>4 DEF Working, Counted, workVars
  <1>7. InStages' /\ LastMarked' /\ NoneForgotten'
    BY <1>1, <1>4, Tasks DEF Working, InStages, LastMarked, NoneForgotten, IsStarting, workVars
  <1> QED
    BY <1>5, <1>6, <1>7 DEF Working

\* A task that moves.
LEMMA QuietMoves ==
    ASSUME Typed, Working, UNCHANGED workVars, owner'[Piece] = owner[Piece],
           NEW t \in Task, NEW label, Go(t, label), Stage(t, label) = Stage(t, pc[t])
    PROVE  Working'
  <1>1. \A u \in Task : Stage(u, pc'[u]) = Stage(u, pc[u])
    BY DEF Go, At, Typed
  <1> QED
    BY <1>1, QuietWork

\* Taking or dropping other guards leaves the piece's owner.
LEMMA PieceStays ==
    ASSUME Typed
    PROVE  /\ \A l : Use(l) => owner'[Piece] = owner[Piece]
           /\ \A t, l : l # Piece /\ Take(t, l) => owner'[Piece] = owner[Piece]
           /\ \A S : Piece \notin S /\ Drop(S) => owner'[Piece] = owner[Piece]
  BY SharedLocks DEF Use, Take, Drop, Typed

\* The main task, but for its choice of the first piece.
LEMMA MainQuiet ==
    ASSUME Typed, Working,
           PublishPeers \/ PushPeer \/ ShowProgress \/ Select \/ LockPeersForRates
             \/ ReadInfo \/ SortPeers \/ VisitPeer \/ Unchoke \/ RegularUnchokeReturns
             \/ LockPeersForOptimistic \/ ChokeOld \/ PickPeer \/ PickNobody
             \/ UnchokeNew
    PROVE  Working'
  <1> USE Tasks, SharedLocks, InfoLock, PieceStays DEF Stage
  <1>1. CASE PublishPeers
    BY <1>1, QuietMoves DEF PublishPeers
  <1>2. CASE PushPeer
    BY <1>2, QuietMoves DEF PushPeer
  <1>3. CASE ShowProgress
    BY <1>3, QuietMoves DEF ShowProgress
  <1>4. CASE Select
    BY <1>4, QuietMoves DEF Select
  <1>5. CASE LockPeersForRates
    BY <1>5, QuietMoves DEF LockPeersForRates
  <1>6. CASE ReadInfo
    <2>1. \A t \in Task : Stage(t, pc'[t]) = Stage(t, pc[t])
      BY <1>6 DEF ReadInfo
    <2> QED
      BY <1>6, <2>1, QuietWork DEF ReadInfo
  <1>7. CASE SortPeers
    BY <1>7, QuietMoves DEF SortPeers
  <1>8. CASE VisitPeer
    <2>1. CASE UNCHANGED <<pc, owner>>
      BY <1>8, <2>1, QuietWork DEF VisitPeer
    <2>2. CASE Use(Info(Head(todo[Main]))) /\ Go(Main, "unchoke")
      BY <1>8, <2>2, QuietMoves DEF VisitPeer
    <2> QED
      BY <1>8, <2>1, <2>2 DEF VisitPeer
  <1>9. CASE Unchoke
    BY <1>9, QuietMoves DEF Unchoke
  <1>10. CASE RegularUnchokeReturns
    BY <1>10, QuietMoves DEF RegularUnchokeReturns
  <1>11. CASE LockPeersForOptimistic
    BY <1>11, QuietMoves DEF LockPeersForOptimistic
  <1>12. CASE ChokeOld
    BY <1>12, QuietMoves DEF ChokeOld
  <1>13. CASE PickPeer
    BY <1>13, QuietMoves DEF PickPeer
  <1>14. CASE PickNobody
    BY <1>14, QuietMoves DEF PickNobody
  <1>15. CASE UnchokeNew
    BY <1>15, QuietMoves DEF UnchokeNew
  <1> QED
    BY <1>1, <1>2, <1>3, <1>4, <1>5, <1>6, <1>7, <1>8, <1>9, <1>10, <1>11, <1>12, <1>13, <1>14, <1>15

\* A handler that starts, returns or deals with a message briefly.
LEMMA BriefQuiet ==
    ASSUME Typed, Working, NEW p \in Peer,
           StartHandler(p) \/ ReceiveClientMessage(p) \/ ReceivePeerMessage(p)
             \/ IntervalTicks(p) \/ Tick(p) \/ DisconnectPeer(p) \/ ConnectFails(p)
             \/ HandleBriefly(p) \/ HandleBadMessage(p)
    PROVE  Working'
  <1> USE Tasks, SharedLocks, InfoLock, PieceStays DEF Stage
  <1>1. CASE StartHandler(p)
    BY <1>1, QuietMoves DEF StartHandler
  <1>2. CASE ReceiveClientMessage(p)
    BY <1>2, QuietMoves DEF ReceiveClientMessage
  <1>3. CASE ReceivePeerMessage(p)
    BY <1>3, QuietMoves DEF ReceivePeerMessage
  <1>4. CASE IntervalTicks(p)
    BY <1>4, QuietMoves DEF IntervalTicks
  <1>5. CASE Tick(p)
    BY <1>5, QuietMoves DEF Tick
  <1>6. CASE DisconnectPeer(p)
    BY <1>6, QuietMoves DEF DisconnectPeer
  <1>7. CASE ConnectFails(p)
    BY <1>7, QuietMoves DEF ConnectFails, Leave
  <1>8. CASE HandleBriefly(p)
    BY <1>8, QuietMoves DEF HandleBriefly
  <1>9. CASE HandleBadMessage(p)
    BY <1>9, QuietMoves DEF HandleBadMessage, Leave
  <1> QED
    BY <1>1, <1>2, <1>3, <1>4, <1>5, <1>6, <1>7, <1>8, <1>9

\* A handler that takes the guard of its peer_info, or drops it.
LEMMA MessageQuiet ==
    ASSUME Typed, Working, NEW p \in Peer,
           PeerRequests(p) \/ HandleWord(p) \/ LockInfoForInterest(p)
             \/ CheckIfInterested(p) \/ LockInfoForJobs(p) \/ NoJobs(p) \/ GoodPiece(p)
             \/ LockPeersToAnnounce(p) \/ AnnounceEnds(p)
    PROVE  Working'
  <1> USE Tasks, SharedLocks, InfoLock, PieceStays DEF Stage
  <1>1. CASE PeerRequests(p)
    BY <1>1, QuietMoves DEF PeerRequests
  <1>2. CASE HandleWord(p)
    BY <1>2, QuietMoves DEF HandleWord
  <1>3. CASE LockInfoForInterest(p)
    BY <1>3, QuietMoves DEF LockInfoForInterest
  <1>4. CASE CheckIfInterested(p)
    BY <1>4, QuietMoves DEF CheckIfInterested
  <1>5. CASE LockInfoForJobs(p)
    BY <1>5, QuietMoves DEF LockInfoForJobs
  <1>6. CASE NoJobs(p)
    BY <1>6, QuietMoves DEF NoJobs
  <1>7. CASE GoodPiece(p)
    BY <1>7, QuietMoves DEF GoodPiece
  <1>8. CASE LockPeersToAnnounce(p)
    BY <1>8, QuietMoves DEF LockPeersToAnnounce
  <1>9. CASE AnnounceEnds(p)
    BY <1>9, QuietMoves DEF AnnounceEnds
  <1> QED
    BY <1>1, <1>2, <1>3, <1>4, <1>5, <1>6, <1>7, <1>8, <1>9

\* A writer, and a timer.
LEMMA WriterAndTimerQuiet ==
    ASSUME Typed, Working, NEW p \in Peer,
           LockDoneForBitfield(p) \/ WriteBitfield(p) \/ ReceiveAndWrite(p) \/ Write(p)
             \/ WriteFails(p) \/ TimerFires(p) \/ LockInfoForTimer(p)
    PROVE  Working'
  <1> USE Tasks, SharedLocks, InfoLock, PieceStays DEF Stage
  <1>1. CASE LockDoneForBitfield(p)
    BY <1>1, QuietMoves DEF LockDoneForBitfield
  <1>2. CASE WriteBitfield(p)
    BY <1>2, QuietMoves DEF WriteBitfield
  <1>3. CASE ReceiveAndWrite(p)
    BY <1>3, QuietMoves DEF ReceiveAndWrite
  <1>4. CASE Write(p)
    BY <1>4, QuietMoves DEF Write
  <1>5. CASE WriteFails(p)
    BY <1>5, QuietMoves DEF WriteFails
  <1>6. CASE TimerFires(p)
    BY <1>6, QuietMoves DEF TimerFires
  <1>7. CASE LockInfoForTimer(p)
    BY <1>7, QuietMoves DEF LockInfoForTimer
  <1> QED
    BY <1>1, <1>2, <1>3, <1>4, <1>5, <1>6, <1>7

\* Two tasks move.
LEMMA PairsQuiet ==
    ASSUME Typed, Working, NEW p \in Peer, AcceptPeer(p) \/ Connect(p)
    PROVE  Working'
  <1> USE Tasks, SharedLocks, InfoLock, PieceStays DEF Stage
  <1>1. CASE AcceptPeer(p)
    <2>1. \A t \in Task : Stage(t, pc'[t]) = Stage(t, pc[t])
      BY <1>1 DEF AcceptPeer, Typed
    <2> QED
      BY <1>1, <2>1, QuietWork DEF AcceptPeer
  <1>2. CASE Connect(p)
    <2>1. \A t \in Task : Stage(t, pc'[t]) = Stage(t, pc[t])
      BY <1>2 DEF Connect, Typed
    <2> QED
      BY <1>2, <2>1, QuietWork DEF Connect
  <1> QED
    BY <1>1, <1>2

\* A handler sends to its writer.
LEMMA SendsQuiet ==
    ASSUME Typed, Working, NEW p \in Peer,
           SendJob(p) \/ SendHave(p) \/ SendInterested(p) \/ SendChokeOrBlock(p)
    PROVE  Working'
  <1>1. Stage(Handler(p), pc[Handler(p)]) = "none"
    BY Tasks DEF Stage, SendJob, SendHave, SendInterested, SendChokeOrBlock
  <1>2. UNCHANGED workVars
    BY DEF SendJob, SendHave, SendInterested, SendChokeOrBlock
  <1>3. owner'[Piece] = owner[Piece]
    BY SharedLocks, InfoLock
    DEF SendJob, SendHave, SendInterested, SendChokeOrBlock, SendToWriter, Drop
  <1>4. \/ \E label \in {"idle", "interest", "job", "leave"} : pc' = At(Handler(p), label)
        \/ pc' = [pc EXCEPT ![Handler(p)] = "idle",
                            ![Timer(p)] = IF @ = "off" THEN "asleep" ELSE @]
    BY DEF SendJob, SendHave, SendInterested, SendChokeOrBlock, SendToWriter
  <1>5. \A t \in Task : Stage(t, pc'[t]) = Stage(t, pc[t])
    <2>1. CASE \E label \in {"idle", "interest", "job", "leave"} : pc' = At(Handler(p), label)
      <3>1. PICK label \in {"idle", "interest", "job", "leave"} : pc' = At(Handler(p), label)
        BY <2>1
      <3>2. pc'[Handler(p)] = label /\ \A t \in Task \ {Handler(p)} : pc'[t] = pc[t]
        BY <3>1, Tasks DEF At, Typed
      <3>3. Stage(Handler(p), label) = "none"
        BY Tasks DEF Stage
      <3> QED
        BY <1>1, <3>2, <3>3
    <2>2. CASE pc' = [pc EXCEPT ![Handler(p)] = "idle",
                                ![Timer(p)] = IF @ = "off" THEN "asleep" ELSE @]
      <3>1. /\ pc'[Handler(p)] = "idle"
            /\ \A t \in Task \ {Handler(p)} : pc'[t] # pc[t] => t.task = "timer"
        BY <2>2, Tasks DEF Typed
      <3>2. Stage(Handler(p), "idle") = "none"
        BY Tasks DEF Stage
      <3>3. \A label : \A t \in Task : t.task = "timer" => Stage(t, label) = "none"
        BY DEF Stage
      <3> QED
        BY <1>1, <3>1, <3>2, <3>3
    <2> QED
      BY <1>4, <2>1, <2>2
  <1> QED
    BY <1>2, <1>3, <1>5, QuietWork

\* A broadcast, but for the return of a handler that has begun a piece.
LEMMA BroadcastQuiet ==
    ASSUME Typed, Working, NEW t \in Task,
           \/ LockPeersForAlert(t) \/ SendToNext(t)
           \/ t.task \in {"main", "timer"} /\ \E to \in {"select", "off"} : AlertReturns(t, to, {Peers})
    PROVE  Working'
  <1> USE Tasks, SharedLocks, InfoLock, PieceStays DEF Stage
  <1>1. CASE LockPeersForAlert(t)
    BY <1>1, QuietMoves DEF LockPeersForAlert
  <1>2. CASE SendToNext(t)
    BY <1>2, QuietWork DEF SendToNext
  <1>3. CASE t.task \in {"main", "timer"} /\ \E to \in {"select", "off"} : AlertReturns(t, to, {Peers})
    BY <1>3, QuietMoves DEF AlertReturns
  <1> QED
    BY <1>1, <1>2, <1>3

-----------------------------------------------------------------------------
(* Steps that bring the work on.                                           *)

\* One task moves.
LEMMA Others ==
    ASSUME Typed, NEW t \in Task, NEW label, Go(t, label)
    PROVE  Doing(t)' = Stage(t, label) /\ \A u \in Task \ {t} : Doing(u)' = Doing(u)
  BY DEF Typed, Go, At, Doing

\* One task at a time is at work on the piece.
LEMMA OneHolder ==
    ASSUME Working, NEW t \in Task, Doing(t) \in PieceNeeded
    PROVE  \A u \in Task \ {t} : Doing(u) \notin PieceNeeded
  BY DEF Working, PieceHeld

\* It may take or drop the piece if nobody else has it.
LEMMA PieceAfter ==
    ASSUME Typed, Working, NEW t \in Task, NEW label, Go(t, label),
           owner'[Piece] = owner[Piece] \/ owner[Piece] \in {t, Nobody},
           Stage(t, label) \in PieceNeeded => owner'[Piece] = t
    PROVE  PieceHeld'
  BY Others, NobodyIsNoTask DEF Working, PieceHeld

\* As many blocks are under way, and the task knows how far the piece is.
LEMMA WorkGoesOn ==
    ASSUME Typed, Working, NEW t \in Task, NEW label, Go(t, label),
           PieceHeld', Counted', UNCHANGED missing, UnderWay' = UnderWay,
           Doing(t) # "marked",
           stored' = stored \/ \A u \in Task \ {t} : Doing(u) \notin {"complete", "marked"},
           Stage(t, label) # "starting",
           Doing(t) \in {"starting", "choosing"} => Stage(t, label) = "choosing",
           Stage(t, label) = "choosing" => UnderWay = 0,
           Stage(t, label) \in {"complete", "marked"} => stored' = Blocks
    PROVE  Working'
  <1>1. Doing(t)' = Stage(t, label) /\ \A u \in Task \ {t} : Doing(u)' = Doing(u)
    BY Others
  <1>2. InStages'
    BY <1>1 DEF Working, InStages
  <1>3. LastMarked'
    BY <1>1 DEF Working, LastMarked
  <1>4. IsStarting => IsStarting'
    BY <1>1, Tasks DEF IsStarting
  <1>5. NoneForgotten'
    BY <1>4 DEF Working, NoneForgotten
  <1> QED
    BY <1>2, <1>3, <1>5 DEF Working

\* choose_first_piece.
LEMMA FirstPieceWork ==
    ASSUME Typed, Working, LockFirstPiece \/ LockFirstQueue \/ ChooseFirstPiece
    PROVE  Working'
  <1> USE Tasks, SharedLocks, InfoLock, PieceStays DEF Stage
  <1>1. CASE LockFirstPiece
    <2>1. Go(Main, "firstQueue") /\ owner[Piece] = Nobody /\ owner'[Piece] = Main
      BY <1>1 DEF LockFirstPiece, Take, Free, Typed
    <2>2. PieceHeld'
      BY <2>1, PieceAfter
    <2>3. InHand' = InHand /\ UNCHANGED workVars /\ Outstanding' = Outstanding
      BY <1>1, SameCounts DEF LockFirstPiece, Typed, Go, At, workVars
    <2>4. Counted' /\ UnderWay' = UnderWay
      BY <2>3 DEF Working, Counted, UnderWay, workVars
    <2>5. Doing(Main) = "starting" /\ UnderWay = 0
      BY <1>1 DEF LockFirstPiece, Working, InStages, Doing
    <2> QED
      BY <2>1, <2>2, <2>3, <2>4, <2>5, WorkGoesOn DEF workVars
  <1>2. CASE LockFirstQueue
    BY <1>2, QuietMoves DEF LockFirstQueue
  <1>3. CASE ChooseFirstPiece
    <2>1. Go(Main, "alertPeers") /\ Doing(Main) = "choosing"
      BY <1>3 DEF ChooseFirstPiece, Doing
    <2>2. UnderWay = 0 /\ owner[Piece] = Main
      BY <2>1 DEF Working, InStages, PieceHeld, PieceNeeded
    <2>3. PieceHeld'
      BY <2>1, <2>2, PieceAfter DEF PieceNeeded
    <2>4. InHand' = InHand /\ Outstanding' = Outstanding
      BY <1>3, SameCounts DEF ChooseFirstPiece, Typed, Go, At
    <2>8. /\ queued' = IF missing = 0 THEN 0 ELSE Blocks
          /\ UNCHANGED <<missing, requested, stored>>
      BY <1>3 DEF ChooseFirstPiece
    <2>9. Cardinality(Outstanding) = 0 /\ Cardinality(InHand) = 0 /\ stored = 0
      BY <2>2, Counts DEF Working, UnderWay
    <2>10. UnderWay' = queued'
      BY <2>4, <2>8, <2>9, Counts DEF Working, UnderWay
    <2>5. UnderWay' = queued' /\ stored = 0 /\ Counted'
      BY <2>4, <2>8, <2>9, <2>10, Counts DEF Working, Counted
    <2>6. \A u \in Task : Doing(u)' \notin {"starting", "choosing", "complete", "marked"}
      <3>1. \A u \in Task \ {Main} : Doing(u) \notin {"complete", "marked", "starting", "choosing"}
        BY <2>5, LocksAssumption DEF Working, InStages, Doing, Task, Main
      <3>2. Stage(Main, "alertPeers") = "none"
        OBVIOUS
      <3>3. Doing(Main)' = "none" /\ \A u \in Task \ {Main} : Doing(u)' = Doing(u)
        BY <2>1, <3>2, Others
      <3> QED
        BY <3>1, <3>3
    <2>7. LastMarked' /\ NoneForgotten'
      BY <1>3, <2>5, <2>8, LocksAssumption DEF ChooseFirstPiece, LastMarked, NoneForgotten, Working, Counted
    <2> QED
      BY <2>3, <2>5, <2>6, <2>7 DEF Working, InStages
  <1> QED
    BY <1>1, <1>2, <1>3

-----------------------------------------------------------------------------
(* Counting the requests.                                                  *)

\* A request more, or one less.
LEMMA RequestsCounted ==
    ASSUME Counted, NEW p \in Peer
    PROVE  /\ requested[p] < Blocks /\ requested' = [requested EXCEPT ![p] = @ + 1] =>
                /\ requested' \in [Peer -> 0 .. Blocks]
                /\ IsFiniteSet(Outstanding')
                /\ Cardinality(Outstanding') = Cardinality(Outstanding) + 1
           /\ requested[p] > 0 /\ requested' = [requested EXCEPT ![p] = @ - 1] =>
                /\ requested' \in [Peer -> 0 .. Blocks]
                /\ IsFiniteSet(Outstanding')
                /\ Cardinality(Outstanding') = Cardinality(Outstanding) - 1
  <1>0. requested \in [Peer -> 0 .. Blocks] /\ requested[p] \in 0 .. Blocks /\ Blocks \in Nat
    BY LocksAssumption DEF Counted
  <1>1. ASSUME requested[p] < Blocks, requested' = [requested EXCEPT ![p] = @ + 1]
        PROVE  /\ requested' \in [Peer -> 0 .. Blocks]
               /\ IsFiniteSet(Outstanding')
               /\ Cardinality(Outstanding') = Cardinality(Outstanding) + 1
    <2>1. requested[p] + 1 \in 0 .. Blocks
      BY <1>0, <1>1
    <2>2. requested' \in [Peer -> 0 .. Blocks]
      BY <1>0, <1>1, <2>1
    <2>3. Outstanding' = Outstanding \cup {<<p, requested[p] + 1>>}
      BY <1>0, <1>1, <2>1 DEF Outstanding
    <2>4. <<p, requested[p] + 1>> \notin Outstanding
      BY <1>0 DEF Outstanding
    <2> QED
      BY <2>2, <2>3, <2>4, FS_AddElement DEF Counted
  <1>2. ASSUME requested[p] > 0, requested' = [requested EXCEPT ![p] = @ - 1]
        PROVE  /\ requested' \in [Peer -> 0 .. Blocks]
               /\ IsFiniteSet(Outstanding')
               /\ Cardinality(Outstanding') = Cardinality(Outstanding) - 1
    <2>1. requested[p] - 1 \in 0 .. Blocks
      BY <1>0, <1>2
    <2>2. requested' \in [Peer -> 0 .. Blocks]
      BY <1>0, <1>2, <2>1
    <2>3. Outstanding' = Outstanding \ {<<p, requested[p]>>}
      BY <1>0, <1>2, <2>1 DEF Outstanding
    <2>4. <<p, requested[p]>> \in Outstanding
      BY <1>0, <1>2 DEF Outstanding
    <2> QED
      BY <2>2, <2>3, <2>4, FS_RemoveElement DEF Counted
  <1> QED
    BY <1>1, <1>2

\* Not all blocks are requested of a peer while one is queued.
LEMMA RoomToRequest ==
    ASSUME Counted, queued > 0, NEW p \in Peer
    PROVE  requested[p] < Blocks
  <1>0. requested[p] \in 0 .. Blocks /\ Blocks \in Nat
    BY LocksAssumption DEF Counted
  <1>1. Cardinality(Outstanding) < Blocks
    BY Counts DEF Counted, UnderWay
  <1>2. SUFFICES ASSUME requested[p] = Blocks PROVE FALSE
    BY <1>0
  <1> DEFINE f == [k \in 1 .. Blocks |-> <<p, k>>]
  <1>3. f \in [1 .. Blocks -> Outstanding]
    BY <1>2 DEF Outstanding
  <1>4. IsFiniteSet(1 .. Blocks) /\ Cardinality(1 .. Blocks) = Blocks
    BY <1>0, Counts, FS_Interval
  <1>5. \E x, y \in 1 .. Blocks : x # y /\ f[x] = f[y]
    <2> HIDE DEF f
    <2> QED
      BY <1>1, <1>3, <1>4, FS_PigeonHole DEF Counted
  <1> QED
    BY <1>5

\* A handler moves; those of the other peers do not.
LEMMA HandlerMoves ==
    ASSUME Typed, NEW p \in Peer, NEW label, Go(Handler(p), label)
    PROVE  pc'[Handler(p)] = label /\ \A q \in Peer \ {p} : pc'[Handler(q)] = pc[Handler(q)]
  <1>1. \A q \in Peer \ {p} : Handler(q) # Handler(p) /\ Handler(q) \in Task
    BY Tasks
  <1> QED
    BY <1>1, Tasks DEF Typed, Go, At

\* It takes a block in hand.
LEMMA TakenInHand ==
    ASSUME Typed, Counted, NEW p \in Peer, Go(Handler(p), "store"), pc[Handler(p)] # "store"
    PROVE  IsFiniteSet(InHand') /\ Cardinality(InHand') = Cardinality(InHand) + 1
  <1>1. InHand' = InHand \cup {p} /\ p \notin InHand
    BY HandlerMoves DEF InHand
  <1> QED
    BY <1>1, FS_AddElement DEF Counted

\* It puts the block down.
LEMMA PutDown ==
    ASSUME Typed, Counted, NEW p \in Peer, NEW label, Go(Handler(p), label),
           pc[Handler(p)] = "store", label # "store"
    PROVE  IsFiniteSet(InHand') /\ Cardinality(InHand') = Cardinality(InHand) - 1
  <1>1. InHand' = InHand \ {p} /\ p \in InHand
    BY HandlerMoves DEF InHand
  <1> QED
    BY <1>1, FS_RemoveElement DEF Counted

\* It has none in hand.
LEMMA SameInHand ==
    ASSUME Typed, NEW p \in Peer, NEW label, Go(Handler(p), label),
           pc[Handler(p)] # "store", label # "store"
    PROVE  InHand' = InHand
  BY HandlerMoves DEF InHand

-----------------------------------------------------------------------------
(* Each of the steps that count.                                           *)

\* A block moves from the queue to a peer's requests, or back.
LEMMA RequestWork ==
    ASSUME Typed, Working, NEW p \in Peer, TryGetNewJobs(p) \/ TryRemoveJob(p)
    PROVE  Working'
  <1>1. CASE TryGetNewJobs(p)
    <2>1. Go(Handler(p), "sendJob") /\ Doing(Handler(p)) = "none" /\ Stage(Handler(p), "sendJob") = "none"
      BY <1>1, Tasks DEF TryGetNewJobs, Doing, Stage
    <2>2. owner'[Piece] = owner[Piece]
      BY <1>1, PieceStays, SharedLocks DEF TryGetNewJobs
    <2>3. PieceHeld'
      BY <2>1, <2>2, PieceAfter, Tasks DEF PieceNeeded
    <2>4. /\ queued > 0 /\ queued' = queued - 1 /\ UNCHANGED <<missing, stored>>
          /\ requested' = [requested EXCEPT ![p] = @ + 1] /\ pc[Handler(p)] # "store"
      BY <1>1 DEF TryGetNewJobs
    <2>5. InHand' = InHand
      BY <2>1, <2>4, SameInHand DEF Working
    <2>6. /\ requested' \in [Peer -> 0 .. Blocks] /\ IsFiniteSet(Outstanding')
          /\ Cardinality(Outstanding') = Cardinality(Outstanding) + 1
      BY <2>4, RequestsCounted, RoomToRequest DEF Working
    <2>7. UnderWay' = UnderWay /\ queued' \in Nat
      BY <2>4, <2>5, <2>6, Counts DEF Working, UnderWay
    <2>8. Counted'
      BY <2>4, <2>5, <2>6, <2>7 DEF Working, Counted
    <2> QED
      BY <2>1, <2>3, <2>4, <2>7, <2>8, WorkGoesOn, Tasks
  <1>2. CASE TryRemoveJob(p)
    <2>1. PICK label \in {"off", "alertPeers"} :
             /\ Go(Timer(p), label)
             /\ \/ UNCHANGED <<queued, requested>>
                \/ requested[p] > 0 /\ requested' = [requested EXCEPT ![p] = @ - 1]
                   /\ queued' = queued + 1
      BY <1>2 DEF TryRemoveJob
    <2>2. owner'[Piece] = owner[Piece] /\ UNCHANGED <<missing, stored>>
      BY <1>2, PieceStays, SharedLocks, InfoLock DEF TryRemoveJob
    <2>3. Stage(Timer(p), label) = "none" /\ Doing(Timer(p)) = "none"
      BY Tasks DEF Stage, Doing
    <2>4. PieceHeld'
      BY <2>1, <2>2, <2>3, PieceAfter, Tasks DEF PieceNeeded
    <2>5. InHand' = InHand
      <3>1. \A q \in Peer : Handler(q) # Timer(p) /\ Handler(q) \in Task
        BY Tasks
      <3>2. \A q \in Peer : pc'[Handler(q)] = pc[Handler(q)]
        BY <2>1, <3>1 DEF Typed, Go, At
      <3> QED
        BY <3>2 DEF InHand
    <2>6. CASE UNCHANGED <<queued, requested>>
      <3>1. Counted' /\ UnderWay' = UnderWay
        BY <2>2, <2>5, <2>6, SameCounts DEF Working, Counted, UnderWay
      <3> QED
        BY <2>1, <2>2, <2>3, <2>4, <3>1, WorkGoesOn, Tasks
    <2>7. CASE requested[p] > 0 /\ requested' = [requested EXCEPT ![p] = @ - 1]
                 /\ queued' = queued + 1
      <3>1. /\ requested' \in [Peer -> 0 .. Blocks] /\ IsFiniteSet(Outstanding')
            /\ Cardinality(Outstanding') = Cardinality(Outstanding) - 1
        BY <2>7, RequestsCounted DEF Working
      <3>2. UnderWay' = UnderWay /\ queued' \in Nat
        BY <2>2, <2>5, <2>7, <3>1, Counts DEF Working, UnderWay
      <3>3. Counted'
        BY <2>2, <2>5, <3>1, <3>2 DEF Working, Counted
      <3> QED
        BY <2>1, <2>2, <2>3, <2>4, <3>2, <3>3, WorkGoesOn, Tasks
    <2> QED
      BY <2>1, <2>6, <2>7
  <1> QED
    BY <1>1, <1>2

\* A block arrives, and is stored.
LEMMA BlockWork ==
    ASSUME Typed, Working, NEW p \in Peer, PeerPiece(p) \/ StoreBlock(p)
    PROVE  Working'
  <1>1. CASE PeerPiece(p)
    <2>1. Go(Handler(p), "store") /\ Doing(Handler(p)) = "none" /\ Stage(Handler(p), "store") = "in hand"
      BY <1>1, Tasks DEF PeerPiece, Doing, Stage
    <2>2. owner'[Piece] = owner[Piece]
      BY <1>1, PieceStays, InfoLock DEF PeerPiece
    <2>3. PieceHeld'
      BY <2>1, <2>2, PieceAfter, Tasks DEF PieceNeeded
    <2>4. /\ requested[p] > 0 /\ UNCHANGED <<missing, queued, stored>>
          /\ requested' = [requested EXCEPT ![p] = @ - 1] /\ pc[Handler(p)] # "store"
      BY <1>1 DEF PeerPiece
    <2>5. IsFiniteSet(InHand') /\ Cardinality(InHand') = Cardinality(InHand) + 1
      BY <2>1, <2>4, TakenInHand DEF Working
    <2>6. /\ requested' \in [Peer -> 0 .. Blocks] /\ IsFiniteSet(Outstanding')
          /\ Cardinality(Outstanding') = Cardinality(Outstanding) - 1
      BY <2>4, RequestsCounted DEF Working
    <2>7. UnderWay' = UnderWay
      BY <2>4, <2>5, <2>6, Counts DEF Working, UnderWay
    <2>8. Counted'
      BY <2>4, <2>5, <2>6, <2>7 DEF Working, Counted
    <2> QED
      BY <2>1, <2>3, <2>4, <2>7, <2>8, WorkGoesOn, Tasks
  <1>2. CASE StoreBlock(p)
    <2>1. Go(Handler(p), "choose") /\ Doing(Handler(p)) = "in hand" /\ Stage(Handler(p), "choose") = "none"
      BY <1>2, Tasks DEF StoreBlock, Doing, Stage
    <2>2. owner'[Piece] = owner[Piece]
      BY <1>2, PieceStays DEF StoreBlock
    <2>3. PieceHeld'
      BY <2>1, <2>2, PieceAfter, Tasks DEF PieceNeeded
    <2>4. UNCHANGED <<missing, queued, requested>> /\ stored' = stored + 1 /\ pc[Handler(p)] = "store"
      BY <1>2 DEF StoreBlock
    <2>5. IsFiniteSet(InHand') /\ Cardinality(InHand') = Cardinality(InHand) - 1
      BY <2>1, <2>4, PutDown DEF Working
    <2>6. Outstanding' = Outstanding
      BY <2>4, SameCounts
    <2>7. UnderWay' = UnderWay /\ stored' \in Nat
      BY <2>4, <2>5, <2>6, Counts DEF Working, Counted, UnderWay
    <2>8. Counted'
      BY <2>4, <2>5, <2>6, <2>7 DEF Working, Counted
    <2>9. stored # Blocks
      <3>1. Cardinality(InHand') \in Nat
        BY <2>5, FS_CardinalityType
      <3> QED
        BY <2>4, <2>5, <3>1, Counts DEF Working, Counted, UnderWay
    <2>10. \A u \in Task : Doing(u) \notin {"complete", "marked"}
      BY <2>9 DEF Working, InStages
    <2> QED
      BY <2>1, <2>3, <2>4, <2>7, <2>8, <2>10, WorkGoesOn, Tasks
  <1> QED
    BY <1>1, <1>2

\* The piece is complete, and good or bad.
LEMMA CompleteWork ==
    ASSUME Typed, Working, NEW p \in Peer, LockPiece(p) \/ BadPiece(p) \/ NewPieceChosen(p)
    PROVE  Working'
  <1>1. CASE LockPiece(p)
    <2>0. UNCHANGED workVars /\ pc[Handler(p)] = "choose"
      BY <1>1 DEF LockPiece
    <2>1. CASE stored < Blocks
      <3>1. Go(Handler(p), "job") /\ owner'[Piece] = owner[Piece]
        BY <1>1, <2>1, PieceStays, InfoLock DEF LockPiece
      <3>2. Stage(Handler(p), "job") = Stage(Handler(p), "choose")
        BY Tasks DEF Stage
      <3> QED
        BY <2>0, <3>1, <3>2, QuietMoves, Tasks
    <2>2. CASE ~ (stored < Blocks)
      <3>1. Go(Handler(p), "chooseQueue") /\ owner[Piece] = Nobody /\ owner'[Piece] = Handler(p)
        BY <1>1, <2>2, SharedLocks DEF LockPiece, Take, Free, Typed
      <3>2. Stage(Handler(p), "chooseQueue") = "complete" /\ Doing(Handler(p)) = "none"
        BY <2>0, Tasks DEF Stage, Doing
      <3>3. PieceHeld'
        BY <3>1, <3>2, PieceAfter, Tasks
      <3>4. InHand' = InHand /\ Outstanding' = Outstanding
        BY <2>0, <3>1, SameInHand, SameCounts DEF Working, workVars
      <3>5. Counted' /\ UnderWay' = UnderWay
        BY <2>0, <3>4 DEF Working, Counted, UnderWay, workVars
      <3>6. stored = Blocks
        BY <2>2, Counts DEF Working
      <3> QED
        BY <2>0, <3>1, <3>2, <3>3, <3>5, <3>6, WorkGoesOn, Tasks DEF workVars
    <2> QED
      BY <2>1, <2>2
  <1>2. CASE BadPiece(p)
    <2>1. Go(Handler(p), "job") /\ Doing(Handler(p)) = "complete" /\ Stage(Handler(p), "job") = "none"
      BY <1>2, Tasks DEF BadPiece, Doing, Stage
    <2>2. owner[Piece] = Handler(p) /\ stored = Blocks
      BY <2>1, Tasks DEF Working, PieceHeld, PieceNeeded, InStages
    <2>3. PieceHeld'
      BY <2>1, <2>2, PieceAfter, Tasks DEF PieceNeeded
    <2>4. /\ UNCHANGED <<missing, requested>> /\ queued' = queued + stored /\ stored' = 0
          /\ pc[Handler(p)] # "store"
      BY <1>2 DEF BadPiece
    <2>5. InHand' = InHand /\ Outstanding' = Outstanding
      BY <2>1, <2>4, SameInHand, SameCounts DEF Working
    <2>6. UnderWay' = UnderWay /\ queued' \in Nat /\ stored' \in Nat
      BY <2>4, <2>5, Counts DEF Working, UnderWay
    <2>7. Counted'
      BY <2>4, <2>5, <2>6 DEF Working, Counted
    <2>8. \A u \in Task \ {Handler(p)} : Doing(u) \notin {"complete", "marked"}
      BY <2>1, OneHolder, Tasks DEF PieceNeeded
    <2> QED
      BY <2>1, <2>3, <2>4, <2>6, <2>7, <2>8, WorkGoesOn, Tasks
  <1>3. CASE NewPieceChosen(p)
    <2>1. /\ Go(Handler(p), "job") /\ Doing(Handler(p)) = "begun" /\ Stage(Handler(p), "job") = "none"
          /\ UNCHANGED workVars /\ pc[Handler(p)] # "store"
      BY <1>3, Tasks DEF NewPieceChosen, AlertReturns, Doing, Stage
    <2>2. owner[Piece] = Handler(p)
      BY <2>1, Tasks DEF Working, PieceHeld, PieceNeeded
    <2>3. PieceHeld'
      BY <2>1, <2>2, PieceAfter, Tasks DEF PieceNeeded
    <2>5. InHand' = InHand /\ Outstanding' = Outstanding
      BY <2>1, SameInHand, SameCounts DEF Working, workVars
    <2>6. Counted' /\ UnderWay' = UnderWay
      BY <2>1, <2>5 DEF Working, Counted, UnderWay, workVars
    <2> QED
      BY <2>1, <2>3, <2>6, WorkGoesOn, Tasks DEF workVars
  <1> QED
    BY <1>1, <1>2, <1>3

\* A piece is marked as downloaded; the next is begun.
LEMMA NextPieceWork ==
    ASSUME Typed, Working, NEW p \in Peer, MarkDownloaded(p) \/ ChooseNext(p)
    PROVE  Working'
  <1>1. CASE MarkDownloaded(p)
    <2>1. Go(Handler(p), "announcePeers") /\ Doing(Handler(p)) = "complete"
          /\ Stage(Handler(p), "announcePeers") = "marked"
      BY <1>1, Tasks DEF MarkDownloaded, Doing, Stage
    <2>2. owner[Piece] = Handler(p) /\ owner'[Piece] = owner[Piece] /\ stored = Blocks
      BY <1>1, <2>1, Tasks, PieceStays DEF Working, PieceHeld, PieceNeeded, InStages, MarkDownloaded
    <2>3. PieceHeld'
      BY <2>1, <2>2, PieceAfter, Tasks
    <2>4. UNCHANGED <<queued, requested, stored>> /\ missing' = missing - 1 /\ pc[Handler(p)] # "store"
      BY <1>1 DEF MarkDownloaded
    <2>5. InHand' = InHand /\ Outstanding' = Outstanding
      BY <2>1, <2>4, SameInHand, SameCounts DEF Working
    <2>6. UnderWay' = UnderWay /\ UnderWay # 0
      BY <2>2, <2>4, <2>5, Counts DEF Working, UnderWay
    <2>7. \A u \in Task : Doing(u) # "marked"
      BY <2>1, OneHolder, Tasks DEF PieceNeeded
    <2>8. missing # 0
      BY <2>6, <2>7 DEF Working, LastMarked
    <2>9. Counted'
      BY <2>4, <2>5, <2>6, <2>8, LocksAssumption DEF Working, Counted
    <2>10. Doing(Handler(p))' = "marked" /\ \A u \in Task \ {Handler(p)} : Doing(u)' = Doing(u)
      BY <2>1, Others, Tasks
    <2>11. InStages' /\ LastMarked'
      BY <2>2, <2>4, <2>6, <2>10, Tasks DEF Working, InStages, LastMarked
    <2>12. NoneForgotten'
      BY <2>6 DEF Working, Counted, NoneForgotten
    <2> QED
      BY <2>3, <2>9, <2>11, <2>12 DEF Working
  <1>2. CASE ChooseNext(p)
    <2>1. Go(Handler(p), "alertPeers") /\ Doing(Handler(p)) = "marked"
          /\ Stage(Handler(p), "alertPeers") = "begun"
      BY <1>2, Tasks DEF ChooseNext, Doing, Stage
    <2>2. owner[Piece] = Handler(p) /\ owner'[Piece] = owner[Piece] /\ stored = Blocks
      BY <1>2, <2>1, Tasks, PieceStays DEF Working, PieceHeld, PieceNeeded, InStages, ChooseNext
    <2>3. PieceHeld'
      BY <2>1, <2>2, PieceAfter, Tasks
    <2>4. /\ UNCHANGED <<missing, requested>> /\ pc[Handler(p)] # "store"
          /\ queued' = (IF missing = 0 THEN 0 ELSE Blocks) /\ stored' = 0
      BY <1>2 DEF ChooseNext
    <2>5. InHand' = InHand /\ Outstanding' = Outstanding
      BY <2>1, <2>4, SameInHand, SameCounts DEF Working
    <2>6. UnderWay # 0 /\ Cardinality(Outstanding) = 0 /\ Cardinality(InHand) = 0
      BY <2>2, Counts DEF Working, Counted, UnderWay
    <2>7. UnderWay' = queued' /\ queued' \in {0, Blocks} /\ queued' \in Nat /\ stored' \in Nat
      BY <2>4, <2>5, <2>6, Counts DEF Working, UnderWay
    <2>8. Counted'
      BY <2>4, <2>5, <2>7 DEF Working, Counted
    <2>9. Doing(Handler(p))' = "begun" /\ \A u \in Task \ {Handler(p)} : Doing(u)' = Doing(u)
      BY <2>1, Others, Tasks
    <2>10. \A u \in Task \ {Handler(p)} : Doing(u) \notin {"starting", "choosing", "complete", "marked"}
      BY <2>1, <2>6, OneHolder, Tasks DEF PieceNeeded, Working, InStages
    <2>11. InStages'
      BY <2>9, <2>10 DEF InStages
    <2>12. LastMarked' /\ NoneForgotten'
      BY <2>4, <2>7 DEF LastMarked, NoneForgotten, Working, Counted
    <2> QED
      BY <2>3, <2>8, <2>11, <2>12 DEF Working
  <1> QED
    BY <1>1, <1>2

\* At the start no block is under way.
LEMMA InitWorking == Init => Working
  <1> SUFFICES ASSUME Init PROVE Working
    OBVIOUS
  <1>1. \A t \in Task : Doing(t) \in {"starting", "none"}
    BY DEF Init, Doing, Stage, FirstLabel
  <1>2. \A p \in Peer : pc[Handler(p)] # "store"
    BY Tasks DEF Init, FirstLabel
  <1>3. InHand = {} /\ Outstanding = {}
    BY <1>2 DEF Init, InHand, Outstanding
  <1>4. UnderWay = 0 /\ IsFiniteSet(InHand) /\ IsFiniteSet(Outstanding)
    BY <1>3, FS_EmptySet DEF Init, UnderWay
  <1>5. Counted
    BY <1>4, LocksAssumption DEF Init, Counted
  <1>6. IsStarting
    BY Tasks DEF Init, FirstLabel, IsStarting, Doing, Stage
  <1> QED
    BY <1>1, <1>4, <1>5, <1>6 DEF Working, PieceHeld, PieceNeeded, InStages, LastMarked, NoneForgotten

\* Working is inductive.
LEMMA NextWorking ==
    ASSUME Typed, Working, [Next]_vars
    PROVE  Working'
  <1>1. CASE MainStep \/ Select
    BY <1>1, MainQuiet, BroadcastQuiet, FirstPieceWork, Tasks DEF MainStep
  <1>2. ASSUME NEW p \in Peer, PeerStep(p)
        PROVE  Working'
    <2>1. CASE HandlerStep(p)
      BY <2>1, BriefQuiet, MessageQuiet, PairsQuiet, SendsQuiet, BroadcastQuiet,
         RequestWork, BlockWork, CompleteWork, NextPieceWork, Tasks
      DEF HandlerStep
    <2>2. CASE WriterStep(p)
      BY <2>2, WriterAndTimerQuiet DEF WriterStep
    <2>3. CASE TimerStep(p)
      BY <2>3, WriterAndTimerQuiet, BroadcastQuiet, RequestWork, Tasks DEF TimerStep
    <2> QED
      BY <1>2, <2>1, <2>2, <2>3, PairsQuiet, BriefQuiet, WriterAndTimerQuiet
      DEF PeerStep
  <1>3. CASE UNCHANGED vars
    BY <1>3, QuietWork DEF vars, workVars
  <1> QED
    BY <1>1, <1>2, <1>3 DEF Next

\* Every variable keeps its range: no mailbox or channel is filled beyond its
\* capacity, no more blocks are queued, requested of a peer or stored than the piece
\* has (torrent.rs:483), and no more pieces are marked than were missing.
THEOREM LocksTypeCorrect == Spec => []TypeOK
  <1>1. Init => Typed /\ Working
    BY InitTyped, InitWorking
  <1>2. Typed /\ Working /\ [Next]_vars => (Typed /\ Working)'
    BY NextTyped, NextWorking
  <1>3. Typed /\ Working => TypeOK
    BY Counts DEF Typed, Working, Counted, TypeOK
  <1> QED
    BY <1>1, <1>2, <1>3, PTL DEF Spec

\* The stages of the proof are those of HasPiece.
LEMMA StagesOfPiece ==
    /\ IsStarting <=> pc[Main] \in {"publish", "first", "firstQueue", "firstDone"}
    /\ \A p \in Peer : Doing(Handler(p)) = "marked" <=> IsAnnouncing(p)
    /\ \A t \in Task : Doing(t) = "marked" => \E p \in Peer : t = Handler(p)
  <1>1. IsStarting <=> pc[Main] \in {"publish", "first", "firstQueue", "firstDone"}
    BY Tasks DEF IsStarting, Doing, Stage
  <1>2. \A p \in Peer : Doing(Handler(p)) = "marked" <=> IsAnnouncing(p)
    BY Tasks DEF Doing, Stage, IsAnnouncing
  <1>3. ASSUME NEW t \in Task, Doing(t) = "marked"
        PROVE  \E p \in Peer : t = Handler(p)
    BY <1>3 DEF Doing, Stage, Task, Main, Handler
  <1> QED
    BY <1>1, <1>2, <1>3

\* No block is lost or copied, for any number of peers, pieces and blocks: what
\* try_get_new_jobs, block_downloaded, the timers and try_choose_new_piece do under
\* their guards only moves blocks, and a whole piece of them is under way as long as
\* there is one to download.
THEOREM NoBlockIsLost == Spec => []NoBlockLost
  <1>1. Init => Typed /\ Working
    BY InitTyped, InitWorking
  <1>2. Typed /\ Working /\ [Next]_vars => (Typed /\ Working)'
    BY NextTyped, NextWorking
  <1>3. ASSUME Typed, Working
        PROVE  NoBlockLost
    <2>1. CASE IsStarting
      <3>1. UnderWay = 0
        BY <1>3, <2>1, Tasks DEF IsStarting, Working, InStages
      <3> QED
        BY <2>1, <3>1, StagesOfPiece DEF NoBlockLost, HasPiece
    <2>2. CASE ~IsStarting /\ missing > 0
      BY <1>3, <2>2, StagesOfPiece DEF Working, NoneForgotten, NoBlockLost, HasPiece
    <2>3. CASE ~IsStarting /\ missing = 0 /\ \E p \in Peer : IsAnnouncing(p)
      <3>1. stored = Blocks
        BY <1>3, <2>3, StagesOfPiece, Tasks DEF Working, InStages
      <3>2. UnderWay = Blocks
        BY <1>3, <3>1, Counts DEF Working, Counted, UnderWay
      <3> QED
        BY <2>3, <3>2, StagesOfPiece DEF NoBlockLost, HasPiece
    <2>4. CASE ~IsStarting /\ missing = 0 /\ ~\E p \in Peer : IsAnnouncing(p)
      <3>1. UnderWay = 0
        BY <1>3, <2>4, StagesOfPiece DEF Working, LastMarked
      <3> QED
        BY <2>4, <3>1 DEF NoBlockLost, HasPiece
    <2>5. missing > 0 \/ missing = 0
      BY <1>3, LocksAssumption DEF Working, Counted
    <2> QED
      BY <2>1, <2>2, <2>3, <2>4, <2>5
  <1> QED
    BY <1>1, <1>2, <1>3, PTL DEF Spec
=============================================================================
