--------------------------- MODULE DownloadProofs ---------------------------
(***************************************************************************)
(* What holds of Download for every set of peers, every number and size of *)
(* pieces and every bound.  The argument: the state is well typed; under   *)
(* that, Inv is preserved by every step; and under Inv every step is a     *)
(* step of PieceLedger or leaves what PieceLedger sees unchanged.          *)
(***************************************************************************)
EXTENDS Download, TLAPS

-----------------------------------------------------------------------------
(* Blocks and bags of blocks.                                              *)

\* A block is its piece index and its number in the piece.
LEMMA BlockFields ==
    \A b \in Block : /\ b.index \in Piece
                     /\ b.begin \in 0 .. BlockCount[b.index] - 1
                     /\ b = [index |-> b.index, begin |-> b.begin]
  BY DownloadAssumption DEF Block, BlocksOf

\* BlocksOf(i) are the blocks with index i, and they are blocks.
LEMMA BlocksOfPiece ==
    ASSUME NEW i \in Piece
    PROVE  /\ BlocksOf(i) \subseteq Block
           /\ \A b \in Block : b \in BlocksOf(i) <=> b.index = i
  BY BlockFields, DownloadAssumption DEF Block, BlocksOf

\* Put adds one of each block of the set.
LEMMA PutIsBag ==
    ASSUME NEW bag \in [Block -> Nat], NEW S
    PROVE  /\ Put(bag, S) \in [Block -> Nat]
           /\ \A b \in Block : Put(bag, S)[b] = IF b \in S THEN bag[b] + 1 ELSE bag[b]
  BY DEF Put

\* Drop removes one of each, which leaves a bag if there was one of each.
LEMMA DropIsBag ==
    ASSUME NEW bag \in [Block -> Nat], NEW S,
           \A b \in Block : b \in S => bag[b] > 0
    PROVE  /\ Drop(bag, S) \in [Block -> Nat]
           /\ \A b \in Block : Drop(bag, S)[b] = IF b \in S THEN bag[b] - 1 ELSE bag[b]
  BY DEF Drop

-----------------------------------------------------------------------------
(* Types.                                                                  *)

\* Empty slots are slots.
LEMMA EmptySlotsType ==
    \A n \in {0} \cup {BlockCount[i] : i \in Piece} : EmptySlots(n) \in SlotVector
  <1> TAKE n \in {0} \cup {BlockCount[i] : i \in Piece}
  <1>1. EmptySlots(n) \in [0 .. n - 1 -> {"none", "good", "bad"}]
    BY DEF EmptySlots
  <1> QED
    BY <1>1 DEF SlotVector

\* A broadcast only adds messages to mailboxes.
LEMMA SendAllType ==
    ASSUME TypeOK, NEW S, NEW messages \in SUBSET ClientMessage
    PROVE  SendAll(S, messages) \in [Peer -> SUBSET ClientMessage]
  BY DEF TypeOK, SendAll

\* Starting a piece gives it one empty slot and one queued block per block.
LEMMA StartPieceType ==
    ASSUME TypeOK, NEW i \in Piece, StartPiece(i)
    PROVE  /\ blocks_to_download' \in [Block -> Nat]
           /\ downloading_piece_index' \in Piece \cup {None}
           /\ downloading_piece' \in SlotVector
  <1>1. blocks_to_download' \in [Block -> Nat]
    BY PutIsBag DEF TypeOK, StartPiece
  <1>2. downloading_piece' \in SlotVector
    BY EmptySlotsType DEF StartPiece
  <1> QED
    BY <1>1, <1>2 DEF StartPiece

\* The initial state is well typed.
LEMMA TypeInit == Init => TypeOK
  <1> SUFFICES ASSUME Init PROVE TypeOK
    OBVIOUS
  <1>1. NoBlocks \in [Block -> Nat]
    BY DEF NoBlocks
  <1>2. downloading_piece \in SlotVector
    BY EmptySlotsType DEF Init
  <1> QED
    BY <1>1, <1>2, DownloadAssumption DEF Init, TypeOK, HandlerState

\* The steps of the main task.
LEMMA TypeMain == TypeOK /\ MainStep => TypeOK'
  <1> SUFFICES ASSUME TypeOK, MainStep PROVE TypeOK'
    OBVIOUS
  <1> USE DEF TypeOK, mainVars, infoVars, requestVars, pieceVars
  <1>1. CASE PublishPeers
    BY <1>1, DownloadAssumption DEF PublishPeers
  <1>2. CASE ChooseFirstPiece
    <2>1. CASE Missing(downloaded_pieces) = {}
      BY <1>2, <2>1 DEF ChooseFirstPiece
    <2>2. CASE Missing(downloaded_pieces) # {}
      <3>1. PICK i \in Piece : StartPiece(i)
        BY <1>2, <2>2 DEF ChooseFirstPiece, StartFirstMissing
      <3> QED
        BY <1>2, <3>1, StartPieceType DEF ChooseFirstPiece
    <2> QED
      BY <2>1, <2>2
  <1>3. CASE FirstAlert
    <2>1. mail' \in [Peer -> SUBSET ClientMessage]
      BY <1>3, SendAllType DEF FirstAlert, ClientMessage
    <2> QED
      BY <1>3, <2>1 DEF FirstAlert
  <1>4. ASSUME NEW p \in Peer, AcceptPeer(p) PROVE TypeOK'
    BY <1>4 DEF AcceptPeer, Goto, HandlerState
  <1>5. ASSUME NEW p \in Peer, PushPeer(p) PROVE TypeOK'
    BY <1>5 DEF PushPeer
  <1> QED
    BY <1>1, <1>2, <1>3, <1>4, <1>5 DEF MainStep

\* Moving jobs keeps both bags bags.
LEMMA MoveJobsType ==
    ASSUME TypeOK, NEW p \in Peer, NEW jobs, IsTaken(p, jobs), MoveJobs(p, jobs)
    PROVE  /\ jobs \subseteq Queued
           /\ blocks_to_download' \in [Block -> Nat]
           /\ requested_blocks' \in [Peer -> [Block -> Nat]]
           /\ \A b \in Block : blocks_to_download'[b] = IF b \in jobs THEN blocks_to_download[b] - 1
                                                     ELSE blocks_to_download[b]
           /\ \A b \in Block, q \in Peer :
                 requested_blocks'[q][b] = IF q = p /\ b \in jobs
                                           THEN requested_blocks[q][b] + 1
                                           ELSE requested_blocks[q][b]
  <1>1. jobs \subseteq Queued
    BY DEF IsTaken, Usable
  <1>2. \A b \in Block : b \in jobs => blocks_to_download[b] > 0
    BY <1>1 DEF Queued
  <1>3. /\ blocks_to_download' \in [Block -> Nat]
        /\ \A b \in Block : blocks_to_download'[b] = IF b \in jobs THEN blocks_to_download[b] - 1
                                                  ELSE blocks_to_download[b]
    BY <1>2, DropIsBag DEF MoveJobs, TypeOK
  <1>4. /\ requested_blocks' \in [Peer -> [Block -> Nat]]
        /\ \A b \in Block, q \in Peer :
                 requested_blocks'[q][b] = IF q = p /\ b \in jobs
                                           THEN requested_blocks[q][b] + 1
                                           ELSE requested_blocks[q][b]
    BY DEF MoveJobs, TypeOK, Put
  <1> QED
    BY <1>1, <1>3, <1>4

\* What a handler does by itself.
LEMMA TypeHandler ==
    ASSUME TypeOK, NEW p \in Peer, HandlerRuns(p) PROVE TypeOK'
  <1> USE DEF TypeOK, mainVars, infoVars, requestVars, pieceVars, Goto, HandlerState
  <1>1. CASE StartHandler(p)
    BY <1>1 DEF StartHandler
  <1>2. CASE Connect(p)
    BY <1>2 DEF Connect
  <1>3. CASE DisconnectPeer(p)
    BY <1>3 DEF DisconnectPeer
  <1>4. CASE StoreBlock(p)
    <2>1. PICK block \in hand[p] :
            downloading_piece' = [downloading_piece EXCEPT
                ![block.info.begin] = IF block.good THEN "good" ELSE "bad"]
      BY <1>4 DEF StoreBlock
    <2>2. PICK n \in {0} \cup {BlockCount[i] : i \in Piece} :
            downloading_piece \in [0 .. n - 1 -> {"none", "good", "bad"}]
      BY DEF SlotVector
    <2>3. downloading_piece' \in [0 .. n - 1 -> {"none", "good", "bad"}]
      BY <2>1, <2>2
    <2>4. downloading_piece' \in SlotVector
      BY ONLY <2>3 DEF SlotVector
    <2> QED
      BY <1>4, <2>4 DEF StoreBlock
  <1>5. CASE TryChooseNewPiece(p)
    <2>1. CASE PieceIncomplete(p)
      BY <1>5, <2>1 DEF TryChooseNewPiece, PieceIncomplete
    <2>2. CASE PieceBad(p)
      <3>1. downloading_piece_index \in Piece
        BY <2>2 DEF PieceBad, IsComplete
      <3>2. downloading_piece' \in SlotVector
        <4>1. downloading_piece' = EmptySlots(BlockCount[downloading_piece_index])
          BY <2>2 DEF PieceBad
        <4> QED
          BY <3>1, <4>1, EmptySlotsType
      <3>3. blocks_to_download' \in [Block -> Nat]
        BY <2>2, PutIsBag DEF PieceBad
      <3> QED
        BY <1>5, <2>2, <3>2, <3>3 DEF TryChooseNewPiece, PieceBad
    <2>3. CASE PieceGood(p)
      <3>1. downloading_piece_index \in Piece
        BY <2>3 DEF PieceGood, IsComplete
      <3>2. downloaded_pieces' \subseteq Piece
        BY <2>3, <3>1 DEF PieceGood
      <3>3. mail' \in [Peer -> SUBSET ClientMessage]
        BY <2>3, <3>1, SendAllType DEF PieceGood, ClientMessage
      <3>4. /\ blocks_to_download' \in [Block -> Nat]
            /\ downloading_piece_index' \in Piece \cup {None}
            /\ downloading_piece' \in SlotVector
        <4>1. CASE Missing(downloaded_pieces') = {}
          BY <2>3, <4>1 DEF PieceGood
        <4>2. CASE Missing(downloaded_pieces') # {}
          BY <2>3, <4>2, StartPieceType DEF PieceGood, StartFirstMissing
        <4> QED
          BY <4>1, <4>2
      <3> QED
        BY <1>5, <3>2, <3>3, <3>4 DEF TryChooseNewPiece
    <2> QED
      BY <1>5, <2>1, <2>2, <2>3 DEF TryChooseNewPiece
  <1>6. CASE UpdateJobQueue(p)
    <2>1. CASE NoJobs(p)
      BY <1>6, <2>1 DEF UpdateJobQueue
    <2>2. CASE ~NoJobs(p) /\ LoopEnds(p)
      <3>1. PICK jobs \in SUBSET Usable(p) : \E sent \in SUBSET jobs :
              IsTaken(p, jobs) /\ MoveJobs(p, jobs) /\ SendJobs(p, jobs, sent)
        BY <1>6, <2>2 DEF UpdateJobQueue
      <3>2. PICK sent \in SUBSET jobs : SendJobs(p, jobs, sent)
        BY <3>1
      <3>3. timers' \in [Peer -> [Block -> Nat]]
        BY <3>2 DEF SendJobs, Put, CreateTimeouts
      <3>4. handler' \in [Peer -> HandlerState] /\ writer' \in [Peer -> BOOLEAN]
        BY <3>2 DEF SendJobs
      <3>5. /\ blocks_to_download' \in [Block -> Nat]
            /\ requested_blocks' \in [Peer -> [Block -> Nat]]
        BY <3>1, MoveJobsType
      <3> QED
        BY <1>6, <2>2, <3>3, <3>4, <3>5 DEF UpdateJobQueue
    <2>3. CASE ~NoJobs(p) /\ ~LoopEnds(p)
      <3>1. PICK jobs \in SUBSET Usable(p) : IsTaken(p, jobs) /\ MoveJobs(p, jobs)
        BY <1>6, <2>3 DEF UpdateJobQueue
      <3>2. /\ blocks_to_download' \in [Block -> Nat]
            /\ requested_blocks' \in [Peer -> [Block -> Nat]]
        BY <3>1, MoveJobsType
      <3>3. handler' \in [Peer -> HandlerState]
        BY <1>6, <2>3 DEF UpdateJobQueue
      <3> QED
        BY <1>6, <2>3, <3>2, <3>3 DEF UpdateJobQueue
    <2> QED
      BY <2>1, <2>2, <2>3
  <1> QED
    BY <1>1, <1>2, <1>3, <1>4, <1>5, <1>6 DEF HandlerRuns

\* What a handler does about a message, and what becomes of its connection.
LEMMA TypeMessage ==
    ASSUME TypeOK, NEW p \in Peer,
           \/ HandlesClientMessage(p) \/ HandlesPeerMessage(p) \/ Tick(p)
           \/ WriterFails(p) \/ SendFails(p)
    PROVE  TypeOK'
  <1> USE DEF TypeOK, mainVars, infoVars, requestVars, pieceVars, Goto, HandlerState
  <1>1. CASE HandleUpdatedJobQueue(p)
    BY <1>1 DEF HandleUpdatedJobQueue
  <1>2. CASE HandlePieceDownloaded(p)
    <2>1. mail' \in [Peer -> SUBSET ClientMessage]
      BY <1>2 DEF HandlePieceDownloaded
    <2>2. /\ am_interested' \in [Peer -> BOOLEAN]
          /\ handler' \in [Peer -> HandlerState]
      <3>1. CASE writer[p]
        <4>1. CheckIfInterested(p, piece_availability[p])
          BY <1>2, <3>1 DEF HandlePieceDownloaded
        <4> QED
          BY <4>1 DEF CheckIfInterested, IsInterested
      <3>2. CASE ~writer[p]
        BY <1>2, <3>2 DEF HandlePieceDownloaded
      <3> QED
        BY <3>1, <3>2
    <2>3. UNCHANGED <<mainVars, peers, writer, peer_choking, piece_availability,
                      requestVars, hand, alerts, blocks_to_download, pieceVars, corrupt>>
      BY <1>2 DEF HandlePieceDownloaded
    <2> QED
      BY <2>1, <2>2, <2>3
  <1>3. ASSUME NEW choking \in BOOLEAN, PeerChokes(p, choking) PROVE TypeOK'
    BY <1>3 DEF PeerChokes
  <1>4. ASSUME NEW available \in SUBSET Piece, PeerAnnounces(p, available) PROVE TypeOK'
    <2>1. /\ am_interested' \in [Peer -> BOOLEAN]
          /\ handler' \in [Peer -> HandlerState]
      BY <1>4 DEF PeerAnnounces, CheckIfInterested, IsInterested
    <2>2. piece_availability' \in [Peer -> SUBSET Piece]
      BY <1>4 DEF PeerAnnounces
    <2> QED
      BY <1>4, <2>1, <2>2 DEF PeerAnnounces
  <1>5. CASE PeerHave(p)
    BY <1>4, <1>5, DownloadAssumption DEF PeerHave
  <1>6. CASE PeerBitfield(p)
    BY <1>4, <1>6, DownloadAssumption DEF PeerBitfield
  <1>7. CASE PeerBadHave(p)
    BY <1>7 DEF PeerBadHave
  <1>8. CASE PeerShortBitfield(p)
    BY <1>8 DEF PeerShortBitfield
  <1>9. ASSUME NEW b \in Block, NEW good \in BOOLEAN, PeerPiece(p, b, good) PROVE TypeOK'
    <2>2. requested_blocks' \in [Peer -> [Block -> Nat]]
      BY <1>9 DEF PeerPiece, IsRequested, Drop
    <2>3. queue_size' \in [Peer -> 1 .. MaxQueue]
      BY <1>9, DownloadAssumption DEF PeerPiece
    <2>4. hand' \in [Peer -> SUBSET Received]
      BY <1>9 DEF PeerPiece, Received
    <2>5. corrupt' \in 0 .. MaxCorrupt
      BY <1>9, DownloadAssumption DEF PeerPiece
    <2> QED
      BY <1>9, <2>2, <2>3, <2>4, <2>5 DEF PeerPiece
  <1>10. CASE Tick(p)
    BY <1>10, DownloadAssumption DEF Tick
  <1>11. CASE WriterFails(p)
    BY <1>11 DEF WriterFails
  <1>12. CASE SendFails(p)
    BY <1>12 DEF SendFails
  <1> QED
    BY <1>1, <1>2, <1>3, <1>5, <1>6, <1>7, <1>8, <1>9, <1>10, <1>11, <1>12
       DEF HandlesClientMessage, HandlesPeerMessage

\* The timers.
LEMMA TypeTimer ==
    ASSUME TypeOK, Alert \/ \E p \in Peer, b \in Block : Timeout(p, b)
    PROVE  TypeOK'
  <1> USE DEF TypeOK, mainVars, infoVars, requestVars, pieceVars
  <1>1. CASE Alert
    <2>1. mail' \in [Peer -> SUBSET ClientMessage]
      BY <1>1, SendAllType DEF Alert, ClientMessage
    <2>2. alerts' \in 0 .. MaxAlerts
      BY <1>1, DownloadAssumption DEF Alert
    <2> QED
      BY <1>1, <2>1, <2>2 DEF Alert
  <1>2. ASSUME NEW p \in Peer, NEW b \in Block, Timeout(p, b) PROVE TypeOK'
    <2>1. timers' \in [Peer -> [Block -> Nat]]
      BY <1>2 DEF Timeout, Drop
    <2>2. CASE requested_blocks[p][b] > 0
      <3>1. /\ requested_blocks' = [requested_blocks EXCEPT ![p] = Drop(@, {b})]
            /\ blocks_to_download' = Put(blocks_to_download, {b})
            /\ alerts' = alerts + 1
        BY <1>2, <2>2 DEF Timeout, TryRemoveJob
      <3>2. requested_blocks' \in [Peer -> [Block -> Nat]]
        BY <2>2, <3>1 DEF Drop
      <3>3. blocks_to_download' \in [Block -> Nat]
        BY <3>1, PutIsBag
      <3>4. alerts' \in 0 .. MaxAlerts
        BY <1>2, <3>1, DownloadAssumption DEF Timeout
      <3> QED
        BY <1>2, <2>1, <3>2, <3>3, <3>4 DEF Timeout
    <2>3. CASE ~(requested_blocks[p][b] > 0)
      BY <1>2, <2>1, <2>3 DEF Timeout, TryRemoveJob
    <2> QED
      BY <2>2, <2>3
  <1> QED
    BY <1>1, <1>2

\* Every step keeps the state well typed.
LEMMA TypeNext == TypeOK /\ [Next]_vars => TypeOK'
  <1> SUFFICES ASSUME TypeOK, [Next]_vars PROVE TypeOK'
    OBVIOUS
  <1>1. CASE UNCHANGED vars
    BY <1>1 DEF TypeOK, vars
  <1>2. CASE Next
    BY <1>2, TypeMain, TypeHandler, TypeMessage, TypeTimer DEF Next, PeerStep
  <1> QED
    BY <1>1, <1>2

\* Every variable stays in its range: no count of requests, timers or queued
\* blocks ever becomes negative, whoever fires, answers or disconnects.
THEOREM TypeCorrect == Spec => []TypeOK
  <1> QED
    BY TypeInit, TypeNext, PTL DEF Spec

-----------------------------------------------------------------------------
(* The inductive invariant.                                                *)

\* What Inv is about besides the control of main and of the handlers.
blockVars == <<requested_blocks, hand, blocks_to_download, downloading_piece_index,
               downloading_piece, downloaded_pieces>>

\* None is not the index of a piece.
LEMMA NoneIsNoPiece == None \notin Piece
  BY DownloadAssumption DEF None, Piece

\* A step that leaves blocks and pieces alone preserves Inv if it keeps the
\* handlers that store a block the same.
LEMMA QuietStep ==
    ASSUME Inv, TypeOK', UNCHANGED blockVars,
           \A p \in Peer : handler'[p] = "store" <=> handler[p] = "store",
           \/ main' = main
           \/ main = "publish" /\ main' = "choose"
           \/ main = "choose" /\ main' = "alert" /\ Missing(downloaded_pieces) = {}
           \/ main = "alert" /\ main' = "loop"
    PROVE  Inv'
  <1> USE DEF Inv, blockVars
  <1>1. HandMatchesHandler'
    BY DEF HandMatchesHandler
  <1>2. HeldOnce'
    BY DEF HeldOnce
  <1>3. BlockInOnePlace'
    BY DEF BlockInOnePlace, InOnePlace, Holders, IsStored
  <1>4. SlotsMatchPiece'
    BY DEF SlotsMatchPiece
  <1>5. CurrentIsFirstMissing'
    BY DEF CurrentIsFirstMissing, SlotsMatchPiece
  <1> QED
    BY <1>1, <1>2, <1>3, <1>4, <1>5

\* Between pieces, and when the last slot is filled, no block is queued, asked
\* for or in hand.
LEMMA NothingInFlight ==
    ASSUME Inv, downloading_piece_index = None \/ IsComplete
    PROVE  \A b \in Block : blocks_to_download[b] = 0 /\ Holders(b) = {}
  <1> TAKE b \in Block
  <1>1. InOnePlace(b)
    BY DEF Inv, BlockInOnePlace
  <1>2. CASE b.index # downloading_piece_index
    BY <1>1, <1>2 DEF InOnePlace
  <1>3. CASE b.index = downloading_piece_index
    <2>1. IsComplete
      BY <1>3, BlockFields, NoneIsNoPiece
    <2>2. b.begin \in DOMAIN downloading_piece
      BY <1>3, <2>1, BlockFields DEF Inv, SlotsMatchPiece, IsComplete
    <2>3. IsStored(b)
      BY <2>1, <2>2 DEF IsComplete, IsStored
    <2> QED
      BY <1>1, <1>3, <2>3 DEF InOnePlace
  <1> QED
    BY <1>2, <1>3

\* Starting a piece when nothing is in flight puts each of its blocks in the
\* queue and no block anywhere else.
LEMMA StartPieceInOnePlace ==
    ASSUME TypeOK, \A b \in Block : blocks_to_download[b] = 0 /\ Holders(b) = {},
           NEW i \in Piece, StartPiece(i), UNCHANGED <<requested_blocks, hand>>
    PROVE  /\ BlockInOnePlace'
           /\ downloading_piece_index' = i
           /\ DOMAIN downloading_piece' = 0 .. BlockCount[i] - 1
  <1>1. /\ downloading_piece_index' = i
        /\ downloading_piece' = [k \in 0 .. BlockCount[i] - 1 |-> "none"]
        /\ blocks_to_download' = Put(blocks_to_download, BlocksOf(i))
    BY DEF StartPiece, EmptySlots
  <1>2. ASSUME NEW b \in Block PROVE InOnePlace(b)'
    <2>1. Holders(b)' = {}
      BY DEF Holders
    <2>2. CASE b.index = i
      <3>1. blocks_to_download'[b] = 1
        BY <1>1, <2>2, BlocksOfPiece DEF Put, TypeOK
      <3>2. ~IsStored(b)'
        BY <1>1, <2>2, BlockFields DEF IsStored
      <3> QED
        BY <1>1, <2>1, <2>2, <3>1, <3>2 DEF InOnePlace
    <2>3. CASE b.index # i
      <3>1. blocks_to_download'[b] = 0
        BY <1>1, <2>3, BlocksOfPiece DEF Put, TypeOK
      <3> QED
        BY <1>1, <2>1, <2>3, <3>1 DEF InOnePlace
    <2> QED
      BY <2>2, <2>3
  <1> QED
    BY <1>1, <1>2 DEF BlockInOnePlace

\* The initial state.
LEMMA InvInit == Init => Inv
  <1> SUFFICES ASSUME Init PROVE Inv
    OBVIOUS
  <1>1. HandMatchesHandler /\ HeldOnce
    BY DEF Init, HandMatchesHandler, HeldOnce, NoBlocks
  <1>2. SlotsMatchPiece /\ CurrentIsFirstMissing
    BY DEF Init, SlotsMatchPiece, CurrentIsFirstMissing
  <1>3. BlockInOnePlace
    <2>1. \A b \in Block : Holders(b) = {} /\ blocks_to_download[b] = 0
      BY DEF Init, Holders, NoBlocks
    <2> QED
      BY <2>1, BlockFields, NoneIsNoPiece DEF Init, BlockInOnePlace, InOnePlace
  <1> QED
    BY <1>1, <1>2, <1>3, TypeInit DEF Inv

\* The main task starts the first piece when there is none.
LEMMA InvMain == Inv /\ MainStep => Inv'
  <1> SUFFICES ASSUME Inv, MainStep PROVE Inv'
    OBVIOUS
  <1>0. TypeOK /\ TypeOK'
    BY TypeMain DEF Inv
  <1> USE DEF mainVars, infoVars, requestVars, pieceVars, blockVars
  <1>1. CASE PublishPeers
    BY <1>0, <1>1, QuietStep DEF PublishPeers
  <1>2. CASE ChooseFirstPiece
    <2>1. CASE Missing(downloaded_pieces) = {}
      BY <1>0, <1>2, <2>1, QuietStep DEF ChooseFirstPiece
    <2>2. CASE Missing(downloaded_pieces) # {}
      <3>1. PICK i \in Piece : IsFirstMissing(i, downloaded_pieces) /\ StartPiece(i)
        BY <1>2, <2>2 DEF ChooseFirstPiece, StartFirstMissing
      <3>2. downloading_piece_index = None
        BY <1>2 DEF Inv, SlotsMatchPiece, ChooseFirstPiece
      <3>3. /\ BlockInOnePlace'
            /\ downloading_piece_index' = i
            /\ DOMAIN downloading_piece' = 0 .. BlockCount[i] - 1
        BY <1>0, <1>2, <3>1, <3>2, NothingInFlight, StartPieceInOnePlace
           DEF ChooseFirstPiece
      <3>4. HandMatchesHandler' /\ HeldOnce'
        BY <1>2 DEF Inv, HandMatchesHandler, HeldOnce, ChooseFirstPiece
      <3>5. SlotsMatchPiece' /\ CurrentIsFirstMissing'
        BY <1>2, <3>1, <3>3, NoneIsNoPiece
           DEF SlotsMatchPiece, CurrentIsFirstMissing, ChooseFirstPiece
      <3> QED
        BY <1>0, <3>3, <3>4, <3>5 DEF Inv
    <2> QED
      BY <2>1, <2>2
  <1>3. CASE FirstAlert
    BY <1>0, <1>3, QuietStep DEF FirstAlert
  <1>4. ASSUME NEW p \in Peer, AcceptPeer(p) PROVE Inv'
    BY <1>0, <1>4, QuietStep DEF AcceptPeer, Goto, TypeOK
  <1>5. ASSUME NEW p \in Peer, PushPeer(p) PROVE Inv'
    BY <1>0, <1>5, QuietStep DEF PushPeer
  <1> QED
    BY <1>1, <1>2, <1>3, <1>4, <1>5 DEF MainStep

\* A block that a handler has in hand has an empty slot waiting for it.
LEMMA SlotOfBlockInHand ==
    ASSUME Inv, NEW p \in Peer, NEW block \in hand[p]
    PROVE  /\ block.info \in Block
           /\ block.info.index = downloading_piece_index
           /\ downloading_piece_index \in Piece
           /\ DOMAIN downloading_piece = 0 .. BlockCount[downloading_piece_index] - 1
           /\ block.info.begin \in DOMAIN downloading_piece
           /\ blocks_to_download[block.info] = 0
           /\ ~IsStored(block.info)
           /\ Holders(block.info) = {p}
  <1>1. block.info \in Block
    BY DEF Inv, TypeOK, Received
  <1>2. p \in Holders(block.info)
    BY DEF Holders
  <1>3. InOnePlace(block.info)
    BY <1>1 DEF Inv, BlockInOnePlace
  <1>4. /\ block.info.index = downloading_piece_index
        /\ blocks_to_download[block.info] = 0
        /\ ~IsStored(block.info)
        /\ Holders(block.info) = {p}
    BY <1>2, <1>3 DEF InOnePlace
  <1>5. downloading_piece_index \in Piece
    BY <1>1, <1>4, BlockFields
  <1>6. DOMAIN downloading_piece = 0 .. BlockCount[downloading_piece_index] - 1
    BY <1>5, NoneIsNoPiece DEF Inv, SlotsMatchPiece
  <1> QED
    BY <1>1, <1>4, <1>5, <1>6, BlockFields

\* Storing a block moves it from the hand to its slot.
LEMMA InvStoreBlock == ASSUME Inv, NEW p \in Peer, StoreBlock(p) PROVE Inv'
  <1> USE DEF mainVars, infoVars, requestVars, Goto
  <1>0. TypeOK /\ TypeOK'
    BY TypeHandler DEF Inv, HandlerRuns
  <1>1. PICK block \in hand[p] :
          downloading_piece' = [downloading_piece EXCEPT
              ![block.info.begin] = IF block.good THEN "good" ELSE "bad"]
    BY DEF StoreBlock
  <1>2. hand[p] = {block}
    BY <1>1 DEF Inv, HandMatchesHandler, StoreBlock
  <1>3. /\ hand' = [hand EXCEPT ![p] = {}]
        /\ handler' = [handler EXCEPT ![p] = "choose"]
        /\ UNCHANGED <<requested_blocks, blocks_to_download, main,
                       downloading_piece_index, downloaded_pieces>>
    BY DEF StoreBlock
  <1>4. HandMatchesHandler' /\ HeldOnce'
    BY <1>0, <1>3 DEF Inv, TypeOK, HandMatchesHandler, HeldOnce
  <1>5. SlotsMatchPiece' /\ CurrentIsFirstMissing'
    BY <1>1, <1>3 DEF Inv, SlotsMatchPiece, CurrentIsFirstMissing
  <1>6. ASSUME NEW b \in Block PROVE InOnePlace(b)'
    <2>1. InOnePlace(b)
      BY DEF Inv, BlockInOnePlace
    <2>2. CASE b = block.info
      <3>1. Holders(b)' = {}
        <4>1. requested_blocks[p][b] = 0
          BY <1>0, <1>1, <2>2 DEF Inv, HeldOnce
        <4>2. \A q \in Peer \ {p} : q \notin Holders(b)
          BY <1>1, <2>2, SlotOfBlockInHand
        <4> QED
          BY <1>0, <1>3, <4>1, <4>2 DEF Holders, TypeOK
      <3>2. IsStored(b)'
        BY <1>1, <2>2, SlotOfBlockInHand DEF IsStored
      <3> QED
        BY <1>1, <1>3, <2>2, <3>1, <3>2, SlotOfBlockInHand DEF InOnePlace
    <2>3. CASE b # block.info
      <3>1. Holders(b)' = Holders(b)
        BY <1>0, <1>2, <1>3, <2>3 DEF Holders, TypeOK
      <3>2. b.index = downloading_piece_index => b.begin # block.info.begin
        BY <1>1, <2>3, BlockFields, SlotOfBlockInHand
      <3>3. b.index = downloading_piece_index => (IsStored(b)' <=> IsStored(b))
        BY <1>1, <3>2, SlotOfBlockInHand, BlockFields DEF IsStored
      <3> QED
        BY <1>3, <2>1, <3>1, <3>3 DEF InOnePlace
    <2> QED
      BY <2>2, <2>3
  <1> QED
    BY <1>0, <1>4, <1>5, <1>6 DEF Inv, BlockInOnePlace

\* A complete piece is judged: its blocks return to the queue, or the next one
\* is started.
LEMMA InvTryChooseNewPiece ==
    ASSUME Inv, NEW p \in Peer, TryChooseNewPiece(p) PROVE Inv'
  <1> USE DEF mainVars, infoVars, requestVars, Goto
  <1>0. TypeOK /\ TypeOK'
    BY TypeHandler DEF Inv, HandlerRuns
  <1>1. /\ handler[p] = "choose"
        /\ handler' = [handler EXCEPT ![p] = "update"]
        /\ UNCHANGED <<requested_blocks, hand, main>>
    BY DEF TryChooseNewPiece
  <1>2. HandMatchesHandler' /\ HeldOnce'
    BY <1>0, <1>1 DEF Inv, TypeOK, HandMatchesHandler, HeldOnce
  <1>3. CASE PieceIncomplete(p)
    BY <1>0, <1>1, <1>3, QuietStep DEF PieceIncomplete, blockVars, TypeOK
  <1>4. ASSUME IsComplete
        PROVE  /\ downloading_piece_index \in Piece
               /\ main \notin {"publish", "choose"}
               /\ \A b \in Block : blocks_to_download[b] = 0 /\ Holders(b) = {}
    BY <1>0, <1>4, NothingInFlight DEF IsComplete, TypeOK, Inv, SlotsMatchPiece
  <1>5. CASE PieceBad(p)
    <2>1. /\ StartPiece(downloading_piece_index)
          /\ UNCHANGED <<downloading_piece_index, downloaded_pieces>>
      BY <1>5 DEF PieceBad, StartPiece
    <2>2. /\ BlockInOnePlace'
          /\ DOMAIN downloading_piece' = 0 .. BlockCount[downloading_piece_index] - 1
      BY <1>0, <1>1, <1>4, <1>5, <2>1, StartPieceInOnePlace DEF PieceBad
    <2>3. SlotsMatchPiece' /\ CurrentIsFirstMissing'
      BY <1>1, <1>4, <1>5, <2>1, <2>2
         DEF PieceBad, Inv, SlotsMatchPiece, CurrentIsFirstMissing
    <2> QED
      BY <1>0, <1>2, <2>2, <2>3 DEF Inv
  <1>6. CASE PieceGood(p)
    <2>1. CASE Missing(downloaded_pieces') = {}
      <3>1. downloading_piece_index' = None /\ UNCHANGED blocks_to_download
        BY <1>6, <2>1 DEF PieceGood
      <3>2. ASSUME NEW b \in Block PROVE InOnePlace(b)'
        <4>1. b.index # None
          BY BlockFields, NoneIsNoPiece
        <4>2. Holders(b)' = {}
          BY <1>1, <1>4, <1>6 DEF Holders, PieceGood
        <4> QED
          BY <1>4, <1>6, <3>1, <4>1, <4>2 DEF InOnePlace, PieceGood
      <3>3. SlotsMatchPiece' /\ CurrentIsFirstMissing'
        BY <2>1, <3>1 DEF SlotsMatchPiece, CurrentIsFirstMissing
      <3> QED
        BY <1>0, <1>2, <3>2, <3>3 DEF Inv, BlockInOnePlace
    <2>2. CASE Missing(downloaded_pieces') # {}
      <3>1. PICK i \in Piece : IsFirstMissing(i, downloaded_pieces') /\ StartPiece(i)
        BY <1>6, <2>2 DEF PieceGood, StartFirstMissing
      <3>2. /\ BlockInOnePlace'
            /\ downloading_piece_index' = i
            /\ DOMAIN downloading_piece' = 0 .. BlockCount[i] - 1
        BY <1>0, <1>1, <1>4, <1>6, <3>1, StartPieceInOnePlace DEF PieceGood
      <3>3. SlotsMatchPiece' /\ CurrentIsFirstMissing'
        BY <1>1, <1>4, <1>6, <3>1, <3>2, NoneIsNoPiece
           DEF PieceGood, SlotsMatchPiece, CurrentIsFirstMissing
      <3> QED
        BY <1>0, <1>2, <3>2, <3>3 DEF Inv
    <2> QED
      BY <2>1, <2>2
  <1> QED
    BY <1>3, <1>5, <1>6 DEF TryChooseNewPiece

\* Jobs move from the queue, where each is the only one of its kind, to one peer.
LEMMA MoveJobsInv ==
    ASSUME Inv, NEW p \in Peer, NEW jobs, IsTaken(p, jobs), MoveJobs(p, jobs),
           TypeOK', handler[p] # "store", handler'[p] # "store",
           \A q \in Peer \ {p} : handler'[q] = handler[q],
           UNCHANGED <<main, hand, downloading_piece_index, downloading_piece,
                       downloaded_pieces>>
    PROVE  Inv'
  <1>0. TypeOK
    BY DEF Inv
  <1>1. /\ \A b \in Block : b \in jobs => blocks_to_download[b] > 0
        /\ \A b \in Block : blocks_to_download'[b] = IF b \in jobs THEN blocks_to_download[b] - 1
                                                  ELSE blocks_to_download[b]
        /\ \A b \in Block, q \in Peer :
                 requested_blocks'[q][b] = IF q = p /\ b \in jobs
                                           THEN requested_blocks[q][b] + 1
                                           ELSE requested_blocks[q][b]
    BY <1>0, MoveJobsType DEF Queued
  <1>2. \A b \in Block : b \in jobs => /\ blocks_to_download[b] = 1
                                      /\ Holders(b) = {}
                                      /\ b.index = downloading_piece_index
                                      /\ ~IsStored(b)
    BY <1>0, <1>1 DEF Inv, BlockInOnePlace, InOnePlace, TypeOK
  <1>3. \A b \in Block, q \in Peer : b \in jobs => requested_blocks[q][b] = 0
    BY <1>0, <1>2 DEF Holders, TypeOK
  <1>4. HandMatchesHandler'
    BY DEF Inv, HandMatchesHandler
  <1>5. HeldOnce'
    <2>1. \A q \in Peer, b \in Block : requested_blocks'[q][b] <= 1
      BY <1>1, <1>3 DEF Inv, HeldOnce
    <2>2. hand[p] = {}
      BY DEF Inv, HandMatchesHandler
    <2>3. \A q \in Peer : \A block \in hand[q] : block.info \in Block
      BY <1>0 DEF TypeOK, Received
    <2>4. \A q \in Peer : \A block \in hand[q] : requested_blocks'[q][block.info] = 0
      BY <1>1, <2>2, <2>3 DEF Inv, HeldOnce
    <2> QED
      BY <2>1, <2>4 DEF HeldOnce
  <1>6. SlotsMatchPiece' /\ CurrentIsFirstMissing'
    BY DEF Inv, SlotsMatchPiece, CurrentIsFirstMissing
  <1>7. ASSUME NEW b \in Block PROVE InOnePlace(b)'
    <2>1. CASE b \in jobs
      <3>1. Holders(b)' = {p}
        BY <1>0, <1>1, <1>2, <1>3, <2>1 DEF Holders
      <3> QED
        BY <1>1, <1>2, <2>1, <3>1 DEF InOnePlace, IsStored
    <2>2. CASE b \notin jobs
      <3>1. Holders(b)' = Holders(b)
        BY <1>1, <2>2 DEF Holders
      <3> QED
        BY <1>1, <2>2, <3>1 DEF Inv, BlockInOnePlace, InOnePlace, IsStored
    <2> QED
      BY <2>1, <2>2
  <1> QED
    BY <1>4, <1>5, <1>6, <1>7 DEF Inv, BlockInOnePlace

LEMMA InvUpdateJobQueue ==
    ASSUME Inv, NEW p \in Peer, UpdateJobQueue(p) PROVE Inv'
  <1> USE DEF mainVars, infoVars, pieceVars, Goto
  <1>0. TypeOK /\ TypeOK'
    BY TypeHandler DEF Inv, HandlerRuns
  <1>1. /\ handler[p] = "update"
        /\ UNCHANGED <<main, hand, downloading_piece_index, downloading_piece,
                       downloaded_pieces>>
    BY DEF UpdateJobQueue
  <1>2. CASE NoJobs(p)
    BY <1>0, <1>1, <1>2, QuietStep DEF UpdateJobQueue, blockVars, TypeOK
  <1>3. CASE ~NoJobs(p) /\ LoopEnds(p)
    <2>1. PICK jobs \in SUBSET Usable(p) : \E sent \in SUBSET jobs :
            IsTaken(p, jobs) /\ MoveJobs(p, jobs) /\ SendJobs(p, jobs, sent)
      BY <1>3 DEF UpdateJobQueue
    <2>2. \/ handler' = [handler EXCEPT ![p] = "idle"]
          \/ handler' = [handler EXCEPT ![p] = "leaving"]
      BY <2>1 DEF SendJobs
    <2> QED
      BY <1>0, <1>1, <2>1, <2>2, MoveJobsInv DEF TypeOK
  <1>4. CASE ~NoJobs(p) /\ ~LoopEnds(p)
    <2>1. PICK jobs \in SUBSET Usable(p) : IsTaken(p, jobs) /\ MoveJobs(p, jobs)
      BY <1>4 DEF UpdateJobQueue
    <2>2. handler' = [handler EXCEPT ![p] = "spinning"]
      BY <1>4 DEF UpdateJobQueue
    <2> QED
      BY <1>0, <1>1, <2>1, <2>2, MoveJobsInv DEF TypeOK
  <1> QED
    BY <1>2, <1>3, <1>4

\* What a handler does by itself.
LEMMA InvHandler == ASSUME Inv, NEW p \in Peer, HandlerRuns(p) PROVE Inv'
  <1> USE DEF mainVars, infoVars, requestVars, pieceVars, blockVars, Goto
  <1>0. TypeOK /\ TypeOK'
    BY TypeHandler DEF Inv
  <1>1. CASE StartHandler(p)
    BY <1>0, <1>1, QuietStep DEF StartHandler, TypeOK
  <1>2. CASE Connect(p)
    BY <1>0, <1>2, QuietStep DEF Connect, TypeOK
  <1>3. CASE DisconnectPeer(p)
    BY <1>0, <1>3, QuietStep DEF DisconnectPeer, TypeOK
  <1> QED
    BY <1>1, <1>2, <1>3, InvStoreBlock, InvTryChooseNewPiece, InvUpdateJobQueue
       DEF HandlerRuns

\* An accepted block goes from requested_blocks to the hand of the handler.
LEMMA InvPeerPiece ==
    ASSUME Inv, NEW p \in Peer, NEW b \in Block, NEW good \in BOOLEAN,
           PeerPiece(p, b, good)
    PROVE  Inv'
  <1> USE DEF mainVars, infoVars, pieceVars, Goto
  <1>0. TypeOK /\ TypeOK'
    BY TypeMessage DEF Inv, HandlesPeerMessage
  <1>1. /\ handler[p] = "idle" /\ requested_blocks[p][b] = 1 /\ hand[p] = {}
        /\ handler' = [handler EXCEPT ![p] = "store"]
        /\ hand' = [hand EXCEPT ![p] = {[info |-> b, good |-> good]}]
        /\ requested_blocks' = [requested_blocks EXCEPT ![p] = Drop(@, {b})]
        /\ UNCHANGED <<main, blocks_to_download, downloading_piece_index,
                       downloading_piece, downloaded_pieces>>
    <2>1. handler[p] = "idle" /\ requested_blocks[p][b] > 0
      BY DEF PeerPiece, IsRequested
    <2>2. requested_blocks[p][b] = 1
      BY <1>0, <2>1 DEF Inv, HeldOnce, TypeOK
    <2>3. hand[p] = {}
      BY <2>1 DEF Inv, HandMatchesHandler
    <2> QED
      BY <2>1, <2>2, <2>3 DEF PeerPiece
  <1>2. \A q \in Peer, c \in Block :
            requested_blocks'[q][c] = IF q = p /\ c = b THEN 0 ELSE requested_blocks[q][c]
    BY <1>0, <1>1 DEF Drop, TypeOK
  <1>3. /\ \A block \in hand'[p] : block.info = b
        /\ \E block \in hand'[p] : block.info = b
    <2> DEFINE received == [info |-> b, good |-> good]
    <2>1. received.info = b
      OBVIOUS
    <2>2. hand'[p] = {received}
      BY <1>0, <1>1 DEF TypeOK
    <2> HIDE DEF received
    <2> QED
      BY <2>1, <2>2
  <1>4. HandMatchesHandler'
    BY <1>0, <1>1 DEF Inv, HandMatchesHandler, TypeOK, Received
  <1>5. HeldOnce'
    <2>1. \A q \in Peer, c \in Block : requested_blocks'[q][c] <= 1
      BY <1>2 DEF Inv, HeldOnce
    <2>2. \A q \in Peer : \A block \in hand'[q] :
              requested_blocks'[q][block.info] = 0
      <3>1. TAKE q \in Peer
      <3>2. CASE q = p
        BY <1>2, <1>3, <3>2
      <3>3. CASE q # p
        <4>1. hand'[q] = hand[q] /\ \A block \in hand[q] : block.info \in Block
          BY <1>0, <1>1, <3>3 DEF TypeOK, Received
        <4> QED
          BY <1>2, <3>3, <4>1 DEF Inv, HeldOnce
      <3> QED
        BY <3>2, <3>3
    <2> QED
      BY <2>1, <2>2 DEF HeldOnce
  <1>6. SlotsMatchPiece' /\ CurrentIsFirstMissing'
    BY <1>1 DEF Inv, SlotsMatchPiece, CurrentIsFirstMissing
  <1>7. ASSUME NEW c \in Block PROVE Holders(c)' = Holders(c)
    <2>1. p \in Holders(c)' <=> p \in Holders(c)
      <3>1. CASE c = b
        <4>1. p \in Holders(b)'
          BY <1>3 DEF Holders
        <4>2. p \in Holders(b)
          BY <1>1 DEF Holders
        <4> QED
          BY <3>1, <4>1, <4>2
      <3>2. CASE c # b
        <4>1. p \in Holders(c)' <=> requested_blocks'[p][c] > 0
          BY <1>3, <3>2 DEF Holders
        <4>2. p \in Holders(c) <=> requested_blocks[p][c] > 0
          BY <1>1 DEF Holders
        <4> QED
          BY <1>2, <3>2, <4>1, <4>2
      <3> QED
        BY <3>1, <3>2
    <2>2. \A q \in Peer \ {p} : hand'[q] = hand[q]
      BY <1>0, <1>1 DEF TypeOK
    <2>3. \A q \in Peer \ {p} : q \in Holders(c)' <=> q \in Holders(c)
      BY <1>2, <2>2 DEF Holders
    <2>4. Holders(c)' \subseteq Peer /\ Holders(c) \subseteq Peer
      BY DEF Holders
    <2> QED
      BY <2>1, <2>3, <2>4
  <1>8. BlockInOnePlace'
    BY <1>1, <1>7 DEF Inv, BlockInOnePlace, InOnePlace, IsStored
  <1> QED
    BY <1>0, <1>4, <1>5, <1>6, <1>8 DEF Inv

\* Messages that concern no block, and the end of a connection.
LEMMA InvMessage ==
    ASSUME Inv, NEW p \in Peer,
           \/ HandlesClientMessage(p) \/ HandlesPeerMessage(p) \/ Tick(p)
           \/ WriterFails(p) \/ SendFails(p)
    PROVE  Inv'
  <1> USE DEF mainVars, infoVars, requestVars, pieceVars, blockVars, Goto
  <1>0. TypeOK /\ TypeOK'
    BY TypeMessage DEF Inv
  <1>1. CASE HandleUpdatedJobQueue(p)
    BY <1>0, <1>1, QuietStep DEF HandleUpdatedJobQueue, TypeOK
  <1>2. CASE HandlePieceDownloaded(p)
    BY <1>0, <1>2, QuietStep DEF HandlePieceDownloaded, CheckIfInterested, TypeOK
  <1>3. ASSUME NEW choking \in BOOLEAN, PeerChokes(p, choking) PROVE Inv'
    BY <1>0, <1>3, QuietStep DEF PeerChokes, TypeOK
  <1>4. ASSUME NEW available, PeerAnnounces(p, available) PROVE Inv'
    BY <1>0, <1>4, QuietStep DEF PeerAnnounces, CheckIfInterested, TypeOK
  <1>5. CASE PeerHave(p) \/ PeerBitfield(p)
    BY <1>4, <1>5 DEF PeerHave, PeerBitfield
  <1>6. CASE PeerBadHave(p)
    BY <1>0, <1>6, QuietStep DEF PeerBadHave, TypeOK
  <1>7. CASE PeerShortBitfield(p)
    BY <1>0, <1>7, QuietStep DEF PeerShortBitfield, TypeOK
  <1>8. ASSUME NEW b \in Block, NEW good \in BOOLEAN, PeerPiece(p, b, good) PROVE Inv'
    BY <1>8, InvPeerPiece
  <1>9. CASE Tick(p)
    BY <1>0, <1>9, QuietStep DEF Tick
  <1>10. CASE WriterFails(p)
    BY <1>0, <1>10, QuietStep DEF WriterFails
  <1>11. CASE SendFails(p)
    BY <1>0, <1>11, QuietStep DEF SendFails, TypeOK
  <1> QED
    BY <1>1, <1>2, <1>3, <1>5, <1>6, <1>7, <1>8, <1>9, <1>10, <1>11
       DEF HandlesClientMessage, HandlesPeerMessage

\* A timer takes its block from requested_blocks back to the queue, or finds it
\* gone and changes nothing but itself.
LEMMA InvTimer ==
    ASSUME Inv, Alert \/ \E p \in Peer, b \in Block : Timeout(p, b)
    PROVE  Inv'
  <1> USE DEF mainVars, infoVars, requestVars, pieceVars, blockVars
  <1>0. TypeOK /\ TypeOK'
    BY TypeTimer DEF Inv
  <1>1. CASE Alert
    BY <1>0, <1>1, QuietStep DEF Alert
  <1>2. ASSUME NEW p \in Peer, NEW b \in Block, Timeout(p, b) PROVE Inv'
    <2>1. CASE ~(requested_blocks[p][b] > 0)
      BY <1>0, <1>2, <2>1, QuietStep DEF Timeout, TryRemoveJob
    <2>2. CASE requested_blocks[p][b] > 0
      <3>1. /\ requested_blocks' = [requested_blocks EXCEPT ![p] = Drop(@, {b})]
            /\ blocks_to_download' = Put(blocks_to_download, {b})
        BY <1>2, <2>2 DEF Timeout, TryRemoveJob
      <3>2. UNCHANGED <<main, handler, hand, downloading_piece_index,
                        downloading_piece, downloaded_pieces>>
        BY <1>2 DEF Timeout
      <3>3. requested_blocks[p][b] = 1
        BY <1>0, <2>2 DEF Inv, HeldOnce, TypeOK
      <3>4. \A q \in Peer, c \in Block :
                requested_blocks'[q][c] = IF q = p /\ c = b THEN 0
                                          ELSE requested_blocks[q][c]
        BY <1>0, <3>1, <3>3 DEF Drop, TypeOK
      <3>5. \A c \in Block : blocks_to_download'[c] = IF c = b THEN blocks_to_download[c] + 1
                                                     ELSE blocks_to_download[c]
        BY <1>0, <3>1 DEF Put, TypeOK
      <3>6. HandMatchesHandler'
        BY <3>2 DEF Inv, HandMatchesHandler
      <3>7. HeldOnce'
        <4>1. \A q \in Peer : \A block \in hand[q] : block.info \in Block
          BY <1>0 DEF TypeOK, Received
        <4> QED
          BY <3>2, <3>4, <4>1 DEF Inv, HeldOnce
      <3>8. SlotsMatchPiece' /\ CurrentIsFirstMissing'
        BY <3>2 DEF Inv, SlotsMatchPiece, CurrentIsFirstMissing
      <3>9. ASSUME NEW c \in Block PROVE InOnePlace(c)'
        <4>1. InOnePlace(c)
          BY DEF Inv, BlockInOnePlace
        <4>2. CASE c = b
          <5>1. /\ Holders(b) = {p} /\ ~IsStored(b) /\ blocks_to_download[b] = 0
                /\ b.index = downloading_piece_index
            <6>1. p \in Holders(b)
              BY <2>2 DEF Holders
            <6> QED
              BY <4>1, <4>2, <6>1 DEF InOnePlace
          <5>2. \A q \in Peer : requested_blocks'[q][b] = 0
            BY <1>0, <3>4, <5>1 DEF Holders, TypeOK
          <5>3. \A q \in Peer : \A block \in hand[q] : block.info # b
            BY <2>2, <3>3, <5>1 DEF Holders, Inv, HeldOnce
          <5>4. Holders(b)' = {}
            BY <3>2, <5>2, <5>3 DEF Holders
          <5> QED
            BY <3>2, <3>5, <4>2, <5>1, <5>4 DEF InOnePlace, IsStored
        <4>3. CASE c # b
          <5>1. Holders(c)' = Holders(c)
            BY <3>2, <3>4, <4>3 DEF Holders
          <5> QED
            BY <3>2, <3>5, <4>1, <4>3, <5>1 DEF InOnePlace, IsStored
        <4> QED
          BY <4>2, <4>3
      <3> QED
        BY <1>0, <3>6, <3>7, <3>8, <3>9 DEF Inv, BlockInOnePlace
    <2> QED
      BY <2>1, <2>2
  <1> QED
    BY <1>1, <1>2

\* Every step preserves the invariant.
LEMMA InvNext == Inv /\ [Next]_vars => Inv'
  <1> SUFFICES ASSUME Inv, [Next]_vars PROVE Inv'
    OBVIOUS
  <1>1. CASE UNCHANGED vars
    <2>1. TypeOK'
      BY <1>1, TypeNext DEF Inv
    <2> QED
      BY <1>1, <2>1, QuietStep DEF vars, blockVars
  <1>2. CASE Next
    BY <1>2, InvMain, InvHandler, InvMessage, InvTimer DEF Next, PeerStep
  <1> QED
    BY <1>1, <1>2

-----------------------------------------------------------------------------
(* The safety theorems.                                                    *)

\* The inductive invariant holds in every reachable state.
THEOREM Invariance == Spec => []Inv
  <1> QED
    BY InvInit, InvNext, PTL DEF Spec

\* No interleaving of receptions, timeouts, failed hashes, panics and
\* disconnections loses a block of the current piece or makes a second copy.
THEOREM BlocksNeitherLostNorCopied == Spec => []BlockInOnePlace
  <1>1. Inv => BlockInOnePlace
    BY DEF Inv
  <1> QED
    BY <1>1, Invariance, PTL

\* The assertion of torrent.rs:463 never fails.
THEOREM AssertionHolds == Spec => []QueueEmptyWhenComplete
  <1>1. Inv => QueueEmptyWhenComplete
    BY NothingInFlight DEF QueueEmptyWhenComplete
  <1> QED
    BY <1>1, Invariance, PTL

\* The piece being downloaded is always the first one missing.
THEOREM PiecesInOrder == Spec => []CurrentIsFirstMissing
  <1>1. Inv => CurrentIsFirstMissing
    BY DEF Inv
  <1> QED
    BY <1>1, Invariance, PTL

-----------------------------------------------------------------------------
(* Requests and their timers.                                              *)

\* Stronger than UntimedOnlyWithoutWriter, and inductive: while the writer
\* lives and the handler does not spin, a peer has at least as many timers for
\* a block as requests.
Timed ==
    \A p \in Peer, b \in Block :
        writer[p] /\ handler[p] # "spinning" => requested_blocks[p][b] <= timers[p][b]

\* A step that makes no request and ends no timer preserves Timed: a writer
\* does not come back, nor does a handler that spins.
LEMMA TimedQuiet ==
    ASSUME TypeOK, Timed, UNCHANGED timers,
           \A p \in Peer, b \in Block : requested_blocks'[p][b] <= requested_blocks[p][b],
           requested_blocks' \in [Peer -> [Block -> Nat]],
           \A p \in Peer : writer'[p] => writer[p],
           \A p \in Peer : handler[p] = "spinning" => handler'[p] = "spinning"
    PROVE  Timed'
  BY DEF TypeOK, Timed

LEMMA TimedNext == Inv /\ Timed /\ [Next]_vars => Timed'
  <1> SUFFICES ASSUME Inv, Timed, [Next]_vars PROVE Timed'
    OBVIOUS
  <1>0. TypeOK /\ TypeOK'
    BY TypeNext DEF Inv
  <1> USE DEF mainVars, infoVars, requestVars, pieceVars, Goto
  <1>1. ASSUME UNCHANGED <<timers, requested_blocks>>,
               \A p \in Peer : writer'[p] => writer[p],
               \A p \in Peer : handler[p] = "spinning" => handler'[p] = "spinning"
        PROVE  Timed'
    BY <1>0, <1>1, TimedQuiet DEF TypeOK
  <1>2. CASE UNCHANGED vars
    BY <1>1, <1>2 DEF vars
  <1>3. CASE MainStep
    BY <1>0, <1>1, <1>3 DEF MainStep, PublishPeers, ChooseFirstPiece, FirstAlert, AcceptPeer,
                            PushPeer, TypeOK
  <1>4. CASE Alert
    BY <1>1, <1>4 DEF Alert
  <1>5. ASSUME NEW p \in Peer, NEW b \in Block, Timeout(p, b) PROVE Timed'
    <2>1. UNCHANGED <<handler, writer>> /\ timers' = [timers EXCEPT ![p] = Drop(@, {b})]
      BY <1>5 DEF Timeout
    <2>2. \A q \in Peer, c \in Block :
              timers'[q][c] = IF q = p /\ c = b THEN timers[q][c] - 1 ELSE timers[q][c]
      BY <1>0, <2>1 DEF Drop, TypeOK
    <2>3. \A q \in Peer, c \in Block :
              requested_blocks'[q][c] = IF q = p /\ c = b THEN 0 ELSE requested_blocks[q][c]
      <3>1. CASE requested_blocks[p][b] > 0
        <4>1. requested_blocks' = [requested_blocks EXCEPT ![p] = Drop(@, {b})]
          BY <1>5, <3>1 DEF Timeout, TryRemoveJob
        <4>2. requested_blocks[p][b] = 1
          BY <1>0, <3>1 DEF Inv, HeldOnce, TypeOK
        <4> QED
          BY <1>0, <4>1, <4>2 DEF Drop, TypeOK
      <3>2. CASE ~(requested_blocks[p][b] > 0)
        <4>1. UNCHANGED requested_blocks
          BY <1>5, <3>2 DEF Timeout, TryRemoveJob
        <4> QED
          BY <1>0, <3>2, <4>1 DEF TypeOK
      <3> QED
        BY <3>1, <3>2
    <2>4. \A q \in Peer, c \in Block :
              /\ timers[q][c] \in Nat /\ timers'[q][c] \in Nat
              /\ requested_blocks[q][c] \in Nat
      BY <1>0 DEF TypeOK
    <2>5. ASSUME NEW q \in Peer, NEW c \in Block, writer'[q], handler'[q] # "spinning"
          PROVE  requested_blocks'[q][c] <= timers'[q][c]
      <3>1. requested_blocks[q][c] <= timers[q][c]
        BY <2>1, <2>5 DEF Timed
      <3> QED
        BY <2>2, <2>3, <2>4, <3>1
    <2> QED
      BY <2>5 DEF Timed
  <1>6. ASSUME NEW p \in Peer, PeerStep(p) PROVE Timed'
    <2>1. CASE StartHandler(p) \/ Connect(p) \/ DisconnectPeer(p)
      <3>1. UNCHANGED <<timers, requested_blocks, writer>>
        BY <2>1 DEF StartHandler, Connect, DisconnectPeer
      <3>2. \A q \in Peer : handler[q] = "spinning" => handler'[q] = "spinning"
        BY <1>0, <2>1 DEF StartHandler, Connect, DisconnectPeer, TypeOK
      <3> QED
        BY <1>1, <3>1, <3>2
    <2>2. CASE StoreBlock(p) \/ TryChooseNewPiece(p)
      <3>1. UNCHANGED <<timers, requested_blocks, writer>>
        BY <2>2 DEF StoreBlock, TryChooseNewPiece
      <3>2. \A q \in Peer : handler[q] = "spinning" => handler'[q] = "spinning"
        BY <1>0, <2>2 DEF StoreBlock, TryChooseNewPiece, TypeOK
      <3> QED
        BY <1>1, <3>1, <3>2
    <2>3. CASE UpdateJobQueue(p)
      <3>1. CASE NoJobs(p)
        BY <1>0, <1>1, <2>3, <3>1 DEF UpdateJobQueue, TypeOK
      <3>2. CASE ~NoJobs(p) /\ LoopEnds(p)
        <4>1. PICK jobs \in SUBSET Usable(p) : \E sent \in SUBSET jobs :
                IsTaken(p, jobs) /\ MoveJobs(p, jobs) /\ SendJobs(p, jobs, sent)
          BY <2>3, <3>2 DEF UpdateJobQueue
        <4>2. PICK sent \in SUBSET jobs : SendJobs(p, jobs, sent)
          BY <4>1
        <4>3. \A q \in Peer, b \in Block :
                 timers'[q][b] = IF q = p /\ b \in sent THEN timers[q][b] + 1 ELSE timers[q][b]
          BY <1>0, <4>2 DEF SendJobs, CreateTimeouts, Put, TypeOK
        <4>4. \A q \in Peer, b \in Block :
                 requested_blocks'[q][b] = IF q = p /\ b \in jobs
                                           THEN requested_blocks[q][b] + 1
                                           ELSE requested_blocks[q][b]
          BY <1>0, <4>1, MoveJobsType
        <4>5. handler[p] = "update"
          BY <2>3 DEF UpdateJobQueue
        <4>6. CASE sent = jobs /\ UNCHANGED writer /\ handler' = [handler EXCEPT ![p] = "idle"]
          BY <1>0, <4>3, <4>4, <4>5, <4>6 DEF Timed, TypeOK
        <4>7. CASE /\ writer' = [writer EXCEPT ![p] = FALSE]
                   /\ handler' = [handler EXCEPT ![p] = "leaving"]
          BY <1>0, <4>3, <4>4, <4>5, <4>7 DEF Timed, TypeOK
        <4> QED
          BY <4>2, <4>6, <4>7 DEF SendJobs
      <3>3. CASE ~NoJobs(p) /\ ~LoopEnds(p)
        <4>1. PICK jobs \in SUBSET Usable(p) : IsTaken(p, jobs) /\ MoveJobs(p, jobs)
          BY <2>3, <3>3 DEF UpdateJobQueue
        <4>2. \A q \in Peer \ {p}, b \in Block :
                 requested_blocks'[q][b] = requested_blocks[q][b]
          BY <1>0, <4>1, MoveJobsType
        <4>3. handler' = [handler EXCEPT ![p] = "spinning"] /\ UNCHANGED <<writer, timers>>
          BY <2>3, <3>3 DEF UpdateJobQueue
        <4> QED
          BY <1>0, <4>2, <4>3 DEF Timed, TypeOK
      <3> QED
        BY <3>1, <3>2, <3>3
    <2>4. ASSUME NEW b \in Block, NEW good \in BOOLEAN, PeerPiece(p, b, good) PROVE Timed'
      <3>1. \A q \in Peer, c \in Block : requested_blocks'[q][c] <= requested_blocks[q][c]
        BY <1>0, <2>4 DEF PeerPiece, Drop, TypeOK
      <3>2. \A q \in Peer : handler[q] = "spinning" => handler'[q] = "spinning"
        BY <1>0, <2>4 DEF PeerPiece, TypeOK
      <3> QED
        BY <1>0, <2>4, <3>1, <3>2, TimedQuiet DEF PeerPiece, TypeOK
    <2>5. ASSUME NEW available, PeerAnnounces(p, available) PROVE Timed'
      BY <1>0, <1>1, <2>5 DEF PeerAnnounces, CheckIfInterested, TypeOK
    <2>6. ASSUME NEW choking \in BOOLEAN, PeerChokes(p, choking) PROVE Timed'
      BY <1>0, <1>1, <2>6 DEF PeerChokes, TypeOK
    <2>7. CASE PeerBadHave(p) \/ PeerShortBitfield(p)
      BY <1>0, <1>1, <2>7 DEF PeerBadHave, PeerShortBitfield, TypeOK
    <2>8. CASE HandlesClientMessage(p)
      BY <1>0, <1>1, <2>8 DEF HandlesClientMessage, HandleUpdatedJobQueue,
                              HandlePieceDownloaded, CheckIfInterested, TypeOK
    <2>9. CASE Tick(p) \/ WriterFails(p) \/ SendFails(p)
      BY <1>0, <1>1, <2>9 DEF Tick, WriterFails, SendFails, TypeOK
    <2> QED
      BY <1>6, <2>1, <2>2, <2>3, <2>4, <2>5, <2>6, <2>7, <2>8, <2>9
         DEF PeerStep, HandlerRuns, HandlesPeerMessage, PeerHave, PeerBitfield
  <1> QED
    BY <1>2, <1>3, <1>4, <1>5, <1>6 DEF Next

\* A request that no timer will ever end exists only when the writer is gone or
\* the handler spins in try_get_new_jobs.
THEOREM RequestsAreTimed == Spec => []UntimedOnlyWithoutWriter
  <1>1. Init => Timed
    BY DEF Init, Timed, NoBlocks
  <1>2. Inv /\ Timed => UntimedOnlyWithoutWriter
    BY DEF Inv, Timed, TypeOK, UntimedOnlyWithoutWriter
  <1> QED
    BY <1>1, <1>2, Invariance, TimedNext, PTL DEF Spec

-----------------------------------------------------------------------------
(* Download implements PieceLedger.                                        *)

\* What PieceLedger sees of the slots.
FilledSlots ==
    IF downloading_piece_index = None THEN {}
    ELSE {k \in DOMAIN downloading_piece : downloading_piece[k] # "none"}

\* The two modules mean the same by a piece, a slot and the first one missing.
LEMMA LedgerTerms ==
    /\ Ledger!Piece = Piece
    /\ Ledger!None = None
    /\ \A i : Ledger!Slots(i) = 0 .. BlockCount[i] - 1
    /\ \A i, done : Ledger!IsFirstOutside(i, done) <=> IsFirstMissing(i, done)
  BY DEF Ledger!Piece, Piece, Ledger!None, None, Ledger!Slots, Ledger!IsFirstOutside,
         IsFirstMissing, Missing

\* A complete piece has all its slots filled.
LEMMA CompleteIsFilled ==
    ASSUME Inv, IsComplete
    PROVE  /\ downloading_piece_index \in Piece
           /\ FilledSlots = 0 .. BlockCount[downloading_piece_index] - 1
  BY NoneIsNoPiece DEF Inv, TypeOK, SlotsMatchPiece, IsComplete, FilledSlots

\* No slot of a piece that has just been started is filled.
LEMMA StartedIsEmpty ==
    ASSUME NEW i \in Piece, StartPiece(i)
    PROVE  downloading_piece_index' = i /\ FilledSlots' = {}
  BY DEF StartPiece, EmptySlots, FilledSlots

\* Storing a block fills one slot of the current piece.
LEMMA StoreBlockFills ==
    ASSUME Inv, NEW p \in Peer, StoreBlock(p)
    PROVE  /\ UNCHANGED <<downloaded_pieces, downloading_piece_index>>
           /\ downloading_piece_index # None
           /\ \E k \in 0 .. BlockCount[downloading_piece_index] - 1 :
                 k \notin FilledSlots /\ FilledSlots' = FilledSlots \cup {k}
  <1>1. PICK block \in hand[p] :
          downloading_piece' = [downloading_piece EXCEPT
              ![block.info.begin] = IF block.good THEN "good" ELSE "bad"]
    BY DEF StoreBlock
  <1>2. UNCHANGED <<downloaded_pieces, downloading_piece_index>>
    BY DEF StoreBlock
  <1>3. downloading_piece_index # None
    BY SlotOfBlockInHand, NoneIsNoPiece
  <1>4. block.info.begin \in 0 .. BlockCount[downloading_piece_index] - 1
    BY SlotOfBlockInHand
  <1>5. block.info.begin \notin FilledSlots
    BY SlotOfBlockInHand DEF IsStored, FilledSlots
  <1>6. FilledSlots' = FilledSlots \cup {block.info.begin}
    BY <1>1, <1>2, <1>3, SlotOfBlockInHand DEF FilledSlots
  <1> QED
    BY <1>2, <1>3, <1>4, <1>5, <1>6

\* Every step is a step of PieceLedger, or PieceLedger sees no difference.
LEMMA LedgerStep == Inv /\ [Next]_vars => [Ledger!Next]_(Ledger!vars)
  <1> SUFFICES ASSUME Inv, [Next]_vars PROVE [Ledger!Next]_(Ledger!vars)
    OBVIOUS
  <1> USE DEF mainVars, infoVars, requestVars, pieceVars
  <1>1. ASSUME UNCHANGED <<downloaded_pieces, downloading_piece_index, downloading_piece>>
        PROVE  UNCHANGED Ledger!vars
    BY <1>1 DEF Ledger!vars
  <1>2. CASE UNCHANGED vars
    BY <1>1, <1>2 DEF vars
  <1>3. CASE ChooseFirstPiece
    <2>1. CASE Missing(downloaded_pieces) = {}
      BY <1>1, <1>3, <2>1 DEF ChooseFirstPiece
    <2>2. CASE Missing(downloaded_pieces) # {}
      <3>1. PICK i \in Piece : IsFirstMissing(i, downloaded_pieces) /\ StartPiece(i)
        BY <1>3, <2>2 DEF ChooseFirstPiece, StartFirstMissing
      <3>2. downloading_piece_index = None /\ UNCHANGED downloaded_pieces
        BY <1>3 DEF Inv, SlotsMatchPiece, ChooseFirstPiece
      <3>3. Ledger!Begin
        BY <3>1, <3>2, LedgerTerms, StartedIsEmpty DEF Ledger!Begin, FilledSlots
      <3> QED
        BY <3>3 DEF Ledger!Next
    <2> QED
      BY <2>1, <2>2
  <1>4. ASSUME NEW p \in Peer, StoreBlock(p) PROVE Ledger!Next
    <2>1. PICK k \in 0 .. BlockCount[downloading_piece_index] - 1 :
            k \notin FilledSlots /\ FilledSlots' = FilledSlots \cup {k}
      BY <1>4, StoreBlockFills
    <2>2. Ledger!Fill(k)
      BY <1>4, <2>1, StoreBlockFills, LedgerTerms DEF Ledger!Fill, FilledSlots
    <2>3. downloading_piece_index \in Piece
      BY <1>4, StoreBlockFills DEF Inv, TypeOK
    <2> QED
      BY <2>1, <2>2, <2>3, LedgerTerms DEF Ledger!Next
  <1>5. ASSUME NEW p \in Peer, TryChooseNewPiece(p) PROVE [Ledger!Next]_(Ledger!vars)
    <2>1. CASE PieceIncomplete(p)
      BY <1>1, <2>1 DEF PieceIncomplete
    <2>2. CASE PieceBad(p)
      <3>1. /\ StartPiece(downloading_piece_index)
            /\ UNCHANGED <<downloading_piece_index, downloaded_pieces>>
        BY <2>2 DEF PieceBad, StartPiece
      <3>2. Ledger!ThrowAway
        BY <2>2, <3>1, CompleteIsFilled, StartedIsEmpty, LedgerTerms, NoneIsNoPiece
           DEF PieceBad, Ledger!ThrowAway, FilledSlots
      <3> QED
        BY <3>2 DEF Ledger!Next
    <2>3. CASE PieceGood(p)
      <3>1. IsComplete /\ downloaded_pieces' = downloaded_pieces \cup {downloading_piece_index}
        BY <2>3 DEF PieceGood
      <3>2. /\ downloading_piece_index # None
            /\ FilledSlots = Ledger!Slots(downloading_piece_index)
        BY <3>1, CompleteIsFilled, LedgerTerms, NoneIsNoPiece
      <3>3. downloaded_pieces' \subseteq Piece
        BY <3>1, CompleteIsFilled DEF Inv, TypeOK
      <3>4. CASE Missing(downloaded_pieces') = {}
        <4>1. downloaded_pieces' = Piece
          BY <3>3, <3>4 DEF Missing
        <4>2. downloading_piece_index' = None /\ FilledSlots' = {}
          BY <2>3, <3>4 DEF PieceGood, FilledSlots
        <4> QED
          BY <3>1, <3>2, <4>1, <4>2, LedgerTerms DEF Ledger!Keep, Ledger!Next, FilledSlots
      <3>5. CASE Missing(downloaded_pieces') # {}
        <4>1. PICK i \in Piece : IsFirstMissing(i, downloaded_pieces') /\ StartPiece(i)
          BY <2>3, <3>5 DEF PieceGood, StartFirstMissing
        <4>2. downloading_piece_index' = i /\ FilledSlots' = {}
          BY <4>1, StartedIsEmpty
        <4>3. downloaded_pieces' # Piece
          BY <3>5 DEF Missing
        <4> QED
          BY <3>1, <3>2, <4>1, <4>2, <4>3, LedgerTerms
             DEF Ledger!Keep, Ledger!Next, FilledSlots
      <3> QED
        BY <3>4, <3>5
    <2> QED
      BY <1>5, <2>1, <2>2, <2>3 DEF TryChooseNewPiece
  <1>6. CASE PublishPeers \/ FirstAlert \/ Alert
             \/ \E p \in Peer : AcceptPeer(p) \/ PushPeer(p)
    BY <1>1, <1>6 DEF PublishPeers, FirstAlert, Alert, AcceptPeer, PushPeer
  <1>7. ASSUME NEW p \in Peer, NEW b \in Block, Timeout(p, b) PROVE UNCHANGED Ledger!vars
    BY <1>1, <1>7 DEF Timeout
  <1>8. ASSUME NEW p \in Peer,
               \/ StartHandler(p) \/ Connect(p) \/ DisconnectPeer(p) \/ UpdateJobQueue(p)
               \/ Tick(p) \/ WriterFails(p) \/ SendFails(p)
        PROVE  UNCHANGED Ledger!vars
    BY <1>1, <1>8 DEF StartHandler, Connect, DisconnectPeer, UpdateJobQueue, Tick,
                      WriterFails, SendFails
  <1>9. ASSUME NEW p \in Peer, HandlesClientMessage(p) \/ HandlesPeerMessage(p)
        PROVE  UNCHANGED Ledger!vars
    BY <1>1, <1>9 DEF HandlesClientMessage, HandlesPeerMessage, HandleUpdatedJobQueue,
         HandlePieceDownloaded, PeerChokes, PeerAnnounces, PeerHave, PeerBitfield,
         PeerBadHave, PeerShortBitfield, PeerPiece
  <1> QED
    BY <1>2, <1>3, <1>4, <1>5, <1>6, <1>7, <1>8, <1>9
       DEF Next, MainStep, PeerStep, HandlerRuns

\* The download keeps the promise of PieceLedger: a slot is filled once, and a
\* piece is kept or thrown away only when all its blocks are there.
THEOREM ImplementsLedger == Spec => LedgerSpec
  <1>1. Init => Ledger!Init
    BY LedgerTerms DEF Init, Ledger!Init
  <1> QED
    BY <1>1, Invariance, LedgerStep, PTL DEF Spec, LedgerSpec, Ledger!Spec
=============================================================================
