---------------------------- MODULE SessionProofs ----------------------------
(***************************************************************************)
(* What holds of Session for every set of peers and of requests, every     *)
(* torrent file, tracker and number of crashes, and every geometry that    *)
(* GeometryAssumption and LargestAssumption admit.  The argument about     *)
(* announcements: a piece is marked before it is announced, so a bitfield  *)
(* taken in between has it; and once a piece can be completed at all, the  *)
(* peers of the tracker are listed.  That about bytes: see Kept, below.    *)
(***************************************************************************)
EXTENDS Session, StoreProofs, TLAPS

\* What is in a writer's channel, and the types of what tells a peer of pieces.
WriterMessage ==
    {SendBitfield} \cup {SendHave(i) : i \in Nat}
        \cup {SendBlock(b) : b \in Requested}
Conn == {"absent", "started", "ready", "open", "mute", "gone"}
Typed ==
    /\ checked \in Nat /\ good \subseteq Nat /\ downloaded \subseteq Nat
    /\ conn \in [Peer -> Conn]
    /\ mail \in [Peer -> SUBSET Nat] /\ told \in [Peer -> SUBSET Nat]
    /\ outbox \in [Peer -> Seq(WriterMessage)]
    /\ writing.stage \in {"idle", "write", "mark", "announce"} /\ writing.piece \in Nat
    /\ writing = [stage |-> writing.stage, piece |-> writing.piece,
                  due |-> writing.due, by |-> writing.by]

\* Nothing is under way before the main task has the answer of a tracker.
NobodyYet ==
    /\ main \in {"loading", "checking", "contacting", "panicked", "exited"} =>
           \A p \in Peer : conn[p] = "absent"
    /\ writing # NotWriting => main \in {"looping", "accepting", "deaf"}

\* Once pieces are completed, a tracker's peer that is at work is listed.
TrackerPeersListed ==
    main \in {"looping", "accepting", "deaf"} =>
        \A p \in TrackerPeer : conn[p] \notin {"absent", "gone"} => p \in listed

Inv == Typed /\ NobodyYet /\ TrackerPeersListed /\ EachPieceTold

\* A peer of which EachPieceTold speaks.
Informed(p) == conn[p] = "open" /\ SendBitfield \notin ToSet(outbox[p])

\* It knows of a piece, or will.
Reaches(i, p) ==
    \/ i \in told[p] \cup mail[p] \/ SendHave(i) \in ToSet(outbox[p])
    \/ writing.stage = "announce" /\ writing.piece = i

-----------------------------------------------------------------------------
(* Channels and messages.                                                  *)

\* A bitfield, a Have and a block are different messages.
LEMMA MessagesDiffer ==
    \A i, j, b : /\ SendBitfield # SendHave(i) /\ SendBitfield # SendBlock(b)
                 /\ SendHave(i) # SendBlock(b)
                 /\ SendHave(i) = SendHave(j) => i = j
                 /\ SendBitfield.type = "bitfield" /\ SendHave(i).type = "have"
                 /\ SendBlock(b).type = "block" /\ SendHave(i).piece = i
  BY DEF SendBitfield, SendHave, SendBlock

\* What is in a channel with one more message.
LEMMA AppendedToSet ==
    ASSUME NEW S, NEW chan \in Seq(S), NEW m \in S
    PROVE  Append(chan, m) \in Seq(S) /\ ToSet(Append(chan, m)) = ToSet(chan) \cup {m}
  <1>1. /\ Append(chan, m) \in Seq(S)
        /\ DOMAIN Append(chan, m) = 1 .. Len(chan) + 1
        /\ DOMAIN chan = 1 .. Len(chan) /\ Len(chan) \in Nat
        /\ Append(chan, m)[Len(chan) + 1] = m
        /\ \A k \in 1 .. Len(chan) : Append(chan, m)[k] = chan[k]
    OBVIOUS
  <1> QED
    BY <1>1 DEF ToSet

\* What is in a channel whose first message is taken.
LEMMA HeadAndTailToSet ==
    ASSUME NEW S, NEW chan \in Seq(S), chan # <<>>
    PROVE  /\ Head(chan) \in S /\ Tail(chan) \in Seq(S)
           /\ ToSet(chan) = {Head(chan)} \cup ToSet(Tail(chan))
  <1>1. /\ Head(chan) \in S /\ Tail(chan) \in Seq(S)
        /\ Head(chan) = chan[1] /\ Len(chan) \in Nat /\ Len(chan) >= 1
        /\ DOMAIN chan = 1 .. Len(chan) /\ DOMAIN Tail(chan) = 1 .. Len(chan) - 1
        /\ \A k \in 1 .. Len(chan) - 1 : Tail(chan)[k] = chan[k + 1]
    OBVIOUS
  <1>2. ToSet(chan) \subseteq {Head(chan)} \cup ToSet(Tail(chan))
    <2> SUFFICES ASSUME NEW k \in 1 .. Len(chan), k # 1
                 PROVE  chan[k] \in ToSet(Tail(chan))
      BY <1>1 DEF ToSet
    <2>1. k - 1 \in 1 .. Len(chan) - 1 /\ Tail(chan)[k - 1] = chan[k]
      BY <1>1
    <2> QED
      BY <1>1, <2>1 DEF ToSet
  <1>3. {Head(chan)} \cup ToSet(Tail(chan)) \subseteq ToSet(chan)
    BY <1>1 DEF ToSet
  <1> QED
    BY <1>1, <1>2, <1>3

\* Nothing is in an empty one.
LEMMA EmptyToSet == ToSet(<<>>) = {} /\ ToSet(<<SendBitfield>>) = {SendBitfield}
  BY DEF ToSet

\* EachPieceTold, peer by peer and piece by piece.
LEMMA ToldIsReached ==
    EachPieceTold <=>
        \A p \in TrackerPeer : Informed(p) => \A i \in downloaded : Reaches(i, p)
  BY DEF EachPieceTold, Informed, Reaches

-----------------------------------------------------------------------------
(* Starting, and starting again.                                           *)

\* In a new process there is no peer and no piece.
LEMMA FreshInv ==
    Fresh(main, checked, good, downloaded, listed, accepted, conn, mail, outbox, told,
          writing) => Inv
  <1> SUFFICES ASSUME Fresh(main, checked, good, downloaded, listed, accepted, conn,
                            mail, outbox, told, writing)
               PROVE  Inv
    OBVIOUS
  <1> USE DEF Fresh, NotWriting
  <1>1. Typed
    BY DEF Typed, Conn
  <1>2. NobodyYet /\ TrackerPeersListed
    BY DEF NobodyYet, TrackerPeersListed
  <1>3. EachPieceTold
    BY ToldIsReached
  <1> QED
    BY <1>1, <1>2, <1>3 DEF Inv

\* The first process starts like that, and the one after a crash does.
LEMMA InitInv == Init => Inv
  BY FreshInv DEF Init

LEMMA CrashInv == Crash => Inv'
  <1>1. Crash => Fresh(main, checked, good, downloaded, listed, accepted, conn, mail,
                       outbox, told, writing)'
    BY DEF Crash
  <1> QED
    BY <1>1, FreshInv, PTL

LEMMA StartingInv ==
    ASSUME Inv, Starting
    PROVE  Inv'
  <1>1. CASE Load
    BY <1>1 DEF Inv, Typed, NobodyYet, TrackerPeersListed, EachPieceTold, Load,
                startVars, checkVars, peerVars
  <1>2. CASE CheckPiece
    BY <1>2 DEF Inv, Typed, NobodyYet, TrackerPeersListed, EachPieceTold, CheckPiece,
                startVars, checkVars, peerVars
  <1>3. CASE PieceChecked
    BY <1>3 DEF Inv, Typed, NobodyYet, TrackerPeersListed, EachPieceTold, PieceChecked,
                peerVars
  <1>4. CASE AllChecked
    <2>1. \A p \in Peer : conn'[p] # "open"
      BY <1>4 DEF Inv, NobodyYet, AllChecked, peerVars
    <2>2. EachPieceTold'
      BY <2>1, SessionAssumption DEF SessionAssumption, EachPieceTold
    <2> QED
      BY <1>4, <2>2 DEF Inv, Typed, NobodyYet, TrackerPeersListed, AllChecked,
                        checkVars, peerVars
  <1>5. CASE Contact
    BY <1>5 DEF Inv, Typed, NobodyYet, TrackerPeersListed, EachPieceTold, Contact,
                checkVars, peerVars
  <1>6. CASE StartPeers
    <2>1. \A p \in Peer : conn'[p] # "open"
      BY <1>6 DEF Inv, NobodyYet, StartPeers
    <2>2. EachPieceTold'
      BY <2>1, SessionAssumption DEF SessionAssumption, EachPieceTold
    <2>3. conn' \in [Peer -> Conn]
      BY <1>6 DEF Inv, Typed, StartPeers, Conn
    <2> QED
      BY <1>6, <2>2, <2>3 DEF Inv, Typed, NobodyYet, TrackerPeersListed, StartPeers,
                              startVars, checkVars
  <1>7. CASE Publish
    BY <1>7, SessionAssumption
       DEF SessionAssumption, Inv, Typed, NobodyYet, TrackerPeersListed, EachPieceTold,
           Publish, checkVars
  <1>8. CASE MainPanics
    BY <1>8 DEF Inv, Typed, NobodyYet, TrackerPeersListed, EachPieceTold, MainPanics,
                startVars, checkVars, peerVars
  <1> QED
    BY <1>1, <1>2, <1>3, <1>4, <1>5, <1>6, <1>7, <1>8 DEF Starting

-----------------------------------------------------------------------------
(* Peers come and go.                                                      *)

\* Only what p is told changes: the others are told as before.
LEMMA OnePeerTold ==
    ASSUME Inv, NEW p \in Peer, UNCHANGED <<downloaded, writing>>,
           \A q \in Peer \ {p} :
               /\ conn'[q] = conn[q] /\ told'[q] = told[q]
               /\ mail'[q] = mail[q] /\ outbox'[q] = outbox[q],
           p \in TrackerPeer /\ Informed(p)' => \A i \in downloaded : Reaches(i, p)'
    PROVE  EachPieceTold'
  <1> SUFFICES ASSUME NEW q \in TrackerPeer, Informed(q)', NEW i \in downloaded'
               PROVE  Reaches(i, q)'
    BY DEF EachPieceTold, Informed, Reaches
  <1>1. CASE q = p
    BY <1>1
  <1>2. CASE q # p
    <2>1. Informed(q) /\ q \in Peer
      BY <1>2, SessionAssumption DEF SessionAssumption, Informed
    <2>2. Reaches(i, q)
      BY <2>1, ToldIsReached DEF Inv
    <2> QED
      BY <1>2, <2>1, <2>2 DEF Reaches
  <1> QED
    BY <1>1, <1>2

LEMMA ConnectingInv ==
    ASSUME Inv, NEW p \in Peer,
           AcceptPeer(p) \/ PushPeer(p) \/ HandlerReady(p) \/ Handshake(p)
    PROVE  Inv'
  <1>1. CASE AcceptPeer(p)
    <2>1. EachPieceTold'
      BY <1>1, OnePeerTold DEF Inv, Typed, AcceptPeer, Informed
    <2>2. NobodyYet'
      BY <1>1 DEF Inv, NobodyYet, AcceptPeer
    <2>3. TrackerPeersListed'
      BY <1>1, SessionAssumption
         DEF SessionAssumption, Inv, Typed, TrackerPeersListed, AcceptPeer
    <2> QED
      BY <1>1, <2>1, <2>2, <2>3 DEF Inv, Typed, Conn, AcceptPeer, startVars, checkVars
  <1>2. CASE PushPeer(p)
    BY <1>2 DEF Inv, Typed, NobodyYet, TrackerPeersListed, EachPieceTold, PushPeer,
                startVars, checkVars
  <1>3. CASE HandlerReady(p)
    <2>1. EachPieceTold'
      BY <1>3, OnePeerTold DEF Inv, Typed, HandlerReady, Informed
    <2>2. NobodyYet' /\ TrackerPeersListed'
      BY <1>3, SessionAssumption
         DEF SessionAssumption, Inv, Typed, NobodyYet, TrackerPeersListed, HandlerReady
    <2> QED
      BY <1>3, <2>1, <2>2 DEF Inv, Typed, Conn, HandlerReady, startVars, checkVars
  <1>4. CASE Handshake(p)
    <2>1. outbox' \in [Peer -> Seq(WriterMessage)] /\ outbox'[p] = <<SendBitfield>>
      BY <1>4 DEF Inv, Typed, Handshake, WriterMessage
    <2>2. ~Informed(p)'
      BY <2>1, EmptyToSet DEF Informed
    <2>3. EachPieceTold'
      BY <1>4, <2>2, OnePeerTold DEF Inv, Typed, Handshake
    <2>4. NobodyYet' /\ TrackerPeersListed'
      BY <1>4, SessionAssumption
         DEF SessionAssumption, Inv, Typed, NobodyYet, TrackerPeersListed, Handshake
    <2> QED
      BY <1>4, <2>1, <2>3, <2>4 DEF Inv, Typed, Conn, Handshake, startVars, checkVars
  <1> QED
    BY <1>1, <1>2, <1>3, <1>4

LEMMA DisconnectInv ==
    ASSUME Inv, NEW p \in Peer, Disconnect(p)
    PROVE  Inv'
  <1>1. /\ conn' = [conn EXCEPT ![p] = "gone"] /\ listed' = listed \ {p}
        /\ conn[p] \in {"ready", "open", "mute"}
        /\ mail' = [mail EXCEPT ![p] = {}] /\ outbox' = [outbox EXCEPT ![p] = <<>>]
        /\ UNCHANGED <<startVars, main, downloaded, told, writing, storeVars>>
    BY DEF Disconnect, HandlerFree
  <1>2. EachPieceTold'
    BY <1>1, OnePeerTold DEF Inv, Typed, Informed
  <1>3. NobodyYet' /\ TrackerPeersListed'
    BY <1>1, SessionAssumption
       DEF SessionAssumption, Inv, Typed, NobodyYet, TrackerPeersListed
  <1>4. Typed'
    BY <1>1 DEF Inv, Typed, Conn, startVars, checkVars
  <1> QED
    BY <1>2, <1>3, <1>4 DEF Inv

-----------------------------------------------------------------------------
(* A handler and its writer tell a peer of pieces.                         *)

\* Only the channels of p and what it was told change.
LEMMA ChannelsChanged ==
    ASSUME Inv, NEW p \in Peer,
           UNCHANGED <<startVars, main, downloaded, listed, conn, writing>>,
           NEW m \in SUBSET Nat, mail' = [mail EXCEPT ![p] = m],
           NEW chan \in Seq(WriterMessage), outbox' = [outbox EXCEPT ![p] = chan],
           NEW t \in SUBSET Nat, told' = [told EXCEPT ![p] = t],
           p \in TrackerPeer /\ Informed(p)' => \A i \in downloaded : Reaches(i, p)'
    PROVE  Inv'
  <1>1. Typed'
    BY DEF Inv, Typed, startVars, checkVars
  <1>2. NobodyYet' /\ TrackerPeersListed'
    BY DEF Inv, NobodyYet, TrackerPeersListed
  <1>3. EachPieceTold'
    BY OnePeerTold DEF Inv, Typed
  <1> QED
    BY <1>1, <1>2, <1>3 DEF Inv

LEMMA TakeMailInv ==
    ASSUME Inv, NEW p \in Peer, TakeMail(p)
    PROVE  Inv'
  <1>1. PICK i \in mail[p] : /\ mail' = [mail EXCEPT ![p] = mail[p] \ {i}]
                             /\ outbox' = [outbox EXCEPT ![p] = Append(outbox[p], SendHave(i))]
    BY DEF TakeMail
  <1> DEFINE chan == Append(outbox[p], SendHave(i))
  <1>2. SendHave(i) \in WriterMessage /\ outbox[p] \in Seq(WriterMessage)
    BY <1>1 DEF Inv, Typed, WriterMessage
  <1>3. chan \in Seq(WriterMessage) /\ ToSet(chan) = ToSet(outbox[p]) \cup {SendHave(i)}
    BY <1>2, AppendedToSet
  <1>4. /\ mail'[p] = mail[p] \ {i} /\ outbox'[p] = chan
        /\ UNCHANGED <<startVars, main, downloaded, listed, conn, told, writing>>
    BY <1>1 DEF Inv, Typed, TakeMail
  <1>5. p \in TrackerPeer /\ Informed(p)' => \A j \in downloaded : Reaches(j, p)'
    <2> SUFFICES ASSUME p \in TrackerPeer, Informed(p)', NEW j \in downloaded
                 PROVE  Reaches(j, p)'
      OBVIOUS
    <2>1. Informed(p)
      BY <1>3, <1>4 DEF Informed
    <2>2. Reaches(j, p)
      BY <2>1, ToldIsReached DEF Inv
    <2> QED
      BY <1>3, <1>4, <2>2 DEF Reaches
  <1>6. /\ mail[p] \ {i} \in SUBSET Nat /\ told[p] \in SUBSET Nat
        /\ told' = [told EXCEPT ![p] = told[p]]
    BY <1>4 DEF Inv, Typed
  <1> HIDE DEF chan
  <1> QED
    BY <1>1, <1>3, <1>4, <1>5, <1>6, ChannelsChanged DEF chan

LEMMA RequestInv ==
    ASSUME Inv, NEW p \in Peer, RemoteRequest(p)
    PROVE  Inv'
  <1>1. PICK b \in Requested :
            outbox' = [outbox EXCEPT ![p] = Append(outbox[p], SendBlock(b))]
    BY DEF RemoteRequest
  <1> DEFINE chan == Append(outbox[p], SendBlock(b))
  <1>2. SendBlock(b) \in WriterMessage /\ outbox[p] \in Seq(WriterMessage)
    BY <1>1 DEF Inv, Typed, WriterMessage
  <1>3. chan \in Seq(WriterMessage) /\ ToSet(chan) = ToSet(outbox[p]) \cup {SendBlock(b)}
    BY <1>2, AppendedToSet
  <1>4. /\ outbox'[p] = chan
        /\ UNCHANGED <<startVars, main, downloaded, listed, conn, mail, told, writing>>
    BY <1>1 DEF Inv, Typed, RemoteRequest
  <1>5. p \in TrackerPeer /\ Informed(p)' => \A j \in downloaded : Reaches(j, p)'
    <2> SUFFICES ASSUME p \in TrackerPeer, Informed(p)', NEW j \in downloaded
                 PROVE  Reaches(j, p)'
      OBVIOUS
    <2>1. Informed(p)
      BY <1>3, <1>4 DEF Informed
    <2>2. Reaches(j, p)
      BY <2>1, ToldIsReached DEF Inv
    <2> QED
      BY <1>3, <1>4, <2>2 DEF Reaches
  <1>6. /\ mail[p] \in SUBSET Nat /\ mail' = [mail EXCEPT ![p] = mail[p]]
        /\ told[p] \in SUBSET Nat /\ told' = [told EXCEPT ![p] = told[p]]
    BY <1>4 DEF Inv, Typed
  <1> HIDE DEF chan
  <1> QED
    BY <1>1, <1>3, <1>4, <1>5, <1>6, ChannelsChanged DEF chan

\* The writer takes the first message; of a block the peer learns nothing.
LEMMA WriterInv ==
    ASSUME Inv, NEW p \in Peer, WriterTells(p) \/ WriterReads(p)
    PROVE  Inv'
  <1> DEFINE first == Head(outbox[p])
             rest == Tail(outbox[p])
  <1>1. outbox[p] # <<>> /\ outbox[p] \in Seq(WriterMessage)
    BY DEF Inv, Typed, WriterTells, WriterReads
  <1>2. /\ first \in WriterMessage /\ rest \in Seq(WriterMessage)
        /\ ToSet(outbox[p]) = {first} \cup ToSet(rest)
    BY <1>1, HeadAndTailToSet
  <1>3. /\ outbox' = [outbox EXCEPT ![p] = rest] /\ outbox'[p] = rest
        /\ UNCHANGED <<startVars, main, downloaded, listed, conn, mail, writing>>
    BY DEF Inv, Typed, WriterTells, WriterReads
  <1>4. mail[p] \in SUBSET Nat /\ mail' = [mail EXCEPT ![p] = mail[p]]
    BY <1>3 DEF Inv, Typed
  <1>5. ASSUME first # SendBitfield, p \in TrackerPeer, Informed(p)', NEW j \in downloaded
        PROVE  Reaches(j, p)
    <2>1. Informed(p)
      BY <1>2, <1>3, <1>5 DEF Informed
    <2> QED
      BY <1>5, <2>1, ToldIsReached DEF Inv
  <1>6. CASE WriterTells(p) /\ first.type = "bitfield"
    <2>1. told' = [told EXCEPT ![p] = downloaded] /\ told'[p] = downloaded
      BY <1>6 DEF Inv, Typed, WriterTells
    <2>2. \A j \in downloaded : Reaches(j, p)'
      BY <2>1 DEF Reaches
    <2>3. downloaded \in SUBSET Nat
      BY DEF Inv, Typed
    <2> HIDE DEF rest, first
    <2> QED
      BY <1>2, <1>3, <1>4, <2>1, <2>2, <2>3, ChannelsChanged
  <1>7. CASE WriterTells(p) /\ first.type = "have"
    <2>1. PICK i \in Nat : first = SendHave(i)
      BY <1>2, <1>7, MessagesDiffer DEF WriterMessage
    <2>2. first.piece = i /\ first # SendBitfield
      BY <2>1, MessagesDiffer
    <2>3. /\ told' = [told EXCEPT ![p] = told[p] \cup {i}]
          /\ told'[p] = told[p] \cup {i} /\ told[p] \cup {i} \in SUBSET Nat
      BY <1>7, <2>2, MessagesDiffer DEF Inv, Typed, WriterTells
    <2>4. p \in TrackerPeer /\ Informed(p)' => \A j \in downloaded : Reaches(j, p)'
      <3> SUFFICES ASSUME p \in TrackerPeer, Informed(p)', NEW j \in downloaded
                   PROVE  Reaches(j, p)'
        OBVIOUS
      <3>1. Reaches(j, p)
        BY <1>5, <2>2
      <3>2. SendHave(j) = SendHave(i) => j = i
        BY MessagesDiffer
      <3> HIDE DEF first, rest
      <3> QED
        BY <1>2, <1>3, <2>1, <2>3, <3>1, <3>2 DEF Reaches
    <2> HIDE DEF rest, first
    <2> QED
      BY <1>2, <1>3, <1>4, <2>3, <2>4, ChannelsChanged
  <1>8. CASE WriterReads(p)
    <2>1. first.type = "block" /\ told' = told
      BY <1>8 DEF WriterReads
    <2>2. first # SendBitfield /\ \A j : first # SendHave(j)
      BY <2>1, MessagesDiffer
    <2>3. p \in TrackerPeer /\ Informed(p)' => \A j \in downloaded : Reaches(j, p)'
      <3> HIDE DEF first, rest
      <3> QED
        BY <1>2, <1>3, <1>5, <2>1, <2>2 DEF Reaches
    <2>4. told[p] \in SUBSET Nat /\ told' = [told EXCEPT ![p] = told[p]]
      BY <2>1 DEF Inv, Typed
    <2> HIDE DEF rest, first
    <2> QED
      BY <1>2, <1>3, <1>4, <2>3, <2>4, ChannelsChanged
  <1> QED
    BY <1>6, <1>7, <1>8 DEF WriterTells

LEMMA ReadDoneInv ==
    ASSUME Inv, NEW p \in Peer, WriterSends(p) \/ WriterPanics(p)
    PROVE  Inv'
  <1>1. CASE WriterSends(p)
    BY <1>1 DEF Inv, Typed, NobodyYet, TrackerPeersListed, EachPieceTold, WriterSends,
                startVars, checkVars, peerVars
  <1>2. CASE WriterPanics(p)
    <2>1. /\ conn' = [conn EXCEPT ![p] = IF conn[p] = "open" THEN "mute" ELSE conn[p]]
          /\ UNCHANGED <<startVars, main, downloaded, listed, mail, outbox, told, writing>>
      BY <1>2 DEF WriterPanics
    <2>2. EachPieceTold'
      <3>1. ~Informed(p)'
        BY <2>1 DEF Inv, Typed, Informed
      <3> QED
        BY <2>1, <3>1, OnePeerTold DEF Inv, Typed
    <2>3. NobodyYet' /\ TrackerPeersListed'
      BY <2>1, SessionAssumption
         DEF SessionAssumption, Inv, Typed, NobodyYet, TrackerPeersListed
    <2>4. Typed'
      BY <2>1 DEF Inv, Typed, Conn, startVars, checkVars
    <2> QED
      BY <2>2, <2>3, <2>4 DEF Inv
  <1> QED
    BY <1>1, <1>2

-----------------------------------------------------------------------------
(* A completed piece.                                                      *)

\* The stages in their order.
LEMMA NextStage ==
    ASSUME Typed
    PROVE  /\ writing.stage = "write" => Advanced.stage = "mark"
           /\ writing.stage = "mark" => Advanced.stage = "announce"
           /\ writing.stage # "announce" => Advanced.piece \in {0, writing.piece}
           /\ writing.stage = "mark" => Advanced.piece = writing.piece
           /\ writing.stage = "announce" => Advanced = NotWriting
           /\ writing.stage # "idle" =>
                  /\ Advanced.stage \in {"idle", "write", "mark", "announce"}
                  /\ Advanced.piece \in Nat
                  /\ Advanced = [stage |-> Advanced.stage, piece |-> Advanced.piece,
                                 due |-> Advanced.due, by |-> Advanced.by]
  BY DEF Typed, Advanced, After, NotWriting

LEMMA WritingInv ==
    ASSUME Inv, WriteSection \/ WriteFails \/ \E p \in Peer : CompletePiece(p)
    PROVE  Inv'
  <1>1. ASSUME NEW p \in Peer, CompletePiece(p) PROVE Inv'
    <2>1. /\ main \in {"looping", "accepting", "deaf"} /\ writing = NotWriting
          /\ writing'.stage = "write" /\ writing'.piece \in Nat
          /\ writing' = [stage |-> writing'.stage, piece |-> writing'.piece,
                         due |-> writing'.due, by |-> writing'.by]
          /\ UNCHANGED <<startVars, main, downloaded, peerVars>>
      BY <1>1 DEF CompletePiece, Piece
    <2>2. EachPieceTold'
      BY <2>1 DEF Inv, EachPieceTold, NotWriting, peerVars
    <2> QED
      BY <2>1, <2>2 DEF Inv, Typed, NobodyYet, TrackerPeersListed, startVars, checkVars,
                        peerVars
  <1>2. CASE WriteSection
    <2>1. /\ writing.stage = "write" /\ writing # NotWriting
          /\ UNCHANGED <<startVars, main, downloaded, peerVars>>
          /\ writing' = Advanced \/ writing' = [writing EXCEPT !.due = Tail(writing.due)]
      BY <1>2 DEF WriteSection, NotWriting
    <2>2. /\ writing'.stage \in {"write", "mark"} /\ writing'.piece \in Nat
          /\ writing' = [stage |-> writing'.stage, piece |-> writing'.piece,
                         due |-> writing'.due, by |-> writing'.by]
      BY <2>1, NextStage DEF Inv, Typed
    <2>3. EachPieceTold'
      BY <2>1, <2>2 DEF Inv, EachPieceTold, peerVars
    <2> QED
      BY <2>1, <2>2, <2>3 DEF Inv, Typed, NobodyYet, TrackerPeersListed, startVars,
                              checkVars, peerVars
  <1>3. CASE WriteFails
    <2>1. /\ writing.stage = "write" /\ writing # NotWriting /\ writing' = NotWriting
          /\ conn' = [conn EXCEPT ![writing.by] = "gone"]
          /\ mail' = [mail EXCEPT ![writing.by] = {}]
          /\ outbox' = [outbox EXCEPT ![writing.by] = <<>>]
          /\ UNCHANGED <<startVars, main, downloaded, listed, told, storeVars>>
      BY <1>3 DEF WriteFails, NotWriting
    <2>2. \A q \in Peer :
              /\ conn'[q] = "open" =>
                     conn[q] = "open" /\ mail'[q] = mail[q] /\ outbox'[q] = outbox[q]
              /\ conn'[q] \notin {"absent", "gone"} => conn[q] \notin {"absent", "gone"}
      BY <2>1 DEF Inv, Typed
    <2>3. EachPieceTold'
      <3> SUFFICES ASSUME NEW q \in TrackerPeer, Informed(q)', NEW i \in downloaded'
                   PROVE  Reaches(i, q)'
        BY DEF EachPieceTold, Informed, Reaches
      <3>1. q \in Peer
        BY SessionAssumption DEF SessionAssumption
      <3>2. /\ Informed(q) /\ mail'[q] = mail[q] /\ outbox'[q] = outbox[q]
            /\ told'[q] = told[q] /\ i \in downloaded
        BY <2>1, <2>2, <3>1 DEF Informed
      <3>3. Reaches(i, q)
        BY <3>2, ToldIsReached DEF Inv
      <3> QED
        BY <2>1, <3>2, <3>3 DEF Reaches
    <2>4. NobodyYet'
      BY <2>1 DEF Inv, NobodyYet
    <2>5. TrackerPeersListed'
      BY <2>1, <2>2, SessionAssumption DEF SessionAssumption, Inv, TrackerPeersListed
    <2>6. Typed'
      <3>1. conn' \in [Peer -> Conn] /\ mail' \in [Peer -> SUBSET Nat]
        BY <2>1 DEF Inv, Typed, Conn
      <3>2. outbox' \in [Peer -> Seq(WriterMessage)]
        <4>1. <<>> \in Seq(WriterMessage) /\ outbox \in [Peer -> Seq(WriterMessage)]
          BY DEF Inv, Typed
        <4>2. \A f, x : f \in [Peer -> Seq(WriterMessage)] =>
                  [f EXCEPT ![x] = <<>>] \in [Peer -> Seq(WriterMessage)]
          BY <4>1
        <4> QED
          BY <2>1, <4>1, <4>2
      <3>3. /\ writing'.stage = "idle" /\ writing'.piece = 0
            /\ writing' = [stage |-> writing'.stage, piece |-> writing'.piece,
                           due |-> writing'.due, by |-> writing'.by]
        BY <2>1 DEF NotWriting
      <3> QED
        BY <2>1, <3>1, <3>2, <3>3 DEF Inv, Typed, startVars, checkVars
    <2> QED
      BY <2>3, <2>4, <2>5, <2>6 DEF Inv
  <1> QED
    BY <1>1, <1>2, <1>3

\* Marked, the piece is about to be announced.
LEMMA MarkInv ==
    ASSUME Inv, Mark
    PROVE  Inv'
  <1>1. /\ writing.stage = "mark" /\ writing # NotWriting /\ writing' = Advanced
        /\ downloaded' = downloaded \cup {writing.piece}
        /\ UNCHANGED <<startVars, main, peerVars>>
    BY DEF Mark, NotWriting
  <1>2. /\ writing'.stage = "announce" /\ writing'.piece = writing.piece
        /\ writing' = [stage |-> writing'.stage, piece |-> writing'.piece,
                       due |-> writing'.due, by |-> writing'.by]
    BY <1>1, NextStage DEF Inv
  <1>3. EachPieceTold'
    <2> SUFFICES ASSUME NEW p \in TrackerPeer, Informed(p)', NEW i \in downloaded'
                 PROVE  Reaches(i, p)'
      BY DEF EachPieceTold, Informed, Reaches
    <2>1. CASE i = writing.piece
      BY <1>2, <2>1 DEF Reaches
    <2>2. CASE i \in downloaded
      <3>1. Informed(p)
        BY <1>1 DEF Informed, peerVars
      <3>2. Reaches(i, p)
        BY <2>2, <3>1, ToldIsReached DEF Inv
      <3> QED
        BY <1>1, <3>2 DEF Reaches, peerVars
    <2> QED
      BY <1>1, <2>1, <2>2
  <1> QED
    BY <1>1, <1>2, <1>3
       DEF Inv, Typed, NobodyYet, TrackerPeersListed, startVars, checkVars, peerVars

\* Announced, it is in the mailbox of every peer that is listed and has one.
LEMMA AnnounceInv ==
    ASSUME Inv, AnnouncePiece
    PROVE  Inv'
  <1>1. /\ writing.stage = "announce" /\ writing # NotWriting /\ writing' = Advanced
        /\ mail' = [p \in Peer |-> IF p \in listed /\ HasMailbox(p)
                                   THEN mail[p] \cup {writing.piece} ELSE mail[p]]
        /\ UNCHANGED <<startVars, main, downloaded, listed, conn, outbox, told>>
    BY DEF AnnouncePiece, NotWriting
  <1>2. writing' = NotWriting /\ main \in {"looping", "accepting", "deaf"}
    BY <1>1, NextStage DEF Inv, NobodyYet
  <1>3. EachPieceTold'
    <2> SUFFICES ASSUME NEW p \in TrackerPeer, Informed(p)', NEW i \in downloaded'
                 PROVE  Reaches(i, p)'
      BY DEF EachPieceTold, Informed, Reaches
    <2>1. p \in Peer /\ Informed(p) /\ conn[p] = "open" /\ i \in downloaded
      BY <1>1, SessionAssumption DEF SessionAssumption, Informed
    <2>2. mail'[p] = mail[p] \cup {writing.piece}
      BY <1>1, <1>2, <2>1 DEF Inv, TrackerPeersListed, HasMailbox
    <2>3. Reaches(i, p)
      BY <2>1, ToldIsReached DEF Inv
    <2> QED
      BY <1>1, <2>2, <2>3 DEF Reaches
  <1>4. Typed'
    BY <1>1, <1>2 DEF Inv, Typed, NotWriting, startVars, checkVars
  <1> QED
    BY <1>1, <1>2, <1>3, <1>4 DEF Inv, NobodyYet, TrackerPeersListed

-----------------------------------------------------------------------------
(* The theorems.                                                           *)

LEMMA NextInv == Inv /\ [Next]_vars => Inv'
  <1> SUFFICES ASSUME Inv, [Next]_vars PROVE Inv'
    OBVIOUS
  <1>1. ASSUME NEW p \in Peer,
               \/ AcceptPeer(p) \/ PushPeer(p) \/ HandlerReady(p) \/ Handshake(p)
               \/ Disconnect(p) \/ TakeMail(p) \/ RemoteRequest(p) \/ WriterTells(p)
               \/ WriterReads(p) \/ WriterSends(p) \/ WriterPanics(p)
        PROVE  Inv'
    BY <1>1, ConnectingInv, DisconnectInv, TakeMailInv, RequestInv, WriterInv, ReadDoneInv
  <1>2. CASE FileManager \/ UNCHANGED vars
    <2>1. UNCHANGED <<startVars, main, downloaded, peerVars, writing>>
      BY <1>2 DEF FileManager, vars
    <2> QED
      BY <2>1 DEF Inv, Typed, NobodyYet, TrackerPeersListed, EachPieceTold, startVars,
                  checkVars, peerVars
  <1> QED
    BY <1>1, <1>2, StartingInv, CrashInv, WritingInv, MarkInv, AnnounceInv DEF Next

\* The inductive invariant: nothing is under way before the tracker's answer, its
\* peers are listed by the time a piece is completed, and each is told of it.
THEOREM Invariance == Spec => []Inv
  BY InitInv, NextInv, PTL DEF Spec

\* The bitfield taken when it is written and the Haves that follow leave out no
\* piece, for any peer a tracker named (peer.rs:503, torrent.rs:495).
THEOREM PiecesAnnounced == Spec => []EachPieceTold
  <1>1. Inv => EachPieceTold
    BY DEF Inv
  <1> QED
    BY <1>1, Invariance, PTL

-----------------------------------------------------------------------------
(* The bytes of the pieces.  A piece that is marked, or about to be, is on *)
(* its way; a peer is told of marked pieces only, so a range within those  *)
(* is on its way before it is read, and the channel keeps the order.  Of   *)
(* other ranges nothing is said, but that they are read in turn.           *)

\* Nobody is told of a piece that is not marked; any range may be asked for that
\* is not too long.
Answerable == {b \in Requested : b.length <= MAX_ALLOWED_BLOCK_SIZE}
MessageOf(S) ==
    {SendBitfield} \cup {SendHave(i) : i \in S} \cup {SendBlock(b) : b \in Answerable}
OnlyMarked ==
    \A p \in Peer : /\ told[p] \subseteq downloaded /\ mail[p] \subseteq downloaded
                    /\ outbox[p] \in Seq(MessageOf(downloaded))

\* A byte of the piece that is being written is on its way, or due to be sent.
ByteWritten(k, o) ==
    \/ OnItsWay(files, queue, k, o)
    \/ \E n \in 1 .. Len(writing.due) : Writes(writing.due[n], k, o)
PieceWritten ==
    \A k \in File : \A o \in 0 .. FileLength[k] - 1 :
        InPiece(writing.piece, k, o) => ByteWritten(k, o)
WritingOK ==
    /\ writing.stage = "write" =>
           /\ writing.piece \in Piece \ downloaded
           /\ writing.due \in Seq(WriteMessage) /\ writing.due # <<>>
           /\ fm = "up" => PieceWritten
    /\ writing.stage = "mark" =>
           /\ writing.piece \in Piece \ downloaded
           /\ fm = "up" => PieceOnItsWay(files, queue, writing.piece)
    /\ writing.stage = "announce" => writing.piece \in downloaded

MarkedOnItsWay == fm = "up" => \A i \in downloaded : PieceOnItsWay(files, queue, i)

\* Until the hash check is done only the main task reads, and nobody writes; what
\* it has read is what the files have.
Quiet ==
    /\ downloaded = {} /\ writing = NotWriting
    /\ \A p \in Peer : reading[p] = NotReading
    /\ \A n \in 1 .. Len(queue) : queue[n].op = "read"
FromFiles(e) ==
    \A j \in 1 .. Len(e.got) : \A k \in File : \A o \in 0 .. FileLength[k] - 1 :
        Offset[k] + o = e.offset + j - 1 => e.got[j] = files[k][o]
Checked ==
    /\ good = Whole(files) \cap (0 .. checked - 1)
    /\ reading["main"] # NotReading =>
           /\ checked < NumPieces
           /\ reading["main"].offset = checked * PieceLength
           /\ reading["main"].length = PieceLength
    /\ FromFiles(reading["main"])
HashCheck ==
    /\ main = "loading" => /\ Quiet /\ queue = <<>> /\ reading["main"] = NotReading
                           /\ checked = 0 /\ good = {}
    /\ main = "checking" => Quiet /\ Checked

\* The answers of trackers, and what else is not in Typed.
Numbers ==
    /\ answer \in Response /\ \A m \in net : m.response \in Response
    /\ checked <= NumPieces /\ good \subseteq Piece /\ downloaded \subseteq Piece
    /\ listed \subseteq Peer /\ accepted \subseteq Peer

\* Those that get right bytes.
Promised == {p \in Peer : AsksWithin(p)}

Kept ==
    /\ StoreInv(Promised) /\ OnlyMarked /\ WritingOK /\ MarkedOnItsWay /\ HashCheck /\ Numbers

LEMMA Readers == Peer \in SUBSET Reader /\ "main" \in Reader /\ "main" \notin Peer
  BY SessionAssumption DEF SessionAssumption

\* A peer for which nothing is read asks for nothing wrong.
LEMMA IdleAsksWithin ==
    ASSUME NEW p \in Peer, reading[p] = NotReading
    PROVE  AsksWithin(p)
  <1>1. reading[p].offset = 0 /\ reading[p].length = 0
    BY DEF NotReading
  <1>2. 0 .. 0 + 0 - 1 = {}
    OBVIOUS
  <1> QED
    BY <1>1, <1>2 DEF AsksWithin

\* Those that were promised right bytes are, by a step that begins no read for a
\* peer and tells only idle ones of pieces.
LEMMA PromiseStays ==
    ASSUME NEW R, R = Promised, StoreInv(R)',
           \A p \in Peer : \/ reading'[p] = NotReading
                          \/ /\ told'[p] = told[p]
                             /\ reading'[p].offset = reading[p].offset
                             /\ reading'[p].length = reading[p].length
    PROVE  StoreInv(Promised)'
  <1> PICK S \in SUBSET Reader : S = {p \in Peer : AsksWithin(p)'}
    BY Readers
  <1>1. \A p \in S \ R : reading'[p] = NotReading
    BY DEF Promised, AsksWithin
  <1> DEFINE f == files'
             q == queue'
             up == fm'
             rd == reading'
  <1>2. StoreAt(f, q, up, rd, R) /\ \A p \in S \ R : rd[p] = NotReading
    BY <1>1 DEF StoreInv
  <1> HIDE DEF f, q, up, rd
  <1>3. StoreAt(f, q, up, rd, S)
    BY <1>2, MoreReaders
  <1>4. Promised' = S
    BY DEF Promised
  <1> QED
    BY <1>3, <1>4 DEF StoreInv, f, q, up, rd

LEMMA Responses == Junk \in Response
  BY DEF Junk, Response

\* The parts, when nothing of theirs changes but what is on its way.
LEMMA WritingStays ==
    ASSUME WritingOK, UNCHANGED <<writing, downloaded>>,
           fm' = "up" => fm = "up" /\ Forward(files, queue, files', queue')
    PROVE  WritingOK'
  <1>1. fm' = "up" /\ PieceWritten => PieceWritten'
    BY DEF PieceWritten, ByteWritten, Forward
  <1>2. fm' = "up" /\ PieceOnItsWay(files, queue, writing.piece) =>
            PieceOnItsWay(files', queue', writing.piece)
    BY ForwardPieces
  <1> QED
    BY <1>1, <1>2 DEF WritingOK

LEMMA MarkedStays ==
    ASSUME MarkedOnItsWay, UNCHANGED downloaded,
           fm' = "up" => fm = "up" /\ Forward(files, queue, files', queue')
    PROVE  MarkedOnItsWay'
  BY ForwardPieces DEF MarkedOnItsWay

LEMMA OnlyMarkedStays ==
    ASSUME OnlyMarked, UNCHANGED <<downloaded, told, mail, outbox>>
    PROVE  OnlyMarked'
  BY DEF OnlyMarked

\* Only what p is told changes.
LEMMA OnePeerMarked ==
    ASSUME OnlyMarked, NEW p \in Peer, UNCHANGED downloaded,
           \A q \in Peer \ {p} :
               /\ told'[q] = told[q] /\ mail'[q] = mail[q] /\ outbox'[q] = outbox[q],
           told'[p] \subseteq downloaded, mail'[p] \subseteq downloaded,
           outbox'[p] \in Seq(MessageOf(downloaded))
    PROVE  OnlyMarked'
  BY DEF OnlyMarked

\* With more pieces marked, what was said of marked pieces still is.
LEMMA MoreMarked ==
    ASSUME NEW S, NEW T, S \subseteq T
    PROVE  Seq(MessageOf(S)) \subseteq Seq(MessageOf(T))
  <1>1. MessageOf(S) \subseteq MessageOf(T)
    BY DEF MessageOf
  <1> SUFFICES ASSUME NEW s \in Seq(MessageOf(S))
               PROVE  s \in Seq(MessageOf(T))
    OBVIOUS
  <1> QED
    BY <1>1

\* Steps that leave the files and the channel alone.
LEMMA StoreSame ==
    ASSUME Kept, UNCHANGED storeVars,
           \A p \in Peer : told'[p] = told[p] \/ reading[p] = NotReading
    PROVE  /\ StoreInv(Promised)'
           /\ UNCHANGED <<writing, downloaded>> => WritingOK'
           /\ UNCHANGED downloaded => MarkedOnItsWay'
  <1> PICK R : R = Promised
    OBVIOUS
  <1>1. StoreInv(R)' /\ Forward(files, queue, files', queue') /\ fm' = fm /\ reading' = reading
    BY StoreStutters DEF Kept, storeVars
  <1>2. StoreInv(Promised)'
    BY <1>1, PromiseStays
  <1> QED
    BY <1>1, <1>2, WritingStays, MarkedStays DEF Kept

\* Once the main task is past the hash check, that is done with.
LEMMA PastCheck ==
    ASSUME main' \notin {"loading", "checking"}
    PROVE  HashCheck'
  BY DEF HashCheck

\* A peer that is there is there after the hash check.
LEMMA AtWork ==
    ASSUME Inv, NEW p \in Peer, conn[p] # "absent" \/ writing # NotWriting
    PROVE  main \notin {"loading", "checking"}
  BY DEF Inv, NobodyYet

-----------------------------------------------------------------------------
(* ... over the steps of the main task.                                    *)

\* A process that has just started, be it after a crash.
Started ==
    /\ Fresh(main, checked, good, downloaded, listed, accepted, conn, mail, outbox, told,
             writing)
    /\ NotAsked(urls, asking, transaction_id, net, answer, lost, repeated)
    /\ StoreInv({}) /\ fm = "up" /\ queue = <<>>
    /\ \A r \in Reader : reading[r] = NotReading

LEMMA StartedKept == Started => Kept
  <1> SUFFICES ASSUME Started PROVE Kept
    OBVIOUS
  <1>1. Numbers
    BY Responses, Sizes DEF Numbers, Started, Fresh, NotAsked
  <1>2. OnlyMarked
    <2>1. <<>> \in Seq(MessageOf({}))
      OBVIOUS
    <2> QED
      BY <2>1 DEF OnlyMarked, Started, Fresh
  <1>3. WritingOK /\ MarkedOnItsWay
    BY DEF WritingOK, MarkedOnItsWay, Started, Fresh, NotWriting
  <1>4. HashCheck
    BY Readers DEF HashCheck, Quiet, Started, Fresh
  <1>5. StoreInv(Promised)
    <2>1. Promised \in SUBSET Reader /\ \A p \in Promised : reading[p] = NotReading
      BY Readers DEF Promised, Started
    <2>2. StoreAt(files, queue, fm, reading, {})
      BY DEF Started, StoreInv
    <2>3. StoreAt(files, queue, fm, reading, Promised)
      BY <2>1, <2>2, MoreReaders
    <2> QED
      BY <2>3 DEF StoreInv
  <1> QED
    BY <1>1, <1>2, <1>3, <1>4, <1>5 DEF Kept

LEMMA InitKept == Init => Kept
  <1>1. Init => Started
    BY StoreStarts, Readers DEF Init, StoreInit, TrackerInit, Started
  <1> QED
    BY <1>1, StartedKept

LEMMA CrashKept == Kept /\ Crash => Kept'
  <1>1. Kept /\ Crash => Started'
    <2> SUFFICES ASSUME Kept, Crash PROVE Started'
      OBVIOUS
    <2>1. StoreInv({}) /\ StoreCrash /\ {} \in SUBSET Reader
      BY FewerReaders DEF Kept, Crash
    <2>2. /\ StoreInv({})' /\ fm' = "up" /\ queue' = <<>>
          /\ \A r \in Reader : reading'[r] = NotReading
      BY <2>1, StoreCrashes
    <2> QED
      BY <2>2 DEF Crash, TrackerCrash, Started
  <1> QED
    BY <1>1, StartedKept, PTL

LEMMA LoadKept ==
    ASSUME Kept, Load
    PROVE  Kept'
  <1>1. /\ main = "loading" /\ main' \in {"checking", "exited"}
        /\ UNCHANGED <<startVars, downloaded, peerVars, writing, storeVars>>
    BY DEF Load
  <1>2. HashCheck'
    <2>1. /\ Quiet /\ queue = <<>> /\ reading["main"] = NotReading
          /\ checked = 0 /\ good = {}
      BY <1>1 DEF Kept, HashCheck
    <2>2. Quiet'
      BY <1>1, <2>1 DEF Quiet, storeVars
    <2>3. Checked'
      <3>1. FromFiles(NotReading)'
        BY DEF FromFiles, NotReading
      <3>2. /\ good' = {} /\ checked' = 0 /\ reading'["main"] = NotReading
        BY <1>1, <2>1 DEF startVars, checkVars, storeVars
      <3>3. 0 .. 0 - 1 = {}
        OBVIOUS
      <3> QED
        BY <3>1, <3>2, <3>3 DEF Checked, FromFiles
    <2> QED
      BY <1>1, <2>2, <2>3 DEF HashCheck
  <1>3. Numbers' /\ OnlyMarked'
    BY <1>1, OnlyMarkedStays
       DEF Kept, Numbers, startVars, checkVars, trackerVars, peerVars
  <1>4. UNCHANGED <<told, downloaded, writing, storeVars>>
    BY <1>1 DEF peerVars
  <1> QED
    BY <1>2, <1>3, <1>4, StoreSame DEF Kept

\* The hash check asks for a piece, ...
LEMMA CheckPieceKept ==
    ASSUME Inv, Kept, CheckPiece
    PROVE  Kept'
  <1>1. /\ main = "checking" /\ checked < NumPieces /\ main' = main
        /\ StartRead("main", PieceStart(checked), PieceLength)
        /\ UNCHANGED <<startVars, downloaded, peerVars, writing, files, queue, fm>>
    BY DEF CheckPiece
  <1>2. Quiet /\ Checked /\ checked \in Nat
    BY <1>1 DEF Kept, HashCheck, Inv, Typed
  <1>3. checked \in Piece
    BY <1>1, <1>2, Sizes DEF Piece
  <1> DEFINE x == checked * PieceLength
  <1>4. /\ PieceStart(checked) = x /\ x \in Nat /\ x < Total /\ x + PieceLength < Limit
        /\ PieceLength \in Nat \ {0}
    BY <1>3, PieceRange, Sizes
  <1>5. /\ StoreInv(Promised)' /\ \A p \in Reader \ {"main"} : reading'[p] = reading[p]
        /\ reading'["main"].got = <<>>
        /\ reading'["main"].offset = x /\ reading'["main"].length = PieceLength
    <2> HIDE DEF x
    <2>1. StartRead("main", x, PieceLength)
      BY <1>1, <1>4
    <2> PICK R \in SUBSET Peer : R = Promised
      BY DEF Promised
    <2>2. StoreInv(R) /\ R \in SUBSET Reader /\ "main" \in Reader \ R
      BY Readers DEF Kept
    <2>3. /\ StoreInv(R)' /\ \A p \in Reader \ {"main"} : reading'[p] = reading[p]
          /\ reading'["main"].got = <<>>
          /\ reading'["main"].offset = x /\ reading'["main"].length = PieceLength
      BY <1>1, <1>4, <2>1, <2>2, StoreBegins
    <2>4. told' = told /\ \A p \in Peer : reading'[p] = reading[p]
      BY <1>1, <2>3, Readers DEF peerVars
    <2> QED
      BY <2>3, <2>4, PromiseStays
  <1>6. Quiet'
    BY <1>1, <1>2, <1>5, Readers DEF Quiet
  <1>7. Checked'
    <2>1. FromFiles(reading["main"])'
      BY <1>5 DEF FromFiles
    <2>2. UNCHANGED <<good, checked, files>>
      BY <1>1 DEF startVars, checkVars
    <2> QED
      BY <1>1, <1>2, <1>5, <2>1, <2>2 DEF Checked
  <1>8. Numbers' /\ OnlyMarked'
    BY <1>1, OnlyMarkedStays
       DEF Kept, Numbers, startVars, checkVars, trackerVars, peerVars
  <1>9. WritingOK' /\ MarkedOnItsWay'
    BY <1>1, <1>2 DEF WritingOK, MarkedOnItsWay, Quiet, NotWriting
  <1> QED
    BY <1>1, <1>5, <1>6, <1>7, <1>8, <1>9 DEF Kept, HashCheck

\* ... and finds it right exactly when it is whole in the files.
LEMMA HashIsRight ==
    ASSUME NEW R, StoreInv(R), NEW i \in Piece, NEW e, e = reading["main"], HasRead("main"),
           e.offset = i * PieceLength, e.length = PieceLength, FromFiles(e)
    PROVE  HashMatches(i, e.got) <=> i \in Whole(files)
  <1> DEFINE g == e.got
             x == i * PieceLength
             n == PieceSize(i)
             c == PieceContent(i)
  <1>1. /\ e \in Reading /\ InTurn(queue, fm, e, "main") /\ IsContent(files)
        /\ e.due = <<>> /\ e.waits = 0
    BY Readers DEF StoreInv, StoreAt, HasRead
  <1>2. /\ x \in Nat /\ n \in Nat /\ x + n = Until(x, PieceLength) /\ x + n <= Total
        /\ Total \in Nat
    BY PieceRange, WithinTotal
  <1>3. g \in Seq(Int) /\ Len(g) = n
    <2>1. g \in Seq(Int) /\ Len(g) \in Nat /\ Got(e) = x + Len(g)
      BY <1>1, ReadingFacts
    <2>2. Got(e) = x + n
      BY <1>1, <1>2 DEF InTurn, End
    <2> DEFINE l == Len(g)
    <2>3. x + l = x + n /\ l \in Nat
      BY <2>1, <2>2
    <2> HIDE DEF l, x, n
    <2>4. l = n
      BY <1>2, <2>3
    <2> QED
      BY <2>1, <2>4 DEF l
  <1>4. \A j \in 1 .. n : \A k \in File : \A o \in 0 .. FileLength[k] - 1 :
            Offset[k] + o = x + j - 1 => g[j] = files[k][o]
    BY <1>3 DEF FromFiles
  <1>5. c \in Seq(Int) /\ Len(c) = n /\ \A j \in 1 .. n : c[j] = x + j - 1
    <2>1. c = [j \in 1 .. n |-> x + j - 1]
      BY DEF PieceContent, Content
    <2> HIDE DEF c, n, x
    <2> QED
      BY <1>2, <2>1
  <1>6. \A k \in File, o \in Int :
            InPiece(i, k, o) <=> x <= Offset[k] + o /\ Offset[k] + o + 1 <= x + n
    BY DEF InPiece, Holds
  <1>7. i \in Whole(files) <=> \A k \in File : \A o \in 0 .. FileLength[k] - 1 :
            InPiece(i, k, o) => files[k][o] = Offset[k] + o
    BY <1>1, WholeIs
  <1>8. HashMatches(i, g) <=> g = c
    BY DEF HashMatches
  <1> HIDE DEF g, x, n, c
  <1>9. ASSUME g = c, NEW k \in File, NEW o \in 0 .. FileLength[k] - 1, InPiece(i, k, o)
        PROVE  files[k][o] = Offset[k] + o
    <2> DEFINE z == Offset[k]
               j == z + o - x + 1
    <2>1. z \in Nat /\ o \in Int /\ x <= z + o /\ z + o + 1 <= x + n
      BY <1>6, <1>9, Files, Offsets
    <2> HIDE DEF z
    <2>2. j \in 1 .. n /\ z + o = x + j - 1
      BY <1>2, <2>1
    <2> HIDE DEF j
    <2>3. g[j] = files[k][o]
      BY <1>4, <2>2 DEF z
    <2> QED
      BY <1>5, <1>9, <2>2, <2>3 DEF z
  <1>10. ASSUME \A k \in File : \A o \in 0 .. FileLength[k] - 1 :
                    InPiece(i, k, o) => files[k][o] = Offset[k] + o,
                NEW j \in 1 .. n
         PROVE  g[j] = c[j]
    <2> DEFINE y == x + j - 1
    <2>1. y \in Nat /\ y < Total /\ x <= y /\ y + 1 <= x + n /\ c[j] = y
      <3>1. c[j] = y
        BY <1>5
      <3>2. y \in Nat /\ y < Total /\ x <= y /\ y + 1 <= x + n
        BY <1>2
      <3> QED
        BY <3>1, <3>2
    <2>2. PICK k \in File : \E o \in 0 .. FileLength[k] - 1 : Offset[k] + o = y
      <3> HIDE DEF y
      <3> QED
        BY <2>1, ByteIsSomewhere
    <2>3. PICK o \in 0 .. FileLength[k] - 1 : Offset[k] + o = y
      BY <2>2
    <2>4. g[j] = files[k][o]
      BY <1>4, <2>3
    <2> HIDE DEF y
    <2>5. InPiece(i, k, o)
      BY <1>6, <2>1, <2>3, Files
    <2> QED
      BY <1>10, <2>1, <2>3, <2>4, <2>5
  <1>11. (\A j \in 1 .. n : g[j] = c[j]) => g = c
    BY <1>3, <1>5, SameSeq
  <1> QED
    BY <1>7, <1>8, <1>9, <1>10, <1>11 DEF g

LEMMA PieceCheckedKept ==
    ASSUME Inv, Kept, PieceChecked
    PROVE  Kept'
  <1>1. /\ main = "checking" /\ main' = main /\ HasRead("main") /\ StopReading("main")
        /\ good' = IF HashMatches(checked, reading["main"].got)
                   THEN good \cup {checked} ELSE good
        /\ checked' = checked + 1
        /\ UNCHANGED <<downloaded, peerVars, writing, accepted, files, queue, fm,
                       trackerVars>>
    BY DEF PieceChecked
  <1> PICK R \in SUBSET Peer : R = Promised
    BY DEF Promised
  <1>2. Quiet /\ Checked /\ checked \in Nat /\ StoreInv(R) /\ R \in SUBSET Reader
    BY <1>1, Readers DEF Kept, HashCheck, Inv, Typed
  <1> DEFINE e == reading["main"]
  <1>3. e # NotReading
    BY <1>1 DEF HasRead
  <1>4. /\ checked < NumPieces /\ e.offset = checked * PieceLength /\ e.length = PieceLength
        /\ FromFiles(e) /\ good = Whole(files) \cap (0 .. checked - 1)
    BY <1>2, <1>3 DEF Checked
  <1>5. checked \in Piece
    BY <1>2, <1>4, Sizes DEF Piece
  <1>6. HashMatches(checked, e.got) <=> checked \in Whole(files)
    BY <1>1, <1>2, <1>4, <1>5, HashIsRight
  <1>7. good' = Whole(files') \cap (0 .. checked' - 1)
    <2>1. 0 .. (checked + 1) - 1 = (0 .. checked - 1) \cup {checked}
      BY <1>2
    <2> QED
      BY <1>1, <1>4, <1>6, <2>1
  <1>8. /\ StoreInv(R)' /\ reading'["main"] = NotReading
        /\ \A p \in Reader \ {"main"} : reading'[p] = reading[p]
    BY <1>1, <1>2, Readers, StoreStops
  <1>13. StoreInv(Promised)'
    <2>1. told' = told /\ \A p \in Peer : reading'[p] = reading[p]
      BY <1>1, <1>8, Readers DEF peerVars
    <2> QED
      BY <1>8, <2>1, PromiseStays
  <1>9. Quiet'
    BY <1>1, <1>2, <1>8, Readers DEF Quiet
  <1>10. Checked'
    <2>1. FromFiles(NotReading)'
      BY DEF FromFiles, NotReading
    <2>2. FromFiles(reading["main"])'
      BY <1>8, <2>1 DEF FromFiles
    <2> QED
      BY <1>7, <1>8, <2>2 DEF Checked
  <1>11. Numbers' /\ OnlyMarked'
    <2>1. checked' <= NumPieces /\ good' \subseteq Piece
      BY <1>1, <1>2, <1>4, <1>5, Sizes DEF Kept, Numbers
    <2> QED
      BY <1>1, <2>1, OnlyMarkedStays DEF Kept, Numbers, trackerVars, peerVars
  <1>12. WritingOK' /\ MarkedOnItsWay'
    BY <1>1, <1>2 DEF WritingOK, MarkedOnItsWay, Quiet, NotWriting
  <1> QED
    BY <1>1, <1>9, <1>10, <1>11, <1>12, <1>13 DEF Kept, HashCheck

\* What is right is what is whole, and that is what counts as downloaded.
LEMMA AllCheckedIs ==
    ASSUME Kept, AllChecked
    PROVE  downloaded = {} /\ downloaded' = Whole(files)
  <1>1. main = "checking" /\ checked = NumPieces /\ downloaded' = good
    BY DEF AllChecked
  <1>2. downloaded = {} /\ good = Whole(files) \cap (0 .. NumPieces - 1)
    BY <1>1 DEF Kept, HashCheck, Quiet, Checked
  <1> QED
    BY <1>1, <1>2 DEF Whole, Piece

LEMMA AllCheckedKept ==
    ASSUME Kept, AllChecked
    PROVE  Kept'
  <1>1. /\ main = "checking" /\ main' \in {"contacting", "panicked"}
        /\ UNCHANGED <<checkVars, peerVars, writing, storeVars, net, answer>>
    BY DEF AllChecked, AskTrackers, trackerVars
  <1>2. downloaded = {} /\ downloaded' = Whole(files) /\ writing = NotWriting
    BY <1>1, AllCheckedIs DEF Kept, HashCheck, Quiet
  <1>3. StoreInv(Promised)' /\ IsContent(files)
    BY <1>1, StoreSame DEF Kept, StoreInv, StoreAt, peerVars
  <1>4. MarkedOnItsWay'
    BY <1>1, <1>2, <1>3, WholeOnItsWay DEF MarkedOnItsWay, storeVars
  <1>5. WritingOK'
    BY <1>1, <1>2 DEF WritingOK, NotWriting
  <1>6. Numbers'
    BY <1>1, <1>2 DEF Kept, Numbers, checkVars, peerVars, Whole
  <1>7. OnlyMarked'
    BY <1>1, <1>2, MoreMarked DEF Kept, OnlyMarked, peerVars
  <1>8. HashCheck'
    BY <1>1, PastCheck
  <1> QED
    BY <1>3, <1>4, <1>5, <1>6, <1>7, <1>8 DEF Kept

\* What a tracker answers is a response.
LEMMA ContactKept ==
    ASSUME Kept, Contact
    PROVE  Kept'
  <1>1. /\ main = "contacting" /\ main' = main /\ TrackerNext
        /\ UNCHANGED <<checkVars, downloaded, peerVars, writing, storeVars>>
    BY DEF Contact
  <1>2. answer \in Response /\ \A m \in net : m.response \in Response
    BY DEF Kept, Numbers
  <1>3. \A kind, id : \A m \in Answers(kind, id) : m.response \in Response
    BY Responses DEF Answers
  <1>4. answer' \in Response /\ \A m \in net' : m.response \in Response
    <2>1. CASE UrlFails \/ NoTrackerLeft \/ AssertionFails
      BY <1>2, <2>1 DEF UrlFails, TryNext, NoTrackerLeft, AssertionFails
    <2>2. CASE AskHttp
      BY <1>2, <1>3, <2>2 DEF AskHttp, Send
    <2>3. CASE HttpAnswers
      BY <1>2, <2>3 DEF HttpAnswers, Accept, TryNext
    <2>4. CASE SendConnect
      BY <1>2, <1>3, <2>4 DEF SendConnect, Send
    <2>5. CASE SendAnnounce
      BY <1>2, <1>3, <2>5 DEF SendAnnounce, Send, Take
    <2>6. CASE AnnounceAnswers
      BY <1>2, <2>6 DEF AnnounceAnswers, Accept
    <2> QED
      BY <1>1, <2>1, <2>2, <2>3, <2>4, <2>5, <2>6 DEF TrackerNext
  <1>5. Numbers' /\ OnlyMarked'
    BY <1>1, <1>4, OnlyMarkedStays DEF Kept, Numbers, checkVars, peerVars
  <1>6. HashCheck' /\ told' = told
    BY <1>1, PastCheck DEF peerVars
  <1> QED
    BY <1>1, <1>5, <1>6, StoreSame DEF Kept

LEMMA StartingKept ==
    ASSUME Inv, Kept, Starting
    PROVE  Kept'
  <1>1. CASE StartPeers \/ Publish \/ MainPanics
    <2>1. /\ main' \notin {"loading", "checking"}
          /\ UNCHANGED <<checked, good, accepted, downloaded, mail, outbox, told, writing,
                         storeVars, net>>
          /\ answer' \in {answer, Junk} /\ listed' \in {listed, {p \in Peer : conn[p] # "absent"}}
      BY <1>1 DEF StartPeers, Publish, MainPanics, startVars, checkVars, trackerVars,
                  peerVars
    <2>2. Numbers' /\ OnlyMarked' /\ HashCheck'
      BY <2>1, OnlyMarkedStays, PastCheck, Responses DEF Kept, Numbers
    <2> QED
      BY <2>1, <2>2, StoreSame DEF Kept
  <1> QED
    BY <1>1, LoadKept, CheckPieceKept, PieceCheckedKept, AllCheckedKept, ContactKept
       DEF Starting

-----------------------------------------------------------------------------
(* ... over the steps of peers.                                            *)

\* Peers come, go and are told, by steps that leave the files alone.
LEMMA TellingKept ==
    ASSUME Inv, Kept, NEW p \in Peer,
           \/ AcceptPeer(p) \/ PushPeer(p) \/ HandlerReady(p) \/ Handshake(p)
           \/ Disconnect(p) \/ TakeMail(p) \/ RemoteRequest(p) \/ WriterTells(p)
    PROVE  Kept'
  <1>1. /\ UNCHANGED <<checked, good, downloaded, writing, storeVars, trackerVars>>
        /\ listed' \subseteq listed \cup {p} /\ accepted' \subseteq accepted \cup {p}
    BY DEF AcceptPeer, PushPeer, HandlerReady, Handshake, Disconnect, TakeMail,
           RemoteRequest, WriterTells, startVars, checkVars
  <1>2. HashCheck'
    <2>1. main' \notin {"loading", "checking"}
      <3>1. CASE AcceptPeer(p) \/ PushPeer(p)
        BY <3>1 DEF AcceptPeer, PushPeer
      <3>2. CASE \/ HandlerReady(p) \/ Handshake(p) \/ Disconnect(p) \/ TakeMail(p)
                 \/ RemoteRequest(p) \/ WriterTells(p)
        <4>1. main' = main /\ conn[p] # "absent"
          BY <3>2 DEF HandlerReady, Handshake, Disconnect, TakeMail, RemoteRequest,
                      WriterTells, HandlerFree
        <4> QED
          BY <4>1, AtWork
      <3> QED
        BY <3>1, <3>2
    <2> QED
      BY <2>1, PastCheck
  <1>3. Numbers'
    BY <1>1 DEF Kept, Numbers, trackerVars
  <1> DEFINE M == MessageOf(downloaded)
  <1>4. /\ told[p] \subseteq downloaded /\ mail[p] \subseteq downloaded
        /\ outbox[p] \in Seq(M)
        /\ OnlyMarked
    BY DEF Kept, OnlyMarked
  <1>5. /\ told \in [Peer -> SUBSET Nat] /\ mail \in [Peer -> SUBSET Nat]
        /\ outbox \in [Peer -> Seq(WriterMessage)]
    BY DEF Inv, Typed
  <1>6. SendBitfield \in M /\ \A i \in downloaded : SendHave(i) \in M
    BY DEF MessageOf
  <1>7. \A m \in M : m.type = "have" => m.piece \in downloaded
    <2> SUFFICES ASSUME NEW m \in M, m.type = "have"
                 PROVE  m.piece \in downloaded
      OBVIOUS
    <2>1. PICK i \in downloaded : m = SendHave(i)
      BY MessagesDiffer DEF MessageOf
    <2> QED
      BY <2>1, MessagesDiffer
  <1> HIDE DEF M
  <1>8. OnlyMarked'
    <2>1. CASE AcceptPeer(p) \/ PushPeer(p) \/ HandlerReady(p)
      BY <1>1, <1>4, <2>1, OnlyMarkedStays DEF AcceptPeer, PushPeer, HandlerReady
    <2>2. CASE Handshake(p)
      <3>1. /\ UNCHANGED <<told, mail>> /\ outbox' = [outbox EXCEPT ![p] = <<SendBitfield>>]
        BY <2>2 DEF Handshake
      <3>2. <<SendBitfield>> \in Seq(M)
        BY <1>6
      <3> QED
        BY <1>1, <1>4, <1>5, <3>1, <3>2, OnePeerMarked DEF M
    <2>3. CASE Disconnect(p)
      <3>1. /\ UNCHANGED told /\ mail' = [mail EXCEPT ![p] = {}]
            /\ outbox' = [outbox EXCEPT ![p] = <<>>]
        BY <2>3 DEF Disconnect
      <3>2. <<>> \in Seq(M)
        OBVIOUS
      <3> QED
        BY <1>1, <1>4, <1>5, <3>1, <3>2, OnePeerMarked DEF M
    <2>4. CASE TakeMail(p)
      <3>1. PICK i \in mail[p] :
                /\ mail' = [mail EXCEPT ![p] = mail[p] \ {i}]
                /\ outbox' = [outbox EXCEPT ![p] = Append(outbox[p], SendHave(i))]
        BY <2>4 DEF TakeMail
      <3>2. UNCHANGED told
        BY <2>4 DEF TakeMail
      <3>3. Append(outbox[p], SendHave(i)) \in Seq(M)
        BY <1>4, <1>6, <3>1
      <3> QED
        BY <1>1, <1>4, <1>5, <3>1, <3>2, <3>3, OnePeerMarked DEF M
    <2>5. CASE RemoteRequest(p)
      <3>1. PICK b \in Answerable :
                outbox' = [outbox EXCEPT ![p] = Append(outbox[p], SendBlock(b))]
        BY <2>5 DEF RemoteRequest, Answerable
      <3>2. UNCHANGED <<told, mail>>
        BY <2>5 DEF RemoteRequest
      <3>3. SendBlock(b) \in M
        BY DEF M, MessageOf
      <3>4. Append(outbox[p], SendBlock(b)) \in Seq(M)
        BY <1>4, <3>3
      <3> QED
        BY <1>1, <1>4, <1>5, <3>1, <3>2, <3>4, OnePeerMarked DEF M
    <2>6. CASE WriterTells(p)
      <3> DEFINE first == Head(outbox[p])
                 rest == Tail(outbox[p])
      <3>1. first \in M /\ rest \in Seq(M)
        <4>1. outbox[p] # <<>>
          BY <2>6 DEF WriterTells
        <4> QED
          BY <1>4, <4>1, HeadAndTailToSet
      <3>2. UNCHANGED mail /\ outbox' = [outbox EXCEPT ![p] = rest]
        BY <2>6 DEF WriterTells
      <3>3. CASE first.type = "bitfield"
        <4>1. told' = [told EXCEPT ![p] = downloaded] \/ told' = told
          <5>1. first.type # "have"
            BY <3>3
          <5> QED
            BY <2>6, <5>1 DEF WriterTells
        <4> HIDE DEF first, rest
        <4>2. told'[p] \subseteq downloaded /\ \A q \in Peer \ {p} : told'[q] = told[q]
          BY <1>4, <1>5, <4>1
        <4>3. /\ outbox'[p] = rest /\ mail' = mail
              /\ \A q \in Peer \ {p} : outbox'[q] = outbox[q]
          BY <1>5, <3>2
        <4> QED
          BY <1>1, <1>4, <3>1, <4>2, <4>3, OnePeerMarked DEF M
      <3>4. CASE first.type = "have"
        <4>1. told' = [told EXCEPT ![p] = told[p] \cup {first.piece}]
          <5>1. first.type # "bitfield"
            BY <3>4
          <5> QED
            BY <2>6, <5>1 DEF WriterTells
        <4>2. first.piece \in downloaded
          BY <1>7, <3>1, <3>4
        <4> HIDE DEF first, rest
        <4> QED
          BY <1>1, <1>4, <1>5, <3>1, <3>2, <4>1, <4>2, OnePeerMarked DEF M
      <3> QED
        BY <2>6, <3>3, <3>4 DEF WriterTells
    <2> QED
      BY <2>1, <2>2, <2>3, <2>4, <2>5, <2>6
  <1>9. \A q \in Peer : told'[q] = told[q] \/ reading[q] = NotReading
    BY <1>5 DEF AcceptPeer, PushPeer, HandlerReady, Handshake, Disconnect, TakeMail,
                RemoteRequest, WriterTells
  <1> QED
    BY <1>1, <1>2, <1>3, <1>8, <1>9, StoreSame DEF Kept

\* Where a read begins is a number, and where it ends too unless it begins beyond the
\* torrent.
LEMMA RequestFits ==
    ASSUME NEW b \in Answerable, NEW start, start = Wrap(PieceStart(b.index) + b.begin)
    PROVE  /\ start \in Nat /\ b.length \in Nat
           /\ start + b.length < Limit \/ Total <= start
  <1>1. /\ b.index \in Nat /\ b.begin \in Nat /\ b.length \in Nat
        /\ b.length <= MAX_ALLOWED_BLOCK_SIZE /\ MAX_ALLOWED_BLOCK_SIZE \in Nat
    BY SessionAssumption DEF SessionAssumption, Answerable
  <1>2. Total + MAX_ALLOWED_BLOCK_SIZE <= Limit
    BY LargestAssumption DEF LargestAssumption, Total, Limit
  <1>3. \A n \in Nat : Wrap(n) \in Nat
    BY LimitType DEF Wrap, Limit
  <1>4. start \in Nat
    <2>1. b.index * PieceLength \in Nat
      BY <1>1, Sizes
    <2>2. PieceStart(b.index) \in Nat
      BY <1>3, <2>1 DEF PieceStart
    <2> QED
      BY <1>1, <1>3, <2>2
  <1> QED
    BY <1>1, <1>2, <1>4, WithinTotal, LimitType

\* A range is read; its bytes are on their way if it is within the pieces told of.
LEMMA WriterReadsKept ==
    ASSUME Inv, Kept, NEW p \in Peer, WriterReads(p)
    PROVE  Kept'
  <1> DEFINE m == Head(outbox[p])
             b == m.block
             rest == Tail(outbox[p])
             M == MessageOf(downloaded)
  <1>1. /\ conn[p] = "open" /\ outbox[p] # <<>> /\ m.type = "block"
        /\ StartRead(p, Wrap(PieceStart(b.index) + b.begin), b.length)
        /\ outbox' = [outbox EXCEPT ![p] = rest]
        /\ UNCHANGED <<startVars, main, downloaded, listed, conn, mail, told, writing,
                       files, queue, fm>>
    BY DEF WriterReads
  <1>2. m \in M /\ rest \in Seq(M)
    BY <1>1, HeadAndTailToSet DEF Kept, OnlyMarked
  <1>3. b \in Answerable
    <2>1. PICK c \in Answerable : m = SendBlock(c)
      BY <1>1, <1>2, MessagesDiffer DEF MessageOf
    <2> QED
      BY <2>1 DEF SendBlock
  <1> HIDE DEF m, b, rest, M
  <1> DEFINE start == Wrap(PieceStart(b.index) + b.begin)
             n == b.length
  <1>4. start \in Nat /\ n \in Nat /\ (start + n < Limit \/ Total <= start)
    BY <1>3, RequestFits
  <1> HIDE DEF start, n
  <1>5. /\ StartRead(p, start, n) /\ reading[p] = NotReading
        /\ reading'[p].offset = start /\ reading'[p].length = n
        /\ \A q \in Peer \ {p} : reading'[q] = reading[q]
    <2>1. StartRead(p, start, n)
      BY <1>1 DEF start, n
    <2>2. reading \in [Reader -> Reading] /\ p \in Reader
      BY Readers DEF Kept, StoreInv, StoreAt
    <2> QED
      BY <2>1, <2>2, Readers DEF StartRead, NotReading
  <1> PICK R \in SUBSET Peer : R = {q \in Peer : AsksWithin(q)'}
    OBVIOUS
  <1>6. Promised' = R
    BY DEF Promised
  <1>7. StoreInv(R)
    <2>1. \A q \in Peer \ {p} : AsksWithin(q)' => AsksWithin(q)
      BY <1>1, <1>5 DEF AsksWithin
    <2>2. R \subseteq Promised
      BY <1>5, <2>1, IdleAsksWithin DEF Promised
    <2> QED
      BY <2>2, FewerReaders DEF Kept
  <1>9. ASSUME p \in R, fm = "up", NEW k \in File, NEW o \in 0 .. FileLength[k] - 1,
               start <= Offset[k] + o, Offset[k] + o < start + n
        PROVE  OnItsWay(files, queue, k, o)
    <2> DEFINE y == Offset[k] + o
    <2>1. y \in Nat /\ start <= y /\ y < start + n
      BY <1>9, Offsets, Files
    <2> HIDE DEF y
    <2>2. y \in start .. start + n - 1
      BY <1>4, <2>1
    <2>3. start .. start + n - 1 \subseteq
              UNION {PieceStart(i) .. PieceStart(i) + PieceSize(i) - 1 : i \in told[p]}
      BY <1>1, <1>5, <1>9 DEF AsksWithin
    <2>4. PICK i \in told[p] : y \in PieceStart(i) .. PieceStart(i) + PieceSize(i) - 1
      BY <2>2, <2>3
    <2>5. i \in downloaded /\ i \in Piece
      BY DEF Kept, OnlyMarked, Numbers
    <2>6. InPiece(i, k, o)
      <3> DEFINE x == i * PieceLength
                 s == PieceSize(i)
      <3>1. x \in Nat /\ s \in Nat /\ PieceStart(i) = x
        BY <2>5, PieceRange
      <3>2. y \in x .. x + s - 1
        BY <2>4, <3>1
      <3> HIDE DEF x, s
      <3>3. x <= y /\ y + 1 <= x + s
        BY <2>1, <3>1, <3>2
      <3> QED
        BY <3>3 DEF InPiece, Holds, x, s, y
    <2>7. PieceOnItsWay(files, queue, i)
      BY <1>9, <2>5 DEF Kept, MarkedOnItsWay
    <2> QED
      BY <2>6, <2>7 DEF PieceOnItsWay
  <1>8. StoreInv(R)'
    <2>1. p \in Reader /\ R \in SUBSET Reader /\ UNCHANGED <<files, queue, fm>>
      BY <1>1, Readers
    <2> QED
      BY <1>4, <1>5, <1>7, <1>9, <2>1, StoreBegins
  <1>10. StoreInv(Promised)'
    BY <1>6, <1>8 DEF StoreInv
  <1>11. OnlyMarked'
    BY <1>1, <1>2, OnePeerMarked DEF Kept, OnlyMarked, Inv, Typed, M
  <1>12. HashCheck'
    BY <1>1, AtWork, PastCheck
  <1>13. Numbers'
    BY <1>1 DEF Kept, Numbers, startVars, checkVars, trackerVars
  <1>14. WritingOK' /\ MarkedOnItsWay'
    BY <1>1, WritingStays, MarkedStays, ForwardSame DEF Kept
  <1> QED
    BY <1>10, <1>11, <1>12, <1>13, <1>14 DEF Kept

\* What is read is sent, or the writer dies.
LEMMA ReadDoneKept ==
    ASSUME Inv, Kept, NEW p \in Peer, WriterSends(p) \/ WriterPanics(p)
    PROVE  Kept'
  <1>1. /\ HasRead(p) \/ fm = "down" \/ reading[p] = NotReading
        /\ reading[p] # NotReading \/ conn[p] = "open"
        /\ StopReading(p)
        /\ UNCHANGED <<startVars, main, downloaded, listed, mail, outbox, told, writing,
                       files, queue, fm>>
    <2>1. CASE WriterSends(p)
      BY <2>1 DEF WriterSends, peerVars, HasRead
    <2>2. CASE WriterPanics(p)
      BY <2>2 DEF WriterPanics, ReadPanics, HasRead
    <2> QED
      BY <2>1, <2>2
  <1>3. StoreInv(Promised)'
    <2> PICK R \in SUBSET Reader : R = Promised
      BY Readers DEF Promised
    <2>1. StoreInv(R) /\ p \in Reader
      BY Readers DEF Kept
    <2>2. StopReading(p) /\ UNCHANGED <<files, queue, fm>>
      BY <1>1
    <2>3. /\ StoreInv(R)' /\ reading'[p] = NotReading
          /\ \A q \in Reader \ {p} : reading'[q] = reading[q]
      BY <1>1, <2>1, <2>2, StoreStops
    <2> QED
      BY <1>1, <2>3, Readers, PromiseStays
  <1>4. HashCheck'
    <2>1. main \notin {"loading", "checking"}
      <3>1. CASE reading[p] # NotReading
        BY <3>1 DEF Kept, HashCheck, Quiet
      <3>2. CASE conn[p] = "open"
        BY <3>2, AtWork
      <3> QED
        BY <1>1, <3>1, <3>2
    <2> QED
      BY <1>1, <2>1, PastCheck
  <1>5. Numbers' /\ OnlyMarked'
    BY <1>1, OnlyMarkedStays DEF Kept, Numbers, startVars, checkVars, trackerVars
  <1>6. WritingOK' /\ MarkedOnItsWay'
    BY <1>1, WritingStays, MarkedStays, ForwardSame DEF Kept
  <1> QED
    BY <1>3, <1>4, <1>5, <1>6 DEF Kept

-----------------------------------------------------------------------------
(* ... over the steps of a piece, and of the file manager.                 *)

LEMMA CompletePieceKept ==
    ASSUME Inv, Kept, NEW p \in Peer, CompletePiece(p)
    PROVE  Kept'
  <1>1. /\ main \in {"looping", "accepting", "deaf"}
        /\ UNCHANGED <<startVars, main, downloaded, peerVars, storeVars>>
    BY DEF CompletePiece
  <1>2. PICK i \in Piece \ downloaded :
            writing' = [stage |-> "write", piece |-> i, by |-> p,
                        due |-> WritesOf(i, PieceContent(i))]
    BY DEF CompletePiece
  <1> DEFINE w == WritesOf(i, PieceContent(i))
  <1>3. /\ w \in Seq(WriteMessage) /\ w # <<>>
        /\ \A k \in File : \A o \in 0 .. FileLength[k] - 1 :
               InPiece(i, k, o) => \E n \in DOMAIN w : Writes(w[n], k, o)
    BY WritesOfPiece
  <1> HIDE DEF w
  <1>4. writing'.stage = "write" /\ writing'.piece = i /\ writing'.due = w
    BY <1>2 DEF w
  <1>5. PieceWritten'
    BY <1>3, <1>4 DEF PieceWritten, ByteWritten
  <1>6. WritingOK'
    BY <1>1, <1>3, <1>4, <1>5 DEF WritingOK
  <1>7. Numbers' /\ OnlyMarked' /\ HashCheck'
    BY <1>1, OnlyMarkedStays, PastCheck
       DEF Kept, Numbers, startVars, checkVars, trackerVars, peerVars
  <1> QED
    BY <1>1, <1>6, <1>7, StoreSame DEF Kept, peerVars

LEMMA WriteSectionKept ==
    ASSUME Inv, Kept, WriteSection
    PROVE  Kept'
  <1> DEFINE due == writing.due
             m == Head(due)
             i == writing.piece
  <1>1. /\ writing.stage = "write" /\ writing # NotWriting /\ Enqueue(m)
        /\ writing' = IF Len(due) = 1 THEN Advanced ELSE [writing EXCEPT !.due = Tail(due)]
        /\ UNCHANGED <<startVars, main, downloaded, peerVars, files, fm, reading>>
    BY DEF WriteSection, NotWriting
  <1>2. fm = "up"
    BY <1>1 DEF Enqueue
  <1>3. /\ i \in Piece \ downloaded /\ due \in Seq(WriteMessage) /\ due # <<>>
        /\ PieceWritten
    BY <1>1, <1>2 DEF Kept, WritingOK
  <1>4. /\ m \in WriteMessage /\ m = due[1] /\ Len(due) \in Nat /\ Len(due) >= 1
        /\ Tail(due) \in Seq(WriteMessage) /\ Len(Tail(due)) = Len(due) - 1
        /\ \A n \in 1 .. Len(due) - 1 : Tail(due)[n] = due[n + 1]
    BY <1>3, Taken
  <1>5. /\ StoreInv(Promised)' /\ Forward(files, queue, files', queue')
        /\ \A k, o : Writes(m, k, o) => OnItsWay(files', queue', k, o)
    <2> HIDE DEF m
    <2> PICK R \in SUBSET Reader : R = Promised
      BY Readers DEF Promised
    <2>1. /\ StoreInv(R)' /\ Forward(files, queue, files', queue')
          /\ \A k, o : Writes(m, k, o) => OnItsWay(files', queue', k, o)
      BY <1>1, <1>4, StoreEnqueues DEF Kept
    <2>2. StoreInv(Promised)'
      BY <1>1, <2>1, PromiseStays DEF peerVars
    <2> QED
      BY <2>1, <2>2
  <1>6. ASSUME NEW k \in File, NEW o \in 0 .. FileLength[k] - 1, InPiece(i, k, o)
        PROVE  \/ OnItsWay(files', queue', k, o)
               \/ \E n \in 1 .. Len(due) - 1 : Writes(Tail(due)[n], k, o)
    <2>1. CASE OnItsWay(files, queue, k, o)
      BY <1>5, <2>1 DEF Forward
    <2>2. CASE ~OnItsWay(files, queue, k, o)
      <3>1. PICK n \in 1 .. Len(due) : Writes(due[n], k, o)
        BY <1>3, <1>6, <2>2 DEF PieceWritten, ByteWritten
      <3>2. CASE n = 1
        BY <1>4, <1>5, <3>1, <3>2
      <3>3. CASE n # 1
        <4>1. n - 1 \in 1 .. Len(due) - 1 /\ (n - 1) + 1 = n
          BY <1>4, <3>3
        <4>2. Tail(due)[n - 1] = due[n]
          BY <1>4, <4>1
        <4> QED
          BY <3>1, <4>1, <4>2
      <3> QED
        BY <3>2, <3>3
    <2> QED
      BY <2>1, <2>2
  <1>7. WritingOK'
    <2>1. CASE Len(due) = 1
      <3>1. writing'.stage = "mark" /\ writing'.piece = i
        BY <1>1, <2>1 DEF Inv, Typed, Advanced, After, NotWriting
      <3>2. PieceOnItsWay(files', queue', i)
        <4>1. 1 .. Len(due) - 1 = {}
          BY <2>1
        <4> QED
          BY <1>6, <4>1 DEF PieceOnItsWay
      <3> HIDE DEF i, due
      <3> QED
        BY <1>1, <1>3, <3>1, <3>2 DEF WritingOK
    <2>2. CASE Len(due) # 1
      <3> DEFINE rest == Tail(due)
      <3>1. writing'.stage = "write" /\ writing'.piece = i /\ writing'.due = rest
        BY <1>1, <2>2 DEF Inv, Typed
      <3>2. /\ rest \in Seq(WriteMessage) /\ rest # <<>> /\ Len(rest) = Len(due) - 1
        <4> DEFINE n == Len(due)
        <4>1. rest \in Seq(WriteMessage) /\ Len(rest) = n - 1 /\ n \in Nat /\ n >= 1
          BY <1>4
        <4> HIDE DEF n
        <4>2. n # 1
          BY <2>2 DEF n
        <4> HIDE DEF rest
        <4>3. Len(rest) > 0
          BY <4>1, <4>2
        <4> QED
          BY <4>1, <4>3 DEF n
      <3> HIDE DEF rest
      <3>3. PieceWritten'
        BY <1>6, <3>1, <3>2 DEF PieceWritten, ByteWritten, rest
      <3> HIDE DEF i, due
      <3> QED
        BY <1>1, <1>3, <3>1, <3>2, <3>3 DEF WritingOK
    <2> QED
      BY <2>1, <2>2
  <1>8. MarkedOnItsWay' /\ OnlyMarked'
    BY <1>1, <1>5, MarkedStays, OnlyMarkedStays DEF Kept, peerVars
  <1>9. HashCheck' /\ Numbers'
    <2>1. main' \notin {"loading", "checking"}
      BY <1>1 DEF Inv, NobodyYet
    <2> QED
      BY <1>1, <2>1, PastCheck DEF Kept, Numbers, startVars, checkVars, trackerVars, peerVars
  <1> QED
    BY <1>5, <1>7, <1>8, <1>9 DEF Kept

\* The handler is gone, the piece is marked, or it is announced.
LEMMA PieceKept ==
    ASSUME Inv, Kept, WriteFails \/ Mark \/ AnnouncePiece
    PROVE  Kept'
  <1> DEFINE i == writing.piece
  <1>1. /\ writing # NotWriting /\ UNCHANGED <<startVars, main, listed, told, storeVars>>
    BY DEF WriteFails, Mark, AnnouncePiece, NotWriting, peerVars
  <1>2. main' \notin {"loading", "checking"}
    BY <1>1 DEF Inv, NobodyYet
  <1>3. CASE WriteFails
    <2>1. /\ writing' = NotWriting /\ UNCHANGED downloaded
          /\ mail' = [mail EXCEPT ![writing.by] = {}]
          /\ outbox' = [outbox EXCEPT ![writing.by] = <<>>]
      BY <1>3 DEF WriteFails
    <2>2. WritingOK'
      BY <2>1 DEF WritingOK, NotWriting
    <2>3. OnlyMarked'
      <3>1. <<>> \in Seq(MessageOf(downloaded))
        OBVIOUS
      <3>2. \A p \in Peer : /\ mail'[p] \in {mail[p], {}} /\ outbox'[p] \in {outbox[p], <<>>}
        BY <2>1 DEF Inv, Typed
      <3> QED
        BY <1>1, <2>1, <3>1, <3>2 DEF Kept, OnlyMarked
    <2> QED
      BY <1>1, <1>2, <2>1, <2>2, <2>3, StoreSame, PastCheck
         DEF Kept, Numbers, startVars, checkVars, trackerVars
  <1>4. CASE Mark
    <2>1. /\ writing.stage = "mark" /\ writing' = Advanced
          /\ downloaded' = downloaded \cup {i} /\ UNCHANGED peerVars
      BY <1>4 DEF Mark
    <2>2. /\ i \in Piece /\ (fm = "up" => PieceOnItsWay(files, queue, i))
      BY <2>1 DEF Kept, WritingOK
    <2>3. writing'.stage = "announce" /\ writing'.piece = i
      BY <2>1, NextStage DEF Inv, Typed
    <2> HIDE DEF i
    <2>4. WritingOK'
      BY <2>1, <2>3 DEF WritingOK
    <2>5. MarkedOnItsWay'
      BY <1>1, <2>1, <2>2 DEF Kept, MarkedOnItsWay, storeVars
    <2>6. OnlyMarked'
      <3>1. Seq(MessageOf(downloaded)) \subseteq Seq(MessageOf(downloaded'))
        BY <2>1, MoreMarked
      <3> QED
        BY <2>1, <3>1 DEF Kept, OnlyMarked, peerVars
    <2>7. Numbers'
      BY <1>1, <2>1, <2>2 DEF Kept, Numbers, startVars, checkVars, trackerVars, peerVars
    <2> QED
      BY <1>1, <1>2, <2>4, <2>5, <2>6, <2>7, StoreSame, PastCheck DEF Kept
  <1>5. CASE AnnouncePiece
    <2>1. /\ writing.stage = "announce" /\ writing' = Advanced
          /\ mail' = [p \in Peer |-> IF p \in listed /\ HasMailbox(p)
                                     THEN mail[p] \cup {i} ELSE mail[p]]
          /\ UNCHANGED <<downloaded, listed, outbox, told>>
      BY <1>5 DEF AnnouncePiece
    <2>2. i \in downloaded
      BY <2>1 DEF Kept, WritingOK
    <2>3. writing' = NotWriting
      BY <2>1, NextStage DEF Inv
    <2>4. WritingOK'
      BY <2>3 DEF WritingOK, NotWriting
    <2>5. OnlyMarked'
      BY <2>1, <2>2 DEF Kept, OnlyMarked
    <2> QED
      BY <1>1, <1>2, <2>1, <2>4, <2>5, StoreSame, PastCheck
         DEF Kept, Numbers, startVars, checkVars, trackerVars
  <1> QED
    BY <1>3, <1>4, <1>5

\* While the hash check goes on the file manager only reads, for the main task.
LEMMA FileManagerChecked ==
    ASSUME Kept, FileManager, Quiet, Checked
    PROVE  Quiet' /\ Checked'
  <1>1. UNCHANGED <<startVars, main, downloaded, peerVars, writing>>
    BY DEF FileManager
  <1> PICK R \in SUBSET Reader : R = Promised
    BY Readers DEF Promised
  <1>2. /\ StoreInv(R) /\ queue \in Seq(Message) /\ IsContent(files)
        /\ reading \in [Reader -> Reading]
    BY DEF Kept, StoreInv, StoreAt
  <1>3. CASE DoWrite
    <2>1. queue # <<>> /\ queue[1].op = "write"
      BY <1>2, <1>3, Readers, StoreWrites
    <2>2. 1 \in 1 .. Len(queue)
      BY <1>2, <2>1
    <2> QED
      BY <2>1, <2>2 DEF Quiet
  <1>4. CASE DoRead
    <2>1. PICK r \in Reader : Gets(r)
      BY <1>2, <1>4, Readers, StoreReads
    <2>2. r = "main"
      BY <2>1, SessionAssumption DEF Gets, Quiet, SessionAssumption
    <2>3. UNCHANGED files /\ queue # <<>> /\ queue' = Tail(queue)
      BY <1>2, <1>4, Readers, StoreReads
    <2>4. Quiet'
      <3>1. \A n \in 1 .. Len(queue') : queue'[n].op = "read"
        BY <1>2, <2>3, Taken DEF Quiet
      <3> QED
        BY <1>1, <2>1, <2>2, <3>1, Readers DEF Quiet, Gets
    <2>5. FromFiles(reading["main"])'
      <3> DEFINE e == reading["main"]
                 e2 == reading'["main"]
      <3>1. PICK s \in SectionType :
                \A j \in 1 .. Len(e2.got) : FromFile(files, s, e, e2.got, j)
        BY <2>1, <2>2 DEF Gets
      <3>2. e2.offset = e.offset /\ FromFiles(e)
        BY <2>1, <2>2 DEF Gets, Checked
      <3> HIDE DEF e, e2
      <3> SUFFICES ASSUME NEW j \in 1 .. Len(e2.got), NEW k \in File,
                          NEW o \in 0 .. FileLength[k] - 1, Offset[k] + o = e.offset + j - 1
                   PROVE  e2.got[j] = files[k][o]
        BY <2>3, <3>2 DEF FromFiles, e2
      <3>3. CASE j \in 1 .. Len(e.got) /\ e2.got[j] = e.got[j]
        BY <3>2, <3>3 DEF FromFiles
      <3>4. CASE \E u \in BytesOf(s) : /\ e2.got[j] = files[s.file][u]
                                       /\ Offset[s.file] + u = e.offset + j - 1
        <4>1. PICK u \in BytesOf(s) : /\ e2.got[j] = files[s.file][u]
                                      /\ Offset[s.file] + u = e.offset + j - 1
          BY <3>4
        <4>2. s.file \in File /\ u \in 0 .. FileLength[s.file] - 1
          BY SectionBytes
        <4> DEFINE l == s.file
        <4>3. Offset[k] + o = Offset[l] + u /\ l \in File /\ u \in 0 .. FileLength[l] - 1
          BY <4>1, <4>2
        <4> HIDE DEF l
        <4>4. k = l /\ o = u
          BY <4>3, ByteIsOnce
        <4> QED
          BY <4>1, <4>4 DEF l
      <3> QED
        BY <3>1, <3>3, <3>4 DEF FromFile
    <2>6. Checked'
      BY <1>1, <2>1, <2>2, <2>3, <2>5 DEF Checked, Gets, startVars, checkVars
    <2> QED
      BY <2>4, <2>6
  <1>5. CASE FileManagerFails
    <2>1. queue' = <<>> /\ UNCHANGED <<files, reading>>
      <3>1. /\ UNCHANGED reading
            /\ UNCHANGED files \/ (queue # <<>> /\ queue[1].op = "write")
        BY <1>2, <1>5, StoreFails
      <3>2. queue # <<>> => 1 \in 1 .. Len(queue)
        BY <1>2
      <3> QED
        BY <1>5, <3>1, <3>2 DEF FileManagerFails, Quiet
    <2>2. 1 .. Len(queue') = {}
      BY <2>1
    <2>3. Quiet'
      BY <1>1, <2>1, <2>2 DEF Quiet
    <2>4. Checked'
      BY <1>1, <2>1 DEF Checked, FromFiles, startVars, checkVars
    <2> QED
      BY <2>3, <2>4
  <1>6. ASSUME NEW r \in Reader, SendRead(r)
        PROVE  Quiet' /\ Checked'
    <2>1. reading[r].due # <<>>
      BY <1>6 DEF SendRead
    <2>2. r = "main" /\ reading["main"] # NotReading
      BY <2>1, Idle, SessionAssumption DEF Quiet, SessionAssumption
    <2> DEFINE m == [op |-> "read", section |-> Head(reading[r].due), reader |-> r]
    <2>3. /\ queue' = Append(queue, m) /\ UNCHANGED files
          /\ reading' = [reading EXCEPT ![r].due = Tail(@), ![r].waits = @ + 1]
      BY <1>6 DEF SendRead, Enqueue
    <2>4. m.op = "read"
      OBVIOUS
    <2> HIDE DEF m
    <2>5. \A n \in 1 .. Len(queue') : queue'[n].op = "read"
      <3>1. m \in Message \cup {m} /\ queue \in Seq(Message \cup {m})
        BY <1>2
      <3> DEFINE q2 == queue'
                 l == Len(queue)
      <3>2. /\ Len(q2) = l + 1 /\ l \in Nat /\ q2[l + 1] = m
            /\ \A n \in 1 .. l : q2[n] = queue[n]
        BY <2>3, <3>1, Appended
      <3>3. \A n \in 1 .. l : queue[n].op = "read"
        BY DEF Quiet
      <3> HIDE DEF q2, l
      <3>4. ASSUME NEW n \in 1 .. Len(q2)
            PROVE  q2[n].op = "read"
        <4>1. CASE n = l + 1
          BY <2>4, <3>2, <4>1
        <4>2. CASE n # l + 1
          <5>1. n \in 1 .. l
            BY <3>2, <4>2
          <5> QED
            BY <3>2, <3>3, <5>1
        <4> QED
          BY <4>1, <4>2
      <3> QED
        BY <3>4 DEF q2
    <2>6. \A p \in Peer : reading'[p] = reading[p]
      BY <1>2, <2>2, <2>3, Readers
    <2>7. Quiet'
      BY <1>1, <2>5, <2>6 DEF Quiet
    <2>8. /\ reading'[r].offset = reading[r].offset /\ reading'[r].length = reading[r].length
          /\ reading'[r].got = reading[r].got
      BY <1>2, <1>6, Readers, StoreSends
    <2>9. /\ reading'["main"].offset = reading["main"].offset
          /\ reading'["main"].length = reading["main"].length
          /\ reading'["main"].got = reading["main"].got
      BY <2>2, <2>8
    <2>10. FromFiles(reading["main"])'
      <3>1. FromFiles(reading["main"])
        BY <1>1 DEF Checked
      <3> DEFINE e == reading["main"]
                 d == reading'["main"]
      <3>2. d.got = e.got /\ d.offset = e.offset /\ files' = files
        BY <2>3, <2>9
      <3> SUFFICES \A j \in 1 .. Len(d.got) : \A k \in File :
                     \A o \in 0 .. FileLength[k] - 1 :
                       Offset[k] + o = d.offset + j - 1 => d.got[j] = files'[k][o]
        BY DEF FromFiles
      <3> QED
        BY <3>1, <3>2 DEF FromFiles
    <2>11. Checked'
      BY <1>1, <2>2, <2>3, <2>9, <2>10 DEF Checked, startVars, checkVars
    <2> QED
      BY <2>7, <2>11
  <1> QED
    BY <1>3, <1>4, <1>5, <1>6 DEF FileManager

LEMMA FileManagerKept ==
    ASSUME Inv, Kept, FileManager
    PROVE  Kept'
  <1>1. UNCHANGED <<startVars, main, downloaded, peerVars, writing>>
    BY DEF FileManager
  <1>2. /\ StoreInv(Promised)'
        /\ fm' = "up" => fm = "up" /\ Forward(files, queue, files', queue')
    <2> PICK R \in SUBSET Reader : R = Promised
      BY Readers DEF Promised
    <2> DEFINE Same == \A p \in Reader : /\ reading'[p].offset = reading[p].offset
                                        /\ reading'[p].length = reading[p].length
               On == fm' = "up" => fm = "up" /\ Forward(files, queue, files', queue')
    <2>1. CASE DoWrite
      <3>1. StoreInv(R)' /\ On /\ Same
        BY <2>1, StoreWrites DEF Kept
      <3> QED
        BY <1>1, <3>1, Readers, PromiseStays DEF peerVars
    <2>2. CASE DoRead
      <3>1. StoreInv(R)' /\ On /\ \E r \in Reader : Gets(r)
        BY <2>2, StoreReads DEF Kept
      <3>2. Same
        BY <3>1 DEF Gets
      <3> QED
        BY <1>1, <3>1, <3>2, Readers, PromiseStays DEF peerVars
    <2>3. CASE FileManagerFails
      <3>1. StoreInv(R)' /\ On /\ Same
        BY <2>3, StoreFails DEF Kept
      <3> QED
        BY <1>1, <3>1, Readers, PromiseStays DEF peerVars
    <2>4. ASSUME NEW r \in Reader, SendRead(r)
          PROVE  StoreInv(Promised)' /\ On
      <3>1. StoreInv(R)' /\ On /\ Same
        BY <2>4, StoreSends DEF Kept
      <3> QED
        BY <1>1, <3>1, Readers, PromiseStays DEF peerVars
    <2> QED
      BY <2>1, <2>2, <2>3, <2>4 DEF FileManager
  <1>3. WritingOK' /\ MarkedOnItsWay' /\ OnlyMarked' /\ Numbers'
    BY <1>1, <1>2, WritingStays, MarkedStays, OnlyMarkedStays
       DEF Kept, Numbers, startVars, checkVars, trackerVars, peerVars
  <1>4. HashCheck'
    <2>1. CASE main = "loading"
      <3>1. FALSE
        <4>1. /\ queue = <<>> /\ \A r \in Reader : reading[r] = NotReading
          BY <2>1, SessionAssumption DEF Kept, HashCheck, Quiet, SessionAssumption
        <4>2. \A r \in Reader : reading[r].due = <<>>
          BY <4>1, Idle
        <4> QED
          BY <4>1, <4>2 DEF FileManager, DoWrite, DoRead, FileManagerFails, SendRead
      <3> QED
        BY <3>1
    <2>2. CASE main = "checking"
      BY <1>1, <2>2, FileManagerChecked DEF Kept, HashCheck
    <2>3. CASE main \notin {"loading", "checking"}
      BY <1>1, <2>3, PastCheck
    <2> QED
      BY <2>1, <2>2, <2>3
  <1> QED
    BY <1>2, <1>3, <1>4 DEF Kept

-----------------------------------------------------------------------------
(* The theorems about the bytes.                                           *)

LEMMA NextKept == Inv /\ Kept /\ [Next]_vars => Kept'
  <1> SUFFICES ASSUME Inv, Kept, [Next]_vars PROVE Kept'
    OBVIOUS
  <1>1. CASE UNCHANGED vars
    <2>1. UNCHANGED <<startVars, main, downloaded, peerVars, writing, storeVars>>
      BY <1>1 DEF vars
    <2>2. HashCheck'
      BY <2>1 DEF Kept, HashCheck, Quiet, Checked, FromFiles, startVars, checkVars,
                  storeVars
    <2>3. OnlyMarked' /\ Numbers' /\ told' = told
      BY <2>1, OnlyMarkedStays
         DEF Kept, Numbers, startVars, checkVars, trackerVars, peerVars
    <2> QED
      BY <2>1, <2>2, <2>3, StoreSame DEF Kept
  <1>2. ASSUME NEW p \in Peer,
               \/ AcceptPeer(p) \/ PushPeer(p) \/ HandlerReady(p) \/ Handshake(p)
               \/ Disconnect(p) \/ TakeMail(p) \/ RemoteRequest(p) \/ WriterTells(p)
               \/ WriterReads(p) \/ WriterSends(p) \/ WriterPanics(p) \/ CompletePiece(p)
        PROVE  Kept'
    BY <1>2, TellingKept, WriterReadsKept, ReadDoneKept, CompletePieceKept
  <1> QED
    BY <1>1, <1>2, StartingKept, WriteSectionKept, PieceKept, FileManagerKept, CrashKept
       DEF Next

\* The inductive invariant of the bytes: what is marked is on its way, who asks within
\* the pieces it was told of reads right bytes, the channel serves every reader in
\* turn, whatever it asks for, and until the hash check is done the main task alone
\* reads.
THEOREM BytesInvariance == Spec => []Kept
  BY InitKept, NextKept, Invariance, PTL DEF Spec

\* The stages of the main task.
MainTyped ==
    main \in {"loading", "checking", "contacting", "starting", "looping", "accepting",
              "deaf", "panicked", "exited"}

LEMMA MainStays ==
    ASSUME MainTyped, [Next]_vars
    PROVE  MainTyped'
  <1>1. CASE Starting
    BY <1>1 DEF Starting, Load, CheckPiece, PieceChecked, AllChecked, Contact, StartPeers,
                Publish, MainPanics, MainTyped
  <1>2. ASSUME NEW p \in Peer,
               \/ AcceptPeer(p) \/ PushPeer(p) \/ HandlerReady(p) \/ Handshake(p)
               \/ Disconnect(p) \/ TakeMail(p) \/ RemoteRequest(p) \/ WriterTells(p)
               \/ WriterReads(p) \/ WriterSends(p) \/ WriterPanics(p) \/ CompletePiece(p)
        PROVE  MainTyped'
    BY <1>2 DEF AcceptPeer, PushPeer, HandlerReady, Handshake, Disconnect, TakeMail,
         RemoteRequest, WriterTells, WriterReads, WriterSends, WriterPanics,
         CompletePiece, MainTyped
  <1>3. CASE \/ WriteSection \/ WriteFails \/ Mark \/ AnnouncePiece \/ FileManager
             \/ UNCHANGED vars
    BY <1>3 DEF WriteSection, WriteFails, Mark, AnnouncePiece, FileManager, vars, MainTyped
  <1>4. CASE Crash
    BY <1>4 DEF Crash, Fresh, MainTyped
  <1> QED
    BY <1>1, <1>2, <1>3, <1>4 DEF Next

\* Every variable keeps its type; above all, a torrent's piece numbers are all that
\* mailboxes, writers' channels and downloaded_pieces hold, and the file manager's
\* channel never has more than its 32 messages (file_manager.rs:43).
THEOREM SessionTypeCorrect == Spec => []TypeOK
  <1>1. Init => MainTyped
    BY DEF Init, Fresh, MainTyped
  <1>2. MainTyped /\ [Next]_vars => MainTyped'
    BY MainStays
  <1>3. Inv /\ Kept /\ MainTyped => TypeOK
    <2> SUFFICES ASSUME Inv, Kept, MainTyped PROVE TypeOK
      OBVIOUS
    <2>1. /\ checked \in 0 .. NumPieces /\ good \cup downloaded \subseteq Piece
          /\ listed \subseteq Peer /\ accepted \subseteq Peer /\ answer \in Response
      BY DEF Inv, Typed, Kept, Numbers
    <2>2. mail \in [Peer -> SUBSET Piece] /\ told \in [Peer -> SUBSET Piece]
      BY <2>1 DEF Inv, Typed, Kept, OnlyMarked
    <2>3. ASSUME NEW p \in Peer
          PROVE  ToSet(outbox[p]) \subseteq MessageOf(Piece)
      <3>1. outbox[p] \in Seq(MessageOf(Piece))
        BY <2>1, MoreMarked DEF Kept, OnlyMarked
      <3> QED
        BY <3>1 DEF ToSet
    <2>4. ASSUME NEW k \in File
          PROVE  files[k] \in [0 .. FileLength[k] - 1 -> Nat \cup {Zero}]
      <3> DEFINE f == files[k]
                 c == Offset[k]
                 D == 0 .. FileLength[k] - 1
      <3>1. f = [o \in D |-> f[o]] /\ \A o \in D : f[o] \in {Zero, c + o}
        BY DEF Kept, StoreInv, StoreAt, IsContent
      <3>2. \A o \in D : c + o \in Nat
        BY Offsets, Files
      <3> HIDE DEF f, c, D
      <3>3. f \in [D -> Nat \cup {Zero}]
        BY <3>1, <3>2
      <3> QED
        BY <3>3 DEF f, D
    <2>5. fm \in {"up", "down"} /\ Len(queue) <= Capacity
      BY DEF Kept, StoreInv, StoreAt
    <2> QED
      BY <2>1, <2>2, <2>3, <2>4, <2>5
         DEF TypeOK, MainTyped, MessageOf, Answerable, Inv, Typed, Conn
  <1> QED
    BY <1>1, <1>2, <1>3, Invariance, BytesInvariance, PTL DEF Spec

\* What a peer's writer reads, if it is within the pieces the peer was told of, are
\* the right bytes, all of them, also while the piece's writes wait in the channel,
\* and across the ends of files (torrent.rs:644, file_manager.rs:43, peer.rs:515).
THEOREM BlocksAreServedRight == Spec => []ServedIsGood
  <1>1. ASSUME Kept, NEW p \in Peer, AsksWithin(p)
        PROVE  LET right == Content(reading[p].offset, reading[p].length)
               IN /\ IsPrefix(reading[p].got, right)
                  /\ HasRead(p) => reading[p].got = right
    <2> DEFINE a == reading[p].offset
               n == reading[p].length
    <2>1. a \in Nat /\ n \in Nat
      BY <1>1, Readers, ReadingFacts DEF Kept, StoreInv, StoreAt
    <2>2. n = 0 \/ a + n <= Total
      <3> SUFFICES ASSUME n # 0 PROVE a + n <= Total
        OBVIOUS
      <3>1. a .. a + n - 1 \subseteq
                UNION {PieceStart(i) .. PieceStart(i) + PieceSize(i) - 1 : i \in told[p]}
        BY <1>1 DEF AsksWithin
      <3> HIDE DEF a, n
      <3>2. a + n - 1 \in a .. a + n - 1
        BY <2>1
      <3>3. PICK i \in told[p] : a + n - 1 \in PieceStart(i) .. PieceStart(i) + PieceSize(i) - 1
        BY <3>1, <3>2
      <3>4. i \in Piece
        BY <1>1 DEF Kept, OnlyMarked, Numbers
      <3> DEFINE x == i * PieceLength
                 s == PieceSize(i)
      <3>5. x \in Nat /\ s \in Nat /\ x + s <= Total /\ a + n - 1 \in x .. x + s - 1
        BY <3>3, <3>4, PieceRange
      <3> HIDE DEF x, s
      <3> QED
        BY <2>1, <3>5, WithinTotal
    <2>3. StoreInv(Promised) /\ p \in Promised /\ Promised \subseteq Reader
      BY <1>1, Readers DEF Kept, Promised
    <2> QED
      BY <2>2, <2>3, GotIsRight
  <1>2. Kept => ServedIsGood
    BY <1>1 DEF ServedIsGood
  <1> QED
    BY <1>2, BytesInvariance, PTL

\* A piece counted as downloaded is whole in the files, or will be by the writes that
\* wait in the channel, as long as the file manager lives (torrent.rs:495).
THEOREM MarkedGetsToDisk == Spec => []KeptIsOnItsWay
  <1>1. Kept => KeptIsOnItsWay
    BY WholeOnceSettled DEF Kept, Numbers, MarkedOnItsWay, KeptIsOnItsWay
  <1> QED
    BY <1>1, BytesInvariance, PTL

-----------------------------------------------------------------------------
(* The pieces on disk and those that count: Archive.                       *)

\* A step that changes neither the files nor what is marked.
LEMMA ArchiveSees ==
    ASSUME UNCHANGED <<files, downloaded>>
    PROVE  UNCHANGED <<downloaded, Whole(files)>>
  BY DEF Whole

LEMMA ArchiveStep ==
    Inv /\ Kept /\ Kept' /\ [Next]_vars => [Safe!Next]_<<downloaded, Whole(files)>>
  <1> SUFFICES ASSUME Inv, Kept, Kept', [Next]_vars
               PROVE  [Safe!Next]_<<downloaded, Whole(files)>>
    OBVIOUS
  <1> PICK R \in SUBSET Reader : R = Promised
    BY Readers DEF Promised
  <1>1. IsContent(files) /\ IsContent(files') /\ StoreInv(R)
    BY DEF Kept, StoreInv, StoreAt
  <1>2. CASE UNCHANGED <<files, downloaded>>
    BY <1>2, ArchiveSees
  <1>3. CASE AllChecked
    <2>1. downloaded = {} /\ downloaded' = Whole(files) /\ UNCHANGED files
      BY <1>3, AllCheckedIs DEF AllChecked, storeVars
    <2>2. Whole(files)' = Whole(files)
      BY <2>1 DEF Whole
    <2> QED
      BY <2>1, <2>2 DEF Safe!Next, Safe!Recover
  <1>4. CASE Mark
    <2>1. /\ writing.stage = "mark" /\ downloaded' = downloaded \cup {writing.piece}
          /\ UNCHANGED files
      BY <1>4 DEF Mark, storeVars
    <2>2. writing.piece \in Piece \ downloaded
      BY <2>1 DEF Kept, WritingOK
    <2>3. Whole(files)' = Whole(files)
      BY <2>1 DEF Whole
    <2> QED
      BY <2>1, <2>2, <2>3 DEF Safe!Next, Safe!Keep
  <1>5. CASE FileManager
    <2>1. CASE ~(UNCHANGED files) /\ (DoWrite \/ FileManagerFails)
      <3>1. Grows(files, files') /\ \E i \in Piece : OnlyIn(i, files, files')
        BY <1>1, <2>1, StoreWrites, StoreFails
      <3>2. PICK i \in Piece : OnlyIn(i, files, files')
        BY <3>1
      <3> DEFINE w == Whole(files)
                 w2 == Whole(files')
      <3>3. w \subseteq w2 /\ w2 \subseteq w \cup {i}
        BY <1>1, <3>1, <3>2, WholeGrows, WholeByOne
      <3>4. UNCHANGED downloaded /\ Whole(files)' = w2
        BY <1>5 DEF FileManager, Whole
      <3> HIDE DEF w, w2
      <3>5. CASE i \in w
        <4>1. w2 = w
          BY <3>3, <3>5
        <4> QED
          BY <3>4, <4>1 DEF w
      <3>6. CASE i \notin w
        <4>1. w2 = w \/ w2 = w \cup {i}
          BY <3>3
        <4>2. i \in Piece \ w
          BY <3>6
        <4> QED
          BY <3>4, <4>1, <4>2 DEF w, Safe!Next, Safe!Settle
      <3> QED
        BY <3>5, <3>6
    <2>2. CASE UNCHANGED files
      BY <1>2, <1>5, <2>2 DEF FileManager
    <2>3. DoRead \/ (\E r \in Reader : SendRead(r)) => UNCHANGED files
      BY DEF DoRead, SendRead
    <2> QED
      BY <1>5, <2>1, <2>2, <2>3 DEF FileManager
  <1>6. CASE Crash
    <2>1. Grows(files, files')
      BY <1>1, <1>6, Readers, StoreCrashes DEF Crash
    <2>2. Whole(files) \subseteq Whole(files') /\ Whole(files') \subseteq Piece
      BY <1>1, <2>1, WholeGrows
    <2>3. downloaded' = {} /\ Whole(files)' = Whole(files')
      BY <1>6 DEF Crash, Fresh, Whole
    <2> QED
      BY <2>2, <2>3 DEF Safe!Next, Safe!Crash
  <1>7. CASE Load \/ CheckPiece \/ PieceChecked \/ Contact \/ StartPeers \/ Publish \/ MainPanics
    <2>1. UNCHANGED <<files, downloaded>>
      BY <1>7 DEF Load, CheckPiece, PieceChecked, Contact, StartPeers, Publish, MainPanics,
                  storeVars
    <2> QED
      BY <1>2, <2>1
  <1>8. ASSUME NEW p \in Peer,
               \/ AcceptPeer(p) \/ PushPeer(p) \/ HandlerReady(p) \/ Handshake(p)
               \/ Disconnect(p) \/ TakeMail(p) \/ RemoteRequest(p) \/ WriterTells(p)
               \/ WriterReads(p) \/ WriterSends(p) \/ WriterPanics(p) \/ CompletePiece(p)
        PROVE  [Safe!Next]_<<downloaded, Whole(files)>>
    <2>1. UNCHANGED <<files, downloaded>>
      BY <1>8 DEF AcceptPeer, PushPeer, HandlerReady, Handshake, Disconnect, TakeMail,
           RemoteRequest, WriterTells, WriterReads, WriterSends, WriterPanics,
           CompletePiece, storeVars
    <2> QED
      BY <1>2, <2>1
  <1>9. CASE WriteSection \/ WriteFails \/ AnnouncePiece \/ UNCHANGED vars
    <2>1. UNCHANGED <<files, downloaded>>
      BY <1>9 DEF WriteSection, WriteFails, AnnouncePiece, vars, storeVars
    <2> QED
      BY <1>2, <2>1
  <1> QED
    BY <1>3, <1>4, <1>5, <1>6, <1>7, <1>8, <1>9 DEF Next, Starting

\* Over crashes and restarts a piece that is whole on disk stays so, and the pieces
\* the hash check counts are exactly those (torrent.rs:176, file_manager.rs:43).
THEOREM ImplementsArchive == Spec => ArchiveSpec
  <1>1. Init => Safe!Init
    BY DEF Init, Fresh, Safe!Init, Whole
  <1> QED
    BY <1>1, ArchiveStep, Invariance, BytesInvariance, PTL DEF Spec, ArchiveSpec, Safe!Spec
=============================================================================
