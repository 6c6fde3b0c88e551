------------------------------- MODULE Choking -------------------------------
(***************************************************************************)
(* Who may download from us: regular_unchoke and the optimistic unchoke    *)
(* send Choke and Unchoke to the handlers' mailboxes, a handler turns them *)
(* into am_choking and a message for its writer, the writer puts it on the *)
(* wire, and blocks are uploaded in between (torrent.rs, peer.rs).         *)
(*                                                                         *)
(* The main task keeps the lock of the peers from the first to the last    *)
(* step of an unchoke round.  A handler keeps the lock of its peer_info    *)
(* from setting am_choking to sending the message, so that is one step.    *)
(***************************************************************************)
EXTENDS Integers, Sequences, FiniteSets

CONSTANTS
    Peer,            \* the remote addresses, each the subject of one Peer object
    TrackerPeer,     \* those listed when the main task enters its select loop
    Unsteady,        \* those whose connection may fail or end
    MaxDownloaders,  \* constants::MAX_DOWNLOADERS
    MailCapacity,    \* capacity of a handler's mailbox
    WriterCapacity   \* capacity of a writer's channel

ASSUME ChokingAssumption ==
    /\ TrackerPeer \subseteq Peer
    /\ Unsteady \subseteq Peer
    /\ MaxDownloaders \in Nat \ {0}
    /\ MailCapacity \in Nat \ {0}
    /\ WriterCapacity \in Nat \ {0}

VARIABLES
    main,             \* where the main task is
    todo,             \* the peers its loop has still to visit
    target,           \* the peer a message is about to be sent to
    count,            \* the downloaders unchoked in this round
    seen,             \* the peers it saw choked, when picking
    optimistic,       \* Torrent.optimistic_unchoke_peer, at most one
    peers,            \* Torrent.peers
    handler,          \* where each Peer's start_handler is
    mail,             \* the Choke and Unchoke messages in the handler's mailbox
    am_choking,       \* PeerInfo.am_choking
    peer_interested,  \* PeerInfo.peer_interested
    writer,           \* whether the writer task still receives
    outbox,           \* the writer's channel
    told              \* the last of CHOKE and UNCHOKE written to the peer

roundVars == <<main, todo, target, count, seen, optimistic>>
wireVars  == <<writer, outbox, told>>
vars == <<main, todo, target, count, seen, optimistic, peers, handler, mail,
          am_choking, peer_interested, writer, outbox, told>>

Word == {"Choke", "Unchoke"}
WordFor(choking) == IF choking THEN "Choke" ELSE "Unchoke"

\* peer_sender is Some(tx) and its receiver is not dropped.
HasReceiver(p) == handler[p] \in {"connecting", "idle"}

\* (mutant of SendMessage) an unbounded channel.
SendAnyway(p, word) ==
    IF HasReceiver(p) THEN mail' = [mail EXCEPT ![p] = Append(@, word)]
                      ELSE UNCHANGED mail

\* send_message: waits for room; nothing happens without a receiver.
SendMessage(p, word) ==
    IF HasReceiver(p)
    THEN /\ Len(mail[p]) < MailCapacity
         /\ mail' = [mail EXCEPT ![p] = Append(@, word)]
    ELSE UNCHANGED mail

Init ==
    /\ main = "select"
    /\ todo = {}
    /\ target = {}
    /\ count = 0
    /\ seen = {}
    /\ optimistic = {}
    /\ peers = TrackerPeer
    /\ handler = [p \in Peer |-> IF p \in TrackerPeer THEN "spawned" ELSE "absent"]
    /\ mail = [p \in Peer |-> <<>>]
    /\ am_choking = [p \in Peer |-> TRUE]
    /\ peer_interested = [p \in Peer |-> FALSE]
    /\ writer = [p \in Peer |-> TRUE]
    /\ outbox = [p \in Peer |-> <<>>]
    /\ told = [p \in Peer |-> "Choke"]

-----------------------------------------------------------------------------
(* regular_unchoke.  The peers are visited best first; the rates are left  *)
(* out, so any order is possible.                                          *)

RegularUnchoke ==
    /\ main = "select"
    /\ main' = "regular"
    /\ todo' = peers
    /\ count' = 0
    /\ UNCHANGED <<target, seen, optimistic, peers, handler, mail, am_choking,
                   peer_interested, wireVars>>

\* The optimistically unchoked peer is passed over; an interested peer counts.
VisitPeer(p) ==
    /\ main = "regular"
    /\ p \in todo
    /\ todo' = todo \ {p}
    /\ \/ /\ p \in optimistic
          /\ UNCHANGED <<main, target, count>>
       \/ /\ p \notin optimistic
          /\ count < MaxDownloaders
          /\ main' = "unchoke"
          /\ target' = {p}
          /\ count' = IF peer_interested[p] THEN count + 1 ELSE count
    /\ UNCHANGED <<seen, optimistic, peers, handler, mail, am_choking,
                   peer_interested, wireVars>>

UnchokeTarget ==
    /\ main = "unchoke"
    /\ main' = "regular"
    /\ \E p \in target : SendMessage(p, "Unchoke")
    /\ target' = {}
    /\ UNCHANGED <<todo, count, seen, optimistic, peers, handler, am_choking,
                   peer_interested, wireVars>>

\* All are visited, or there are downloaders enough and the next peer in the
\* order is not the optimistic one.
RegularUnchokeEnds ==
    /\ main = "regular"
    /\ todo = {} \/ (count >= MaxDownloaders /\ todo \ optimistic # {})
    /\ main' = "select"
    /\ todo' = {}
    /\ count' = 0
    /\ UNCHANGED <<target, seen, optimistic, peers, handler, mail, am_choking,
                   peer_interested, wireVars>>

-----------------------------------------------------------------------------
(* The optimistic unchoke.                                                 *)

OptimisticUnchoke ==
    /\ main = "select"
    /\ main' = IF optimistic \cap peers = {} THEN "scan" ELSE "chokeOld"
    /\ target' = optimistic \cap peers
    /\ todo' = peers
    /\ UNCHANGED <<count, seen, optimistic, peers, handler, mail, am_choking,
                   peer_interested, wireVars>>

ChokeOld ==
    /\ main = "chokeOld"
    /\ main' = "scan"
    /\ \E p \in target : SendMessage(p, "Choke")
    /\ target' = {}
    /\ UNCHANGED <<todo, count, seen, optimistic, peers, handler, am_choking,
                   peer_interested, wireVars>>

\* (mutant of IsCandidate) the flag taken the wrong way round.
IsUnchoked(p) == ~am_choking[p]

\* peer_map[&x.address].0, read under the lock of its peer_info.
IsCandidate(p) == am_choking[p]

ScanPeer(p) ==
    /\ main = "scan"
    /\ p \in todo
    /\ todo' = todo \ {p}
    /\ seen' = IF IsCandidate(p) THEN seen \cup {p} ELSE seen
    /\ UNCHANGED <<main, target, count, optimistic, peers, handler, mail, am_choking,
                   peer_interested, wireVars>>

PickPeer(p) ==
    /\ main = "scan" /\ todo = {}
    /\ p \in seen \ optimistic
    /\ main' = "unchokeNew"
    /\ target' = {p}
    /\ seen' = {}
    /\ UNCHANGED <<todo, count, optimistic, peers, handler, mail, am_choking,
                   peer_interested, wireVars>>

PickNobody ==
    /\ main = "scan" /\ todo = {}
    /\ seen \ optimistic = {}
    /\ main' = "select"
    /\ seen' = {}
    /\ optimistic' = {}
    /\ UNCHANGED <<todo, target, count, peers, handler, mail, am_choking,
                   peer_interested, wireVars>>

UnchokeNew ==
    /\ main = "unchokeNew"
    /\ main' = "select"
    /\ \E p \in target : SendMessage(p, "Unchoke")
    /\ optimistic' = target
    /\ target' = {}
    /\ UNCHANGED <<todo, count, seen, peers, handler, am_choking, peer_interested,
                   wireVars>>

-----------------------------------------------------------------------------
(* A peer comes and goes.                                                  *)

\* listener.accept(): the Peer is started, then pushed.
AcceptPeer(p) ==
    /\ main = "select"
    /\ handler[p] = "absent"
    /\ main' = "push"
    /\ target' = {p}
    /\ handler' = [handler EXCEPT ![p] = "spawned"]
    /\ UNCHANGED <<todo, count, seen, optimistic, peers, mail, am_choking,
                   peer_interested, wireVars>>

PushPeer ==
    /\ main = "push"
    /\ main' = "select"
    /\ peers' = peers \cup target
    /\ target' = {}
    /\ UNCHANGED <<todo, count, seen, optimistic, handler, mail, am_choking,
                   peer_interested, wireVars>>

StartHandler(p) ==
    /\ handler[p] = "spawned"
    /\ handler' = [handler EXCEPT ![p] = "connecting"]
    /\ UNCHANGED <<roundVars, peers, mail, am_choking, peer_interested, wireVars>>

Leave(p) ==
    /\ handler' = [handler EXCEPT ![p] = "leaving"]
    /\ mail' = [mail EXCEPT ![p] = <<>>]

Connect(p) ==
    /\ handler[p] = "connecting"
    /\ \/ handler' = [handler EXCEPT ![p] = "idle"] /\ UNCHANGED mail
       \/ p \in Unsteady /\ Leave(p)
    /\ UNCHANGED <<roundVars, peers, am_choking, peer_interested, wireVars>>

\* The handler returns for a reason that concerns no choke: a bad message, a
\* request too long, or another send that finds the writer gone.
HandlerReturns(p) ==
    /\ p \in Unsteady
    /\ handler[p] = "idle"
    /\ Leave(p)
    /\ UNCHANGED <<roundVars, peers, am_choking, peer_interested, wireVars>>

\* disconnect_peer needs the lock of the peers.
DisconnectPeer(p) ==
    /\ handler[p] = "leaving"
    /\ main \in {"select", "push"}
    /\ handler' = [handler EXCEPT ![p] = "gone"]
    /\ peers' = peers \ {p}
    /\ UNCHANGED <<roundVars, mail, am_choking, peer_interested, wireVars>>

-----------------------------------------------------------------------------
(* The handler and its writer.                                             *)

\* Send to the writer's channel: waits for room, fails when the writer is gone.
SendToWriter(p, message) ==
    /\ Len(outbox[p]) < WriterCapacity
    /\ outbox' = [outbox EXCEPT ![p] = Append(@, message)]

\* (mutant of HandleWord) the message is sent but the flag is not set.
HandleWordForgetful(p, word) ==
    /\ handler[p] = "idle"
    /\ mail[p] # <<>> /\ word = Head(mail[p])
    /\ mail' = [mail EXCEPT ![p] = Tail(@)]
    /\ IF WordFor(am_choking[p]) = word THEN UNCHANGED outbox
       ELSE writer[p] /\ SendToWriter(p, word)
    /\ UNCHANGED <<roundVars, peers, am_choking, handler, peer_interested, writer, told>>

\* ClientMessage::Choke and Unchoke: a change of am_choking is told the peer.
HandleWord(p, word) ==
    /\ handler[p] = "idle"
    /\ mail[p] # <<>> /\ word = Head(mail[p])
    /\ am_choking' = [am_choking EXCEPT ![p] = (word = "Choke")]
    /\ \/ /\ WordFor(am_choking[p]) = word
          /\ mail' = [mail EXCEPT ![p] = Tail(@)]
          /\ UNCHANGED <<handler, outbox>>
       \/ /\ WordFor(am_choking[p]) # word /\ writer[p]
          /\ mail' = [mail EXCEPT ![p] = Tail(@)]
          /\ SendToWriter(p, word)
          /\ UNCHANGED handler
       \/ /\ WordFor(am_choking[p]) # word /\ ~writer[p]
          /\ Leave(p)
          /\ UNCHANGED outbox
    /\ UNCHANGED <<roundVars, peers, peer_interested, writer, told>>

PeerInterested(p, interested) ==
    /\ handler[p] = "idle"
    /\ peer_interested' = [peer_interested EXCEPT ![p] = interested]
    /\ UNCHANGED <<roundVars, peers, handler, mail, am_choking, wireVars>>

\* (mutant of MayUpload) the check of am_choking is dropped.
MayAlwaysUpload(p) == TRUE

\* Not to choked peers.
MayUpload(p) == ~am_choking[p]

\* A Request of an acceptable length; one that is too long is in HandlerReturns.
PeerRequests(p) ==
    /\ handler[p] = "idle"
    /\ MayUpload(p)
    /\ IF writer[p] THEN SendToWriter(p, "Block") /\ UNCHANGED <<handler, mail>>
                    ELSE Leave(p) /\ UNCHANGED outbox
    /\ UNCHANGED <<roundVars, peers, am_choking, peer_interested, writer, told>>

WriterWrites(p) ==
    /\ writer[p]
    /\ outbox[p] # <<>>
    /\ outbox' = [outbox EXCEPT ![p] = Tail(@)]
    /\ told' = IF Head(outbox[p]) \in Word
               THEN [told EXCEPT ![p] = Head(outbox[p])] ELSE told
    /\ UNCHANGED <<roundVars, peers, handler, mail, am_choking, peer_interested, writer>>

\* A write fails, or the block read from disk is short and the assertion fails.
WriterFails(p) ==
    /\ p \in Unsteady
    /\ writer[p]
    /\ handler[p] \in {"idle", "leaving", "gone"}
    /\ writer' = [writer EXCEPT ![p] = FALSE]
    /\ outbox' = [outbox EXCEPT ![p] = <<>>]
    /\ UNCHANGED <<roundVars, peers, handler, mail, am_choking, peer_interested, told>>

-----------------------------------------------------------------------------
\* What the main task does inside an unchoke round.
RoundStep ==
    \/ \E p \in Peer : VisitPeer(p) \/ ScanPeer(p) \/ PickPeer(p)
    \/ UnchokeTarget \/ RegularUnchokeEnds
    \/ ChokeOld \/ PickNobody \/ UnchokeNew
    \/ PushPeer

HandlesWord(p) == \E word \in Word : HandleWord(p, word)

PeerStep(p) ==
    \/ AcceptPeer(p) \/ StartHandler(p) \/ Connect(p) \/ HandlerReturns(p)
    \/ DisconnectPeer(p) \/ HandlesWord(p)
    \/ \E interested \in BOOLEAN : PeerInterested(p, interested)
    \/ PeerRequests(p) \/ WriterWrites(p) \/ WriterFails(p)

Next == RegularUnchoke \/ OptimisticUnchoke \/ RoundStep \/ \E p \in Peer : PeerStep(p)

Spec == Init /\ [][Next]_vars

\* Tasks that can run do, the intervals tick for ever and select! does not pass
\* over a branch that is ready again and again; a peer that stays connected reads
\* what is written to it.
Fairness ==
    /\ SF_vars(RegularUnchoke) /\ SF_vars(OptimisticUnchoke) /\ WF_vars(RoundStep)
    /\ \A p \in Peer :
          /\ WF_vars(StartHandler(p)) /\ WF_vars(Connect(p)) /\ SF_vars(DisconnectPeer(p))
          /\ SF_vars(HandlesWord(p))
          /\ WF_vars(WriterWrites(p))

FairSpec == Spec /\ Fairness

-----------------------------------------------------------------------------
(* What must hold.                                                         *)

Message == Word \cup {"Block"}

\* Every variable stays in its range, the channels within their capacity.
TypeOK ==
    /\ main \in {"select", "regular", "unchoke", "chokeOld", "scan", "unchokeNew", "push"}
    /\ todo \subseteq Peer /\ target \subseteq Peer /\ seen \subseteq Peer
    /\ count \in 0 .. MaxDownloaders
    /\ optimistic \subseteq Peer /\ Cardinality(optimistic) <= 1
    /\ peers \subseteq Peer
    /\ handler \in [Peer -> {"absent", "spawned", "connecting", "idle", "leaving", "gone"}]
    /\ mail \in [Peer -> Seq(Word)] /\ \A p \in Peer : Len(mail[p]) <= MailCapacity
    /\ am_choking \in [Peer -> BOOLEAN]
    /\ peer_interested \in [Peer -> BOOLEAN]
    /\ writer \in [Peer -> BOOLEAN]
    /\ outbox \in [Peer -> Seq(Message)]
    /\ \A p \in Peer : Len(outbox[p]) <= WriterCapacity
    /\ told \in [Peer -> Word]

\* What the peer believes before its writer's n-th message is written.
ToldBefore(p, n) ==
    LET words == {k \in 1 .. n - 1 : outbox[p][k] \in Word}
    IN  IF words = {} THEN told[p]
        ELSE outbox[p][CHOOSE k \in words : \A j \in words : j <= k]

\* am_choking and the peer never disagree for long: once the writer has emptied
\* its channel, the peer has been told exactly what am_choking says.
ToldAgrees ==
    \A p \in Peer : handler[p] = "idle" /\ writer[p]
        => ToldBefore(p, Len(outbox[p]) + 1) = WordFor(am_choking[p])

\* peer.rs:718: no upload to a choked peer.  A block leaves the writer only while
\* the last word the peer has read is UNCHOKE, although the request was checked
\* against am_choking long before.
BlocksOnlyWhenUnchoked ==
    [][\A p \in Peer :
          WriterWrites(p) /\ Head(outbox[p]) = "Block" => told[p] = "Unchoke"]_vars

\* Nobody starves: with no more peers than can be reached, an interested peer that
\* stays connected is unchoked again and again.
Served ==
    \A p \in Peer :
        <>[](p \in peers /\ handler[p] = "idle" /\ writer[p] /\ peer_interested[p])
            => []<>(told[p] = "Unchoke")

\* constants.rs:5: MAX_DOWNLOADERS "doesn't count optimistic unchoke".  Between two
\* rounds there are at most that many unchoked interested peers and one more.
DownloadersBounded ==
    main = "select" =>
        Cardinality({p \in peers : /\ handler[p] = "idle" /\ mail[p] = <<>>
                                   /\ ~am_choking[p] /\ peer_interested[p]})
            <= MaxDownloaders + 1
=============================================================================
