---------------------------- MODULE ChokingProofs ----------------------------
(***************************************************************************)
(* What holds of Choking for every set of peers, number of downloaders and *)
(* capacity of the channels.  The argument: the words under way to a peer  *)
(* end in the one am_choking stands for, so a block put behind them leaves *)
(* the writer after an UNCHOKE.                                            *)
(***************************************************************************)
EXTENDS Choking, FiniteSetTheorems, TLAPS

\* The last of CHOKE and UNCHOKE before the n-th message of a queue, t being
\* what the peer was told before the queue.
LastWord(t, queue, n, word) ==
    \/ t = word /\ \A k \in 1 .. n - 1 : queue[k] \notin Word
    \/ \E k \in 1 .. n - 1 :
          /\ queue[k] = word
          /\ \A j \in k + 1 .. n - 1 : queue[j] \notin Word

AtMostOne(S) == S = {} \/ \E p \in Peer : S = {p}

\* Before the connection is there am_choking is as it was made.
SilentAtFirst ==
    \A p \in Peer : handler[p] \in {"absent", "spawned", "connecting"} =>
        am_choking[p] /\ told[p] = "Choke" /\ outbox[p] = <<>>

\* What is under way ends in the word of am_choking.
WordsEndInFlag ==
    \A p \in Peer : handler[p] = "idle" /\ writer[p] =>
        LastWord(told[p], outbox[p], Len(outbox[p]) + 1, WordFor(am_choking[p]))

\* Every block under way comes after an UNCHOKE.
BlocksAfterUnchoke ==
    \A p \in Peer : \A k \in 1 .. Len(outbox[p]) :
        outbox[p][k] = "Block" => LastWord(told[p], outbox[p], k, "Unchoke")

Inv ==
    /\ TypeOK
    /\ AtMostOne(target) /\ AtMostOne(optimistic)
    /\ SilentAtFirst
    /\ WordsEndInFlag
    /\ BlocksAfterUnchoke

-----------------------------------------------------------------------------
(* The last word of a queue.                                               *)

\* A message behind the others changes nothing for what comes before it.
LEMMA LastWordStays ==
    ASSUME NEW t, NEW word, NEW queue \in Seq(Message), NEW m \in Message,
           NEW n \in 1 .. Len(queue) + 1, LastWord(t, queue, n, word)
    PROVE  LastWord(t, Append(queue, m), n, word)
  BY DEF LastWord

\* A word that is appended is the last.
LEMMA LastWordAppended ==
    ASSUME NEW t, NEW queue \in Seq(Message), NEW word \in Word
    PROVE  LastWord(t, Append(queue, word), Len(queue) + 2, word)
  <1>1. word \in Message
    BY DEF Message
  <1> DEFINE k == Len(queue) + 1
  <1>2. k \in 1 .. Len(queue) + 2 - 1 /\ Append(queue, word)[k] = word
    OBVIOUS
  <1>3. \A j \in k + 1 .. Len(queue) + 2 - 1 : FALSE
    OBVIOUS
  <1> QED
    BY <1>2, <1>3 DEF LastWord

\* A block that is appended leaves it what it was.
LEMMA LastWordOverBlock ==
    ASSUME NEW t, NEW queue \in Seq(Message), NEW word,
           LastWord(t, queue, Len(queue) + 1, word)
    PROVE  LastWord(t, Append(queue, "Block"), Len(queue) + 2, word)
  BY DEF LastWord, Message, Word

\* The writer's step: what it wrote is told, the rest moves up.
LEMMA LastWordWritten ==
    ASSUME NEW t, NEW queue \in Seq(Message), queue # <<>>, NEW word \in Word,
           NEW n \in 1 .. Len(queue), LastWord(t, queue, n + 1, word)
    PROVE  LastWord(IF Head(queue) \in Word THEN Head(queue) ELSE t, Tail(queue), n, word)
  <1> DEFINE now == IF Head(queue) \in Word THEN Head(queue) ELSE t
  <1>1. /\ Head(queue) = queue[1]
        /\ \A k \in 1 .. n - 1 : Tail(queue)[k] = queue[k + 1]
    OBVIOUS
  <1>2. CASE t = word /\ \A k \in 1 .. n : queue[k] \notin Word
    BY <1>1, <1>2 DEF LastWord
  <1>3. CASE \E k \in 1 .. n : /\ queue[k] = word
                              /\ \A j \in k + 1 .. n : queue[j] \notin Word
    <2>1. PICK k \in 1 .. n : queue[k] = word /\ \A j \in k + 1 .. n : queue[j] \notin Word
      BY <1>3
    <2>2. CASE k = 1
      BY <1>1, <2>1, <2>2 DEF LastWord
    <2>3. CASE k # 1
      <3>1. k - 1 \in 1 .. n - 1 /\ Tail(queue)[k - 1] = word
        BY <1>1, <2>1, <2>3
      <3>2. \A j \in (k - 1) + 1 .. n - 1 : Tail(queue)[j] \notin Word
        BY <1>1, <2>1, <2>3
      <3> QED
        BY <3>1, <3>2 DEF LastWord
    <2> QED
      BY <2>2, <2>3
  <1> QED
    BY <1>2, <1>3 DEF LastWord

\* It is what ToldBefore computes.
LEMMA LastWordIsToldBefore ==
    ASSUME NEW p \in Peer, NEW n \in Nat, NEW word \in Word,
           LastWord(told[p], outbox[p], n, word)
    PROVE  ToldBefore(p, n) = word
  <1> DEFINE words == {k \in 1 .. n - 1 : outbox[p][k] \in Word}
  <1>1. CASE words = {}
    BY <1>1 DEF LastWord, ToldBefore
  <1>2. CASE words # {}
    <2>1. PICK k \in 1 .. n - 1 : /\ outbox[p][k] = word
                                 /\ \A j \in k + 1 .. n - 1 : outbox[p][j] \notin Word
      BY <1>2 DEF LastWord
    <2>2. k \in words /\ \A j \in words : j <= k
      BY <2>1
    <2>3. (CHOOSE i \in words : \A j \in words : j <= i) = k
      <3>1. \A i \in words : (\A j \in words : j <= i) => i = k
        BY <2>2
      <3> HIDE DEF words
      <3> QED
        BY <2>2, <3>1
    <2> QED
      BY <1>2, <2>1, <2>3 DEF ToldBefore
  <1> QED
    BY <1>1, <1>2

-----------------------------------------------------------------------------
(* The initial states.                                                     *)

\* One set with at most one element.
LEMMA AtMostOneIsFinite ==
    ASSUME NEW S, AtMostOne(S)
    PROVE  S \subseteq Peer /\ Cardinality(S) <= 1
  <1>1. CASE S = {}
    BY <1>1, FS_EmptySet
  <1>2. ASSUME NEW p \in Peer, S = {p} PROVE S \subseteq Peer /\ Cardinality(S) <= 1
    <2>1. Cardinality({p}) = 1
      BY FS_Singleton
    <2> QED
      BY <1>2, <2>1
  <1> QED
    BY <1>1, <1>2 DEF AtMostOne

LEMMA InitInv == Init => Inv
  <1> SUFFICES ASSUME Init PROVE Inv
    OBVIOUS
  <1> USE DEF Init
  <1>1. TypeOK
    BY ChokingAssumption, FS_EmptySet DEF ChokingAssumption, TypeOK, Word, Message
  <1>2. AtMostOne(target) /\ AtMostOne(optimistic)
    BY DEF AtMostOne
  <1>3. SilentAtFirst /\ WordsEndInFlag /\ BlocksAfterUnchoke
    BY ChokingAssumption
       DEF ChokingAssumption, SilentAtFirst, WordsEndInFlag, BlocksAfterUnchoke
  <1> QED
    BY <1>1, <1>2, <1>3 DEF Inv

-----------------------------------------------------------------------------
(* The main task.                                                          *)

\* A channel with room for one more.
LEMMA Queued ==
    ASSUME NEW S, NEW channel \in [Peer -> Seq(S)], NEW p \in Peer, NEW x \in S,
           NEW capacity \in Nat, \A q \in Peer : Len(channel[q]) <= capacity,
           Len(channel[p]) < capacity
    PROVE  LET after == [channel EXCEPT ![p] = Append(@, x)]
           IN after \in [Peer -> Seq(S)] /\ \A q \in Peer : Len(after[q]) <= capacity
  <1>1. /\ Append(channel[p], x) \in Seq(S)
        /\ Len(Append(channel[p], x)) = Len(channel[p]) + 1
    OBVIOUS
  <1>2. Len(channel[p]) \in Nat
    OBVIOUS
  <1> QED
    BY <1>1, <1>2

\* A channel whose first message is taken, or that is closed.
LEMMA Shortened ==
    ASSUME NEW S, NEW channel \in [Peer -> Seq(S)], NEW p \in Peer,
           NEW rest \in {<<>>, Tail(channel[p])}, rest = <<>> \/ channel[p] # <<>>,
           NEW capacity \in Nat, \A q \in Peer : Len(channel[q]) <= capacity
    PROVE  LET after == [channel EXCEPT ![p] = rest]
           IN after \in [Peer -> Seq(S)] /\ \A q \in Peer : Len(after[q]) <= capacity
  <1>1. rest \in Seq(S) /\ Len(rest) <= capacity
    <2>1. CASE rest = <<>>
      BY <2>1
    <2>2. CASE rest # <<>>
      <3>1. rest = Tail(channel[p]) /\ channel[p] # <<>>
        BY <2>2
      <3>2. Tail(channel[p]) \in Seq(S) /\ Len(Tail(channel[p])) = Len(channel[p]) - 1
        BY <3>1
      <3> QED
        BY <3>1, <3>2
    <2> QED
      BY <2>1, <2>2
  <1> QED
    BY <1>1

\* send_message keeps a mailbox a sequence of words within its capacity.
LEMMA Sent ==
    ASSUME TypeOK, NEW p \in Peer, NEW word \in Word, SendMessage(p, word)
    PROVE  mail' \in [Peer -> Seq(Word)] /\ \A q \in Peer : Len(mail'[q]) <= MailCapacity
  <1>1. CASE HasReceiver(p)
    <2>1. /\ MailCapacity \in Nat
          /\ mail \in [Peer -> Seq(Word)] /\ \A q \in Peer : Len(mail[q]) <= MailCapacity
      BY ChokingAssumption DEF TypeOK, ChokingAssumption
    <2>2. Len(mail[p]) < MailCapacity /\ mail' = [mail EXCEPT ![p] = Append(@, word)]
      BY <1>1 DEF SendMessage
    <2> QED
      BY <2>1, <2>2, Queued
  <1>2. CASE ~HasReceiver(p)
    BY <1>2 DEF TypeOK, SendMessage
  <1> QED
    BY <1>1, <1>2

\* What the main task does to itself and the mailboxes leaves the wire alone.
LEMMA WireUnchanged ==
    ASSUME SilentAtFirst, WordsEndInFlag, BlocksAfterUnchoke,
           UNCHANGED <<handler, am_choking, wireVars>>
    PROVE  (SilentAtFirst /\ WordsEndInFlag /\ BlocksAfterUnchoke)'
  BY DEF SilentAtFirst, WordsEndInFlag, BlocksAfterUnchoke, wireVars

LEMMA RegularRound ==
    ASSUME Inv,
           \/ RegularUnchoke \/ UnchokeTarget \/ RegularUnchokeEnds
           \/ \E p \in Peer : VisitPeer(p)
    PROVE  Inv'
  <1>1. CASE RegularUnchoke
    BY <1>1, WireUnchanged, ChokingAssumption
       DEF Inv, TypeOK, AtMostOne, RegularUnchoke, wireVars, ChokingAssumption
  <1>2. CASE RegularUnchokeEnds
    BY <1>2, WireUnchanged, ChokingAssumption
       DEF Inv, TypeOK, AtMostOne, RegularUnchokeEnds, wireVars, ChokingAssumption
  <1>3. CASE UnchokeTarget
    <2>1. mail' \in [Peer -> Seq(Word)] /\ \A q \in Peer : Len(mail'[q]) <= MailCapacity
      BY <1>3, Sent DEF Inv, TypeOK, UnchokeTarget, Word
    <2> QED
      BY <1>3, <2>1, WireUnchanged DEF Inv, TypeOK, AtMostOne, UnchokeTarget, wireVars
  <1>4. ASSUME NEW p \in Peer, VisitPeer(p) PROVE Inv'
    <2>1. count' \in 0 .. MaxDownloaders
      BY <1>4, ChokingAssumption DEF Inv, TypeOK, VisitPeer, ChokingAssumption
    <2>2. target' \subseteq Peer /\ AtMostOne(target')
      BY <1>4 DEF Inv, TypeOK, AtMostOne, VisitPeer
    <2> QED
      BY <1>4, <2>1, <2>2, WireUnchanged DEF Inv, TypeOK, AtMostOne, VisitPeer, wireVars
  <1> QED
    BY <1>1, <1>2, <1>3, <1>4

LEMMA OptimisticRound ==
    ASSUME Inv,
           \/ OptimisticUnchoke \/ ChokeOld \/ PickNobody \/ UnchokeNew
           \/ \E p \in Peer : ScanPeer(p) \/ PickPeer(p)
    PROVE  Inv'
  <1>1. CASE OptimisticUnchoke
    BY <1>1, WireUnchanged DEF Inv, TypeOK, AtMostOne, OptimisticUnchoke, wireVars
  <1>2. CASE ChokeOld
    <2>1. mail' \in [Peer -> Seq(Word)] /\ \A q \in Peer : Len(mail'[q]) <= MailCapacity
      BY <1>2, Sent DEF Inv, TypeOK, ChokeOld, Word
    <2> QED
      BY <1>2, <2>1, WireUnchanged DEF Inv, TypeOK, AtMostOne, ChokeOld, wireVars
  <1>3. CASE PickNobody
    BY <1>3, FS_EmptySet, WireUnchanged DEF Inv, TypeOK, AtMostOne, PickNobody, wireVars
  <1>4. CASE UnchokeNew
    <2>1. mail' \in [Peer -> Seq(Word)] /\ \A q \in Peer : Len(mail'[q]) <= MailCapacity
      BY <1>4, Sent DEF Inv, TypeOK, UnchokeNew, Word
    <2>2. /\ optimistic' \subseteq Peer /\ Cardinality(optimistic') <= 1
          /\ AtMostOne(optimistic')
      BY <1>4, AtMostOneIsFinite DEF Inv, UnchokeNew
    <2> QED
      BY <1>4, <2>1, <2>2, WireUnchanged DEF Inv, TypeOK, AtMostOne, UnchokeNew, wireVars
  <1>5. ASSUME NEW p \in Peer, ScanPeer(p) PROVE Inv'
    BY <1>5, WireUnchanged DEF Inv, TypeOK, AtMostOne, ScanPeer, wireVars
  <1>6. ASSUME NEW p \in Peer, PickPeer(p) PROVE Inv'
    BY <1>6, WireUnchanged DEF Inv, TypeOK, AtMostOne, PickPeer, wireVars
  <1> QED
    BY <1>1, <1>2, <1>3, <1>4, <1>5, <1>6

-----------------------------------------------------------------------------
(* Peers come and go.                                                      *)

\* A handler moves on, to its select loop only from its connection.
LEMMA HandlerMoved ==
    ASSUME TypeOK, SilentAtFirst, WordsEndInFlag, BlocksAfterUnchoke,
           UNCHANGED <<am_choking, wireVars>>,
           NEW p \in Peer, NEW s, handler' = [handler EXCEPT ![p] = s],
           s = "idle" => handler[p] = "connecting",
           s \in {"absent", "spawned", "connecting"} =>
               handler[p] \in {"absent", "spawned", "connecting"}
    PROVE  (SilentAtFirst /\ WordsEndInFlag /\ BlocksAfterUnchoke)'
  <1> USE DEF wireVars
  <1>1. SilentAtFirst'
    BY DEF TypeOK, SilentAtFirst
  <1>2. BlocksAfterUnchoke'
    BY DEF BlocksAfterUnchoke
  <1>3. WordsEndInFlag'
    <2> SUFFICES ASSUME NEW q \in Peer, handler'[q] = "idle", writer[q]
                 PROVE  LastWord(told[q], outbox[q], Len(outbox[q]) + 1,
                                 WordFor(am_choking[q]))
      BY DEF WordsEndInFlag
    <2>1. CASE handler[q] = "idle"
      BY <2>1 DEF WordsEndInFlag
    <2>2. CASE handler[q] # "idle"
      <3>1. handler[q] = "connecting"
        BY <2>2 DEF TypeOK
      <3>2. am_choking[q] /\ told[q] = "Choke" /\ outbox[q] = <<>>
        BY <3>1 DEF SilentAtFirst
      <3> QED
        BY <3>2 DEF LastWord, WordFor
    <2> QED
      BY <2>1, <2>2
  <1> QED
    BY <1>1, <1>2, <1>3

\* A handler that returns drops its mailbox.
LEMMA Left ==
    ASSUME Inv, NEW p \in Peer, Leave(p), UNCHANGED <<am_choking, wireVars>>
    PROVE  /\ (SilentAtFirst /\ WordsEndInFlag /\ BlocksAfterUnchoke)'
           /\ handler' \in [Peer -> {"absent", "spawned", "connecting", "idle",
                                    "leaving", "gone"}]
           /\ mail' \in [Peer -> Seq(Word)]
           /\ \A q \in Peer : Len(mail'[q]) <= MailCapacity
  <1>1. (SilentAtFirst /\ WordsEndInFlag /\ BlocksAfterUnchoke)'
    BY HandlerMoved DEF Inv, Leave
  <1>2. MailCapacity \in Nat
    BY ChokingAssumption DEF ChokingAssumption
  <1> QED
    BY <1>1, <1>2 DEF Inv, TypeOK, Leave

LEMMA ComesAndGoes ==
    ASSUME Inv, NEW p \in Peer,
           \/ AcceptPeer(p) \/ PushPeer \/ StartHandler(p) \/ Connect(p)
           \/ HandlerReturns(p) \/ DisconnectPeer(p)
    PROVE  Inv'
  <1>1. CASE AcceptPeer(p)
    <2>1. (SilentAtFirst /\ WordsEndInFlag /\ BlocksAfterUnchoke)'
      BY <1>1, HandlerMoved DEF Inv, AcceptPeer
    <2> QED
      BY <1>1, <2>1 DEF Inv, TypeOK, AtMostOne, AcceptPeer, wireVars
  <1>2. CASE PushPeer
    BY <1>2, WireUnchanged DEF Inv, TypeOK, AtMostOne, PushPeer, wireVars
  <1>3. CASE StartHandler(p)
    <2>1. (SilentAtFirst /\ WordsEndInFlag /\ BlocksAfterUnchoke)'
      BY <1>3, HandlerMoved DEF Inv, StartHandler
    <2> QED
      BY <1>3, <2>1 DEF Inv, TypeOK, AtMostOne, StartHandler, roundVars, wireVars
  <1>4. CASE Connect(p)
    <2>1. CASE Leave(p)
      BY <1>4, <2>1, Left DEF Inv, TypeOK, AtMostOne, Connect, roundVars, wireVars
    <2>2. CASE handler' = [handler EXCEPT ![p] = "idle"] /\ UNCHANGED mail
      <3>1. (SilentAtFirst /\ WordsEndInFlag /\ BlocksAfterUnchoke)'
        BY <1>4, <2>2, HandlerMoved DEF Inv, Connect
      <3> QED
        BY <1>4, <2>2, <3>1 DEF Inv, TypeOK, AtMostOne, Connect, roundVars, wireVars
    <2> QED
      BY <1>4, <2>1, <2>2 DEF Connect
  <1>5. CASE HandlerReturns(p)
    BY <1>5, Left DEF Inv, TypeOK, AtMostOne, HandlerReturns, roundVars, wireVars
  <1>6. CASE DisconnectPeer(p)
    <2>1. (SilentAtFirst /\ WordsEndInFlag /\ BlocksAfterUnchoke)'
      BY <1>6, HandlerMoved DEF Inv, DisconnectPeer
    <2> QED
      BY <1>6, <2>1 DEF Inv, TypeOK, AtMostOne, DisconnectPeer, roundVars, wireVars
  <1> QED
    BY <1>1, <1>2, <1>3, <1>4, <1>5, <1>6

-----------------------------------------------------------------------------
(* The handler and its writer.                                             *)

\* The handler sends the word it has set am_choking to, or a block to a peer
\* that is not choked.
LEMMA SentToWriter ==
    ASSUME Inv, NEW p \in Peer, handler[p] = "idle", writer[p],
           NEW m \in Message, SendToWriter(p, m),
           NEW flag \in BOOLEAN, am_choking' = [am_choking EXCEPT ![p] = flag],
           \/ m = WordFor(flag)
           \/ m = "Block" /\ ~flag /\ ~am_choking[p],
           UNCHANGED <<handler, writer, told>>
    PROVE  /\ outbox' \in [Peer -> Seq(Message)]
           /\ \A q \in Peer : Len(outbox'[q]) <= WriterCapacity
           /\ (SilentAtFirst /\ WordsEndInFlag /\ BlocksAfterUnchoke)'
  <1>1. /\ WriterCapacity \in Nat
        /\ outbox \in [Peer -> Seq(Message)]
        /\ \A q \in Peer : Len(outbox[q]) <= WriterCapacity
        /\ am_choking \in [Peer -> BOOLEAN] /\ told \in [Peer -> Word]
    BY ChokingAssumption DEF Inv, TypeOK, ChokingAssumption
  <1>2. /\ Len(outbox[p]) < WriterCapacity
        /\ outbox' = [outbox EXCEPT ![p] = Append(@, m)]
    BY DEF SendToWriter
  <1>3. /\ outbox' \in [Peer -> Seq(Message)]
        /\ \A q \in Peer : Len(outbox'[q]) <= WriterCapacity
    BY <1>1, <1>2, Queued
  <1>4. /\ outbox[p] \in Seq(Message)
        /\ outbox'[p] = Append(outbox[p], m) /\ Len(outbox'[p]) = Len(outbox[p]) + 1
        /\ \A k \in 1 .. Len(outbox[p]) : outbox'[p][k] = outbox[p][k]
        /\ outbox'[p][Len(outbox[p]) + 1] = m
    BY <1>1, <1>2
  <1>5. \A q \in Peer \ {p} : outbox'[q] = outbox[q] /\ am_choking'[q] = am_choking[q]
    BY <1>1, <1>2
  <1>6. LastWord(told[p], outbox[p], Len(outbox[p]) + 1, WordFor(am_choking[p]))
    BY DEF Inv, WordsEndInFlag
  <1>7. SilentAtFirst'
    BY <1>5 DEF Inv, SilentAtFirst
  <1>8. WordsEndInFlag'
    <2>1. LastWord(told[p], outbox'[p], Len(outbox'[p]) + 1, WordFor(flag))
      <3>1. CASE m = WordFor(flag)
        <4>1. m \in Word
          BY <3>1 DEF WordFor, Word
        <4>2. LastWord(told[p], Append(outbox[p], m), Len(outbox[p]) + 2, m)
          BY <1>4, <4>1, LastWordAppended
        <4> QED
          BY <1>4, <3>1, <4>2
      <3>2. CASE m = "Block" /\ ~flag /\ ~am_choking[p]
        <4>1. WordFor(am_choking[p]) = WordFor(flag)
          BY <3>2 DEF WordFor
        <4>2. LastWord(told[p], Append(outbox[p], "Block"), Len(outbox[p]) + 2, WordFor(flag))
          BY <1>4, <1>6, <4>1, LastWordOverBlock
        <4> QED
          BY <1>4, <3>2, <4>2
      <3> QED
        BY <3>1, <3>2
    <2> QED
      BY <1>1, <1>5, <2>1 DEF Inv, WordsEndInFlag
  <1>9. BlocksAfterUnchoke'
    <2> SUFFICES ASSUME NEW k \in 1 .. Len(outbox'[p]), outbox'[p][k] = "Block"
                 PROVE  LastWord(told[p], outbox'[p], k, "Unchoke")
      BY <1>5 DEF Inv, BlocksAfterUnchoke
    <2>1. LastWord(told[p], outbox[p], k, "Unchoke")
      <3>1. CASE k \in 1 .. Len(outbox[p])
        BY <1>4, <3>1 DEF Inv, BlocksAfterUnchoke
      <3>2. CASE k = Len(outbox[p]) + 1
        <4>1. m = "Block"
          BY <1>4, <3>2
        <4>2. ~am_choking[p]
          BY <4>1 DEF WordFor
        <4> QED
          BY <1>6, <3>2, <4>2 DEF WordFor
      <3> QED
        BY <1>4, <3>1, <3>2
    <2>2. k \in 1 .. Len(outbox[p]) + 1
      BY <1>4
    <2> QED
      BY <1>4, <2>1, <2>2, LastWordStays
  <1> QED
    BY <1>3, <1>7, <1>8, <1>9

\* The message at the head of the mailbox is done with.
LEMMA MailTaken ==
    ASSUME TypeOK, NEW p \in Peer, mail[p] # <<>>, mail' = [mail EXCEPT ![p] = Tail(@)]
    PROVE  mail' \in [Peer -> Seq(Word)] /\ \A q \in Peer : Len(mail'[q]) <= MailCapacity
  <1>1. /\ MailCapacity \in Nat
        /\ mail \in [Peer -> Seq(Word)] /\ \A q \in Peer : Len(mail[q]) <= MailCapacity
    BY ChokingAssumption DEF TypeOK, ChokingAssumption
  <1>2. Tail(mail[p]) \in {<<>>, Tail(mail[p])}
    OBVIOUS
  <1> QED
    BY <1>1, <1>2, Shortened

LEMMA WordHandled ==
    ASSUME Inv, NEW p \in Peer, NEW word \in Word, HandleWord(p, word)
    PROVE  Inv'
  <1> DEFINE flag == word = "Choke"
  <1>1. /\ am_choking \in [Peer -> BOOLEAN] /\ flag \in BOOLEAN
        /\ am_choking' = [am_choking EXCEPT ![p] = flag]
        /\ am_choking' \in [Peer -> BOOLEAN]
        /\ WordFor(flag) = word
        /\ handler[p] = "idle" /\ mail[p] # <<>>
    BY DEF Inv, TypeOK, HandleWord, WordFor, Word
  <1>2. UNCHANGED <<roundVars, peers, peer_interested, writer, told>>
    BY DEF HandleWord
  <1>3. CASE WordFor(am_choking[p]) = word /\ mail' = [mail EXCEPT ![p] = Tail(@)]
             /\ UNCHANGED <<handler, outbox>>
    <2>1. am_choking' = am_choking
      BY <1>1, <1>3 DEF WordFor
    <2>2. (SilentAtFirst /\ WordsEndInFlag /\ BlocksAfterUnchoke)'
      BY <1>2, <1>3, <2>1, WireUnchanged DEF Inv, wireVars
    <2> QED
      BY <1>1, <1>2, <1>3, <2>2, MailTaken DEF Inv, TypeOK, AtMostOne, roundVars
  <1>4. CASE writer[p] /\ mail' = [mail EXCEPT ![p] = Tail(@)]
             /\ SendToWriter(p, word) /\ UNCHANGED handler
    <2>1. word \in Message
      BY DEF Message
    <2>2. /\ outbox' \in [Peer -> Seq(Message)]
          /\ \A q \in Peer : Len(outbox'[q]) <= WriterCapacity
          /\ (SilentAtFirst /\ WordsEndInFlag /\ BlocksAfterUnchoke)'
      BY <1>1, <1>2, <1>4, <2>1, SentToWriter
    <2> QED
      BY <1>1, <1>2, <1>4, <2>2, MailTaken DEF Inv, TypeOK, AtMostOne, roundVars
  <1>5. CASE ~writer[p] /\ Leave(p) /\ UNCHANGED outbox
    <2>1. SilentAtFirst' /\ WordsEndInFlag' /\ BlocksAfterUnchoke'
      BY <1>1, <1>2, <1>5
         DEF Inv, TypeOK, Leave, SilentAtFirst, WordsEndInFlag, BlocksAfterUnchoke
    <2>2. /\ mail' \in [Peer -> Seq(Word)]
          /\ \A q \in Peer : Len(mail'[q]) <= MailCapacity
      BY <1>5, ChokingAssumption DEF Inv, TypeOK, Leave, ChokingAssumption
    <2> QED
      BY <1>1, <1>2, <1>5, <2>1, <2>2 DEF Inv, TypeOK, AtMostOne, Leave, roundVars
  <1> QED
    BY <1>3, <1>4, <1>5 DEF HandleWord

LEMMA InterestOrRequest ==
    ASSUME Inv, NEW p \in Peer,
           PeerRequests(p) \/ \E interested \in BOOLEAN : PeerInterested(p, interested)
    PROVE  Inv'
  <1>1. ASSUME NEW interested \in BOOLEAN, PeerInterested(p, interested) PROVE Inv'
    BY <1>1, WireUnchanged DEF Inv, TypeOK, AtMostOne, PeerInterested, roundVars, wireVars
  <1>2. CASE PeerRequests(p) /\ writer[p]
    <2>1. /\ ~am_choking[p] /\ am_choking[p] \in BOOLEAN
          /\ am_choking' = [am_choking EXCEPT ![p] = am_choking[p]]
          /\ handler[p] = "idle" /\ SendToWriter(p, "Block") /\ "Block" \in Message
          /\ UNCHANGED <<handler, writer, told>>
      BY <1>2 DEF Inv, TypeOK, PeerRequests, MayUpload, Message
    <2>2. /\ outbox' \in [Peer -> Seq(Message)]
          /\ \A q \in Peer : Len(outbox'[q]) <= WriterCapacity
          /\ (SilentAtFirst /\ WordsEndInFlag /\ BlocksAfterUnchoke)'
      BY <1>2, <2>1, SentToWriter
    <2> QED
      BY <1>2, <2>2 DEF Inv, TypeOK, AtMostOne, PeerRequests, roundVars
  <1>3. CASE PeerRequests(p) /\ ~writer[p]
    BY <1>3, Left DEF Inv, TypeOK, AtMostOne, PeerRequests, roundVars, wireVars
  <1> QED
    BY <1>1, <1>2, <1>3

LEMMA Written ==
    ASSUME Inv, NEW p \in Peer, WriterWrites(p)
    PROVE  Inv'
  <1> DEFINE first == Head(outbox[p])
  <1>1. /\ outbox[p] \in Seq(Message) /\ outbox[p] # <<>> /\ writer[p]
        /\ first \in Message
        /\ outbox' = [outbox EXCEPT ![p] = Tail(@)] /\ outbox'[p] = Tail(outbox[p])
        /\ Len(outbox[p]) \in Nat /\ Len(outbox'[p]) = Len(outbox[p]) - 1
        /\ \A k \in 1 .. Len(outbox'[p]) : outbox'[p][k] = outbox[p][k + 1]
    BY DEF Inv, TypeOK, WriterWrites
  <1>2. /\ told \in [Peer -> Word] /\ told' \in [Peer -> Word]
        /\ told'[p] = IF first \in Word THEN first ELSE told[p]
        /\ \A q \in Peer \ {p} : told'[q] = told[q] /\ outbox'[q] = outbox[q]
    BY <1>1 DEF Inv, TypeOK, WriterWrites
  <1>3. UNCHANGED <<roundVars, peers, handler, mail, am_choking, peer_interested, writer>>
    BY DEF WriterWrites
  <1>4. /\ outbox' \in [Peer -> Seq(Message)]
        /\ \A q \in Peer : Len(outbox'[q]) <= WriterCapacity
    <2>1. /\ WriterCapacity \in Nat
          /\ outbox \in [Peer -> Seq(Message)]
          /\ \A q \in Peer : Len(outbox[q]) <= WriterCapacity
      BY ChokingAssumption DEF Inv, TypeOK, ChokingAssumption
    <2>2. Tail(outbox[p]) \in {<<>>, Tail(outbox[p])}
      OBVIOUS
    <2> QED
      BY <1>1, <2>1, <2>2, Shortened
  <1>5. ASSUME NEW n \in 1 .. Len(outbox[p]), NEW word \in Word,
               LastWord(told[p], outbox[p], n + 1, word)
        PROVE  LastWord(told'[p], outbox'[p], n, word)
    BY <1>1, <1>2, <1>5, LastWordWritten
  <1>6. SilentAtFirst'
    BY <1>1, <1>2, <1>3 DEF Inv, SilentAtFirst
  <1>7. WordsEndInFlag'
    <2> SUFFICES ASSUME handler[p] = "idle"
                 PROVE  LastWord(told'[p], outbox'[p], Len(outbox'[p]) + 1,
                                 WordFor(am_choking[p]))
      BY <1>2, <1>3 DEF Inv, WordsEndInFlag
    <2>1. LastWord(told[p], outbox[p], Len(outbox[p]) + 1, WordFor(am_choking[p]))
      BY <1>1 DEF Inv, WordsEndInFlag
    <2>2. Len(outbox[p]) \in 1 .. Len(outbox[p]) /\ WordFor(am_choking[p]) \in Word
      BY <1>1 DEF WordFor, Word
    <2> QED
      BY <1>1, <1>5, <2>1, <2>2
  <1>8. BlocksAfterUnchoke'
    <2> SUFFICES ASSUME NEW k \in 1 .. Len(outbox'[p]), outbox'[p][k] = "Block"
                 PROVE  LastWord(told'[p], outbox'[p], k, "Unchoke")
      BY <1>2 DEF Inv, BlocksAfterUnchoke
    <2>1. k + 1 \in 1 .. Len(outbox[p]) /\ outbox[p][k + 1] = "Block"
      BY <1>1
    <2>2. LastWord(told[p], outbox[p], k + 1, "Unchoke")
      BY <2>1 DEF Inv, BlocksAfterUnchoke
    <2>3. k \in 1 .. Len(outbox[p]) /\ "Unchoke" \in Word
      BY <1>1 DEF Word
    <2> QED
      BY <1>5, <2>2, <2>3
  <1> QED
    BY <1>2, <1>3, <1>4, <1>6, <1>7, <1>8 DEF Inv, TypeOK, AtMostOne, roundVars

LEMMA WriterLost ==
    ASSUME Inv, NEW p \in Peer, WriterFails(p)
    PROVE  Inv'
  <1>1. /\ handler[p] \in {"idle", "leaving", "gone"}
        /\ writer' = [writer EXCEPT ![p] = FALSE]
        /\ outbox' = [outbox EXCEPT ![p] = <<>>]
        /\ UNCHANGED <<roundVars, peers, handler, mail, am_choking, peer_interested, told>>
    BY DEF WriterFails
  <1>2. SilentAtFirst'
    BY <1>1 DEF Inv, TypeOK, SilentAtFirst
  <1>3. WordsEndInFlag'
    BY <1>1 DEF Inv, TypeOK, WordsEndInFlag
  <1>4. BlocksAfterUnchoke'
    BY <1>1 DEF Inv, TypeOK, BlocksAfterUnchoke
  <1>5. outbox' \in [Peer -> Seq(Message)] /\ \A q \in Peer : Len(outbox'[q]) <= WriterCapacity
    BY <1>1, ChokingAssumption DEF Inv, TypeOK, ChokingAssumption
  <1> QED
    BY <1>1, <1>2, <1>3, <1>4, <1>5 DEF Inv, TypeOK, AtMostOne, roundVars

-----------------------------------------------------------------------------
(* The theorems.                                                           *)

LEMMA NextInv == Inv /\ [Next]_vars => Inv'
  <1> SUFFICES ASSUME Inv, [Next]_vars PROVE Inv'
    OBVIOUS
  <1>1. CASE RegularUnchoke \/ OptimisticUnchoke
    BY <1>1, RegularRound, OptimisticRound
  <1>2. CASE RoundStep
    <2>1. CASE PushPeer
      <3>1. CASE target = {}
        BY <2>1, <3>1, WireUnchanged DEF Inv, TypeOK, AtMostOne, PushPeer, wireVars
      <3>2. CASE target # {}
        BY <2>1, <3>2, ComesAndGoes DEF Inv, AtMostOne
      <3> QED
        BY <3>1, <3>2
    <2> QED
      BY <1>2, <2>1, RegularRound, OptimisticRound DEF RoundStep
  <1>3. ASSUME NEW p \in Peer, PeerStep(p) PROVE Inv'
    BY <1>3, ComesAndGoes, WordHandled, InterestOrRequest, Written, WriterLost
       DEF PeerStep, HandlesWord
  <1>4. CASE UNCHANGED vars
    BY <1>4, WireUnchanged DEF Inv, TypeOK, AtMostOne, vars, wireVars
  <1> QED
    BY <1>1, <1>2, <1>3, <1>4 DEF Next

\* The inductive invariant: the words under way end in the one am_choking stands
\* for, and blocks come after an UNCHOKE.
THEOREM Invariance == Spec => []Inv
  BY InitInv, NextInv, PTL DEF Spec

\* Every variable keeps its type and every channel its capacity.
THEOREM TypeCorrect == Spec => []TypeOK
  <1>1. Inv => TypeOK
    BY DEF Inv
  <1> QED
    BY <1>1, Invariance, PTL

\* However the rounds, the handler and its writer interleave, a peer is told what
\* am_choking says (torrent.rs:246, peer.rs:718).
THEOREM PeersAreTold == Spec => []ToldAgrees
  <1>1. Inv => ToldAgrees
    <2> SUFFICES ASSUME Inv, NEW p \in Peer, handler[p] = "idle", writer[p]
                 PROVE  ToldBefore(p, Len(outbox[p]) + 1) = WordFor(am_choking[p])
      BY DEF ToldAgrees
    <2>1. LastWord(told[p], outbox[p], Len(outbox[p]) + 1, WordFor(am_choking[p]))
      BY DEF Inv, WordsEndInFlag
    <2>2. Len(outbox[p]) + 1 \in Nat /\ WordFor(am_choking[p]) \in Word
      BY DEF Inv, TypeOK, WordFor, Word
    <2> QED
      BY <2>1, <2>2, LastWordIsToldBefore
  <1> QED
    BY <1>1, Invariance, PTL

\* No block is written to a peer whose last word is CHOKE, although the request
\* was checked long before (peer.rs:727).
THEOREM NoUploadToChoked == Spec => BlocksOnlyWhenUnchoked
  <1> DEFINE A == \A p \in Peer :
                     WriterWrites(p) /\ Head(outbox[p]) = "Block" => told[p] = "Unchoke"
  <1>1. Inv => A
    <2> SUFFICES ASSUME Inv, NEW p \in Peer, WriterWrites(p), Head(outbox[p]) = "Block"
                 PROVE  told[p] = "Unchoke"
      OBVIOUS
    <2>1. 1 \in 1 .. Len(outbox[p]) /\ outbox[p][1] = "Block"
      BY DEF Inv, TypeOK, WriterWrites
    <2>2. LastWord(told[p], outbox[p], 1, "Unchoke")
      BY <2>1 DEF Inv, BlocksAfterUnchoke
    <2> QED
      BY <2>2 DEF LastWord
  <1> QED
    BY <1>1, Invariance, PTL DEF BlocksOnlyWhenUnchoked
=============================================================================
