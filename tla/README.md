# A verification of rust_torrent in TLA+

rust_torrent is a BitTorrent client: one torrent, many peers, everything on
tokio tasks that share a dozen mutexes. This directory holds TLA+ modules that
model it, TLC configurations that check them on small instances, and TLAPS
proofs of what matters most for every size. Paths such as `torrent.rs:463` are
relative to the crate's `src/` (`src/src/` from the repository's parent).

Running it:

    tlc -workers 2 -config MCDownload_lifecycle.cfg MCDownload.tla
    tlc -workers 2 -config MCSession_session.cfg MCSession.tla
    tlapm DownloadProofs.tla
    tlapm ChokingProofs.tla
    tlapm LocksProofs.tla
    tlapm SeedingProofs.tla
    tlapm Induction.tla
    tlapm StoreProofs.tla
    tlapm SessionProofs.tla
    tlapm ConnectionProofs.tla

## 1. Inventory

### 1.1 Components

| Component | State | Operations | In which file |
|---|---|---|---|
| Main task | `peers`, `optimistic_unchoke_peer`, `downloaded_pieces` at start | start-up, the unchoke rounds, accepting connections | `torrent.rs` (`start_downloading`) |
| Download scheduling | `blocks_to_download`, `downloading_piece(_index)`, `downloaded_pieces`; per peer `requested_blocks`, `queue_size`, `piece_availability`, `peer_choking` | `choose_first_piece`, `block_downloaded`, `try_choose_new_piece`, `try_update_job_queue`, `try_get_new_jobs`, `try_remove_job`, the request timers | `torrent.rs`, `peer.rs`, `peer_info.rs` |
| Choking | `am_choking`, `peer_interested`, `optimistic_unchoke_peer` | `regular_unchoke`, the optimistic unchoke, Choke/Unchoke in the handler, the request branch, the writer | `torrent.rs`, `peer.rs` |
| Tasks, mutexes, channels | who holds what, what is in each channel | every `lock().await`, every `send().await` | `torrent.rs`, `peer.rs` |
| Per-peer statistics | rolling rates, slow start, totals | `tick`, `downloaded_from` | `peer_info.rs` |
| Wire protocol | two buffers of `PeerMessageReader` | framing, parsing, serialising | `peer.rs` |
| Handshake and connection | none once it is done | `start_connection` | `peer.rs` |
| Piece geometry and storage | the files | `get_file_sections`, `read_block`, `write_piece`, `check_piece_hash`, `check_whole_hash`, the file manager | `torrent.rs`, `file_manager.rs` |
| Announcements | what each remote peer knows of our pieces | the bitfield of a writer, `Have` on each piece | `torrent.rs`, `peer.rs` |
| Tracker client | none kept | HTTP and UDP exchange | `torrent.rs` |
| MetaInfo parser | none | which torrent files are accepted | `metainfo.rs` |
| Torrent manager and main | the one torrent | loading, start-up, the end of the process | `manager.rs`, `main.rs` |
| Bytes helpers | none | hashing, identifiers, encodings | `bytes.rs` |

### 1.2 How they interact

* The main task spawns one **handler** per peer (`Peer::start`), which spawns one
  **writer** for its connection and one **timer** for every block it requests.
* Handlers are told things through a mailbox of ten (`ClientMessage`): a piece is
  done, the queue of blocks has changed, choke, unchoke. Any task may send there;
  a broadcast keeps the lock of `peers` while it waits for room.
* A handler tells its writer what to put on the wire through a channel of ten.
* All other communication is through shared state under tokio mutexes: `peers`,
  each `peer_info`, `downloading_piece`, `downloading_piece_index`,
  `blocks_to_download`, `downloaded_pieces`.
* Files are read and written by one file manager task, over its own channel of 32.

### 1.3 What is hard, and what makes each component correct

* **Download scheduling.** A block moves between the queue, a peer's requests, a
  handler's hand and a slot, and four kinds of task move it. It must never be lost
  (the piece would never complete) or copied (the assertion with a question mark
  at `torrent.rs:463` would panic a handler that holds four guards). A slot is
  filled under one guard and the piece judged under the next. Requests must be
  timed out; whoever queues a block must wake those who could take it.
* **Choking.** `am_choking` is changed by a handler on messages that are still
  under way when the next round reads it. A request is checked on reception and
  answered later. The peer must be told what `am_choking` says, no block may
  follow a `Choke`, nobody may starve, and the number of downloaders is meant to
  be bounded.
* **Locks and channels.** Guards live as long as their scope; correctness rests
  on a dozen explicit `drop`s and on an order of locking that nothing enforces.
* **Statistics.** Sums and averages over a moving window in `u32`; the totals wrap.
* **Wire protocol.** `next()` is cancelled by `select!` at every await; what was
  read so far must survive, and a message that cannot be parsed ends the hearing.
* **Storage.** Sections must tile a piece; a crash between marking and writing a
  piece must be found at the next start; reads and writes share one queue whose
  order is all that keeps a block read after a write right.
* **Announcements.** Each peer must learn of each piece: by the bitfield or by a
  `Have`, one of which is taken at a later moment than the other is queued.
* **Tracker.** Datagrams may be lost, repeated, or answer an earlier question; each
  URL must lead to the next one or to an end.

The hazards, each at its line with the properties that would catch it, are in
`PROJECT.json`; those without a property say why they have none.

## 2. The modules

| Module | Models | Code |
|---|---|---|
| `PieceLedger` | what the download promises: one piece at a time, the first missing first; a slot filled once; a full piece kept or started again | abstract |
| `Download` | the scheduling of blocks by main task, handlers, writers and timers | `torrent.rs`, `peer.rs`, `peer_info.rs` |
| `Choking` | the unchoke rounds, what handlers and writers make of them, uploads | `torrent.rs`, `peer.rs` |
| `Locks` | every mutex and every bounded channel between tasks, in the order of the code | `torrent.rs`, `peer.rs` |
| `PeerMessages` | messages as bytes, and back | `peer.rs` |
| `MessageReader` | `PeerMessageReader`: frames out of a stream, over cancelled reads; extends `PeerMessages` | `peer.rs` |
| `PeerStats` | the counters of `PeerInfo`: totals, window, rate, slow start | `peer_info.rs` |
| `Connection` | the select loop around one reader and its counters: composes `MessageReader` and `PeerStats` | `peer.rs` |
| `MetaInfo` | which torrent files are accepted | `metainfo.rs` |
| `Tracker` | the first question to the trackers | `torrent.rs` |
| `PieceStore` | ranges of the files, the file manager and its queue, the crash | `torrent.rs`, `file_manager.rs` |
| `Session` | a process from its torrent file to its crash, and the next one: composes `MetaInfo`, `Tracker` and `PieceStore` | `main.rs`, `manager.rs`, `torrent.rs`, `peer.rs` |
| `Archive` | what the client promises about pieces over its restarts | abstract |
| `Induction` | principles of induction over numbers, sequences and folds, as lemmas | |
| `StoreProofs` | lemmas about the ranges of the files and the order of the file manager's queue | |
| `DownloadProofs`, `ChokingProofs`, `LocksProofs`, `SeedingProofs`, `SessionProofs`, `ConnectionProofs` | theorems | |
| `MCDownload`, `MCChoking`, `MCLocks`, `MCConnection`, `MCSession` | instances for TLC | |

`Download`, `Choking` and `Locks` describe the same tasks at three grains. The
first two take a step to be what happens under one set of guards, and leave out
waiting; `Locks` keeps nothing but the waiting. `Connection` is one handler with
the bytes it reads. `Session` is the whole process, with everything between the
request of a block and the completion of its piece left to `Download`.

Two abstract specifications are implemented. `Download` implements `PieceLedger`
through the mapping

    kept    <- downloaded_pieces
    current <- downloading_piece_index
    filled  <- the indices of the slots of downloading_piece that are Some

and `Session` implements `Archive`, over crashes, through

    kept    <- downloaded_pieces
    safe    <- the pieces all of whose bytes are right in the files

### 2.1 Download

State and code have the same names. `Vec<BlockInfo>` is a bag, since the code
only ever searches it for an equal element; a peer's bit vector of pieces is a
set; a block in a slot is `"none"`, `"good"` or `"bad"`; `None` as an index is -1.
`hand` is the `Block` that a handler took out of `requested_blocks`
(`peer.rs:734`) and passes to `block_downloaded`. `mail` is the mailbox as a set:
both messages only make the handler look at shared state again, and a set can
deliver them in any order, which includes that of the channel.

The handler's control state stands for its position and the guards it keeps:

| `handler[p]` | position | guards kept |
|---|---|---|
| `spawned`, `connecting` | `start_handler` before and during `start_connection` | |
| `idle` | the `select!` loop | |
| `store` | `block_downloaded`, before the slot is filled | `peer_info` |
| `choose` | before `try_choose_new_piece` | `peer_info` |
| `update` | before `try_update_job_queue` | |
| `spinning` | inside `try_get_new_jobs`, for ever | `peer_info`, `blocks_to_download` |
| `leaving`, `gone`, `panicked` | returned; disconnected; ended by a panic | |

`TryChooseNewPiece` is one step because the code keeps the locks of the piece and
the queue from its first line to its last; `UpdateJobQueue` likewise (the guards
of an `if let` live to its end, `peer.rs:374-384`), including the sends that may
fail halfway and the timers created one by one.

Two odd things are modelled as written: `check_if_interested` compares the pieces
*we have* with those the peer has (`peer.rs:563`), and a bitfield that is too
short panics the handler (`peer.rs:710`).

### 2.2 Choking

`main` is the position in an unchoke round, `todo` the peers still to visit. The
lock of `peers` is kept for the whole round, so peers leave only between rounds.
Rates only decide the order of visits and are left out: every order is possible.
A handler's step from setting `am_choking` to sending the message is one step, as
the code keeps the guard of `peer_info` over it. `told` is the last of CHOKE and
UNCHOKE on the wire.

### 2.3 Locks

A task's label names the await it has reached. A step goes from one await to the
next; a guard that is dropped before the next await is only required to be free
(`Use`), one that is kept is taken (`Take`). Data is reduced to counts: pieces
missing, blocks queued, requested, stored. Three simplifications, which drop no
circular wait: `downloading_piece_index` is one lock with `downloading_piece`
(always taken right after and dropped with it); a sender that waits for a
mailbox holds the lock of its `peer_sender`, which makes the next sender wait
for that same room; one timer per peer is followed at a time. The file manager's
channel is left out: its task takes no lock and waits for nobody.

### 2.4 PeerMessages, MessageReader, PeerStats, Connection

`AsBytes` and `FromBytes` are `PeerMessage::as_bytes` and `from_bytes`, byte by
byte, since the reader cuts the stream at any byte; the bits of a bitfield are packed
into bytes from the highest down (`peer.rs:217-230`). In `MessageReader` a step is one
read, of any number of the bytes there are, from the await in `next()` to the next await or the return. The
variables are the fields of `PeerMessageReader`, and `DropNext` is what is left of
the future when another branch of `select!` is taken. `PeerMessage` is the enum, its
numbers being `u32`, and so is the length of a frame.

`PeerStats` has `Width` for the 32 bits of a total, and wraps where a release build
does. `Connection` adds the rest of the loop as far as one connection is
concerned: the messages that count (`Piece`, `Request`), the tick that interrupts
the reading, and `overflow_checks`, which makes the handler panic where a debug
build would. The other end sends the frames of a client like this one, keep-alives,
and messages with an unknown id; the last bytes may never arrive.

### 2.5 MetaInfo, Tracker, PieceStore, Session

`MetaInfo`: a field of the dictionary is missing, of the wrong type, a negative
number, or good; `FromBencode` follows the parser in its order, which lets a
malformed element of `files` be found after the list itself was accepted.

`Tracker`: `asking` is the position in `request_tracker`, `urls` what remains of
`possible_urls`, `net` the datagrams under way to the socket of this URL. A datagram
may be lost or arrive twice, and a tracker may answer an error. The assertions on
answers, and the unwraps on the port of a URL, are `AssertionFails`: a panic of the
main task, where every other failure tries the next URL.

`PieceStore`: a byte is its place in the torrent, or `Zero`. `Offset`, `PieceSize`,
`BlocksOf` and `Sections` are the `u32` arithmetic of `torrent.rs`; `WritesOf` is
`write_piece`. `queue` is the file manager's channel, and `reading[r]` a task that
waits in `join_all` for its sections. A crash, or an error of the file system, may
leave any first part of the write at the head of the queue in the file (`CutShort`),
and none of the others.

`Session`: `main` is the position of the main task from the torrent file to its
select loop (`"deaf"`: the loop never began, see below; `"accepting"`: between the
start of a new peer and its listing). `conn[p]` is how far a peer's handler and
writer are, `outbox[p]` what the writer still has to put on the wire, `told[p]` the
pieces the remote side knows of. A remote side asks for any range of a set
(`Requested`): the code checks that it is not choked and the length
(`peer.rs:716-727`), and neither that we have the piece nor that the range lies in
the torrent. One that is too long ends the handler (`Disconnect`); one that reaches
beyond the torrent yields fewer bytes than were asked for, and the `assert_eq!` of
`peer.rs:515` panics the writer, as an overflow does in a debug build
(`WriterPanics`). `writing` is the handler that completed a piece,
between writing it, marking it and announcing it: the bytes are sent section by
section, so that a crash or a reader may come between any two. `AnnouncePiece` is
one step, since the lock of `peers` is kept over the whole broadcast and nobody
joins or leaves the list meanwhile. Pieces are completed in order, as `Download`
shows they are.

The main task panics on an interval of zero, which a tracker may answer
(`torrent.rs:214`): peers that were started go on, but no round runs any more. That
is `main = "deaf"`.

## 3. What is checked

### 3.1 Runs that pass

| Run | Instance | Properties | What it shows |
|---|---|---|---|
| `lifecycle` | one peer that joins and whose connection may fail; pieces of two and one block; a queue that shrinks; one corrupt block | `TypeOK`, `QueueEmptyWhenComplete`, `CurrentIsFirstMissing`, `UntimedOnlyWithoutWriter`, `Inv`, `LedgerSpec` | Receptions, timeouts, a bad hash and disconnections leave the assertion at `torrent.rs:463` true; pieces are fetched in order; a request lacks a timer only when the writer is gone (or its handler spins); the inductive invariant of the proofs holds; the ledger is kept |
| `progress` | two peers on sound connections, one of which joins and may choke us again; a piece of two blocks, none corrupt | `BlockInOnePlace`, `RequestsResolved`, `NoStall` | The blocks two peers compete for are neither lost nor copied; unless a handler spins, every request is answered or its block queued again, and a queued block does not wait for ever beside a peer that would take it, one that unchokes us before it is listed excepted |
| `served` | two peers, one joining and unsteady; one regular slot; channels of one | `TypeOK`, `ToldAgrees`, `BlocksOnlyWhenUnchoked`, `Served` | A peer is told what `am_choking` says; no block leaves while the last word was CHOKE; an interested peer that stays connected is unchoked again and again |
| `connection` | up to three frames of another client, the last byte perhaps lost; three seconds; totals of two bits | `TypeOK`, `InOrder`, `NothingMissed`, `WindowIsRecent`, `AllHeard` | However reads and ticks cut the stream, messages come out whole, once and in order, none that arrived whole is missed, and all are heard in the end; the window is that of the last seconds although totals wrap |
| `session` | one peer of the tracker that asks for ranges in and out of the torrent, one that connects by itself; two files, two pieces; UDP, HTTP and malformed URLs; one lost answer, one repeated, one crash; 44 torrent files | `TypeOK`, `ServedIsGood`, `KeptIsOnItsWay`, `EachPieceTold`, `ArchiveSpec`, `Answered` | A peer that asks within the pieces it was told of reads their bytes, all of them, also of a piece written a moment ago and whatever else is asked for; marked pieces reach the disk; a restart counts exactly the whole pieces; a peer of the tracker is told of each piece; the question to the trackers ends unless an answer is lost |
| `seeding` | two peers, one joining and unsteady; nothing to download; channels of one | `NoCircularWait`, and no deadlock | Unchoke rounds, alerts, uploads and connections never wait in a circle |
| `leeching` | one unsteady peer; two pieces of two blocks; mailboxes of two, writer's channel of one | `TypeOK`, `InOrder`, `NoInnerCircle`, `NoBlockLost` | All locks but that of the peers are asked for in one order, no circle of waiting tasks is made of them and the writers' channels, and as long as there is a piece to download as many blocks are queued, requested, in a hand or stored as it has; before the first and after the last there is none |

### 3.2 Runs that show a disagreement

| Run | Property | What happens |
|---|---|---|
| `lost_request` | `RequestsResolved` | A batch of jobs is sent one by one and each gets its timer after its send. When a send fails the function returns; jobs not yet sent stay in `requested_blocks` of a peer that is gone, and the piece can never complete (`peer.rs:378-382`). |
| `spin` | `HandlerReturns` (Download) | With room in the queue and only blocks available that the peer lacks, the `while` loop of `try_get_new_jobs` never ends, holding two guards (`peer_info.rs:102`). |
| `bad_piece_stall` | `NoStall` | After a bad piece the blocks are queued again but nobody is alerted (`torrent.rs:471`); idle peers that would take them never look. |
| `downloaders` | `DownloadersBounded` | `regular_unchoke` never chokes, so every peer ends up unchoked, whatever `MAX_DOWNLOADERS` says (`torrent.rs:368`). |
| `deadlock` | `HandlerReturns` (Locks) | A handler that completes a piece keeps `peer_info` and asks for `peers`; an unchoke round keeps `peers` and asks for `peer_info` (`torrent.rs:495`, `torrent.rs:327-333`). |

The first three share one consequence: a download that stops although peers have
the pieces. The passing run `progress` says what remains true without a failing
writer and without a corrupt block. It is not that the download cannot stop. A
handler may still spin: a timer puts its block back and alerts the peers, one that
has none of the queued pieces turns with the guard of `blocks_to_download`
(`peer_info.rs:102`), and the timers of the other blocks of the batch never get it.
So `RequestsResolved` and `NoStall` are claimed of a download that no handler stops
that way (`Spins`). And `NoStall` leaves out a peer that lets us request before it is
listed (`UnchokesUnlisted`): an accepted peer is started first and pushed to `peers`
after (`torrent.rs:271-273`), so that it may look at the queue, go idle, and miss the
alert of a timer. Nothing else excepts a peer that would take the block, one on its
way to `try_update_job_queue` included.

### 3.3 Bounds, and why they are enough

* **Two peers.** All races are between the handler of one peer and one other task:
  a second handler, a timer, the main task. `lifecycle` has one peer, a second
  handler being what the theorems about the same properties cover, for any number;
  `progress` has two, the second of which joins late and is `Fickle`, that is, may
  choke us again; that a peer makes its handler end (`Unsteady`) is left to
  `lifecycle`. `downloaders` needs three, as one regular and one optimistic slot are
  legal.
* **Pieces and blocks.** Two blocks make a batch whose timers fire one by one, with
  an alert in between, and let one be stored while the other is
  requested; two pieces of different size let a late answer meet the slots of the
  next one. The proofs cover all other numbers.
* `MaxQueue` caps `queue_size`: with at most two blocks sizes above two do not
  differ. `TickSize` gives the sizes a rate may lead to.
* `MaxCorrupt` caps corrupt blocks, `MaxAlerts` the timers between removing a job
  and alerting; a second alert only repeats the first.
* Mailboxes and channels hold ten messages in the code; the models use one to three
  so that they do fill up. A handler that completes a piece sends two messages to
  itself, so `leeching` needs a mailbox of two to get past that. `MailCapacity = 3` in
  `deadlock` shows that the circle needs no full mailbox.
* **`connection`.** `MaxSent = 3` frames let a message follow an unknown one, a
  keep-alive, or a wrapped total; the messages include a piece index of two bytes, a
  bitfield of two bytes, and a request above `MAX_ALLOWED_BLOCK_SIZE`. `Width = 2`
  makes the two blocks of one and three bytes wrap a total. `MaxTicks = 3` is more
  than `ROLLING_AVERAGE_SIZE = 2`. `MaxLost = 1`: the last frame never completes.
* **`session`.** Files of one and three bytes, pieces of three and one, blocks of two:
  the first piece and its first block span both files and the last piece is short.
  `NumPieces * PieceLength` is six and `Width` three, so that seven would not fit:
  the largest geometry that `GeometryAssumption` admits up to a byte. `Capacity = 2`
  fills up with the two sections of a piece. `MaxLost`, `MaxRepeated` and `MaxCrashes`
  are one each: the URLs are tried in turn with a socket of their own, and a crash
  leaves nothing but the files. `TorrentFiles` are a good one and every one that
  differs from it in one field and is refused. `Requested` are a block that spans the
  files, a range whose place wraps to the last byte and that ends beyond it, and one
  above `MAX_ALLOWED_BLOCK_SIZE`; one request is under way at a time.
* **`leeching`.** Two pieces, so that one is chosen while the other is done and `NoBlockLost`
  is seen to start anew.

Deadlock checking is on for `Choking` and for `seeding`. It is off for `Download`
(when all handlers have returned nothing is left to do, as the main task's
intervals are not part of that module), for `leeching`, which reaches the
deadlock of section 3.2 and states what holds in spite of it, for `connection`
(all is read and the last second over), and for `session` (the process ends on a
bad torrent file or a panic).

### 3.4 Fairness

Stated as `FairSpec`, and used by liveness properties only.

* A task that can run does (weak fairness): tokio's scheduler.
* A task that waits for a mutex or for room in a channel gets there when it is
  free again and again (strong fairness): both are first come, first served.
* `select!` polls its branches in random order, so a branch that is ready again and
  again is taken (strong fairness on handling messages and on the intervals).
  `Connection` needs weak fairness on reading only, since its reader is ready as
  long as bytes are there.
* A timer fires; a write to a peer completes, or fails if the peer is `Breakable`
  or `Unsteady`. A peer that never reads and keeps its connection is outside this
  assumption: the code has no timeout for writes and it would hold up everyone.
* In `Session` weak fairness on the main task up to the answer of a tracker; a lost
  answer is not made up for, as nothing is sent twice, and `Answered` excepts it.
* Nothing is assumed of what a peer sends: it may never answer a request, and may ask
  for any range (section 2.5). What is promised of the answer depends on what it asks:
  within the pieces it was told of it gets their bytes (`ServedIsGood`); for a piece we
  lack it gets whatever is in the files.

## 4. What is proved

All theorems hold for any values of the constants that the named assumptions of
the modules admit.

`DownloadProofs`, for any set of peers, number of pieces and blocks, from
`DownloadAssumption` alone (the constants have their types, a piece has at least
one block):

| Theorem | Says |
|---|---|
| `TypeCorrect` | `Spec => []TypeOK` |
| `Invariance` | `Spec => []Inv`, where `Inv` is inductive |
| `BlocksNeitherLostNorCopied` | `Spec => []BlockInOnePlace` |
| `AssertionHolds` | `Spec => []QueueEmptyWhenComplete` |
| `PiecesInOrder` | `Spec => []CurrentIsFirstMissing` |
| `RequestsAreTimed` | `Spec => []UntimedOnlyWithoutWriter` |
| `ImplementsLedger` | `Spec => LedgerSpec`: `Download` implements `PieceLedger` |

`BlockInOnePlace` is not inductive by itself. A block in a handler's hand will be
stored later, into a slot found by its index alone; that the slot is that of the
right piece needs `HandMatchesHandler` (a hand is full exactly between taking and
storing), `HeldOnce` (a request occurs once, and not beside its block in hand),
`SlotsMatchPiece` (as many slots as the current piece has blocks) and
`CurrentIsFirstMissing` (the next piece is another one). The key argument: while
a block is requested or in hand, it belongs to the current piece and its slot is
empty; so the piece is incomplete, and nobody can judge it or choose another
before the block is stored. A late answer finds its request gone and is dropped.
With that, the assertion follows at once: a complete piece has all its blocks
stored, so none of them is queued, and no others ever are.

The proof goes action by action (`InitInv`, one lemma per action that touches
blocks, `NextInv`); lemmas on the bags (`Put`, `Drop`) and on replacing a slot
come first. The refinement maps `StoreBlock` to `Fill`, `PieceBad` to `ThrowAway`,
`PieceGood` to `Keep`, the first choice to `Begin`, everything else to a stutter.

`ChokingProofs`, for any set of peers, `MAX_DOWNLOADERS` and capacities:

| Theorem | Says |
|---|---|
| `TypeCorrect` | `Spec => []TypeOK`, the bounds of the channels included |
| `Invariance` | `Spec => []Inv`, where `Inv` is inductive |
| `PeersAreTold` | `Spec => []ToldAgrees` |
| `NoUploadToChoked` | `Spec => BlocksOnlyWhenUnchoked` |

Both properties are about the queue between handler and writer. `LastWord` says what
the last of CHOKE and UNCHOKE before a place in it is, what the peer was told before
the queue included. `WordsEndInFlag`: behind the last message that word is the one
`am_choking` stands for, whenever a writer is there to send it. `BlocksAfterUnchoke`:
before every block in the queue it is UNCHOKE, which holds when the block is put
there, as a request is accepted while `am_choking` is false, and stays so, as messages
leave at the head only. `SilentAtFirst` starts the argument: before a handler has its
connection nothing was said. Five lemmas on `LastWord` carry it over what is appended
and taken.

`LocksProofs`, for any set of peers, tracker response, number of pieces and
blocks, and channel capacities; the first three without any assumption on them, the
others from `LocksAssumption` (the constants have their types, there is room for one
message in a channel, a piece has a block):

| Theorem | Says |
|---|---|
| `LocksTaken` | `Spec => []Guarded`: what a task holds is determined by where it waits |
| `LocksInOrder` | `Spec => []InOrder`: one order of asking for all locks but that of the peers |
| `NoInnerDeadlock` | `Spec => []NoInnerCircle`: no circle of waiting tasks without that lock or a mailbox |
| `LocksTypeCorrect` | `Spec => []TypeOK`, the bounds of mailboxes and channels, and of the blocks queued, requested and stored included |
| `NoBlockIsLost` | `Spec => []NoBlockLost`: as long as there is a piece to download, as many blocks are queued, requested, in hand or stored as it has; otherwise none |

`InOrder` speaks of who owns what when something is asked for; that is inductive
only once every label says which locks can be held there (`HoldsAt`), and a writer is
known not to run before its handler is connected. `NoInnerCircle` follows with a
rank: what a task waits for comes later in the order than what it holds, so along
a chain of waiting tasks the rank grows, and it is at most five. The lock of the
peers is exempt, and has to be: the `deadlock` run shows that its place in the
order differs between tasks. The theorem says that this lock (with the mailboxes
that are filled under it) is the only thing to repair.

That `queued` is never more than the blocks of a piece is not a bound on one
variable: a block comes back to the queue from any peer. So `TypeOK` needs
`NoBlockLost`, a sum over all peers, which is a cardinality here: of the requests
(`Outstanding`) and of the handlers with a block in hand (`InHand`). The sum is kept
by every step that moves a block; where a piece is begun again or given up it must be
known what the sum is, and that follows from `Working`: from finding a piece complete
to beginning the next a handler owns the lock of the piece (`PieceHeld`); all its
blocks are stored until the next is begun, and none is under way before the first is
chosen (`InStages`); from the first choice on a whole piece of blocks is under way as
long as a piece is missing (`NoneForgotten`), and once none is nothing is
(`LastMarked`).

`SeedingProofs` adds that nothing is to be repaired for a seeder:

| Theorem | Says |
|---|---|
| `NoDeadlockSeeding` | `Pieces = 0` implies `Spec => []NoCircularWait`, the lock of the peers and the mailboxes included |

Its invariant, `Seeding`, says that without pieces no handler ever reaches the labels
at which a piece is stored, judged or announced, no timer runs, and the only task
that keeps the lock of the peers beyond one step is the main task in a round. So that
lock can come first in the order (`SeedRank`): those who ask for it hold nothing
anyone waits for, and the round waits for a `peer_info` or for a mailbox, whose
handler waits for something later still.

`SessionProofs`, for any peers, requests, URLs, torrent files and number of crashes:

| Theorem | Says |
|---|---|
| `Invariance` | `Spec => []Inv`, where `Inv` is inductive |
| `PiecesAnnounced` | `Spec => []EachPieceTold` |
| `BytesInvariance` | `Spec => []Kept`, where `Kept` is inductive beside `Inv` |
| `SessionTypeCorrect` | `Spec => []TypeOK` |
| `BlocksAreServedRight` | `Spec => []ServedIsGood` |
| `MarkedGetsToDisk` | `Spec => []KeptIsOnItsWay` |
| `ImplementsArchive` | `Spec => ArchiveSpec`: `Session` implements `Archive`, over crashes |

`EachPieceTold` needs `TrackerPeersListed` (a piece that is completed is announced to
every peer of the tracker that is at work: none can be between start and listing by
then) and `NobodyYet` (nothing is completed before). A bitfield is what is marked when
the writer gets to it; a piece marked later is announced later, and finds the mailbox
that was made before the connection.

The other theorems are about bytes, from `GeometryAssumption` (all numbers of the
torrent fit the width of the arithmetic, its pieces cover its files) and
`LargestAssumption` (the torrent ends at least one largest block below that width, so
that a range a peer asks for, if it begins in the torrent, does not wrap). Torrents
outside them the parser accepts, and the code gets wrong. They rest on
`StoreProofs`, which knows nothing of peers:

* `Sections` cuts a range at the ends of files: what it returns is a `Chain` from the
  start of the range to its end, each section within its file. `Offset` and the
  loop over the files are recursive, so this is an induction.
* The channel keeps the order of asking. `InTurn`: the sections a reader waits for, in
  the order of the channel, then those still due, are a `Chain` from where it has got
  to up to the end of its range; so each answer continues what it has, and `join_all`
  returns the range.
* `OnItsWay`: a byte is right in the file, or a write in the channel makes it so. No
  write ever writes a wrong byte, so a byte stays on its way until it is right, and a
  read behind the write finds it right (`GoodRead`). A crash ends the channel, and the
  promise with it.

`Kept` joins this to the session: only pieces on their way are marked
(`MarkedOnItsWay`), the handler that completed a piece has sent, or still has to send,
each section of it (`WritingOK`), a peer is told of marked pieces only
(`OnlyMarked`), and what one asks for within those is read right (`Promised`), whatever
others ask for at the same time, and until the hash check is done the main task
alone reads and nobody writes, so that what it reads is what is in the files
(`HashCheck`). The refinement of `Archive` maps the end of the hash check to `Recover`,
marking to `Keep`, a write that makes the last byte of a piece right to `Settle`, a
crash to `Crash`, and every other step to a stutter.

`ConnectionProofs`, for any frames of the peer, reads of any size, ticks at any moment,
blocks requested, width of the totals and size of the window, from
`ConnectionAssumption` (the messages are values of the enum) and `PeerStatsAssumption`
(sizes are positive; that `2^Width` is a positive number is stated there because the
provers know nothing of powers of a variable):

| Theorem | Says |
|---|---|
| `ConnectionTyped` | `Spec => []Typed`, where `Typed` is inductive |
| `ConnectionTypeCorrect` | `Spec => []TypeOK` |
| `ReaderPositioned` | `Spec => []Positioned`, where `Positioned` is inductive beside `Typed` |
| `MessagesInOrder` | `Spec => []InOrder`: messages come out whole, once and in order |
| `MessagesComplete` | `Spec => []NothingMissed`: none that arrived whole is kept back or forgotten |
| `WindowOfLastSeconds` | `Spec => []WindowIsRecent`: the rate is that of the last seconds |

`InOrder` speaks of what was received only; what makes it inductive is where in the
bytes the reader is. `Positioned`: for some number of frames and some number of bytes,
what was received is what those frames tell, the stream is all that follows those
bytes, and the buffer of the length, or that of the message, is what was read of the
frame in hand, whose length `message_size` is. Dropping `next()` changes none of that,
since both buffers belong to the reader, which is the point of them. When the last
byte of a frame is read `BodyIs` is needed: `FromBytes` of the body that `AsBytes`
made is the message, for each of the nine types; the numbers are put together again
(`WordRejoined`), and so are the bits of a bitfield (`Unpacked`), up to the end of its
last byte. A frame that does not parse is an unknown one, its body stays in the buffer
as complete as it is, and no read is possible any more. `NothingMissed` is the half of
`AllHeard` that is no liveness: it says that the reader can come to rest only behind
the last frame that arrived whole, or at the first that does not parse, since in the
middle of any other frame there would be bytes left to read.

`WindowIsRecent` compares two sums. `Windowed`, which is inductive, compares the
terms: the second now running is the difference of the two totals, which wraps, and
place `k` of the window is what was accepted `k` seconds before, wrapped. A number may
wrap at any time before it is added (`WrapPlus`), so the sums agree (`SumsWrap`); the
theorem says it for a build without overflow checks, and for one with them as long as
the handler has not panicked.

`Induction` holds what makes these proofs possible. The provers cannot instantiate a
principle of induction whose hypothesis is an operator, so the lemmas state it for a
*set* of numbers or sequences, and the step of a fold as a *function*: `FoldBy` is a
`FoldLeft` with such a step, and `FoldByAppend` unfolds it for sequences of any
length. `Without` (`LocksProofs`), `Offset`, `Sections` and `WritesOf` (`StoreProofs`),
`Bytes`, `Told` and `SumOf` (`ConnectionProofs`) are reasoned about this way.

Only model-checked: liveness (`RequestsResolved`, `NoStall`, `Served`, `HandlerReturns`,
`AllHeard`, `Answered`), which with `ENABLED` and fairness is out of the prover's reach.
Every safety property that a passing run checks is a theorem. What recursive operators
and folds compute is proved as far as the theorems need it, by the lemmas of `Induction`;
`MetaInfo` and `Tracker`, which no safety property is about, have no theorem of their
own.

## 5. What is not modelled, and why

* `bytes.rs`: SHA-1 stands for equality of content; an id and its encoding are
  opaque. Pure functions, without a property the others could tell apart.
* The 68 bytes of a handshake and its timeout: it succeeds or fails as one step. Its
  comparison has one outcome, and the reading is not cancelled by anything.
* The text of a request to a tracker, the codes of its events, and the swapped
  counts of seeders and leechers (`torrent.rs:981-982`), which nothing reads.
* The file system: an error may strike any operation, a crash leaves the writes done
  so far. A loss of power that undoes finished writes is not modelled, as the code
  never calls for a flush.
* Torrents whose numbers do not fit a `u32` (`GeometryAssumption`), or leave no room
  for a largest block (`LargestAssumption`): the arithmetic wraps, or panics
  in a debug build, and the parser accepts them all the same.
* After a message that does not parse nothing more is heard of the peer, and after the
  end of its stream the handler polls for ever (`peer.rs:661`). Both are in the
  modules, neither contradicts a comment, and `AllHeard` says what is heard before.
* `Session` has no property for a peer that connected by itself. A piece completed
  between its start and its listing (`torrent.rs:272-273`) is not announced to it;
  `EachPieceTold` is stated, and true, for the peers of the tracker only. In
  `Session` a mailbox has no bound, that being the subject of `Locks`, and a remote
  side has one request at a time.
* A peer that was started but not yet listed and whose handler ends at once stays
  listed for good (`torrent.rs:201`, `272`). `Download` and `Session` have the
  interleaving but no property of its own: a dead entry costs memory and sends that
  go nowhere.
* A timer from an earlier request of the same block ends a later one early
  (`peer_info.rs:78`). `Download` has it; it costs a repeated request only.
* The rates do not decide anything across modules: `Download` lets `queue_size` be any
  of a set of sizes, `Choking` visits peers in any order.
* Time: intervals and timeouts may expire at any moment.
* Randomness: any peer may be the one the optimistic unchoke chooses.

## 6. What could come next

1. What `AllHeard` and `NothingMissed` are to each other, for the other liveness
   properties: what holds of a state in which nothing is under way any more.
2. A composition of `Download` with `PeerStats`, so that `queue_size` is what the
   rates make of it rather than any of a set.
3. The dead entry of section 5 as a property of `Session`, once the code says what the
   list of peers promises.
