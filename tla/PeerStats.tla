----------------------------- MODULE PeerStats -----------------------------
(***************************************************************************)
(* What PeerInfo counts of a connection (peer_info.rs): totals in u32, a   *)
(* window of the last seconds, and the length of the request queue that    *)
(* follows from it.                                                        *)
(***************************************************************************)
EXTENDS Integers, Sequences, SequencesExt

CONSTANTS
    Width,                 \* bits of a total: 32
    BLOCK_SIZE,            \* constants.rs
    ROLLING_AVERAGE_SIZE,  \* constants.rs
    SlowStartMargin        \* the 10000 of try_exit_slow_start

ASSUME PeerStatsAssumption ==
    /\ Width \in Nat \ {0} /\ 2^Width \in Nat \ {0} /\ BLOCK_SIZE \in Nat \ {0}
    /\ ROLLING_AVERAGE_SIZE \in Nat \ {0} /\ SlowStartMargin \in Nat

Fits(n) == n < 2^Width
Wrap(n) == n % 2^Width

\* One direction of the connection: total_, prev_total_ and rolling_.
NewMeter == [total |-> 0, prev |-> 0, rolling |-> <<0>>]
SumOf(seq) == FoldLeft(LAMBDA a, b : a + b, 0, seq)

\* (mutant of Counted) a saturating sum.
CountedAtMost(meter, length) ==
    [meter EXCEPT !.total = Min({@ + length, 2^Width - 1})]

Counted(meter, length) == [meter EXCEPT !.total = Wrap(@ + length)]

\* (mutant of UpdateSpeedAverage) no truncate().
UpdateWholeAverage(meter) ==
    [meter EXCEPT !.rolling = <<Wrap(meter.total - meter.prev)>> \o @,
                  !.prev = meter.total]

UpdateSpeedAverage(meter) ==
    LET window == <<Wrap(meter.total - meter.prev)>> \o meter.rolling
    IN  [meter EXCEPT
            !.rolling = SubSeq(window, 1, Min({Len(window), ROLLING_AVERAGE_SIZE})),
            !.prev = meter.total]

Rate(meter) == Wrap(SumOf(meter.rolling)) \div Len(meter.rolling)

NewStats == [down |-> NewMeter, up |-> NewMeter, queue_size |-> 2,
             in_slow_start |-> TRUE]

DownloadedChunk(stats, length) ==
    [stats EXCEPT !.down = Counted(@, length), !.queue_size = @ + 1]
UploadedChunk(stats, length) == [stats EXCEPT !.up = Counted(@, length)]

UpdateSpeedAverages(stats) ==
    [stats EXCEPT !.down = UpdateSpeedAverage(@), !.up = UpdateSpeedAverage(@)]
UpdateQueueSize(stats) ==
    IF stats.in_slow_start THEN stats
    ELSE [stats EXCEPT !.queue_size = Max({Rate(stats.down) \div BLOCK_SIZE, 1})]
TryExitSlowStart(stats) ==
    [stats EXCEPT !.in_slow_start =
        @ /\ Wrap(stats.down.rolling[1] + SlowStartMargin) >= Rate(stats.down)]

Tick(stats) == TryExitSlowStart(UpdateQueueSize(UpdateSpeedAverages(stats)))

\* With overflow checks the same operations panic where they would wrap.
ChunkPanics(meter, length) == ~Fits(meter.total + length)
TickPanics(stats) ==
    LET down == UpdateSpeedAverage(stats.down)
    IN  \/ ~Fits(SumOf(down.rolling))
        \/ stats.in_slow_start /\ ~Fits(down.rolling[1] + SlowStartMargin)
=============================================================================
