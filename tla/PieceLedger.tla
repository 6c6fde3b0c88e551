---------------------------- MODULE PieceLedger ----------------------------
(***************************************************************************)
(* What the download promises, whatever peers, timers and locks do: pieces *)
(* are fetched one at a time, the first missing one first; a block slot is *)
(* filled once and stays filled until the whole piece is there; only then  *)
(* is the piece either thrown away and started again, or kept for good.    *)
(***************************************************************************)
EXTENDS Integers

CONSTANTS
    NumPieces,   \* the pieces are 0 .. NumPieces - 1
    BlockCount   \* BlockCount[i]: the number of blocks of piece i

Piece == 0 .. NumPieces - 1
None == -1
Slots(i) == 0 .. BlockCount[i] - 1

VARIABLES
    kept,      \* the pieces verified and kept
    current,   \* the piece being fetched, or None
    filled     \* the slots of the current piece that are filled

vars == <<kept, current, filled>>

IsFirstOutside(i, done) == i \in Piece \ done /\ \A j \in Piece \ done : i <= j

Init ==
    /\ kept \in SUBSET Piece
    /\ current = None
    /\ filled = {}

Begin ==
    /\ current = None
    /\ \E i \in Piece : IsFirstOutside(i, kept) /\ current' = i
    /\ UNCHANGED <<kept, filled>>

Fill(k) ==
    /\ current # None
    /\ k \in Slots(current) \ filled
    /\ filled' = filled \cup {k}
    /\ UNCHANGED <<kept, current>>

ThrowAway ==
    /\ current # None
    /\ filled = Slots(current)
    /\ filled' = {}
    /\ UNCHANGED <<kept, current>>

Keep ==
    /\ current # None
    /\ filled = Slots(current)
    /\ kept' = kept \cup {current}
    /\ filled' = {}
    /\ IF kept' = Piece THEN current' = None
       ELSE \E i \in Piece : IsFirstOutside(i, kept') /\ current' = i

Next == Begin \/ ThrowAway \/ Keep \/ \E k \in UNION {Slots(i) : i \in Piece} : Fill(k)

Spec == Init /\ [][Next]_vars
=============================================================================
