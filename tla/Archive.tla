------------------------------ MODULE Archive ------------------------------
(***************************************************************************)
(* What the client promises about pieces over its restarts: a piece that   *)
(* is whole on disk stays so, and the pieces it counts as downloaded after *)
(* a restart are exactly those on disk, a piece written in part excluded.  *)
(***************************************************************************)
EXTENDS Naturals

CONSTANT Piece

VARIABLES kept,  \* the pieces that count as downloaded
          safe   \* the pieces that are whole on disk

Init == kept = {} /\ safe \in SUBSET Piece

Recover == kept = {} /\ kept' = safe /\ UNCHANGED safe
Keep == \E i \in Piece \ kept : kept' = kept \cup {i} /\ UNCHANGED safe
Settle == \E i \in Piece \ safe : safe' = safe \cup {i} /\ UNCHANGED kept
\* A write may be finished in the moment of the crash.
Crash == kept' = {} /\ safe \subseteq safe' /\ safe' \subseteq Piece

Next == Recover \/ Keep \/ Crash \/ Settle

Spec == Init /\ [][Next]_<<kept, safe>>
=============================================================================
