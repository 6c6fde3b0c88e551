----------------------------- MODULE MCDownload -----------------------------
(* Instances of Download for TLC. *)
EXTENDS Download

CONSTANTS p1, p2

OnePeer == {p1}
OtherPeer == {p2}
NoPeer == {}

TwoPeers == {p1, p2}

\* One piece of two blocks; two pieces of one block; two and one block.
OneOfOne == [i \in {0} |-> 1]
OneOfTwo == [i \in {0} |-> 2]
TwoOfOne == [i \in {0, 1} |-> 1]
TwoThenOne == [i \in {0, 1} |-> IF i = 0 THEN 2 ELSE 1]

Seed0 == {{0}}
Seed01 == {{0, 1}}
NoSize == {}
OneSize == {1}
=============================================================================
