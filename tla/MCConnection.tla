---------------------------- MODULE MCConnection ----------------------------
(* An instance of Connection for TLC. *)
EXTENDS Connection

\* Piece 258 has an index of two bytes; blocks of one and three bytes make a
\* total of two bits wrap; ten pieces take two bytes of a bitfield.
Blocks == {[type |-> "Piece", index |-> 258, begin |-> 0, bytes |-> <<7>>],
           [type |-> "Piece", index |-> 0, begin |-> 1, bytes |-> <<0, 9, 1>>]}
Messages == Blocks \cup
    {[type |-> "Have", index |-> 65537],
     [type |-> "Bitfield", bits |-> [k \in 1 .. 10 |-> k \in {2, 3, 10}]],
     [type |-> "Request", index |-> 1, begin |-> 2, length |-> 3],
     [type |-> "Request", index |-> 1, begin |-> 2, length |-> 300]}
WantedBlocks == {BlockInfo(m) : m \in Blocks}
=============================================================================
