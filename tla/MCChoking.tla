------------------------------ MODULE MCChoking ------------------------------
(* Instances of Choking for TLC. *)
EXTENDS Choking

CONSTANTS p1, p2, p3

TwoPeers == {p1, p2}
ThreePeers == {p1, p2, p3}
OnePeer == {p1}
JoiningPeer == {p2}
NoPeer == {}
=============================================================================
