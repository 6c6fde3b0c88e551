------------------------------- MODULE MCLocks -------------------------------
(* Instances of Locks for TLC. *)
EXTENDS Locks

CONSTANTS p1, p2

OnePeer == {p1}
TwoPeers == {p1, p2}
OneTracked == <<p1>>
JoiningPeer == {p2}
NoPeer == {}
=============================================================================
