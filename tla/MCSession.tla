----------------------------- MODULE MCSession -----------------------------
(* Instances of Session for TLC. *)
EXTENDS Session

CONSTANTS p1, p2

TwoPeers == {p1, p2}
OnePeer == {p1}
NoPeer == {}
Readers == TwoPeers \cup {"main"}

\* Piece 0 spans both files and has two blocks, the first of which spans them
\* too; piece 1 is shorter.  The end of a whole last piece still fits.
Lengths == <<1, 3>>

\* A block that spans the files; one whose place wraps to the last byte and that
\* ends beyond it; one that is too long.
Ranges ==
    {[index |-> 0, begin |-> 0, length |-> 2], [index |-> 2, begin |-> 5, length |-> 2],
     [index |-> 0, begin |-> 0, length |-> 3]}

Url == "a"
Others == <<"b", "c">>
Schemes == [u \in {"a", "b", "c"} |->
               IF u = "a" THEN "udp" ELSE IF u = "b" THEN "http" ELSE "bad"]

\* A good torrent file, and every one that differs from it in one field and is
\* refused.
GoodFile == [dict |-> TRUE, length |-> "good", path |-> "good"]
GoodTorrent ==
    [announce |-> "good", announce_list |-> "good", piece_length |-> "good",
     pieces |-> "good", name |-> "good", length |-> "missing",
     files |-> [kind |-> "good", list |-> <<GoodFile, GoodFile>>]]
Lists == {<<GoodFile, f>> : f \in FileDict}
Torrents ==
    {GoodTorrent} \cup
    {t \in TorrentFile(Lists) :
        /\ ~FromBencode(t)
        /\ \E field \in DOMAIN t : t = [GoodTorrent EXCEPT ![field] = t[field]]}
=============================================================================
