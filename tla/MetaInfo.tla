------------------------------ MODULE MetaInfo ------------------------------
(***************************************************************************)
(* MetaInfo::from_bytes (metainfo.rs): which torrent files are accepted.   *)
(* A field of a bencoded dictionary is "missing", of the "wrong" type, an  *)
(* integer that is "negative" (or too large for a u32), or "good".         *)
(***************************************************************************)
EXTENDS Sequences, SequencesExt

Text == {"missing", "wrong", "good"}
Number == Text \cup {"negative"}

\* An element of `files'; a path may hold a name that is no string.
FileDict == [dict : BOOLEAN, length : Number, path : Text \cup {"badname"}]

\* A bencoded announce-list of strings is "good"; the usual list of lists is
\* of the wrong type here.  files.list holds the elements when it is a list.
TorrentFile(lists) ==
    [announce : Text, announce_list : Text, piece_length : Number, pieces : Text,
     name : Text, length : Number, files : [kind : {"missing", "wrong"}, list : {<<>>}]
                                      \cup [kind : {"good"}, list : lists]]

\* The closure of filter_map over `files': an element that is left out marks
\* the whole file as malformed.
FileIsMalformed(f) ==
    ~f.dict \/ f.length # "good" \/ f.path # "good"

\* `length' alone decides whether there is one file; the error of `files'
\* comes before that of a malformed element.
FilesAccepted(t) ==
    IF t.length \in {"good", "negative"} THEN t.length = "good"
    ELSE /\ t.files.kind = "good"
         /\ \A k \in 1 .. Len(t.files.list) : ~FileIsMalformed(t.files.list[k])

FromBencode(t) ==
    /\ t.announce = "good"
    /\ t.piece_length = "good"
    /\ t.pieces = "good"
    /\ t.name = "good"
    /\ FilesAccepted(t)

\* None unless every element is a string; a wrong type is no error.
AnnounceList(t, list) == IF t.announce_list = "good" THEN list ELSE <<>>
=============================================================================
