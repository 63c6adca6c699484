--------------------------- MODULE MCRTMPPlaylist ---------------------------
(* Small instances of RTMPPlaylist for TLC. *)
EXTENDS RTMPPlaylist

File(d) == [kind |-> "file", dur |-> d]
Live    == [kind |-> "live", dur |-> -1]
Timed   == [kind |-> "live", dur |-> 2]

MCLists  == {<<Live>>, <<File(1), Timed>>}
MCPoints == {0, 2}
=============================================================================
