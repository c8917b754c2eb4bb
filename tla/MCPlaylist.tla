------------------------------ MODULE MCPlaylist ------------------------------
(***************************************************************************)
(* Playlist for TLC: two paths, at most three tracks, and an int that is   *)
(* four bits wide, so that indices up to and beyond the playlist's size    *)
(* occur in both signs.                                                    *)
(***************************************************************************)
EXTENDS Playlist

(* Not a path and not a URI. *)
Malformed == 99

MCFiles == {<<2>>, <<2, 1>>, <<Malformed>>, <<1, 2, Malformed>>}

MCArrays == {<<-1>>, <<1>>, <<0, -3>>, <<-3, 2>>, <<1, -2>>, <<-5, 5>>}
=============================================================================
