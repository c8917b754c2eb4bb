---------------------------- MODULE MCPlaylistFile ----------------------------
(***************************************************************************)
(* PlaylistFile for TLC: files and a radio that are plain, names that end  *)
(* in a blank or contain a line break, behind which there is something     *)
(* that is no track, a path that is a link, or one that does not exist,    *)
(* and a radio that reads as a comment.                                    *)
(***************************************************************************)
EXTENDS PlaylistFile

Song    == FileScheme \o <<"/", "x">>
Tune    == FileScheme \o <<"/", "y", " ", "x">>
Radio   == <<"h", "ttp://", "y">>
Blank   == FileScheme \o <<"/", "x", " ">>
Broken  == FileScheme \o <<"/", "x", "\n", "y", "y">>
Parted  == FileScheme \o <<"/", "x", "\n", "/", "y">>
Missing == FileScheme \o <<"/", "x", "\n", "/", "x">>
Comment == <<"#", "h", "ttp://", "y">>

MCPlaylists ==
    {<<>>, <<Song, Radio, Tune>>, <<Radio, Song, Song>>, <<Tune, Tune, Song>>,
     <<Blank, Song>>, <<Song, Broken>>, <<Parted, Song>>, <<Missing>>, <<Comment, Radio>>}

MCPaths ==
    {[path |-> <<"/", "y">>, name |-> <<"/", "y">>],
     [path |-> <<"/", "y">>, name |-> <<"/", "y", " ">>]}
=============================================================================
