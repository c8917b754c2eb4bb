------------------------------- MODULE Playlist -------------------------------
(***************************************************************************)
(* A playlist in use: the calls that main.c and audio-player.c make on it, *)
(* in any order and with every outcome.  climpd is single threaded, so the *)
(* functions are atomic.  Two history variables record what was played.    *)
(***************************************************************************)
EXTENDS PlaylistOps

CONSTANTS
    Files,              \* the playlist files there are to load
    Arrays              \* the arguments --remove is given

ASSUME UseAssumption == Files \subseteq Seq(Int) /\ Arrays \subseteq Seq(Ints)

VARIABLES
    pl,                 \* the struct playlist
    running,            \* climpd has not been killed by an invalid fclose
    heard,              \* history: the indices playlist_next returned so far
    intact              \*    in this pass, if nothing else rearranged it

vars == <<pl, running, heard, intact>>

(* main sets repeat and shuffle from the configuration. *)
Init ==
    /\ \E init \in PlaylistInit, r, s \in BOOLEAN :
          pl = [init EXCEPT !.repeat = r, !.shuffle = s]
    /\ running = TRUE
    /\ heard = {}
    /\ intact = TRUE

(* A pass begins anew, goes on, or can no longer be told from here. *)
PassBegins     == heard' = {} /\ intact' = TRUE
PassGoesOn     == UNCHANGED <<heard, intact>>
PassIsUnclear  == heard' = {} /\ intact' = FALSE
PassGoesOnIf(b) == (b /\ PassGoesOn) \/ (~ b /\ PassIsUnclear)

Add(m) ==
    /\ PlaylistSize(pl) < MaxSize
    /\ \E out \in PlaylistAdd(pl, m) : pl' = out.pl
    /\ PassGoesOn
    /\ UNCHANGED running

Clear ==
    /\ pl' = PlaylistClear(pl)
    /\ PassBegins
    /\ UNCHANGED running

LoadSucceeds(file) ==
    /\ PlaylistSize(pl) + Len(file) <= MaxSize
    /\ \E out \in LoadFile(pl, file) : out.ok /\ pl' = out.pl
    /\ PassGoesOn
    /\ UNCHANGED running

(* playlist_load_file closes the file and so does its caller: what the     *)
(* second fclose of the same FILE does is undefined, and with glibc it     *)
(* either goes unnoticed or ends the process.  Rolling back an addition    *)
(* rearranges the shuffler, not the order of the tracks.                   *)
LoadFails(file) ==
    /\ PlaylistSize(pl) + Len(file) <= MaxSize
    /\ \E out \in LoadFile(pl, file) : ~ out.ok /\ pl' = out.pl
    /\ PassGoesOnIf(~ pl.shuffle)
    /\ running' \in BOOLEAN

RemoveArray(indices) ==
    /\ pl' \in PlaylistRemoveArray(pl, indices)
    /\ PassGoesOnIf(pl'.vec = pl.vec)
    /\ UNCHANGED running

(* audio_player_play_track, asked for a track by its number. *)
JumpTo(index) ==
    /\ HasTrack(pl, index)
    /\ pl' = SetIndex(pl, index)
    /\ PassGoesOnIf(pl.shuffle)
    /\ UNCHANGED running

SetRepeat == pl' = [pl EXCEPT !.repeat = ~ @] /\ PassGoesOn /\ UNCHANGED running

SetShuffle == pl' = [pl EXCEPT !.shuffle = ~ @] /\ PassIsUnclear /\ UNCHANGED running

Sort ==
    /\ pl' \in PlaylistSort(pl)
    /\ PassBegins
    /\ UNCHANGED running

(* An index that was heard already is the first of another pass. *)
PlayNext ==
    /\ pl.vec # <<>>
    /\ \E out \in PlaylistNext(pl) :
          /\ pl' = out.pl
          /\ IF out.ret = NoIndex THEN PassBegins
             ELSE /\ heard' = IF out.ret \in heard THEN {out.ret}
                              ELSE heard \cup {out.ret}
                  /\ UNCHANGED intact
    /\ UNCHANGED running

Next ==
    /\ running
    /\ \/ \E m \in Tracks : Add(m)
       \/ Clear
       \/ \E file \in Files : LoadSucceeds(file) \/ LoadFails(file)
       \/ \E indices \in Arrays : RemoveArray(indices)
       \/ \E index \in Ints : JumpTo(index)
       \/ SetRepeat
       \/ SetShuffle
       \/ Sort
       \/ PlayNext

Spec == Init /\ [][Next]_vars

-----------------------------------------------------------------------------
(* The tracks and the shuffler agree on how many there are after every     *)
(* call: the asserts "INVALID SIZE" in playlist.c hold.                    *)
TypeOK ==
    /\ PlaylistType(pl)
    /\ PlaylistSound(pl)
    /\ running \in BOOLEAN
    /\ heard \in SUBSET (0 .. MaxSize)
    /\ intact \in BOOLEAN

(* Whatever is called next, playlist_next returns a track that exists: the *)
(* assert "invalid playlist index" holds.                                  *)
NextTrackExists ==
    \A out \in PlaylistNext(pl) : out.ret = NoIndex \/ HasTrack(pl, out.ret)

ReturnsAnother == pl'.index \notin heard /\ heard' = heard \cup {pl'.index}

(* In both modes, repeating or not, while tracks are only added, a pass    *)
(* through the playlist ends, and an index is returned again, only after   *)
(* every track has been returned.                                          *)
PassIsComplete ==
    [][ intact /\ PlayNext /\ ~ ReturnsAnother => heard = 0 .. PlaylistSize(pl) - 1 ]_vars

(* A file that cannot be loaded to its end leaves no track behind, and the *)
(* current track where it was.                                             *)
FailedLoadLeavesNoTrack ==
    [][ \A file \in Files :
           LoadFails(file) => pl'.vec = pl.vec /\ pl'.index = pl.index ]_vars

(* The indices of one --remove all count in the playlist as it was when    *)
(* the command was given, and naming a track twice removes it once.        *)
RemovesWhatWasNamed ==
    [][ \A indices \in Arrays :
           LET size  == PlaylistSize(pl)
               named == {EnsurePositivIndex(pl, indices[n]) : n \in DOMAIN indices}
               Left[i \in 0 .. size] ==
                   IF i = 0 THEN <<>>
                   ELSE IF i - 1 \in named THEN Left[i - 1]
                   ELSE Append(Left[i - 1], pl.vec[i])
           IN  RemoveArray(indices) /\ named \subseteq 0 .. size - 1
                  => pl'.vec = Left[size] ]_vars
=============================================================================
