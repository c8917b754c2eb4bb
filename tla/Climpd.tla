-------------------------------- MODULE Climpd --------------------------------
(***************************************************************************)
(* The daemon: the command handlers of src/climpd/main.c on the audio      *)
(* player, the pipeline of GStreamer beside them, and the file in which    *)
(* the daemon keeps its playlist.  The handlers and the bus watcher are    *)
(* called by one main loop and so are atomic; the pipeline ends or breaks  *)
(* its stream at any time between them.                                    *)
(*                                                                         *)
(* An argument of a command is a record: a number [is |-> "int", val],     *)
(* digits that do not fit an int [is |-> "overflow"], a media file         *)
(* [is |-> "media", track], a playlist file [is |-> "list", lines], or     *)
(* something the media loader cannot find [is |-> "unknown"].              *)
(***************************************************************************)
EXTENDS AudioPlayerOps

CONSTANTS
    PlayArgs,           \* the argument lists --play is given,
    LoadArgs,           \*    --add and --playlist,
    RemoveArgs,         \*    and --remove
    MaxBus              \* bound: messages climpd leaves on the bus

Args == [is : {"int"}, val : Ints] \cup [is : {"overflow", "unknown"}]
        \cup [is : {"media"}, track : Tracks] \cup [is : {"list"}, lines : Seq(Int)]

ASSUME ArgsAssumption ==
    /\ PlayArgs \subseteq Seq(Args) /\ LoadArgs \subseteq Seq(Args)
    /\ RemoveArgs \subseteq Seq(Ints)
    /\ MaxBus \in Nat

VARIABLES
    ap,                 \* the struct audio_player
    running,            \* whether the daemon is there
    saved,              \* __playlist.m3u, the tracks in it
    quiet               \* whether the user has stopped giving commands

vars == <<ap, running, saved, quiet>>

(* main, up to the main loop: the last playlist is loaded, and repeat and  *)
(* shuffle are set from the configuration.                                 *)
Started(ok, r, s) ==
    LET loaded == UNION {LoadFile(init, saved) : init \in PlaylistInit}
    IN  {AudioPlayerInit([out.pl EXCEPT !.repeat = r, !.shuffle = s]) :
            out \in {out \in loaded : out.ok = ok}}

Init ==
    /\ saved = <<>>
    /\ \E r, s \in BOOLEAN : ap \in Started(TRUE, r, s)
    /\ running = TRUE
    /\ quiet = FALSE

-----------------------------------------------------------------------------
(* media_loader_load.  twice tells whether a playlist file that could not  *)
(* be loaded has been closed twice, which the process may not survive.     *)
MediaLoaderLoad(pl, arg) ==
    CASE arg.is = "media" ->
            {[ok |-> o.ok, pl |-> o.pl, twice |-> FALSE] : o \in PlaylistAdd(pl, arg.track)}
      [] arg.is = "list" ->
            {[ok |-> o.ok, pl |-> o.pl, twice |-> ~ o.ok] : o \in LoadFile(pl, arg.lines)}
      [] OTHER -> {[ok |-> FALSE, pl |-> pl, twice |-> FALSE]}

(* The loops over the arguments: --add and --playlist go on after one that *)
(* cannot be loaded, --play gives up.  Numbers are left to --play.         *)
LoadEach(pl, args, goOn) ==
    LET Then(out, arg) ==
            IF arg.is = "int" \/ (~ out.ok /\ ~ goOn) THEN {out}
            ELSE {[o EXCEPT !.twice = @ \/ out.twice] : o \in MediaLoaderLoad(out.pl, arg)}
        after[n \in 0 .. Len(args)] ==
            IF n = 0 THEN {[ok |-> TRUE, pl |-> pl, twice |-> FALSE]}
            ELSE UNION {Then(out, args[n]) : out \in after[n - 1]}
    IN  after[Len(args)]

(* How many tracks the arguments can add: the bound on a command. *)
Fits(pl, args) ==
    LET Adds(arg) == CASE arg.is = "media" -> 1
                       [] arg.is = "list"  -> Len(arg.lines)
                       [] OTHER            -> 0
        sum[n \in 0 .. Len(args)] == IF n = 0 THEN 0 ELSE sum[n - 1] + Adds(args[n])
    IN  PlaylistSize(pl) + sum[Len(args)] <= MaxSize

RunningAfter(twice) == running' \in (IF twice THEN BOOLEAN ELSE {TRUE})

Command == running /\ ~ quiet /\ Len(ap.en.bus) < MaxBus /\ UNCHANGED quiet

PlaylistCommand(pl) ==
    /\ Command
    /\ ap' = [ap EXCEPT !.pl = pl]
    /\ UNCHANGED <<running, saved>>

PlayerCommand(outcomes) ==
    /\ Command
    /\ \E out \in outcomes : ap' = out.ap
    /\ UNCHANGED <<running, saved>>

-----------------------------------------------------------------------------
HandleAdd(args) ==
    /\ Command
    /\ Fits(ap.pl, args)
    /\ \E out \in LoadEach(ap.pl, args, TRUE) :
          ap' = [ap EXCEPT !.pl = out.pl] /\ RunningAfter(out.twice)
    /\ UNCHANGED saved

(* --stdin: playlist_load_fd on the client's standard input. *)
HandleStdin == \E args \in LoadArgs :
                  Len(args) = 1 /\ args[1].is = "list" /\ HandleAdd(args)

HandleClear == PlaylistCommand(PlaylistClear(ap.pl))

(* --current dereferences what playlist_at_unsafe returns for index. *)
HandleCurrent ==
    /\ Command
    /\ running' = (ap.pl.index = NoIndex \/ HasTrack(ap.pl, ToInt(ap.pl.index)))
    /\ UNCHANGED <<ap, saved>>

HandleNext == PlayerCommand(AudioPlayerPlayNext(ap))

HandlePause ==
    CASE ap.en.state = "PLAYING" -> PlayerCommand(AudioPlayerPause(ap))
      [] ap.en.state = "PAUSED"  -> PlayerCommand(AudioPlayerPlay(ap))
      [] OTHER                   -> PlayerCommand(Fails(ap))

(* --play without arguments *)
HandlePlay == PlayerCommand(AudioPlayerPlay(ap))

(* --play with arguments.  Any argument that is not a number makes it a    *)
(* new playlist; a number, the last if there are several, is the track to  *)
(* begin with.  An argument that fails empties the playlist, the old one   *)
(* if all were numbers.  The playlist is saved once a track plays.         *)
HandlePlayArgs(args) ==
    LET numbers == {n \in DOMAIN args : args[n].is \in {"int", "overflow"}}
        pl      == IF numbers = DOMAIN args THEN ap.pl ELSE PlaylistClear(ap.pl)
        Start(player) ==
            IF numbers = {} THEN AudioPlayerPlayNext(player)
            ELSE LET last == CHOOSE n \in numbers : \A m \in numbers : m <= n
                 IN  PlayTrack(player, args[last].val)
    IN  /\ Command
        /\ Fits(pl, args)
        /\ \E out \in LoadEach(pl, args, FALSE) :
              /\ RunningAfter(out.twice)
              /\ IF ~ out.ok
                 THEN ap' = [ap EXCEPT !.pl = PlaylistClear(out.pl)] /\ UNCHANGED saved
                 ELSE \E start \in Start([ap EXCEPT !.pl = out.pl]) :
                         /\ ap' = start.ap
                         /\ saved' \in IF start.ok THEN PlaylistSave(ap'.pl, saved) ELSE {saved}

HandlePlaylist(args) ==
    /\ Command
    /\ Fits(PlaylistClear(ap.pl), args)
    /\ \E out \in LoadEach(PlaylistClear(ap.pl), args, TRUE) :
          ap' = [ap EXCEPT !.pl = out.pl] /\ RunningAfter(out.twice)
    /\ UNCHANGED saved

HandleRemove(indices) ==
    \E pl \in PlaylistRemoveArray(ap.pl, indices) : PlaylistCommand(pl)

HandleRepeat  == \E b \in BOOLEAN : PlaylistCommand([ap.pl EXCEPT !.repeat = b])
HandleShuffle == \E b \in BOOLEAN : PlaylistCommand([ap.pl EXCEPT !.shuffle = b])
HandleSort    == \E pl \in PlaylistSort(ap.pl) : PlaylistCommand(pl)
HandleStop    == PlayerCommand(AudioPlayerStop(ap))
HandleSeek    == PlayerCommand(AudioPlayerSeek(ap))

(* --config reads repeat and shuffle from the configuration file again. *)
HandleConfig ==
    \E r, s \in BOOLEAN : PlaylistCommand([ap.pl EXCEPT !.repeat = r, !.shuffle = s])

(* --quit or SIGTERM, and main after the main loop. *)
HandleQuit ==
    /\ Command
    /\ saved' \in PlaylistSave(ap.pl, saved)
    /\ running' = FALSE
    /\ UNCHANGED ap

(* Another daemon; a last playlist that cannot be loaded is logged.  Its   *)
(* file, closed twice then, may end the new daemon right away.             *)
Start ==
    /\ ~ running
    /\ \E ok, r, s \in BOOLEAN :
          /\ ap' \in Started(ok, r, s)
          /\ RunningAfter(~ ok)
    /\ UNCHANGED <<saved, quiet>>

Dispatch ==
    /\ running
    /\ ap.en.bus # <<>>
    /\ ap' \in BusWatcher(ap)
    /\ UNCHANGED <<running, saved, quiet>>

Pipeline(outcomes) ==
    /\ running
    /\ \E en \in outcomes : ap' = [ap EXCEPT !.en = en]
    /\ UNCHANGED <<running, saved, quiet>>

StreamEnd   == Pipeline(StreamEnds(ap.en))
StreamBreak == Pipeline(StreamBreaks(ap.en))

FallQuiet == running /\ ~ quiet /\ quiet' = TRUE /\ UNCHANGED <<ap, running, saved>>

Next ==
    \/ \E args \in LoadArgs : HandleAdd(args) \/ HandlePlaylist(args)
    \/ \E args \in PlayArgs : HandlePlayArgs(args)
    \/ \E indices \in RemoveArgs : HandleRemove(indices)
    \/ HandleStdin \/ HandleClear \/ HandleCurrent \/ HandleNext \/ HandlePause \/ HandlePlay
    \/ HandleRepeat \/ HandleShuffle \/ HandleSort \/ HandleStop \/ HandleSeek
    \/ HandleConfig \/ HandleQuit \/ Start \/ Dispatch \/ StreamEnd \/ StreamBreak \/ FallQuiet

(* Streams of files end, and the main loop dispatches what is on the bus.  *)
Fairness == WF_vars(StreamEnd) /\ WF_vars(Dispatch)

Spec == Init /\ [][Next]_vars /\ Fairness

-----------------------------------------------------------------------------
TypeOK ==
    /\ AudioPlayerType(ap)
    /\ PlaylistSound(ap.pl)
    /\ running \in BOOLEAN
    /\ saved \in Seq(Tracks)
    /\ quiet \in BOOLEAN

(* What one hears is the active track: whatever fails on the way to the    *)
(* next track, an engine that is not stopped has the URI of the active     *)
(* track (audio_player_play_track), and a stopped one has no stream.       *)
EngineHasActiveTrack ==
    /\ ap.en.state # "NULL" => ap.active # None /\ ap.en.uri = ap.active
    /\ ap.en.state = "NULL" <=> ap.en.stream = "none"

(* Stopped stays stopped: an end of stream that GStreamer posted just      *)
(* before --stop does not start the next track.                            *)
StopIsFinal == [][ Dispatch /\ ap.en.state = "NULL" => ap'.en.state = "NULL" ]_vars

(* Playback goes on by itself: in a playlist that repeats, in order or     *)
(* shuffled, every track is current again and again once nobody interferes *)
(* and unless the pipeline fails.                                          *)
PlaybackAlive ==
    /\ running /\ quiet /\ ap.pl.repeat
    /\ ap.en.state = "PLAYING"
    /\ ap.en.stream = "flowing" \/ \E n \in DOMAIN ap.en.bus : ap.en.bus[n].type = "EOS"

PipelineFailed == ap.en.stream = "broken" \/ ap.en.state = "NULL"

RepeatPlaysEveryTrack ==
    \A i \in 0 .. MaxSize - 1 :
        (PlaybackAlive /\ HasTrack(ap.pl, i)) ~>
            (PipelineFailed \/ (HasTrack(ap.pl, i) /\ ap.active = PlaylistAt(ap.pl, i)
                                  /\ ap.pl.index = i))

(* What waits on the bus was posted by the stream of the active track: an  *)
(* end of stream of the track before, which would cut the new one short,   *)
(* does not outlive the change of tracks (audio_player_play_track).        *)
BusIsCurrent ==
    \A n \in DOMAIN ap.en.bus :
        ap.en.bus[n].type = "EOS" => ap.en.bus[n].from = ap.active

(* A last playlist that cannot be loaded does not keep climpd from running *)
(* (main).                                                                 *)
LoadFailureIsSurvived == [][ Start => running' ]_vars

(* --current prints the current track or that there is none. *)
CurrentIsAnswered == [][ HandleCurrent => running' ]_vars
=============================================================================
