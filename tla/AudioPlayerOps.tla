---------------------------- MODULE AudioPlayerOps ----------------------------
(***************************************************************************)
(* The audio player of climpd and the engine under it                      *)
(* (src/climpd/core/audio-player).  A struct audio_player is the record    *)
(*    pl       its playlist                                                *)
(*    active   the track that is being played, None before the first       *)
(*    en       the engine                                                  *)
(* and the engine, with what climpd sees of the GStreamer pipeline,        *)
(*    state    gst_state: what climpd last asked for                       *)
(*    uri      the "uri" of the source element                             *)
(*    stream   none, flowing, ended or broken                              *)
(*    bus      the messages GStreamer posted and climpd has not seen, and  *)
(*             what was the uri then                                       *)
(* GStreamer runs in threads of its own and talks to climpd only through   *)
(* the bus, from which climpd's main loop takes one message at a time.     *)
(***************************************************************************)
EXTENDS PlaylistOps

CONSTANTS
    None,               \* NULL
    Unplayable          \* tracks GStreamer may refuse to start

ASSUME AudioPlayerAssumption == None \notin Tracks /\ Unplayable \subseteq Tracks

EngineStates == {"NULL", "PAUSED", "PLAYING"}
Streams      == {"none", "flowing", "ended", "broken"}
Messages     == [type : {"EOS", "ERROR"}, from : Tracks]

Post(en, type) == Append(en.bus, [type |-> type, from |-> en.uri])

AudioPlayerInit(pl) ==
    [pl     |-> pl,
     active |-> None,
     en     |-> [state |-> "NULL", uri |-> None, stream |-> "none", bus |-> <<>>]]

(* Mutant: the bus is not flushed. *)
PipelineSetNoFlush(en, state) ==
    [en EXCEPT !.state = state,
               !.stream = CASE state = "NULL" -> "none"
                            [] state = "PLAYING" /\ en.state = "NULL" -> "flowing"
                            [] OTHER -> @]

(* What gst_element_set_state does to a pipeline when it succeeds.  A      *)
(* pipeline in state NULL has no stream and its bus is flushed.            *)
PipelineSet(en, state) ==
    CASE state = "NULL"  -> [en EXCEPT !.state = "NULL", !.stream = "none", !.bus = <<>>]
      [] state = "PAUSED" -> [en EXCEPT !.state = "PAUSED"]
      [] OTHER -> [en EXCEPT !.state = "PLAYING",
                             !.stream = IF en.state = "NULL" THEN "flowing" ELSE @]

(* A pipeline that cannot start its track says so on the bus as well. *)
PipelineRefuses(en, state) ==
    IF state = "PLAYING" /\ en.state = "NULL" /\ en.uri \in Unplayable
    THEN {[en EXCEPT !.bus = Post(en, "ERROR")]}
    ELSE {}

(* gst_engine_set_state *)
EngineSetState(en, state) ==
    IF en.state = state THEN {[ok |-> TRUE, en |-> en]}
    ELSE {[ok |-> TRUE, en |-> PipelineSet(en, state)]} \cup
         {[ok |-> FALSE, en |-> refused] : refused \in PipelineRefuses(en, state)}

-----------------------------------------------------------------------------
Done(ap)        == {[ok |-> TRUE, ap |-> ap]}
Fails(ap)       == {[ok |-> FALSE, ap |-> ap]}
WithState(ap, state) ==
    {[ok |-> out.ok, ap |-> [ap EXCEPT !.en = out.en]] :
        out \in EngineSetState(ap.en, state)}

(* Mutant: the track is active before the engine has taken it. *)
PlayTrackEagerly(ap, track) ==
    IF ~ HasTrack(ap.pl, track) THEN Fails(ap)
    ELSE WithState([ap EXCEPT !.pl = SetIndex(@, track),
                              !.active = PlaylistAt(ap.pl, track)], "PLAYING")

(* audio_player_play_track: the playlist's index and the active track      *)
(* change only when the engine plays.                                      *)
PlayTrack(ap, track) ==
    IF ~ HasTrack(ap.pl, track) THEN Fails(ap)
    ELSE LET m == PlaylistAt(ap.pl, track)
             Start(stopped) == WithState([stopped EXCEPT !.en.uri = m], "PLAYING")
         IN  UNION { IF ~ stop.ok THEN Fails(stop.ap)
                     ELSE { IF ~ start.ok THEN start
                            ELSE [start EXCEPT !.ap.pl = SetIndex(@, track),
                                               !.ap.active = m] :
                            start \in Start(stop.ap) } :
                     stop \in WithState(ap, "NULL") }

(* audio_player_play_next: at the end of the playlist the engine keeps its *)
(* state.                                                                  *)
AudioPlayerPlayNext(ap) ==
    IF ap.pl.vec = <<>> THEN Fails(ap)
    ELSE UNION { LET advanced == [ap EXCEPT !.pl = out.pl]
                 IN  IF out.ret = NoIndex THEN Done(advanced)
                     ELSE PlayTrack(advanced, ToInt(out.ret)) :
                 out \in PlaylistNext(ap.pl) }

AudioPlayerPlay(ap) ==
    CASE ap.en.state = "NULL"   -> AudioPlayerPlayNext(ap)
      [] ap.en.state = "PAUSED" -> WithState(ap, "PLAYING")
      [] OTHER                  -> Done(ap)

AudioPlayerPause(ap) ==
    IF ap.en.state = "NULL" THEN Fails(ap) ELSE WithState(ap, "PAUSED")

AudioPlayerStop(ap) == WithState(ap, "NULL")

(* gst_engine_set_stream_position: a flushing seek restarts a stream that  *)
(* has ended, but it does not flush the bus of the application.  Without a *)
(* stream, and on a radio for one, it fails.                               *)
AudioPlayerSeek(ap) ==
    Fails(ap) \cup
    IF ap.en.stream \in {"flowing", "ended"}
    THEN Done([ap EXCEPT !.en.stream = "flowing"])
    ELSE {}

(* Mutant: an error skips to the next track. *)
BusWatcherSkips(ap) ==
    {out.ap : out \in AudioPlayerPlayNext([ap EXCEPT !.en.bus = Tail(@)])}

(* bus_watcher with the first message of the bus: an error is only logged, *)
(* the end of the stream starts the next track.                            *)
BusWatcher(ap) ==
    LET taken == [ap EXCEPT !.en.bus = Tail(@)]
    IN  IF Head(ap.en.bus).type = "EOS"
        THEN {out.ap : out \in AudioPlayerPlayNext(taken)}
        ELSE {taken}

(* What GStreamer does on its own. *)
StreamEnds(en) ==
    IF en.state = "PLAYING" /\ en.stream = "flowing"
    THEN {[en EXCEPT !.stream = "ended", !.bus = Post(en, "EOS")]} ELSE {}

StreamBreaks(en) ==
    IF en.uri \in Unplayable /\ en.stream = "flowing"
    THEN {[en EXCEPT !.stream = "broken", !.bus = Post(en, "ERROR")]} ELSE {}

AudioPlayerType(ap) ==
    /\ PlaylistType(ap.pl)
    /\ ap.active \in Tracks \cup {None}
    /\ ap.en \in [state  : EngineStates, uri : Tracks \cup {None},
                  stream : Streams,      bus : Seq(Messages)]
=============================================================================
