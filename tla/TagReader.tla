------------------------------- MODULE TagReader -------------------------------
(***************************************************************************)
(* The life of a struct media (src/climpd/media/media.c): the playlist,    *)
(* the player and the tag reader (src/climpd/core/playlist/tag-reader.c)   *)
(* each hold references on it, and the tags of a track may be discovered   *)
(* when nobody else wants the track any more.                              *)
(*                                                                         *)
(* The discoverer of GStreamer is external: it works off its queue of URIs *)
(* in order and has the main loop call on_discovered for each of them.  So *)
(* is the map of libvci: given a key that it has already, it may refuse it *)
(* or replace the data, and it hands what it replaces to data_delete.      *)
(*                                                                         *)
(* The state is one record:                                                *)
(*    heap     for each address uri, refs and parsed; refs is 0 where      *)
(*             there is no media, or no longer                             *)
(*    vec      vec_media of the playlist                                   *)
(*    active   active_track of the player                                  *)
(*    map      media_map of the tag reader, a function on some of the URIs *)
(*    queue    what the discoverer has not answered yet                    *)
(***************************************************************************)
EXTENDS Integers, Sequences, Functions, SequencesExt

CONSTANTS
    Addresses,          \* where malloc puts a media
    Uris,
    Radio,              \* the URIs that uri_is_http recognises
    None,               \* NULL
    Idle,               \* no playlist file is being loaded
    MaxTracks, MaxQueue \* bounds

ASSUME TagReaderAssumption ==
    /\ Radio \subseteq Uris
    /\ None \notin Addresses
    /\ Idle \notin Nat
    /\ MaxTracks \in Nat /\ MaxQueue \in Nat

VARIABLES
    st,
    loading,            \* playlist_load_file: the size to go back to, or Idle
    failed,             \*    and whether a line has failed
    running             \* whether the daemon is there

vars == <<st, loading, failed, running>>

-----------------------------------------------------------------------------
Ref(s, m)   == [s EXCEPT !.heap[m].refs = @ + 1]
Unref(s, m) == [s EXCEPT !.heap[m].refs = @ - 1]

(* data_delete of a map or a vector, for all there is in it. *)
UnrefAll(s, ms) ==
    [s EXCEPT !.heap = [m \in Addresses |->
        IF m \in ms THEN [s.heap[m] EXCEPT !.refs = @ - 1] ELSE s.heap[m]]]

(* A web radio counts as parsed from the start. *)
MediaNew(s, m, uri) ==
    [s EXCEPT !.heap[m] = [uri |-> uri, refs |-> 1, parsed |-> uri \in Radio]]

MapTake(s, uri) == [s EXCEPT !.map = Restrict(@, DOMAIN @ \ {uri})]

MapPut(s, uri, m) ==
    [s EXCEPT !.map = [u \in DOMAIN @ \cup {uri} |-> IF u = uri THEN m ELSE @[u]]]

(* map_insert *)
MapInsert(s, uri, m) ==
    {[ok |-> FALSE, s |-> s],
     [ok |-> TRUE,
      s  |-> MapPut(IF uri \in DOMAIN s.map THEN Unref(s, s.map[uri]) ELSE s, uri, m)]}

(* Mutant: what could not be queued stays in the map. *)
DiscoverAsyncStays(s, uri, m) ==
    {[s EXCEPT !.queue = Append(@, uri)], Unref(s, m)}

(* tag_reader_read_async once the media is in the map: the discoverer may  *)
(* refuse.                                                                 *)
DiscoverAsync(s, uri, m) ==
    {[s EXCEPT !.queue = Append(@, uri)], Unref(MapTake(s, uri), m)}

(* tag_reader_read_async *)
ReadAsync(s, m) ==
    LET uri == s.heap[m].uri
    IN  IF s.heap[m].parsed THEN {s}
        ELSE UNION {IF out.ok THEN DiscoverAsync(out.s, uri, m) ELSE {Unref(out.s, m)} :
                       out \in MapInsert(Ref(s, m), uri, m)}

(* Mutant: the reference of a vector that has no room is not given back. *)
PlaylistAddMediaLeaks(s, m) ==
    UNION {{[ok |-> TRUE,  s |-> [Ref(read, m) EXCEPT !.vec = Append(@, m)]],
            [ok |-> FALSE, s |-> Ref(read, m)]} : read \in ReadAsync(s, m)}

(* playlist_add_media.  Whether the vector has no room, or the shuffler    *)
(* has not and the vector gives the media back, is the same from here.     *)
PlaylistAddMedia(s, m) ==
    UNION {{[ok |-> TRUE,  s |-> [Ref(read, m) EXCEPT !.vec = Append(@, m)]],
            [ok |-> FALSE, s |-> Unref(Ref(read, m), m)]} : read \in ReadAsync(s, m)}

Free(s) == {m \in Addresses : s.heap[m].refs = 0}

(* playlist_add: there may be no memory, or no such file. *)
PlaylistAdd(s, uri) ==
    {[ok |-> FALSE, s |-> s]} \cup
    UNION {{[out EXCEPT !.s = Unref(@, m)] :
               out \in PlaylistAddMedia(MediaNew(s, m, uri), m)} : m \in Free(s)}

(* playlist_remove *)
PlaylistRemove(s, i) == Unref([s EXCEPT !.vec = RemoveAt(@, i)], s.vec[i])

PlaylistClear(s) == [UnrefAll(s, Range(s.vec)) EXCEPT !.vec = <<>>]

(* The end of audio_player_play_track, when the engine plays. *)
Activate(s, m) ==
    [IF s.active = None THEN s ELSE Unref(s, s.active) EXCEPT !.active = m]

(* Mutant: only what was discovered is let go. *)
AnsweredIfOK(s, uri, ok) ==
    IF uri \in DOMAIN s.map /\ ok
    THEN LET m == s.map[uri]
         IN  Unref([MapTake(s, uri) EXCEPT !.heap[m].parsed = TRUE], m)
    ELSE s

(* on_discovered: the tags are of use only if the discovery succeeded. *)
Answered(s, uri, ok) ==
    IF uri \in DOMAIN s.map
    THEN LET m == s.map[uri]
         IN  Unref([MapTake(s, uri) EXCEPT !.heap[m].parsed = @ \/ ok], m)
    ELSE s

(* audio_player_destroy, playlist_destroy and tag_reader_destroy *)
Destroyed(s) ==
    LET tagReader(t) == [UnrefAll(t, Range(t.map)) EXCEPT !.map = <<>>, !.queue = <<>>]
    IN  PlaylistClear(tagReader(Activate(s, None)))

-----------------------------------------------------------------------------
(* A tag reader whose map could not be allocated is left out: map_init's   *)
(* failure is taken for success, and what map_insert does then is up to    *)
(* libvci.                                                                 *)
Init ==
    /\ \E uri \in Uris :
          st = [heap   |-> [m \in Addresses |-> [uri |-> uri, refs |-> 0, parsed |-> FALSE]],
                vec    |-> <<>>, active |-> None, map |-> <<>>, queue |-> <<>>]
    /\ loading = Idle
    /\ failed = FALSE
    /\ running = TRUE

MainLoop == running /\ loading = Idle /\ UNCHANGED <<loading, failed>>

CanAdd == Len(st.vec) < MaxTracks /\ Len(st.queue) < MaxQueue

Add(uri) ==
    /\ MainLoop
    /\ CanAdd
    /\ \E out \in PlaylistAdd(st, uri) : st' = out.s
    /\ UNCHANGED running

RemoveTrack(i) ==
    /\ MainLoop
    /\ st' = PlaylistRemove(st, i)
    /\ UNCHANGED running

Clear ==
    /\ MainLoop
    /\ st' = PlaylistClear(st)
    /\ UNCHANGED running

(* Mutant: the track is taken with playlist_at_unsafe. *)
PlayTrackUnsafe(i) ==
    /\ MainLoop
    /\ st' \in {Activate(st, st.vec[i]), Unref(st, st.vec[i])}
    /\ UNCHANGED running

(* audio_player_play_track: playlist_at takes the reference that the       *)
(* player keeps, or gives back when the engine fails.                      *)
PlayTrack(i) ==
    /\ MainLoop
    /\ LET taken == Ref(st, st.vec[i])
       IN  st' \in {Activate(taken, st.vec[i]), Unref(taken, st.vec[i])}
    /\ UNCHANGED running

(* playlist_load_file, line by line: the main loop does not run meanwhile. *)
LoadFile ==
    /\ running /\ loading = Idle
    /\ loading' = Len(st.vec)
    /\ failed' = FALSE
    /\ UNCHANGED <<st, running>>

LoadLine(uri) ==
    /\ loading # Idle /\ ~ failed
    /\ CanAdd
    /\ \E out \in PlaylistAdd(st, uri) : st' = out.s /\ failed' = ~ out.ok
    /\ UNCHANGED <<loading, running>>

(* A line that is neither a path nor a URI. *)
BadLine ==
    /\ loading # Idle /\ ~ failed
    /\ failed' = TRUE
    /\ UNCHANGED <<st, loading, running>>

(* cleanup1: the last track is removed until the old size is reached. *)
RollBack ==
    /\ failed /\ Len(st.vec) # loading
    /\ st' = PlaylistRemove(st, Len(st.vec))
    /\ UNCHANGED <<loading, failed, running>>

LoadEnds ==
    /\ loading # Idle
    /\ failed => Len(st.vec) = loading
    /\ loading' = Idle
    /\ failed' = FALSE
    /\ UNCHANGED <<st, running>>

Discovered ==
    /\ MainLoop
    /\ st.queue # <<>>
    /\ \E ok \in BOOLEAN :
          st' = Answered([st EXCEPT !.queue = Tail(@)], Head(st.queue), ok)
    /\ UNCHANGED running

Quit ==
    /\ MainLoop
    /\ st' = Destroyed(st)
    /\ running' = FALSE

Next ==
    \/ \E uri \in Uris : Add(uri) \/ LoadLine(uri)
    \/ \E i \in DOMAIN st.vec : RemoveTrack(i) \/ PlayTrack(i)
    \/ Clear \/ LoadFile \/ BadLine \/ RollBack \/ LoadEnds \/ Discovered \/ Quit

(* A file has an end, and a discovery ends by its timeout at the latest.   *)
(* Between any two commands the main loop dispatches what is ready.        *)
Fairness == WF_vars(RollBack) /\ WF_vars(LoadEnds) /\ SF_vars(Discovered)

Spec == Init /\ [][Next]_vars /\ Fairness

-----------------------------------------------------------------------------
InVec(s, m)     == \E i \in DOMAIN s.vec : s.vec[i] = m
IsPending(s, m) == \E uri \in DOMAIN s.map : s.map[uri] = m

One(b) == IF b THEN 1 ELSE 0

Holders(s, m) == One(InVec(s, m)) + One(s.active = m) + One(IsPending(s, m))

TypeOK ==
    /\ st.heap \in [Addresses -> [uri : Uris, refs : Nat, parsed : BOOLEAN]]
    /\ st.vec \in Seq(Addresses)
    /\ st.active \in Addresses \cup {None}
    /\ DOMAIN st.map \subseteq Uris /\ \A uri \in DOMAIN st.map : st.map[uri] \in Addresses
    /\ st.queue \in Seq(Uris)
    /\ loading \in Nat \cup {Idle}
    /\ failed \in BOOLEAN
    /\ running \in BOOLEAN

(* Whatever fails on the way, a media has as many references as holders:   *)
(* none is freed while the playlist, the player or the tag reader holds    *)
(* it, and none is left over that nobody holds (media_unref).              *)
RefsAreHolders == \A m \in Addresses : st.heap[m].refs = Holders(st, m)

(* What the tag reader holds it is still waiting for, under the media's    *)
(* own URI (the key of an entry points into its media), and it has no tags *)
(* yet: the test in on_discovered for media that are parsed never fires.   *)
PendingIsAwaited ==
    \A uri \in DOMAIN st.map :
        /\ uri \in Range(st.queue)
        /\ st.heap[st.map[uri]].uri = uri
        /\ ~ st.heap[st.map[uri]].parsed

(* A track that is neither in the playlist nor played is freed in the end, *)
(* also if its tags were still being discovered when it was dropped.       *)
DroppedIsFreed ==
    \A m \in Addresses :
        (~ InVec(st, m) /\ st.active # m) ~> st.heap[m].refs = 0
=============================================================================
