----------------------------- MODULE PlaylistFile -----------------------------
(***************************************************************************)
(* What becomes of a playlist in __playlist.m3u, between playlist_save of  *)
(* one daemon and playlist_load of the next: lines are written one by one, *)
(* nobody looks whether they were, and a daemon can be killed in between.  *)
(*                                                                         *)
(* Other modules take a file for the sequence of its tracks.  Here it is   *)
(* text, in units of one character, or of several that need not be told    *)
(* apart: "ile:/" and "ttp://".  A track is its URI.                       *)
(*                                                                         *)
(* What every such module has is named with PF in front here, so that      *)
(* FilesProofs can extend this one together with Settings and Discoverer.  *)
(***************************************************************************)
EXTENDS Integers, Sequences, SequencesExt

CONSTANTS
    Playlists,          \* what commands make of the playlist
    Paths               \* [path, name]: the paths that exist, and what
                        \*    realpath() makes of them; two names for a path
                        \*    if a link is changed while no daemon runs

VARIABLES
    vec,                \* the playlist of the daemon
    daemon,             \* what it does
    m3u,                \* the text of __playlist.m3u
    goal,               \* the playlist that was to be saved last,
    written,            \*    how many of its lines were given to dprintf,
    cuts                \*    and which of these were not written whole

fileVars == <<m3u, goal, written, cuts>>
pfvars   == <<vec, daemon, fileVars>>

-----------------------------------------------------------------------------
Characters == {"f", "ile:/", "h", "ttp://", "/", "x", "y", "#", " ", "\n"}
Uris       == Seq(Characters)

(* Where the text s begins in the line l. *)
Places(s, l) == {k \in 1 .. Len(l) - Len(s) + 1 : SubSeq(l, k, k + Len(s) - 1) = s}

FileScheme == <<"f", "ile:/", "/">>

PathIsAbsolute(l) == l # <<>> /\ l[1] = "/"

(* uri_is_file looks at the first "file://" only, wherever it is. *)
UriIsFile(l) ==
    LET places == Places(FileScheme, l)
    IN  places # {} /\ PathIsAbsolute(SubSeq(l, Min(places) + Len(FileScheme), Len(l)))

UriIsHttp(l) == Places(<<"h", "ttp://">>, l) # {}

UriOk(l) == UriIsFile(l) \/ UriIsHttp(l)

RealPath(path) == {f.name : f \in {g \in Paths : g.path = path}}

(* The outcomes of uri_new, which has none for a path that does not exist. *)
UriNew(l) == IF UriOk(l) THEN {l} ELSE {FileScheme \o name : name \in RealPath(l)}

ASSUME PathsAssumption ==
    \A f \in Paths : f.name \in Seq(Characters) /\ PathIsAbsolute(f.name)

(* uri_new has made a URI of each, or media_new has failed. *)
ASSUME PlaylistsAssumption ==
    \A tracks \in Playlists :
        tracks \in Seq(Uris) /\ \A k \in DOMAIN tracks : UriOk(tracks[k])

(* getline *)
Extended(lines, u) ==
    IF u = "\n" THEN Append(lines, <<>>)
                ELSE [lines EXCEPT ![Len(lines)] = Append(@, u)]

Lines(text) ==
    LET Read[n \in 0 .. Len(text)] ==
            IF n = 0 THEN << <<>> >> ELSE Extended(Read[n - 1], text[n])
    IN  Read[Len(text)]

(* Mutant: the blanks at the end stay. *)
TrimLeading(l) ==
    LET text == {k \in DOMAIN l : l[k] # " "}
    IN  IF text = {} THEN <<>> ELSE SubSeq(l, Min(text), Len(l))

Trim(l) ==
    LET text == {k \in DOMAIN l : l[k] # " "}
    IN  IF text = {} THEN <<>> ELSE SubSeq(l, Min(text), Max(text))

(* Comments are skipped, and lines with less than two characters. *)
Counts(l) == Len(l) > 1 /\ l[1] # "#"

(* Mutant: only a line that is nothing but a URI is one. *)
IsTrackIfPath(l) == PathIsAbsolute(l)

IsTrack(l) == PathIsAbsolute(l) \/ UriOk(l)

Tracks(lines) ==
    LET Taken[n \in 0 .. Len(lines)] ==
            IF n = 0 THEN <<>>
            ELSE IF Counts(Trim(lines[n])) THEN Append(Taken[n - 1], Trim(lines[n]))
            ELSE Taken[n - 1]
    IN  Taken[Len(lines)]

(* What playlist_load_file can make of a text, in an empty playlist: one   *)
(* line that is no track, or names no file, and there is no playlist.      *)
Loaded(text) ==
    LET tracks == Tracks(Lines(text))
        uris   == UNION {UriNew(tracks[k]) : k \in DOMAIN tracks}
    IN  {playlist \in [DOMAIN tracks -> uris] :
            \A k \in DOMAIN tracks : IsTrack(tracks[k]) /\ playlist[k] \in UriNew(tracks[k])}

-----------------------------------------------------------------------------
PFInit ==
    /\ vec = <<>> /\ daemon = "running"
    /\ m3u = <<>> /\ goal = <<>> /\ written = 0 /\ cuts = {}

(* The commands between two saves, module Climpd. *)
Commands ==
    /\ daemon = "running"
    /\ vec' \in Playlists
    /\ UNCHANGED <<daemon, fileVars>>

(* Mutant: the loop goes on where the last one stopped. *)
SaveGoesOn(state) ==
    /\ daemon = "running"
    /\ daemon' = state
    /\ m3u' = <<>> /\ goal' = vec /\ cuts' = {}
    /\ UNCHANGED <<vec, written>>

(* playlist_save opens and empties the file, in handle_play ("saving") or  *)
(* at the end of main ("leaving").                                         *)
PlaylistSave(state) ==
    /\ daemon = "running"
    /\ daemon' = state
    /\ m3u' = <<>> /\ goal' = vec /\ written' = 0 /\ cuts' = {}
    /\ UNCHANGED vec

(* One dprintf, of which the disk may have room for a part only; there may *)
(* be room again for the next.                                             *)
Dprintf(line) ==
    /\ daemon \in {"saving", "leaving"}
    /\ \E n \in 0 .. Len(line) :
          /\ m3u' = m3u \o SubSeq(line, 1, n)
          /\ cuts' = IF n < Len(line) THEN cuts \cup {written + 1} ELSE cuts
    /\ written' = written + 1
    /\ UNCHANGED <<vec, daemon, goal>>

(* Mutant: the newline is missing. *)
WriteLineBare == written < Len(goal) /\ Dprintf(goal[written + 1])

WriteLine == written < Len(goal) /\ Dprintf(Append(goal[written + 1], "\n"))

Close ==
    /\ daemon \in {"saving", "leaving"}
    /\ written = Len(goal)
    /\ daemon' = IF daemon = "saving" THEN "running" ELSE "gone"
    /\ UNCHANGED <<vec, fileVars>>

(* SIGKILL, also between two lines, or --quit when the file cannot be      *)
(* opened.                                                                 *)
Die ==
    /\ daemon # "gone"
    /\ daemon' = "gone"
    /\ UNCHANGED <<vec, fileVars>>

(* main of the next daemon.  The load fails for the text, or for want of   *)
(* memory or of a file, and main goes on.                                  *)
NextDaemon ==
    /\ daemon = "gone"
    /\ daemon' = "running"
    /\ vec' \in Loaded(m3u) \cup {<<>>}
    /\ UNCHANGED fileVars

PFNext ==
    \/ Commands \/ PlaylistSave("saving") \/ PlaylistSave("leaving")
    \/ WriteLine \/ Close \/ Die \/ NextDaemon

PFSpec == PFInit /\ [][PFNext]_pfvars

-----------------------------------------------------------------------------
PFTypeOK ==
    /\ vec \in Seq(Uris) /\ goal \in Seq(Uris)
    /\ daemon \in {"running", "saving", "leaving", "gone"}
    /\ m3u \in Seq(Characters)
    /\ written \in 0 .. Len(goal)
    /\ cuts \subseteq 1 .. written

(* A URI that is one line and is read as it was written: no line break in  *)
(* it, no blank at its ends, and no comment.                               *)
IsPlain(uri) ==
    /\ "\n" \notin ToSet(uri)
    /\ uri[1] \notin {" ", "#"} /\ Last(uri) # " "

Plain(uris) == \A k \in DOMAIN uris : IsPlain(uris[k])

(* Wherever playlist_save was stopped, what the next daemon finds is the   *)
(* beginning of the playlist, as far as it was written, and all of it when *)
(* the save ended: if no write has failed and the URIs are plain.          *)
SavedIsLoaded ==
    cuts = {} /\ Plain(goal) => Loaded(m3u) = {SubSeq(goal, 1, written)}

(* A write that fails costs its own track and, since the next line is then *)
(* joined to it, the next one.  The whole playlist is unreadable only if   *)
(* the last write failed, or one failed just behind a "file://", so that   *)
(* what follows is no absolute path.                                       *)
DamageIsBounded ==
    Plain(goal) =>
        /\ Loaded(m3u) = {} =>
              \/ written \in cuts
              \/ Places(FileScheme, m3u) # Places(Append(FileScheme, "/"), m3u)
        /\ \A tracks \in Loaded(m3u) : \A k \in 1 .. written :
              k \notin cuts /\ k - 1 \notin cuts => goal[k] \in ToSet(tracks)

(* What has been loaded is plain, so that a track which has survived one   *)
(* restart survives all others: unless its line was a path, and led to a   *)
(* file whose own name is not plain.                                       *)
LoadedIsPlain ==
    \A tracks \in Loaded(m3u) : \A k \in DOMAIN tracks :
        ~ IsPlain(tracks[k]) =>
            \E f \in Paths : ~ IsPlain(f.name) /\ tracks[k] = FileScheme \o f.name
=============================================================================
