# climp in TLA+

climp is a music player for the command line. A daemon, `climpd`, plays a
playlist through GStreamer; every `climp <command ...>` is a short-lived client
that finds or starts the daemon, hands over its command line and its three
standard streams, and waits for a status. This directory holds a formal model
of that system: TLA+ modules, the configurations with which TLC checks them on
small instances, and proofs that TLAPS checks for every instance.

All paths below are relative to the repository.

## 1. The system

### Components

| Component | Source | State | Operations |
|---|---|---|---|
| Track shuffler | `src/climpd/core/playlist/kfy.c` | array of indices, `end`, `size`, `capacity` | init, reset, shuffle, add, remove, cycle_done |
| Playlist | `src/climpd/core/playlist/playlist.c` | vector of media, a shuffler, `index`, `repeat`, `shuffle` | add, load, load_fd, clear, remove, remove_array, next, at, set_index, sort, save |
| Audio player | `src/climpd/core/audio-player/audio-player.c` | playlist, engine, `active_track` | play, pause, stop, play_track, play_next, the two bus callbacks |
| Engine | `src/climpd/core/audio-player/gst-engine.c` | GStreamer elements, `gst_state`, volume, mute, pitch, speed | set state, set uri, seek, setters, `bus_watcher` |
| Command handlers, main | `src/climpd/main.c` | the globals of the daemon | one handler per option, start and shutdown |
| Socket server | `src/climpd/ipc/socket-server.c` | listening socket, path | init, `handle_socket`, destroy |
| Client | `src/climp/main.c` | one connection | connect, clean up, spawn, retry, send, wait |
| IPC framing | `src/shared/ipc.c` | none | send and receive setup, argv, status |
| Daemonize | `src/climpd/core/daemonize.c` | none | fork twice, close files, install handlers |
| Media loader | `src/climpd/core/media-loader.c` | search directories | load an argument as URI, file or playlist |
| Tag reader, media, URI | `tag-reader.c`, `src/climpd/media/*.c` | pending discoveries, reference counts | read_async, read, callbacks; ref and unref |
| Configuration | `src/climpd/core/climpd-config.c` | settings, `keep_changes` | init, reload, save, set |
| Argument parser | `src/climpd/core/argument-parser.c` | table of options | run |
| Conversions | `src/climpd/util/*.c` | none | strings to int, float, bool, time |
| Discoverer | `src/climp-discoverer/main.c` | one path buffer, one URI buffer | recursive directory scan, print |
| Log | `climpd-log.c`, `src/climp-log/main.c` | log file | print |

`PROJECT.json` names the same files with one `src/` more in front, the
directory in which the repository's tree stands.

### How they interact

* **climp and climpd** are separate processes that meet at
  `/tmp/.climpd-<uid>.sock`. A client that is refused removes the path, forks a
  daemon, and connects again up to 1000 times, every 10 ms. Any number of
  clients run at once; so may any number of daemons.
* **climpd** has one GLib main loop. It dispatches two kinds of events: a
  connection on the socket (`handle_socket` → `handle_connection` →
  `argument_parser_run` → one handler per option) and a message on the bus of
  the GStreamer pipeline (`bus_watcher` → `handle_end_of_stream` or
  `handle_bus_error`). Both run to completion, so handlers never interleave
  with each other.
* **GStreamer** runs in threads of its own. It ends or breaks a stream at any
  time between two steps of climpd, and says so by a message that waits on the
  bus until the main loop gets to it.
* The **player** asks the **playlist** for the next index, the playlist asks the
  **shuffler** when shuffle is on. The playlist repeats the shuffler's size in
  its own vector, and `index` and `active_track` repeat, in two places, what is
  being played: three pairs of states that every operation has to keep in step.
* The **playlist** gives every track it takes to the **tag reader**, which asks
  GStreamer's discoverer for its tags; the answers come later, in the main loop.
  Playlist, player and tag reader each hold references on a track.
* `__playlist.m3u` carries the playlist from one daemon to the next. It is read
  before a daemon has a socket and written after it has answered `--quit`, and
  by `--play` when a track plays.
* **climp-discoverer** prints URIs that `climp --stdin` reads as a playlist.

### What makes it hard

1. Tracks come and go while a shuffle cycle is half done, in an array whose live
   part shrinks with each draw and whose memory may fail to grow.
2. Indices are `int` in one place and `unsigned int` in another, negative ones
   count from the end, and -1 also means "none".
3. A load fails in the middle and must be taken back.
4. The engine may refuse a track after the playlist has advanced.
5. An end of stream is handled in a state later than the one it was posted in.
6. A track is dropped while the player plays it or its tags are being discovered.
7. A command line arrives in pieces, or only half of it, with descriptors that
   somebody has to close, and either side may go away in between.
8. A save is cut short by a full disk or a kill, in the middle of a line.
9. Clients, starting daemons and quitting daemons each remove the one path they
   all share, none of them knowing of the others, and any of them may die.

### What makes each component correct

* Shuffler: each track is heard exactly once per cycle, also if tracks are added
  meanwhile; never an index that does not exist; the asserts hold.
* Playlist: vector and shuffler agree; every pass is complete; a failed load
  leaves nothing; `--remove` removes what was named.
* Player: what sounds is the active track; an end of stream belongs to it; stop
  is final; a repeating playlist goes on for ever.
* Tag reader: a media has as many references as holders; what is dropped is
  freed; every discovery that is waited for is under way.
* Connection: handlers get slices of the line that was typed; success means that
  all of it was run; every exchange ends, and of its descriptors climpd keeps none
  but the one that `ipc_send_setup` sends by mistake (section 2).
* Playlist file: what was written is what is loaded; damage is bounded.
* Discoverer: the shared buffer is the directory being read; failures are local.
* Rendezvous: a command is executed at most once, and once if the client reports
  success; no client hangs but behind a daemon that another client blocks, or that
  has no descriptor left; one reachable daemon; nothing commanded is forgotten.

`PROJECT.json` lists the hazards one by one, at their lines, with the properties
that watch them.

## 2. The modules

```
ShuffleCycle   what a shuffler promises                (abstract specification)
     ^ implements
KfyOps  <---  Kfy <- KfyProofs                         kfy.c as operators; as a state machine
  |
  v
PlaylistOps <- Playlist <- MCPlaylist                  playlist.c
  |              ^-------- PlaylistProofs              (proofs)
  v
AudioPlayerOps <- Climpd <- MCClimpd                   audio-player.c, gst-engine.c, main.c
                    ^------ ClimpdProofs               (proofs)

PlaylistOps <- PlaylistOpsProofs                       lemmas on KfyOps and PlaylistOps, for
                                                       KfyProofs, PlaylistProofs, ClimpdProofs

Settings <- MCSettings                                 climpd-config.c, gst-engine.c, main.c

TagReader <- TagReaderProofs                           tag-reader.c, media.c, playlist.c

PlaylistFile <- MCPlaylistFile                         playlist.c, uri.c

Discoverer <- MCDiscoverer                             climp-discoverer/main.c

Settings, PlaylistFile, Discoverer <- FilesProofs      (proofs: what is on the disk)

Connection <- ConnectionProofs                         ipc.c, argument-parser.c, main.c

Rendezvous <- MCRendezvous                             climp/main.c, socket-server.c, main.c
     ^------- RendezvousProofs                         (proofs)
```

The C structs are embedded in each other, so each file with a struct is an
`...Ops` module: a struct is a record and a function is an operator from the
record to its **set of outcomes**, one for each answer of what the code cannot
control: the allocator, `random_uint_range`, `qsort` (which is not stable),
GStreamer. A set, and not an action, because the functions call each other: the
playlist's `add` composes the vector and the outcomes of `KfyAdd`, the player's
`play_next` composes `PlaylistNext` and `PlayTrack`. The state machines `Kfy`,
`Playlist` and `Climpd` then have one action per call, handler or callback, with
the whole of its effect.

| Module | Models | Correspondence |
|---|---|---|
| `KfyOps` | `struct kfy` and all its functions | `a` is a function on `0 .. capacity-1`; cells nobody has written are `Uninit`; `realloc` keeps the common prefix or fails; `next_pow_2` is the least admissible capacity above its argument |
| `Kfy` | the calls on one shuffler | history variables: what was `drawn` in this cycle, whether it is still `intact` |
| `ShuffleCycle` | the promise | `size` tracks, the set `remaining` |
| `PlaylistOps` | `struct playlist` and its functions | `vec[i+1]` is element `i`; `int` and `unsigned int` are integers below `IntMax` and `2*IntMax+2` with the conversions of C; a playlist file is the sequence of its lines |
| `Playlist` | the calls on one playlist | history variables: the indices `heard` in this pass, whether it is `intact` |
| `AudioPlayerOps` | `struct audio_player`, `struct gst_engine`, what climpd sees of the pipeline | `state` is `gst_state`; `stream` is whether the pipeline plays on, is at its end or broken; `bus` the undispatched messages |
| `Climpd` | the handlers of `main.c`, start and shutdown | one action per handler; an argument is a record that says what the parser or the loader makes of it |
| `Settings` | the configuration file, `struct climpd_config` and what the player is set to, over restarts | one action per handler that changes a setting, load, save, restart and edit; a file is a function on the keys it has a line for |
| `TagReader` | the references on media, the map of pending discoveries and the discoverer's queue | one action per call of the playlist and the player, per line of a playlist file, and for `on_discovered`; an address is free when its count is 0 |
| `PlaylistFile` | the text of `__playlist.m3u` and the rules by which a line is a track | one action per `dprintf`, which may write a part of its line; characters that need not be told apart are one unit |
| `Connection` | one client and the daemon, from `connect` to the status | a command line is a stream of units (setup, header, one per word); one action per send and receive and per round of the parser's loop |
| `Discoverer` | the recursion of `recursive_scan` | a stack of frames and the buffer they share; one action per directory entry |
| `Rendezvous` | clients and daemons around one socket path | one action per system call on shared state; a daemon has the name of the client that forked it |

Operators whose comment says *Mutant* are wrong on purpose: each replaces the
definition it stands before, and then a property named in `PROJECT.json` fails.

### Notes on faithfulness

* `kfy_reset` renumbers all cells and only shrinks the array when `size` is at
  least `KFY_MIN_CAPACITY` and under a quarter of the capacity; a failing
  `realloc` there is ignored, in `kfy_add` it is an error.
* When the first `malloc` fails, `kfy_init` returns `-err` of an `err` that is
  negative already (`kfy.c:54`). `playlist_init` takes the positive number for
  success and goes on with what its `memset` has left, a NULL array of capacity 0
  (`NoBag`); the first track grows it. Everything about `Kfy`, `Playlist` and
  `Climpd` is shown for both beginnings. `playlist_init` is the only caller, and
  its size is 0, so that `Kfy` starts with 0 tracks.
* `random_uint_range(0, end)` is taken to be able to return any index below `end`,
  and no other, also from the generator that the failing `kfy_init` has destroyed:
  what `random_destroy` leaves is libvci's. When `random_init` fails there is no
  daemon.
* `tag_reader_init` takes a map that could not be allocated for success as well
  (`tag-reader.c:183`); what becomes of the calls on such a map is libvci's too,
  and `TagReader` begins with a map.
* `playlist_remove_array` converts negative indices twice, first as `int`, then,
  for those still negative, in `playlist_remove`, where the playlist is shorter.
* `playlist_load_file` closes its `FILE` when it fails and its callers close it
  again. The second close is undefined behaviour: in `Playlist` and `Climpd`
  either nothing happens or the process is gone.
* `gst_element_set_state(..., GST_STATE_NULL)` empties the bus, other changes do
  not; a flushing seek does not. `gst_engine_set_state` does nothing when
  the state is the wanted one, which is why `--play` after the last track does
  nothing.
* The socket goes on listening until the daemon exits: the watch of the main
  context holds a reference on the channel, so `g_io_channel_unref` in
  `socket_server_destroy` closes nothing.
* `argument_parser_run` reports success whatever its handlers return, so every
  command line the daemon receives is answered with success. Only one that it
  fails to receive (the constant `Rejected`) gets no answer; its connection is
  closed.
* `str_to_int` reads a `long` and cuts it down to an `int`; a negative volume
  becomes a huge unsigned one in the configuration and `MaxVolume` in the player.
  The file keeps two digits of pitch and speed (`Grain` in `Settings`).
* `strtof` reads infinities: they are numbers out of range, of which `Settings` has
  some. It also reads "nan", which is left out, since `min` and `max`, by which
  the engine clamps it, are libvci's. `--config` may fail: it is taken to do so
  before its first line (the file cannot be opened), not in the middle.
* `gst_element_seek_simple` may always refuse; `--seek` then changes nothing.
* libvci is not part of the repository. Inserting a key that a map has already
  may be refused or may replace the data (which `data_delete` then gets); the
  model of `TagReader` does either, and the properties hold for both.
* GStreamer's discoverer answers its queue in order. While a playlist file is
  loaded the main loop does not run, so no answer is dispatched then.
* `ipc_send_setup` sets `cmsg_len` to the room including its padding, so that on
  64-bit machines four descriptors are sent, the fourth being whatever the
  padding holds: nothing the kernel accepts (the client fails), or an open
  descriptor that the daemon receives and never closes: `Paddings` in
  `Connection`, which counts those that are open. After some thousand commands,
  or before if the player needs the last ones, `accept` fails. The connection
  stays in the backlog, the watch of the channel calls again and again, and
  every client waits for ever: the state "deaf" of a daemon in `Connection` and
  `Rendezvous`. In between there is the daemon that accepts and then receives
  fewer than three descriptors, which `ipc_recv_setup` does not look at: `fd_in`
  and its siblings are what was on the stack, and `close` hits a descriptor that
  had leaked, one of the daemon's own ("lost") or none (`Strays`). What a
  handler prints to such a descriptor is not modelled.
* A handler blocks on the descriptors of its client: `--stdin` in `getline` until
  the last writer of the pipe has closed it, which need not be the client, and
  those that print when nobody reads. The one loop of the daemon waits with it
  ("blocked"), and nothing in the code ends that.
* `socket_server_init` returns what `err` was last when `strdup` or `socket` fails,
  which is not negative when there was a path to remove or `strdup` failed. Then
  `main` goes on to its loop without a socket ("mute" in `Rendezvous`). What such a
  daemon does when it is terminated is left out.
* `--repeat` and `--shuffle` read `argv[0]` without looking at `argc`. At the end of
  the line that is the bytes behind the array, taken for a pointer (`Crash`).
* A send that is interrupted is repeated without having sent anything, and so is
  a step that changes nothing. That `*argc` exceeds `ARG_MAX` cannot happen: the
  kernel has let the client start. `argument_parser_run` returns 0 always, so that
  a status is 0.
* A file name with a line break, or with a blank at its end, and a web radio that
  begins with `#`, do not survive a restart: `playlist_save` writes them as they
  are and `playlist_load_file` reads lines. `IsPlain` in `PlaylistFile` is the
  condition under which they do.
* `realpath` makes of a path what the file system says, or fails and with it the
  whole load (`uri.c:41`): the constant `Paths` of `PlaylistFile` relates paths to
  the names they lead to, two for one path where a link may be changed.
* When a subdirectory cannot be opened, `recursive_scan` gives up the directory
  it is in, and reports success to the one above.

## 3. The runs

| Run | Question | Instance |
|---|---|---|
| `kfy` | Is shuffle play fair, are the asserts true, does the array implement `ShuffleCycle`? | up to 4 tracks, capacities 0 (after a failed first allocation), 1, 2, 4, 8 |
| `playlist` | Passes, loads, removals, in all modes and with all conversions | up to 3 tracks of 2 paths, `IntMax` 7 |
| `climpd` | All commands against a pipeline that ends and breaks streams at will | up to 2 tracks, one of which GStreamer may refuse |
| `settings` | Do configuration and player agree, and does what was saved come back? | 4-bit integers, volumes up to 4, pitch and speed in steps of a third of what the file tells apart, four files |
| `rendezvous` | At most once, success means executed, and does every climp return? | 2 concurrent clients, a backlog of 1; forks fail, daemons fail to start, get no socket, are blocked, run out of descriptors, are terminated or killed anywhere |
| `tag_reader` | Are references counted right, whatever fails, and is what is dropped freed? | 3 media of 3 URIs, one a web radio, 2 tracks, 2 discoveries under way |
| `connection` | Do handlers get what was typed, does success mean it was run, what stays open, does every exchange end? | lines of up to 4 words, segments and a socket of 4 units, all three kinds of padding, a table of descriptors that fills |
| `discoverer` | Is the shared buffer always the directory being read; what does a failure cost? | two trees, three levels deep, with paths just below, at and above `PATH_MAX` |
| `playlist_file` | Is what was written what is loaded, and what does a failing write cost? | nine playlists of up to 3 tracks, cut anywhere; a path that is a link and one that leads nowhere |
| `rendezvous_in_turn` | One reachable daemon, nothing forgotten, `--quit` quits | 4 command lines one after another; daemons fail to start or are terminated |
| `climpd_current`, `climpd_reload` | Statements of the repository that the code does not keep | see section 6 |

### The bounds, and why they are enough

* `kfy`: with `KfyMinCapacity` 1 the array grows three times and shrinks, with
  room for stale cells, within four tracks. The real constant is 8; the proofs
  cover it, and every other.
* `playlist`: with three tracks `--remove` can name one twice, in both signs,
  in any order; one can be current, one before and one behind it. With `IntMax`
  7 there are indices inside, at, behind and below the playlist in both signs.
  Paths are two, so that the same track can be there twice and sorting has ties.
* `climpd`: two tracks are the first size at which order, shuffling, a wrong
  track and an index behind the end can be told apart. `MaxBus` bounds the
  commands climpd takes while messages wait: it takes none with two waiting.
  Growing arrays, but for the first cells where there are none, are left to
  `playlist`: `KfyMinCapacity` is 4 here.
* `settings` needs no bound of its own: its states are finite because the
  arguments (`Volumes`, `Numbers`) and the files a user writes (`Files`) are.
  They lie below, in and above the ranges and between two numbers that `%.2f`
  tells apart.
* `tag_reader`: three media are enough for one that is played, one in the
  playlist and one that only the tag reader holds, and for two of the same URI.
  `MaxTracks` and `MaxQueue` bound what commands add; loading a file obeys them too.
* `connection`: a header and two words fit a segment, a third and fourth do not,
  so that a line is received whole or in part; four units in the socket make the
  client block in its second segment. `MaxLeaked` is 2 instead of about 1000: the
  table is reached after two exchanges, and left when a stray `close` frees a place.
* `discoverer`: in the larger tree a directory with a subdirectory lies among
  other entries, so that its failure can end the scan of a level with entries
  left, of the one above, or of neither.
* `playlist_file`: with three lines one can be cut, the next joined to it, and
  the third be untouched. The playlists are of plain URIs of each kind, and one
  for each way in which a URI is not plain. A name with a line break in it leaves
  a second line that is a path: there is one that leads nowhere, and one that is
  a link, to a file with a plain name or to one whose name ends in a blank.
* `Rendezvous`: two clients collide in every step of finding, cleaning up and
  spawning; `rendezvous_in_turn` has four, so that a daemon can be started, told
  something, quit and replaced. A backlog of one makes `connect` block; attempts
  are one to three instead of 1000. Attempts too few are harmless for safety
  (`Patient = FALSE`: a client may give up while its daemon starts), and where
  it matters that a daemon starts within the ten seconds of the real client,
  `Patient` says that it does.

### Fairness

* `Climpd`: weak fairness of `StreamEnd` and of `Dispatch`. A stream of a file
  ends if it is left to play and does not break, and GLib's main loop dispatches
  what is ready. Commands have no fairness: `RepeatPlaysEveryTrack` speaks of
  the time after the user has fallen silent (`quiet`), and excludes pipelines
  that fail, because `handle_bus_error` only logs.
* `TagReader`: weak fairness for the loop that loads a file and its roll-back,
  since a file has an end. Strong fairness for `Discovered`: commands interrupt
  it again and again (a file that is being loaded keeps the main loop from
  running), but between two of them GLib dispatches what is ready, and the
  discoverer's timeout of five seconds sees to it that there is an answer.
* `Connection`: weak fairness of the client and of the daemon. A client that is
  stopped (SIGSTOP) in the middle of an exchange is thereby excluded: the code has
  no timeout, and the daemon would wait as long as it is stopped. `Resume`, by
  which a handler that is blocked goes on, is not fair: `EveryExchangeEnds` has
  the premise, in the property and not in the specification, that no handler
  stays blocked, and allows a client to wait for a daemon that is deaf.
* `Rendezvous`: weak fairness per process: the kernel schedules it when its
  next system call does not block. Mishaps are never fair, nor is `Resume`:
  `EveryClientReturns` is claimed where no daemon is blocked or deaf for ever.

`CHECK_DEADLOCK FALSE` stands where the system really stops: no client is left
to start (`Rendezvous`), `climpd` has been killed (`Playlist`), has quit (`TagReader`)
or crashed (`Connection`), or the user is silent and the last stream has ended
(`Climpd`).

## 4. The properties

* **Kfy.** `CycleIsPermutation`: drawn and remaining tracks partition all
  tracks, so long as none was removed. `CapacityAssertsHold`: what
  `kfy_reset` and `kfy_add` assert. `ImplementsShuffleCycle`: refinement.
* **Playlist.** `NextTrackExists`; `PassIsComplete`, an action property over a
  history of what was returned, for all four modes and changes between repeating and not;
  `FailedLoadLeavesNoTrack`; `RemovesWhatWasNamed`, which compares the loop of
  removals with a one-pass definition of what should be left.
* **Climpd.** `EngineHasActiveTrack`, `BusIsCurrent`, `StopIsFinal`,
  `RepeatPlaysEveryTrack` (liveness).
* **Settings.** `PlayerMatchesConfig`: what will be saved is what is heard;
  `KeptSettingsSurvive`: a new daemon, and `--config`, bring back what was
  saved, whatever happened between. The latter excludes a volume given as a
  negative number, which is heard as `MaxVolume`, saved as an unsigned number
  (-5 as 4294967291) and read back as 0.
* **TagReader.** `RefsAreHolders`: the count of a media is the number of its
  holders among playlist, player and tag reader, after every call and whichever
  of its steps fail; `PendingIsAwaited`: the tag reader's map and the
  discoverer's queue agree, and the key of an entry, which points into the media
  it holds, is that media's URI; `DroppedIsFreed` (liveness).
* **Connection.** `HandlersGetTheLine`: the calls of handlers, put together, are
  the command line from its first option on; `SuccessMeansRun`;
  `OnlyPaddingIsKept`: after an exchange, however it ended, the daemon has
  nothing open that it has a name for, which is all but what the padding was
  taken for; `EveryExchangeEnds` (liveness), unless a handler stays blocked or
  no descriptor is left. The first two speak of lines that arrive in one segment
  (`Fits`): from a longer one words may be lost, since `ipc_recv` takes the part
  that has arrived for the whole, and the model leaves open what the handlers
  are given then.
* **Discoverer.** `BufferIsTheDirectory`; `FailuresAreLocal`: what has been
  printed in the end is what can be played, but for what each failure costs.
* **PlaylistFile.** `SavedIsLoaded`: wherever a save was stopped between two
  lines, the next daemon has the beginning of the playlist; `DamageIsBounded`: a
  write that fails costs two tracks at most, unless it is the last or ends just
  behind a `file://`, when the playlist cannot be read at all; `LoadedIsPlain`:
  what has survived one restart survives all, but for a line that was a path and
  led to a file whose own name is not plain.
* **Rendezvous.** `DoneIsExecutedOnce`, `EveryClientReturns` (liveness: a climp
  hangs only behind a daemon that is blocked or deaf), and for command lines in
  turn `ServingIsReachable`, `NothingIsForgotten`, `QuitQuits`.

Each has a mutant of the code's model under which its run fails; one type
invariant per state machine carries, beside the types, the well-formedness the C
code asserts.

## 5. What is proved

`KfyProofs` proves, for every `KfyMinCapacity`, every set of capacities that
`CapacityAssumption` admits (the minimum and its doublings) and every number of
tracks:

| Theorem | States |
|---|---|
| `TypeCorrect` | `Spec => []TypeOK`: the array is well-formed, its live cells written, distinct and in range |
| `ShuffleIsFair` | `Spec => []CycleIsPermutation` |
| `NoAssertFires` | `Spec => []CapacityAssertsHold` |
| `KfyImplementsShuffleCycle` | `Spec => Abstract!Spec` |

The inductive invariant is `TypeOK /\ CycleIsPermutation`. `TypeOK` alone is
inductive; `CycleIsPermutation` is not, since it takes the distinctness of the
live cells to see that a draw removes from the bag just the track it returned.
That distinctness is part of `KfySound`, in `TypeOK`. `CapacityAssertsHold`
follows from `TypeOK` without an induction of its own. A shuffler of capacity 0
(`NoBag`) is well-formed too: its array has no cells and none is read, since it holds
no track, and `kfy_add` grows it before it writes.

Assumed is `CapacityAssumption`; TLC evaluates it, and every other assumption
named below, in the runs.

`PlaylistOpsProofs` has the lemmas that this proof and the next two share, one per
function of `kfy.c` and `playlist.c`: each outcome of a function on a sound record
is again of its type and sound, and what the function does to `Remaining` (a draw
removes one, an addition adds the new ones, a reset restores all, a removal leaves
as many as it should), to the vector and to the index. The refinement's only
arithmetic fact beyond these is that a live part of `end` distinct cells has
`end` elements, by `FS_Bijection` and the theorems on intervals. Loops over
arguments and over the lines of a file are recursive functions on the number
of rounds. `UpTo`, from the well-foundedness of `<` on the naturals, is the
induction on that number.

`PlaylistProofs` proves, for every maximal size and width of an `int`, any set of
tracks and playlist files, and arguments of any length:

| Theorem | States |
|---|---|
| `TypeCorrect` | `Spec => []TypeOK`: vector and shuffler agree, and the shuffler is sound |
| `NextIsATrack` | `Spec => []NextTrackExists` |
| `PassesAreComplete` | `Spec => PassIsComplete` |
| `FailedLoadsLeaveNoTrack` | `Spec => FailedLoadLeavesNoTrack` |
| `NamedTracksAreRemoved` | `Spec => RemovesWhatWasNamed` |

The inductive invariant is `TypeOK /\ PassInv`. `PassInv` says where the history
`heard` is in the state: with shuffle, the shuffler can still draw exactly the
tracks that were not heard; in order, those up to the current one were. No less
would do, since the end of a pass is decided by the shuffler or by the index and
not by what was heard. `TypeOK` is inductive by itself and `NextTrackExists` follows
from it. `RemovesWhatWasNamed` compares a loop of removals with a definition in
one pass: the indices are sorted in descending order, and after the removal of
all those from some index on, the vector is what it was up to there, and behind it
what is left of the rest (`LeftCuts`); duplicates find their track gone already.
Assumed are `CapacityAssumption`, `PlaylistAssumption` and `UseAssumption`.

`ClimpdProofs` proves, for any number of tracks, playlists of any length, and every
interleaving of commands and GStreamer:

| Theorem | States |
|---|---|
| `DaemonTypeCorrect` | `Spec => []TypeOK` |
| `OneHearsTheActiveTrack` | `Spec => []EngineHasActiveTrack` |
| `NoStaleEndOnTheBus` | `Spec => []BusIsCurrent` |
| `StoppedStaysStopped` | `Spec => StopIsFinal` |

The invariant `PlayerInv` joins the soundness of the playlist to `EngineInv`.
`BusIsCurrent` is not inductive: an end of stream could wait while the engine is
stopped, and the next track be started with it on the bus. `EngineInv` adds that no
end of stream waits on the bus of a stopped engine, which holds because going to
`GST_STATE_NULL` empties the bus, and that is also why stopped stays stopped.
Each operator of `AudioPlayerOps` takes `PlayerInv` to `PlayerInv` for each of its
outcomes, each handler is a chain of operators, and the loops of `--play`,
`--add` and `--remove` are runs over their arguments as above. Assumed are the
assumptions of the playlist, `AudioPlayerAssumption` and `ArgsAssumption`.

`FilesProofs` is about what climp reads from and writes to the disk. It
extends `Settings`, `Discoverer` and `PlaylistFile`, which is why the last two have
the names that every state machine has with letters in front (`DSpec`, `PFSpec`).
Of `Settings` it proves, for every width of an `int`, all ranges, grains,
defaults, arguments and files:

| Theorem | States |
|---|---|
| `SettingsTypeCorrect` | `Spec => []TypeOK` |
| `PlayerFollowsConfig` | `Spec => []PlayerMatchesConfig` |
| `SavedSettingsComeBack` | `Spec => KeptSettingsSurvive` |

Beside types and `PlayerMatchesConfig` the invariant has `FileIsKept`: once a file
was saved and not edited since, it has a line for each setting, an unsigned volume
that the engine turns into the one that was heard, and numbers that lie half a
grain at most from those the heard ones were made of. That what comes back is as
close as that is then a fact about clamps: they take no two numbers further apart.
Assumed is `SettingsAssumption`.

Of `Discoverer`, for every directory tree, all lengths of names, every `PATH_MAX`,
command lines of any length and whatever cannot be opened, read or tested:

| Theorem | States |
|---|---|
| `ScanTypeCorrect` | `DSpec => []DTypeOK` |
| `SharedBuffer` | `DSpec => []BufferIsTheDirectory` |
| `LossesAreBounded` | `DSpec => []FailuresAreLocal` |

Assumed is `DiscovererAssumption`, whose part `ParentsEnd` says that no
directory is below itself: a tree that is not one has no paths. From it comes an
induction along the tree (`TreeInduction`), and from that what `PathOf`, which is
defined by the path of the parent, is for every node (`PathOfIs`). The length of
a path is a sum over it, of which `StrlenIs` shows that it is its recursion and
`StrlenOfParts` that it grows with every name. So no two beginnings of the buffer
have the same length, which is why writing a zero at the length a frame has noted
(`Cut`) gives back the frame's path.

`BufferIsTheDirectory` is about the topmost frame only and not inductive: the
frame below becomes the topmost one when a call returns. `FramesInv` says of
every frame that its directory is one in that of the frame beneath it, that the
length it has noted is that of its directory's path, and that what it has yet to
read are entries of its directory. `FailuresAreLocal` speaks of the end of the
scan only. `AccountsInv` says what is true on the way
there: each file that is due for an argument that was begun is printed, or lost by
a failure that costs it, or, while that argument is scanned, it is or is below an
entry that some frame has yet to come to.

Of `PlaylistFile`, for any set of playlists, URIs of any length, any number of
writes that fail and of saves, kills and restarts:

| Theorem | States |
|---|---|
| `FileTypeCorrect` | `PFSpec => []PFTypeOK` |
| `SavedPlaylistIsLoaded` | `PFSpec => []SavedIsLoaded` |
| `DamageStaysLocal` | `PFSpec => []DamageIsBounded` |
| `LoadedPlaylistIsPlain` | `PFSpec => []LoadedIsPlain` |

Assumed are `PlaylistsAssumption`: a playlist has URIs in it, since
`uri_new` makes one of each argument or `media_new` fails; and `PathsAssumption`:
what `realpath` returns is an absolute path. None of the last three is
inductive, since the text they speak of grows a line at a time. The invariant
`FileInv` says what the lines of the text are (`Holds`): each that is ended has
a track of the playlist at its end, perhaps behind the remains of tracks whose
writes were cut; it is that track when neither its write nor the one before was
cut; the last line is empty when the last write was whole; and no line begins
with a blank or a comment sign. `HoldsOn` is the step of one `dprintf`.
What is read from such lines follows from lemmas on the functions themselves:
`Lines` and `Tracks` are recursions along the text and the lines, which
`LinesAre` and `TracksAre` turn into equations for one character or line more
and `TextInduction` into statements on all texts: each line is a part of the
text between two line breaks (`LinesInText`), what has no line break is added to
the last line (`LinesGrow`), and a track is there exactly for each line that
counts (`TracksFrom`). A joined line is still a URI, unless the text has a
`file://` that no absolute path follows (`JoinedIsUri`, `SlashInLine`): that is
the exception `DamageIsBounded` makes.

`RendezvousProofs` proves, for every set of clients, every backlog and number of
attempts, any order in which the clients start and every set of mishaps:

| Theorem | States |
|---|---|
| `TypeCorrect` | `Spec => []TypeOK` |
| `ExecutedOnce` | `Spec => []DoneIsExecutedOnce`: no command is executed twice, and success means executed |

`DoneIsExecutedOnce` is not inductive. The invariant is `TypeOK`, `ClientInv`
(what a client's progress says of its command), `DaemonInv` (what a daemon's
does of its socket and its queue) and `MeetInv`: a client that a living daemon
knows is connected to it and to no other, is queued or served but not both, and
its command has been executed only if it is the one being served. It is `MeetInv`
that carries the proof: without it a daemon could take from its queue a client
whose command was already executed elsewhere. Assumed is `RendezvousAssumption`.

Three more theorems have the hypothesis `CommandsInTurn`: the command lines, of
which there may be any number, are given one after another, nobody is killed with
SIGKILL, daemons get their socket and their descriptors, and a client waits until
the daemon it has started is up. Daemons may still fail to start, be blocked or be
terminated anywhere, and one that ends overlaps with the next.

| Theorem | States |
|---|---|
| `DaemonIsReachable` | `Spec => []ServingIsReachable` |
| `SuccessIsRemembered` | `Spec => []NothingIsForgotten` |
| `QuitIsFinal` | `Spec => []QuitQuits` |

Without the hypothesis all three are false (section 6). The invariant `TurnInv` adds
to the one above `TurnsAreKept`, `OneDaemon` (one daemon is up at a time, the path
is that of the one whose socket is there, and a client that found the path
refused has seen that none is up) and `Knowledge` (all that was commanded with
success is in the list of the daemon, or, when there is none or it is leaving,
in the file). The delicate steps are the two removals of the path, by a
client and by a daemon that quits: `OneDaemon` says that it is nobody else's.

`TagReaderProofs` proves, for every set of addresses and of URIs, whatever the
bounds on tracks and discoveries:

| Theorem | States |
|---|---|
| `TypeCorrect` | `Spec => []TypeOK`: in particular counts never fall below zero |
| `ReferencesAreCounted` | `Spec => []RefsAreHolders` |
| `TagReaderIsAnswered` | `Spec => []PendingIsAwaited` |

Between the calls of one function the counts are not those of the holders: a
media that was just made is held by the caller, one whose discovery was answered
has been taken from the map and not yet let go. The proof therefore has a family
of invariants, `Sound(s, m, k, U)`: all counts are right but for that of `m`, which
is `k` above its holders, a media is in the vector once, and all entries of the
map are awaited but for those of the URIs `U`, which the discoverer is about to be
told. Each operator takes one member of the family to another, and each action
begins and ends with `Sound(st, None, 0, {})`. Assumed is `TagReaderAssumption`.

`ConnectionProofs` proves, for every set of options and arguments, command lines
and segments of any length and any number of descriptors:

| Theorem | States |
|---|---|
| `TypeCorrect` | `Spec => []TypeOK` |
| `HandlersAreGivenTheLine` | `Spec => []HandlersGetTheLine` |
| `SuccessIsEarned` | `Spec => []SuccessMeansRun` |
| `OnlyPaddingLeaks` | `Spec => []OnlyPaddingIsKept` |

The invariant is `TypeOK`, `Phases` (what the daemon's and the client's progress
say of what was sent, read and answered), `Delivered` (a line that fits has
arrived as it was typed), `Sliced` (the calls so far are adjacent slices of
`argv`), `Covered` (every option before `i` has been run) and `OnlyPaddingIsKept`. The
step that matters is `Run`: that the slice it adds begins where the last one
ended, and skips no option, needs `Sliced` and `Covered` together. Assumed is
`ConnectionAssumption`.

Only model-checked are the liveness properties (`RepeatPlaysEveryTrack`,
`EveryClientReturns`, `DroppedIsFreed`, `EveryExchangeEnds`), which are out of the
prover's reach, as is every argument from fairness. Every invariant and every
action property that a passing run checks is proved.

## 6. Where the code and its words part

| Run | Statement | What happens |
|---|---|---|
| `climpd_current` | `--current` prints the track or "no current track" | after `--remove`, `index` can be behind the last track, and `handle_current` dereferences NULL |
| `climpd_reload` | "failed to load last playlist - continuing" | the file is closed twice, which may end the daemon instead |

The help text parts from the code in more places, of which no run is made, since
they are about one handler and one step: `--repeat` and `--shuffle` are said to toggle
(`main.c:88`), and need an argument, which they read also where there is none; and
`--remove` is said to take media files (`main.c:81-83`), and takes indices only. `--next`
prints "finished playlist" if the player is stopped (`main.c:399`), but when the
playlist ends the engine goes on being `PLAYING`, so that it is not printed then.

The models also have behaviour that one may not expect, but of which the
repository says nothing that would condemn it: an end of stream that was posted
just before `--pause` starts the next track; `--play` at the end of a playlist that
does not repeat succeeds and plays nothing; a command right after `--quit` can
land in the backlog of the daemon that is leaving, and fails; and two clients
that find no daemon at the same time each start one, the first of which nobody
can reach when the second has taken the path. `rendezvous_in_turn` therefore gives
its command lines one after another.

## 7. Not modelled, and the plan

What the runs check as an invariant or an action property is proved, so that what
is left is to model more, such as the pipeline of the engine with its pads and
the search of the media loader.

Modelled in part: the media loader, by what its callers see. The one directory it
searches never changes, so its search has no state; a file that disappears
between `stat` and the second call of `media_loader_load` would make it search for
a name that lies in the buffer it writes to, which no model here has. The
conversions of strings to numbers are pure functions of one string; `Settings`
has the cut from `long` to `int`. `daemonize` is one step of `Rendezvous`.

Not to be modelled: the log and everything that only prints; the building of the
GStreamer pipeline (`gst_engine_init`, `on_pad_added`); `on_sigerr`, which
prints a back trace and dies; libvci, GLib and GStreamer themselves beyond the
little climpd sees of them; `playlist_index_of`, which nothing calls.

## 8. Running

```
tlc -config Kfy.cfg Kfy.tla
tlc -config Playlist.cfg MCPlaylist.tla
tlc -config Climpd.cfg MCClimpd.tla
tlc -config Settings.cfg MCSettings.tla
tlc -config Rendezvous.cfg MCRendezvous.tla
tlc -config RendezvousInTurn.cfg MCRendezvous.tla
tlc -config TagReader.cfg TagReader.tla
tlc -config Connection.cfg Connection.tla
tlc -config Discoverer.cfg MCDiscoverer.tla
tlc -config PlaylistFile.cfg MCPlaylistFile.tla
tlapm PlaylistOpsProofs.tla
tlapm KfyProofs.tla
tlapm PlaylistProofs.tla
tlapm ClimpdProofs.tla
tlapm FilesProofs.tla
tlapm RendezvousProofs.tla
tlapm TagReaderProofs.tla
tlapm ConnectionProofs.tla
```
