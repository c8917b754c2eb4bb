----------------------------- MODULE ClimpdProofs -----------------------------
(***************************************************************************)
(* The daemon, for every number of tracks, every list of arguments and any *)
(* traffic on the bus: the player's types, that an engine which is not     *)
(* stopped has the active track, that the end of another track never waits *)
(* on the bus, and that stopped stays stopped.                             *)
(***************************************************************************)
EXTENDS Climpd, PlaylistOpsProofs, TLAPS

EngineType == [state  : EngineStates, uri : Tracks \cup {None},
               stream : Streams,      bus : Seq(Messages)]

(***************************************************************************)
(* The engine and the active track.  The last conjunct is the one that the *)
(* code arranges for: no end of stream waits on the bus of an engine that  *)
(* is stopped, so that none can be left from the track before when         *)
(* audio_player_play_track starts another one.                             *)
(***************************************************************************)
EngineInv(en, active) ==
    /\ en.state # "NULL" => active # None /\ en.uri = active
    /\ en.state = "NULL" <=> en.stream = "none"
    /\ \A n \in DOMAIN en.bus :
          en.bus[n].type = "EOS" => en.bus[n].from = active /\ en.state # "NULL"

IsPlayer(p) == p = [pl |-> p.pl, active |-> p.active, en |-> p.en]

PlayerInv(p) ==
    /\ IsPlayer(p)
    /\ Sound(p.pl)
    /\ p.active \in Tracks \cup {None}
    /\ p.en \in EngineType
    /\ EngineInv(p.en, p.active)

-----------------------------------------------------------------------------
(* An assignment to the playlist, or to the engine. *)
LEMMA WithPlaylist ==
    ASSUME NEW p, PlayerInv(p), NEW pl, Sound(pl)
    PROVE  LET q == [p EXCEPT !.pl = pl]
           IN  PlayerInv(q) /\ q.pl = pl /\ q.active = p.active /\ q.en = p.en
<1> DEFINE q == [p EXCEPT !.pl = pl]
<1>1. q = [pl |-> pl, active |-> p.active, en |-> p.en]
  BY DEF PlayerInv, IsPlayer
<1> HIDE DEF q
<1>2. q.pl = pl /\ q.active = p.active /\ q.en = p.en /\ IsPlayer(q)
  BY <1>1 DEF IsPlayer
<1>3. PlayerInv(q)
  BY <1>2 DEF PlayerInv
<1>4. QED
  BY <1>2, <1>3 DEF q

LEMMA WithEngine ==
    ASSUME NEW p, PlayerInv(p), NEW en \in EngineType, EngineInv(en, p.active)
    PROVE  LET q == [p EXCEPT !.en = en]
           IN  PlayerInv(q) /\ q.pl = p.pl /\ q.active = p.active /\ q.en = en
<1> DEFINE q == [p EXCEPT !.en = en]
<1>1. q = [pl |-> p.pl, active |-> p.active, en |-> en]
  BY DEF PlayerInv, IsPlayer
<1> HIDE DEF q
<1>2. q.pl = p.pl /\ q.active = p.active /\ q.en = en /\ IsPlayer(q)
  BY <1>1 DEF IsPlayer
<1>3. PlayerInv(q)
  BY <1>2 DEF PlayerInv
<1>4. QED
  BY <1>2, <1>3 DEF q

(* A message that GStreamer posts. *)
LEMMA Posted ==
    ASSUME NEW en \in EngineType, en.uri \in Tracks, NEW type \in {"EOS", "ERROR"}
    PROVE  LET bus == Post(en, type)
           IN  /\ bus \in Seq(Messages)
               /\ \A n \in DOMAIN bus :
                     \/ n \in DOMAIN en.bus /\ bus[n] = en.bus[n]
                     \/ bus[n] = [type |-> type, from |-> en.uri]
<1> DEFINE m == [type |-> type, from |-> en.uri]
<1>1. m \in Messages
  BY DEF Messages
<1>2. PICK b \in Seq(Messages) : b = en.bus
  BY DEF EngineType
<1>3. Post(en, type) = Append(b, m)
  BY <1>2 DEF Post
<1> HIDE DEF m
<1>4. /\ Append(b, m) \in Seq(Messages)
      /\ \A n \in DOMAIN Append(b, m) :
            \/ n \in DOMAIN b /\ Append(b, m)[n] = b[n]
            \/ Append(b, m)[n] = m
  BY <1>1
<1>5. QED
  BY <1>2, <1>3, <1>4 DEF m

(* gst_element_set_state to NULL, which flushes the bus. *)
LEMMA PipelineStops ==
    ASSUME NEW en \in EngineType, NEW active
    PROVE  LET new == PipelineSet(en, "NULL")
           IN  /\ new \in EngineType /\ EngineInv(new, active)
               /\ new.state = "NULL" /\ new.uri = en.uri
<1> DEFINE new == PipelineSet(en, "NULL")
<1>1. /\ new = [state |-> "NULL", uri |-> en.uri, stream |-> "none", bus |-> <<>>]
  BY DEF PipelineSet, EngineType
<1>2. <<>> \in Seq(Messages) /\ DOMAIN <<>> = {}
  OBVIOUS
<1> HIDE DEF new
<1>3. new \in EngineType
  BY <1>1, <1>2 DEF EngineType, EngineStates, Streams
<1>4. EngineInv(new, active)
  BY <1>1, <1>2 DEF EngineInv
<1>5. QED
  BY <1>1, <1>3, <1>4 DEF new

LEMMA PipelinePauses ==
    ASSUME NEW en \in EngineType, NEW active, EngineInv(en, active), en.state # "NULL"
    PROVE  LET new == PipelineSet(en, "PAUSED")
           IN  new \in EngineType /\ EngineInv(new, active)
<1> DEFINE new == PipelineSet(en, "PAUSED")
<1>1. /\ new = [state |-> "PAUSED", uri |-> en.uri, stream |-> en.stream, bus |-> en.bus]
  BY DEF PipelineSet, EngineType
<1> HIDE DEF new
<1>2. new \in EngineType
  BY <1>1 DEF EngineType, EngineStates
<1>3. EngineInv(new, active)
  BY <1>1 DEF EngineInv
<1>4. QED
  BY <1>2, <1>3 DEF new

LEMMA PipelineResumes ==
    ASSUME NEW en \in EngineType, NEW active, EngineInv(en, active), en.state # "NULL"
    PROVE  LET new == PipelineSet(en, "PLAYING")
           IN  new \in EngineType /\ EngineInv(new, active)
<1> DEFINE new == PipelineSet(en, "PLAYING")
<1>1. /\ new = [state |-> "PLAYING", uri |-> en.uri, stream |-> en.stream, bus |-> en.bus]
  BY DEF PipelineSet, EngineType
<1> HIDE DEF new
<1>2. new \in EngineType
  BY <1>1 DEF EngineType, EngineStates
<1>3. EngineInv(new, active)
  BY <1>1 DEF EngineInv
<1>4. QED
  BY <1>2, <1>3 DEF new

(* Starting the track that the source element has as its uri: it then has  *)
(* to be the active one.                                                   *)
LEMMA PipelineStarts ==
    ASSUME NEW en \in EngineType, NEW old, EngineInv(en, old), en.state = "NULL",
           en.uri \in Tracks
    PROVE  LET new == PipelineSet(en, "PLAYING")
           IN  new \in EngineType /\ EngineInv(new, en.uri)
<1> DEFINE new == PipelineSet(en, "PLAYING")
<1>1. /\ new = [state |-> "PLAYING", uri |-> en.uri, stream |-> "flowing", bus |-> en.bus]
  BY DEF PipelineSet, EngineType
<1> HIDE DEF new
<1>2. new \in EngineType
  BY <1>1 DEF EngineType, EngineStates, Streams
<1>3. EngineInv(new, en.uri)
  BY <1>1, AudioPlayerAssumption DEF EngineInv
<1>4. QED
  BY <1>2, <1>3 DEF new

(* A track that cannot be started: nothing but an error on the bus. *)
LEMMA PipelineRefused ==
    ASSUME NEW en \in EngineType, NEW active, EngineInv(en, active), en.state = "NULL",
           NEW new \in PipelineRefuses(en, "PLAYING")
    PROVE  new \in EngineType /\ EngineInv(new, active) /\ new.state = "NULL"
<1>1. en.uri \in Tracks /\ new = [en EXCEPT !.bus = Post(en, "ERROR")]
  BY AudioPlayerAssumption DEF PipelineRefuses
<1>2. PICK bus : bus = Post(en, "ERROR")
  OBVIOUS
<1>3. /\ bus \in Seq(Messages)
      /\ \A n \in DOMAIN bus : \/ n \in DOMAIN en.bus /\ bus[n] = en.bus[n]
                               \/ bus[n] = [type |-> "ERROR", from |-> en.uri]
  BY <1>1, <1>2, Posted
<1>4. new = [state |-> en.state, uri |-> en.uri, stream |-> en.stream, bus |-> bus]
  BY <1>1, <1>2 DEF EngineType
<1>5. new \in EngineType
  BY <1>3, <1>4 DEF EngineType
<1>6. \A n \in DOMAIN bus : bus[n].type # "EOS"
  BY <1>3 DEF EngineInv
<1>7. EngineInv(new, active)
  BY <1>4, <1>6 DEF EngineInv
<1>8. QED
  BY <1>4, <1>5, <1>7

-----------------------------------------------------------------------------
(* What a function of audio-player.c returns for the player p: it is again *)
(* a player, with the same tracks and the same switches.                   *)
Outcome(out, p) ==
    /\ out = [ok |-> out.ok, ap |-> out.ap]
    /\ out.ok \in BOOLEAN
    /\ PlayerInv(out.ap)
    /\ out.ap.pl.vec = p.pl.vec

LEMMA OutcomeOf ==
    ASSUME NEW p, NEW q, PlayerInv(q), q.pl.vec = p.pl.vec, NEW ok \in BOOLEAN,
           NEW out, out = [ok |-> ok, ap |-> q]
    PROVE  Outcome(out, p) /\ out.ok = ok /\ out.ap = q
  BY DEF Outcome

LEMMA Succeeds ==
    ASSUME NEW p, NEW q, PlayerInv(q), q.pl = p.pl, NEW out, out = [ok |-> TRUE, ap |-> q]
    PROVE  Outcome(out, p) /\ out.ok = TRUE /\ out.ap = q
  BY DEF Outcome

LEMMA Refused ==
    ASSUME NEW p, NEW q, PlayerInv(q), q.pl = p.pl, NEW out, out = [ok |-> FALSE, ap |-> q]
    PROVE  Outcome(out, p) /\ out.ok = FALSE /\ out.ap = q
  BY DEF Outcome

LEMMA DoneOrFails ==
    ASSUME NEW p, NEW q, PlayerInv(q), q.pl.vec = p.pl.vec, NEW out \in Done(q) \cup Fails(q)
    PROVE  Outcome(out, p) /\ out.ap = q
<1>1. PICK ok \in BOOLEAN : out = [ok |-> ok, ap |-> q]
  BY DEF Done, Fails
<1>2. QED
  BY <1>1, OutcomeOf

(* What gst_engine_set_state changes is the engine. *)
LEMMA WithStateIs ==
    ASSUME NEW p, NEW state, NEW out \in WithState(p, state)
    PROVE  \E e \in EngineSetState(p.en, state) :
              out = [ok |-> e.ok, ap |-> [p EXCEPT !.en = e.en]]
  BY DEF WithState

LEMMA Stopped ==
    ASSUME NEW p, PlayerInv(p), NEW out \in WithState(p, "NULL")
    PROVE  /\ Outcome(out, p) /\ out.ok = TRUE
           /\ out.ap.en.state = "NULL"
           /\ out.ap.pl = p.pl /\ out.ap.active = p.active
<1>1. PICK e \in EngineSetState(p.en, "NULL") :
          out = [ok |-> e.ok, ap |-> [p EXCEPT !.en = e.en]]
  BY WithStateIs
<1>2. p.en \in EngineType /\ EngineInv(p.en, p.active)
  BY DEF PlayerInv
<1>3. /\ e.ok = TRUE
      /\ \/ e.en = p.en /\ p.en.state = "NULL"
         \/ e.en = PipelineSet(p.en, "NULL")
  BY DEF EngineSetState, PipelineRefuses
<1>4. e.en \in EngineType /\ EngineInv(e.en, p.active) /\ e.en.state = "NULL"
  BY <1>2, <1>3, PipelineStops
<1> DEFINE q == [p EXCEPT !.en = e.en]
<1>5. PlayerInv(q) /\ q.pl = p.pl /\ q.active = p.active /\ q.en = e.en
  BY <1>4, WithEngine
<1>6. out = [ok |-> TRUE, ap |-> q]
  BY <1>1, <1>3
<1> HIDE DEF q
<1>7. QED
  BY <1>4, <1>5, <1>6, Succeeds

LEMMA Paused ==
    ASSUME NEW p, PlayerInv(p), p.en.state # "NULL", NEW state \in {"PAUSED", "PLAYING"},
           NEW out \in WithState(p, state)
    PROVE  Outcome(out, p)
<1>1. PICK e \in EngineSetState(p.en, state) :
          out = [ok |-> e.ok, ap |-> [p EXCEPT !.en = e.en]]
  BY WithStateIs
<1>2. p.en \in EngineType /\ EngineInv(p.en, p.active)
  BY DEF PlayerInv
<1>3. e.ok = TRUE /\ (e.en = p.en \/ e.en = PipelineSet(p.en, state))
  BY DEF EngineSetState, PipelineRefuses
<1>4. e.en \in EngineType /\ EngineInv(e.en, p.active)
  BY <1>2, <1>3, PipelinePauses, PipelineResumes
<1> DEFINE q == [p EXCEPT !.en = e.en]
<1>5. PlayerInv(q) /\ q.pl = p.pl
  BY <1>4, WithEngine
<1>6. out = [ok |-> TRUE, ap |-> q]
  BY <1>1, <1>3
<1> HIDE DEF q
<1>7. QED
  BY <1>5, <1>6, Succeeds

(* A stopped player whose source element has the uri m either refuses, or  *)
(* its engine is as it has to be with m as the active track.               *)
SetEngine(p, en) == [p EXCEPT !.en = en]

LEMMA StartsOrRefuses ==
    ASSUME NEW p, PlayerInv(p), p.en.state = "NULL", NEW m \in Tracks, p.en.uri = m,
           NEW out \in WithState(p, "PLAYING")
    PROVE  \/ Outcome(out, p) /\ out.ok = FALSE
           \/ \E en \in EngineType :
                 EngineInv(en, m) /\ out = [ok |-> TRUE, ap |-> SetEngine(p, en)]
<1>1. PICK e \in EngineSetState(p.en, "PLAYING") :
          out = [ok |-> e.ok, ap |-> [p EXCEPT !.en = e.en]]
  BY WithStateIs
<1>2. p.en \in EngineType /\ EngineInv(p.en, p.active)
  BY DEF PlayerInv
<1>3. \/ e.ok = TRUE /\ e.en = PipelineSet(p.en, "PLAYING")
      \/ e.ok = FALSE /\ e.en \in PipelineRefuses(p.en, "PLAYING")
  BY DEF EngineSetState
<1>4. CASE e.ok = TRUE /\ e.en = PipelineSet(p.en, "PLAYING")
  <2>1. e.en \in EngineType /\ EngineInv(e.en, m)
    BY <1>2, <1>4, PipelineStarts
  <2>2. out = [ok |-> TRUE, ap |-> SetEngine(p, e.en)]
    BY <1>1, <1>4 DEF SetEngine
  <2>3. QED
    BY <2>1, <2>2
<1>5. CASE e.ok = FALSE /\ e.en \in PipelineRefuses(p.en, "PLAYING")
  <2>1. e.en \in EngineType /\ EngineInv(e.en, p.active)
    BY <1>2, <1>5, PipelineRefused
  <2> DEFINE q == [p EXCEPT !.en = e.en]
  <2>2. PlayerInv(q) /\ q.pl = p.pl
    BY <2>1, WithEngine
  <2>3. out = [ok |-> FALSE, ap |-> q]
    BY <1>1, <1>5
  <2> HIDE DEF q
  <2>4. QED
    BY <2>2, <2>3, Refused, Zenon
<1>6. QED
  BY <1>3, <1>4, <1>5

LEMMA TrackAt ==
    ASSUME NEW pl, Sound(pl), NEW i \in Int, HasTrack(pl, i)
    PROVE  PlaylistAt(pl, i) \in Tracks
<1>1. EnsurePositivIndex(pl, i) \in Nat /\ EnsurePositivIndex(pl, i) < Len(pl.vec)
  BY SoundFields, PositiveIndex DEF HasTrack
<1>2. PICK v \in Seq(Tracks) : v = pl.vec
  BY SoundFields
<1>3. EnsurePositivIndex(pl, i) + 1 \in 1 .. Len(v)
  BY <1>1, <1>2
<1>4. QED
  BY <1>2, <1>3 DEF PlaylistAt

(* audio_player_play_track *)
LEMMA PlayTrackSound ==
    ASSUME NEW p, PlayerInv(p), NEW track \in Int, NEW out \in PlayTrack(p, track)
    PROVE  Outcome(out, p)
<1> DEFINE m == PlaylistAt(p.pl, track)
           Uri(q) == [q EXCEPT !.en.uri = m]
<1>1. CASE ~ HasTrack(p.pl, track)
  BY <1>1, DoneOrFails DEF PlayTrack
<1>2. CASE HasTrack(p.pl, track)
  <2>1. m \in Tracks /\ Sound(p.pl)
    BY <1>2, TrackAt DEF PlayerInv
  <2>2. PICK stop \in WithState(p, "NULL") :
            out \in IF ~ stop.ok THEN Fails(stop.ap)
                    ELSE { IF ~ start.ok THEN start
                           ELSE [start EXCEPT !.ap.pl = SetIndex(@, track), !.ap.active = m] :
                           start \in WithState(Uri(stop.ap), "PLAYING") }
    BY <1>2 DEF PlayTrack
  <2>3. /\ Outcome(stop, p) /\ stop.ok = TRUE
        /\ stop.ap.en.state = "NULL"
        /\ stop.ap.pl = p.pl /\ stop.ap.active = p.active
    BY Stopped
  <2>4. PICK start \in WithState(Uri(stop.ap), "PLAYING") :
            out = IF ~ start.ok THEN start
                  ELSE [start EXCEPT !.ap.pl = SetIndex(@, track), !.ap.active = m]
    BY <2>2, <2>3
  <2> DEFINE e == [stop.ap.en EXCEPT !.uri = m]
             q == Uri(stop.ap)
  <2>5. /\ e \in EngineType /\ EngineInv(e, p.active) /\ e.state = "NULL" /\ e.uri = m
        /\ PlayerInv(stop.ap)
    <3>1. /\ PlayerInv(stop.ap) /\ stop.ap.en \in EngineType
          /\ EngineInv(stop.ap.en, p.active)
      BY <2>3 DEF Outcome, PlayerInv
    <3>2. e = [state |-> "NULL", uri |-> m, stream |-> stop.ap.en.stream,
               bus |-> stop.ap.en.bus]
      BY <2>3, <3>1 DEF EngineType
    <3> HIDE DEF e, m
    <3>3. e \in EngineType
      BY <2>1, <3>1, <3>2 DEF EngineType, EngineStates
    <3>4. EngineInv(e, p.active)
      BY <2>3, <3>1, <3>2 DEF EngineInv
    <3>5. QED
      BY <3>1, <3>2, <3>3, <3>4
  <2>6. q = [stop.ap EXCEPT !.en = e]
    BY <2>5 DEF PlayerInv, IsPlayer
  <2> HIDE DEF e, m, q
  <2>7. PlayerInv(q) /\ q.pl = p.pl /\ q.active = p.active /\ q.en = e
    BY <2>3, <2>5, <2>6, WithEngine
  <2>8. start \in WithState(q, "PLAYING")
    BY DEF q, m
  <2>9. CASE Outcome(start, q) /\ start.ok = FALSE
    <3>1. out = start
      BY <2>4, <2>9
    <3>2. QED
      BY <2>7, <2>9, <3>1 DEF Outcome
  <2>10. CASE \E en \in EngineType :
                 EngineInv(en, m) /\ start = [ok |-> TRUE, ap |-> SetEngine(q, en)]
    <3>1. PICK en \in EngineType :
              EngineInv(en, m) /\ start = [ok |-> TRUE, ap |-> SetEngine(q, en)]
      BY <2>10
    <3>2. start = [ok |-> TRUE, ap |-> [pl |-> p.pl, active |-> p.active, en |-> en]]
      BY <2>7, <3>1 DEF PlayerInv, IsPlayer, SetEngine
    <3> DEFINE pl == SetIndex(p.pl, track)
               r  == [pl |-> pl, active |-> m, en |-> en]
    <3>3. out = [ok |-> TRUE, ap |-> r]
      BY <2>4, <3>2
    <3>4. Sound(pl) /\ pl.vec = p.pl.vec
      BY <1>2, <2>1, SetIndexSound
    <3> HIDE DEF pl
    <3>5. PlayerInv(r) /\ r.pl = pl
      BY <2>1, <3>1, <3>4 DEF PlayerInv, IsPlayer
    <3> HIDE DEF r
    <3>6. QED
      BY <3>3, <3>4, <3>5, OutcomeOf
  <2>11. QED
    BY <2>1, <2>5, <2>7, <2>8, <2>9, <2>10, StartsOrRefuses
<1>3. QED
  BY <1>1, <1>2

(* audio_player_play_next *)
LEMMA PlayNextSound ==
    ASSUME NEW p, PlayerInv(p), NEW out \in AudioPlayerPlayNext(p)
    PROVE  Outcome(out, p)
<1>1. CASE p.pl.vec = <<>>
  BY <1>1, DoneOrFails DEF AudioPlayerPlayNext
<1>2. CASE p.pl.vec # <<>>
  <2>1. PICK next \in PlaylistNext(p.pl) :
            out \in LET advanced == [p EXCEPT !.pl = next.pl]
                    IN  IF next.ret = NoIndex THEN Done(advanced)
                        ELSE PlayTrack(advanced, ToInt(next.ret))
    BY <1>2 DEF AudioPlayerPlayNext
  <2>2. /\ Sound(next.pl) /\ next.pl.vec = p.pl.vec
        /\ next.ret = NoIndex \/ next.ret \in 0 .. Len(p.pl.vec) - 1
    BY PlaylistNextSound DEF PlayerInv
  <2> DEFINE q == [p EXCEPT !.pl = next.pl]
  <2>3. PlayerInv(q) /\ q.pl = next.pl
    BY <2>2, WithPlaylist
  <2>4. out \in IF next.ret = NoIndex THEN Done(q) ELSE PlayTrack(q, ToInt(next.ret))
    BY <2>1
  <2> HIDE DEF q
  <2>5. CASE next.ret = NoIndex
    BY <2>2, <2>3, <2>4, <2>5, DoneOrFails
  <2>6. CASE next.ret # NoIndex
    <3>1. ToInt(next.ret) \in Int
      BY <2>2, <2>6, IntTypes DEF ToInt
    <3>2. Outcome(out, q)
      BY <2>3, <2>4, <2>6, <3>1, PlayTrackSound
    <3>3. QED
      BY <2>2, <2>3, <3>2 DEF Outcome
  <2>7. QED
    BY <2>5, <2>6
<1>3. QED
  BY <1>1, <1>2

(* audio_player_play, audio_player_pause and audio_player_stop *)
LEMMA PlaySound ==
    ASSUME NEW p, PlayerInv(p), NEW out \in AudioPlayerPlay(p)
    PROVE  Outcome(out, p)
<1>1. CASE p.en.state = "NULL"
  BY <1>1, PlayNextSound DEF AudioPlayerPlay
<1>2. CASE p.en.state = "PAUSED"
  BY <1>2, Paused DEF AudioPlayerPlay
<1>3. CASE p.en.state # "NULL" /\ p.en.state # "PAUSED"
  BY <1>3, DoneOrFails DEF AudioPlayerPlay
<1>4. QED
  BY <1>1, <1>2, <1>3

LEMMA PauseSound ==
    ASSUME NEW p, PlayerInv(p), NEW out \in AudioPlayerPause(p)
    PROVE  Outcome(out, p)
<1>1. CASE p.en.state = "NULL"
  BY <1>1, DoneOrFails DEF AudioPlayerPause
<1>2. CASE p.en.state # "NULL"
  BY <1>2, Paused DEF AudioPlayerPause
<1>3. QED
  BY <1>1, <1>2

LEMMA StopSound ==
    ASSUME NEW p, PlayerInv(p), NEW out \in AudioPlayerStop(p)
    PROVE  Outcome(out, p)
  BY Stopped DEF AudioPlayerStop

(* audio_player_seek: only an engine that is not stopped has a stream to   *)
(* begin again.                                                            *)
LEMMA SeekSound ==
    ASSUME NEW p, PlayerInv(p), NEW out \in AudioPlayerSeek(p)
    PROVE  Outcome(out, p)
<1>1. CASE out \in Fails(p)
  BY <1>1, DoneOrFails
<1>2. CASE out \notin Fails(p)
  <2> DEFINE e == [p.en EXCEPT !.stream = "flowing"]
             q == [p EXCEPT !.en = e]
  <2>1. p.en \in EngineType /\ EngineInv(p.en, p.active)
    BY DEF PlayerInv
  <2>2. e = [state |-> p.en.state, uri |-> p.en.uri, stream |-> "flowing", bus |-> p.en.bus]
    BY <2>1 DEF EngineType
  <2>3. [p EXCEPT !.en.stream = "flowing"] = q
    BY DEF PlayerInv, IsPlayer
  <2> HIDE DEF e
  <2>4. e \in EngineType
    BY <2>1, <2>2 DEF EngineType, Streams
  <2>5. EngineInv(e, p.active)
    <3>1. p.en.stream \in {"flowing", "ended"}
      BY <1>2 DEF AudioPlayerSeek
    <3>2. QED
      BY <2>1, <2>2, <3>1 DEF EngineInv
  <2>6. PlayerInv(q) /\ q.pl = p.pl
    BY <2>4, <2>5, WithEngine
  <2>7. out \in Done(q)
    <3>1. AudioPlayerSeek(p) \subseteq Fails(p) \cup Done(q)
      BY <2>3 DEF AudioPlayerSeek
    <3>2. QED
      BY <1>2, <3>1
  <2> HIDE DEF q
  <2>8. QED
    BY <2>6, <2>7, DoneOrFails
<1>3. QED
  BY <1>1, <1>2

(* bus_watcher takes the first message from the bus. *)
LEMMA Taken ==
    ASSUME NEW p, PlayerInv(p), p.en.bus # <<>>
    PROVE  LET taken == [p EXCEPT !.en.bus = Tail(@)]
           IN  /\ PlayerInv(taken)
               /\ taken.pl = p.pl /\ taken.en.state = p.en.state
               /\ p.en.state = "NULL" => Head(p.en.bus).type # "EOS"
<1> DEFINE e == [p.en EXCEPT !.bus = Tail(@)]
           q == [p EXCEPT !.en = e]
<1>1. p.en \in EngineType /\ EngineInv(p.en, p.active)
  BY DEF PlayerInv
<1>2. PICK b \in Seq(Messages) : b = p.en.bus /\ b # <<>>
  BY <1>1 DEF EngineType
<1>3. /\ Tail(b) \in Seq(Messages) /\ Head(b) = b[1] /\ 1 \in DOMAIN b
      /\ \A n \in DOMAIN Tail(b) : n + 1 \in DOMAIN b /\ Tail(b)[n] = b[n + 1]
  BY <1>2
<1>4. e = [state |-> p.en.state, uri |-> p.en.uri, stream |-> p.en.stream, bus |-> Tail(b)]
  <2>1. PICK t : t = Tail(p.en.bus) /\ t = Tail(b)
    BY <1>2
  <2>2. e = [p.en EXCEPT !.bus = t]
    BY <2>1
  <2>3. [p.en EXCEPT !.bus = t] = [state |-> p.en.state, uri |-> p.en.uri,
                                   stream |-> p.en.stream, bus |-> t]
    BY <1>1 DEF EngineType
  <2>4. QED
    BY <2>1, <2>2, <2>3
<1> DEFINE taken == [p EXCEPT !.en.bus = Tail(@)]
<1>5. taken = q
  BY DEF PlayerInv, IsPlayer
<1> HIDE DEF e
<1>6. e \in EngineType
  BY <1>1, <1>3, <1>4 DEF EngineType
<1>7. EngineInv(e, p.active)
  BY <1>1, <1>2, <1>3, <1>4 DEF EngineInv
<1>8. PlayerInv(q) /\ q.pl = p.pl /\ q.en = e
  BY <1>6, <1>7, WithEngine
<1>9. p.en.state = "NULL" => Head(p.en.bus).type # "EOS"
  BY <1>1, <1>2, <1>3 DEF EngineInv
<1> HIDE DEF q, taken
<1>10. PlayerInv(taken) /\ taken.pl = p.pl /\ taken.en.state = p.en.state
  BY <1>4, <1>5, <1>8
<1>11. QED
  BY <1>9, <1>10 DEF taken

LEMMA BusWatcherSound ==
    ASSUME NEW p, PlayerInv(p), p.en.bus # <<>>, NEW q \in BusWatcher(p)
    PROVE  PlayerInv(q) /\ (p.en.state = "NULL" => q.en.state = "NULL")
<1> DEFINE taken == [p EXCEPT !.en.bus = Tail(@)]
<1>1. /\ PlayerInv(taken) /\ taken.en.state = p.en.state
      /\ p.en.state = "NULL" => Head(p.en.bus).type # "EOS"
  BY Taken
<1>2. q \in IF Head(p.en.bus).type = "EOS" THEN {out.ap : out \in AudioPlayerPlayNext(taken)}
            ELSE {taken}
  BY DEF BusWatcher
<1> HIDE DEF taken
<1>3. CASE Head(p.en.bus).type = "EOS"
  <2>1. PICK out \in AudioPlayerPlayNext(taken) : q = out.ap
    BY <1>2, <1>3
  <2>2. Outcome(out, taken)
    BY <1>1, PlayNextSound
  <2>3. QED
    BY <1>1, <1>3, <2>1, <2>2 DEF Outcome
<1>4. CASE Head(p.en.bus).type # "EOS"
  BY <1>1, <1>2, <1>4
<1>5. QED
  BY <1>3, <1>4

(* A stream that ends or breaks has a track. *)
LEMMA PipelineMoves ==
    ASSUME NEW p, PlayerInv(p), NEW en \in StreamEnds(p.en) \cup StreamBreaks(p.en)
    PROVE  en \in EngineType /\ EngineInv(en, p.active)
<1>1. p.en \in EngineType /\ EngineInv(p.en, p.active) /\ p.active \in Tracks \cup {None}
  BY DEF PlayerInv
<1>2. /\ p.en.stream = "flowing" /\ p.en.state # "NULL"
      /\ p.en.uri = p.active /\ p.en.uri \in Tracks
  BY <1>1 DEF StreamEnds, StreamBreaks, EngineInv
<1>3. PICK stream \in {"ended", "broken"}, type \in {"EOS", "ERROR"} :
          en = [p.en EXCEPT !.stream = stream, !.bus = Post(p.en, type)]
  BY DEF StreamEnds, StreamBreaks
<1>4. PICK bus : bus = Post(p.en, type)
  OBVIOUS
<1>5. /\ bus \in Seq(Messages)
      /\ \A n \in DOMAIN bus : \/ n \in DOMAIN p.en.bus /\ bus[n] = p.en.bus[n]
                               \/ bus[n] = [type |-> type, from |-> p.en.uri]
  BY <1>1, <1>2, <1>4, Posted
<1>6. en = [state |-> p.en.state, uri |-> p.en.uri, stream |-> stream, bus |-> bus]
  BY <1>1, <1>3, <1>4 DEF EngineType
<1>7. en \in EngineType
  BY <1>1, <1>5, <1>6 DEF EngineType, Streams
<1>8. EngineInv(en, p.active)
  BY <1>1, <1>2, <1>5, <1>6 DEF EngineInv
<1>9. QED
  BY <1>7, <1>8

-----------------------------------------------------------------------------
LEMMA ArgTypes ==
    ASSUME NEW arg \in Args
    PROVE  \/ arg.is = "int" /\ arg.val \in Int
           \/ arg.is \in {"overflow", "unknown"}
           \/ arg.is = "media" /\ arg.track \in Tracks
           \/ arg.is = "list" /\ arg.lines \in Seq(Int)
<1>1. Ints \subseteq Int
  BY IntTypes DEF Ints
<1>2. QED
  BY <1>1 DEF Args

(* How many tracks one argument can add. *)
AddsOf(arg) == CASE arg.is = "media" -> 1
                 [] arg.is = "list"  -> Len(arg.lines)
                 [] OTHER            -> 0

LEMMA AddsOfType == \A arg \in Args : AddsOf(arg) \in Nat
<1>1. ASSUME NEW arg \in Args PROVE AddsOf(arg) \in Nat
  <2>1. CASE arg.is = "list"
    <3>1. arg.lines \in Seq(Int)
      BY <2>1, ArgTypes
    <3>2. QED
      BY <2>1, <3>1 DEF AddsOf
  <2>2. CASE arg.is # "list"
    BY <2>2 DEF AddsOf
  <2>3. QED
    BY <2>1, <2>2
<1>2. QED
  BY <1>1

(* An outcome of media_loader_load, or of a loop over several arguments.   *)
IsLoad(out) ==
    /\ out = [ok |-> out.ok, pl |-> out.pl, twice |-> out.twice]
    /\ out.ok \in BOOLEAN /\ out.twice \in BOOLEAN
    /\ Sound(out.pl)

LEMMA LoadOf ==
    ASSUME NEW ok \in BOOLEAN, NEW pl, Sound(pl), NEW twice \in BOOLEAN,
           NEW out, out = [ok |-> ok, pl |-> pl, twice |-> twice]
    PROVE  IsLoad(out) /\ out.ok = ok /\ out.pl = pl /\ out.twice = twice
  BY DEF IsLoad

LEMMA MediaLoaderLoadSound ==
    ASSUME NEW pl, Sound(pl), NEW arg \in Args, Len(pl.vec) + AddsOf(arg) <= MaxSize,
           NEW out \in MediaLoaderLoad(pl, arg)
    PROVE  /\ IsLoad(out)
           /\ Len(out.pl.vec) <= Len(pl.vec) + AddsOf(arg)
           /\ out.ok => arg.is \in {"media", "list"}
<1>1. Len(pl.vec) \in Nat /\ AddsOf(arg) \in Nat
  BY SoundFields, AddsOfType
<1>2. CASE arg.is = "media"
  <2>1. PICK o \in PlaylistAdd(pl, arg.track) :
            out = [ok |-> o.ok, pl |-> o.pl, twice |-> FALSE]
    BY <1>2 DEF MediaLoaderLoad
  <2>2. arg.track \in Tracks /\ AddsOf(arg) = 1 /\ Len(pl.vec) < MaxSize
    BY <1>1, <1>2, ArgTypes, CapacityTypes DEF AddsOf
  <2>3. /\ Sound(o.pl) /\ o.ok \in BOOLEAN
        /\ o.pl = pl \/ o.pl.vec = Append(pl.vec, arg.track)
    BY <2>2, PlaylistAddSound
  <2>4. Len(o.pl.vec) <= Len(pl.vec) + 1
    BY <1>1, <2>2, <2>3, SoundFields, Appended
  <2>5. IsLoad(out) /\ out.pl = o.pl
    BY <2>1, <2>3, LoadOf
  <2>6. QED
    BY <1>2, <2>2, <2>4, <2>5
<1>3. CASE arg.is = "list"
  <2>1. PICK o \in LoadFile(pl, arg.lines) :
            out = [ok |-> o.ok, pl |-> o.pl, twice |-> ~ o.ok]
    BY <1>3 DEF MediaLoaderLoad
  <2>2. arg.lines \in Seq(Int) /\ AddsOf(arg) = Len(arg.lines)
    BY <1>3, ArgTypes DEF AddsOf
  <2>3. \/ o.ok = FALSE /\ Sound(o.pl) /\ o.pl.vec = pl.vec
        \/ o.ok = TRUE /\ Extended(o.pl, pl, arg.lines, Len(arg.lines))
    BY <2>2, LoadFileSound
  <2>4. /\ Sound(o.pl) /\ Len(o.pl.vec) <= Len(pl.vec) + AddsOf(arg)
        /\ o.ok = FALSE \/ o.ok = TRUE
    <3>1. CASE o.ok = FALSE /\ Sound(o.pl) /\ o.pl.vec = pl.vec
      BY <1>1, <3>1
    <3>2. CASE o.ok = TRUE /\ Extended(o.pl, pl, arg.lines, Len(arg.lines))
      BY <1>1, <2>2, <3>2 DEF Extended
    <3>3. QED
      BY <2>3, <3>1, <3>2
  <2>5. PICK ok \in BOOLEAN, twice \in BOOLEAN :
            out = [ok |-> ok, pl |-> o.pl, twice |-> twice]
    <3>1. CASE o.ok = FALSE
      BY <2>1, <3>1
    <3>2. CASE o.ok = TRUE
      BY <2>1, <3>2
    <3>3. QED
      BY <2>4, <3>1, <3>2
  <2>6. IsLoad(out) /\ out.pl = o.pl
    BY <2>4, <2>5, LoadOf
  <2>7. Len(out.pl.vec) <= Len(pl.vec) + AddsOf(arg)
    BY <2>4, <2>6
  <2>8. arg.is \in {"media", "list"}
    BY <1>3
  <2>9. QED
    BY <2>6, <2>7, <2>8, Zenon
<1>4. CASE arg.is # "media" /\ arg.is # "list"
  <2>1. out = [ok |-> FALSE, pl |-> pl, twice |-> FALSE]
    BY <1>4 DEF MediaLoaderLoad
  <2>2. PICK ok \in BOOLEAN : ok = FALSE
    OBVIOUS
  <2>3. PICK twice \in BOOLEAN : twice = FALSE
    OBVIOUS
  <2>4. IsLoad(out) /\ out.ok = ok /\ out.pl = pl
    BY <2>1, <2>2, <2>3, LoadOf
  <2>5. Len(out.pl.vec) <= Len(pl.vec) + AddsOf(arg)
    BY <1>1, <2>4
  <2>6. ~ out.ok
    BY <2>2, <2>4
  <2>7. QED
    BY <2>4, <2>5, <2>6, Zenon
<1>5. QED
  BY <1>2, <1>3, <1>4

(* One round of the loop over the arguments. *)
ThenLoad(out, arg, goOn) ==
    IF arg.is = "int" \/ (~ out.ok /\ ~ goOn) THEN {out}
    ELSE {[o EXCEPT !.twice = @ \/ out.twice] : o \in MediaLoaderLoad(out.pl, arg)}

LEMMA ThenLoadSound ==
    ASSUME NEW old, IsLoad(old), NEW arg \in Args, NEW goOn \in BOOLEAN,
           Len(old.pl.vec) + AddsOf(arg) <= MaxSize,
           NEW out \in ThenLoad(old, arg, goOn)
    PROVE  /\ IsLoad(out)
           /\ Len(out.pl.vec) <= Len(old.pl.vec) + AddsOf(arg)
           /\ ~ goOn /\ out.ok => old.ok /\ arg.is \in {"int", "media", "list"}
<1>1. Sound(old.pl) /\ Len(old.pl.vec) \in Nat /\ AddsOf(arg) \in Nat
  BY SoundFields, AddsOfType DEF IsLoad
<1>2. CASE arg.is = "int" \/ (~ old.ok /\ ~ goOn)
  <2>1. out = old
    BY <1>2 DEF ThenLoad
  <2>2. QED
    BY <1>1, <1>2, <2>1
<1>3. CASE ~ (arg.is = "int" \/ (~ old.ok /\ ~ goOn))
  <2>1. PICK o \in MediaLoaderLoad(old.pl, arg) : out = [o EXCEPT !.twice = @ \/ old.twice]
    BY <1>3 DEF ThenLoad
  <2>2. /\ IsLoad(o)
        /\ Len(o.pl.vec) <= Len(old.pl.vec) + AddsOf(arg)
        /\ o.ok => arg.is \in {"media", "list"}
    BY <1>1, MediaLoaderLoadSound
  <2>3. out = [ok |-> o.ok, pl |-> o.pl, twice |-> o.twice \/ old.twice]
    BY <2>1, <2>2 DEF IsLoad
  <2>4. (o.twice \/ old.twice) \in BOOLEAN
    OBVIOUS
  <2>5. IsLoad(out) /\ out.ok = o.ok /\ out.pl = o.pl
    BY <2>2, <2>3, <2>4, LoadOf DEF IsLoad
  <2>6. QED
    BY <1>3, <2>2, <2>5
<1>4. QED
  BY <1>2, <1>3

-----------------------------------------------------------------------------
(* h[0], ..., h[N] are the numbers of tracks that Fits adds up. *)
Sums(h, pl, args, N) ==
    /\ Fits(pl, args) <=> PlaylistSize(pl) + h[N] <= MaxSize
    /\ h[0] = 0
    /\ \A n \in 1 .. N : h[n] = h[n - 1] + AddsOf(args[n])

LEMMA FitsRuns ==
    ASSUME NEW pl, NEW args, NEW N \in Nat, N = Len(args)
    PROVE  \E h : Sums(h, pl, args, N)
<1> DEFINE Step(x, n) == x + AddsOf(args[n])
           Runs(g, m) == g = [n \in 0 .. m |-> IF n = 0 THEN 0 ELSE Step(g[n - 1], n)]
           T == {m \in 0 .. N : \E g : Runs(g, m)}
           Adds(arg) == CASE arg.is = "media" -> 1
                          [] arg.is = "list"  -> Len(arg.lines)
                          [] OTHER            -> 0
           sum[n \in 0 .. N] == IF n = 0 THEN 0 ELSE sum[n - 1] + Adds(args[n])
<1>1. Fits(pl, args) <=> PlaylistSize(pl) + sum[N] <= MaxSize
  BY DEF Fits
<1>2. \E g : Runs(g, 0)
  <2>1. Runs([n \in 0 .. 0 |-> 0], 0)
    OBVIOUS
  <2>2. QED
    BY <2>1
<1>3. ASSUME NEW m \in 1 .. N, m - 1 \in T PROVE m \in T
  <2>1. PICK g : Runs(g, m - 1)
    BY <1>3
  <2> DEFINE h == [n \in 0 .. m |-> IF n = m THEN Step(g[m - 1], m) ELSE g[n]]
  <2>2. /\ m \in Nat /\ m > 0
        /\ \A n \in 0 .. m - 1 : h[n] = g[n] /\ n # m
        /\ h[m] = Step(g[m - 1], m)
    BY <1>3
  <2>3. \A n \in 0 .. m : n # 0 => /\ n - 1 \in 0 .. m - 1
                                   /\ n # m => n \in 0 .. m - 1
    BY <2>2
  <2>4. \A n \in 0 .. m : h[n] = IF n = 0 THEN 0 ELSE Step(h[n - 1], n)
    <3> HIDE DEF Step, h
    <3>1. \A n \in 0 .. m - 1 : g[n] = IF n = 0 THEN 0 ELSE Step(g[n - 1], n)
      BY <2>1, Zenon
    <3>2. 0 \in 0 .. m - 1
      BY <2>2
    <3>3. QED
      BY <2>2, <2>3, <3>1, <3>2
  <2>5. Runs(h, m)
    <3>1. h = [n \in 0 .. m |-> h[n]]
      BY Zenon
    <3> HIDE DEF Step, h
    <3>2. QED
      BY <2>4, <3>1
  <2>6. QED
    <3> HIDE DEF Runs, h
    <3>1. QED
      BY <1>3, <2>5
<1>4. \E g : Runs(g, N)
  <2> HIDE DEF Runs
  <2>1. 0 \in T
    BY <1>2
  <2>2. N \in T
    <3> HIDE DEF T
    <3>1. \A n \in 0 .. N : n \in T
      BY <1>3, <2>1, UpTo
    <3>2. QED
      BY <3>1
  <2>3. QED
    BY <2>2
<1>5. sum = [n \in 0 .. N |-> IF n = 0 THEN 0 ELSE Step(sum[n - 1], n)]
  <2>1. \A arg : Adds(arg) = AddsOf(arg)
    BY Zenon DEF AddsOf
  <2> HIDE DEF Adds
  <2>2. \E g : g = [n \in 0 .. N |-> IF n = 0 THEN 0 ELSE g[n - 1] + Adds(args[n])]
    BY <1>4, <2>1
  <2>3. sum = [n \in 0 .. N |-> IF n = 0 THEN 0 ELSE sum[n - 1] + Adds(args[n])]
    BY <2>2
  <2> HIDE DEF sum
  <2>4. QED
    BY <2>1, <2>3
<1>6. /\ sum[0] = 0
      /\ \A n \in 1 .. N : sum[n] = Step(sum[n - 1], n)
  <2> HIDE DEF sum, Step
  <2>1. QED
    BY <1>5
<1>7. QED
  <2> HIDE DEF sum
  <2>1. Sums(sum, pl, args, N)
    BY <1>1, <1>6 DEF Sums
  <2>2. QED
    BY <2>1

(* g[0], ..., g[N] are the outcomes during LoadEach. *)
Loads(g, pl, args, goOn, N) ==
    /\ LoadEach(pl, args, goOn) = g[N]
    /\ g[0] = {[ok |-> TRUE, pl |-> pl, twice |-> FALSE]}
    /\ \A n \in 1 .. N : g[n] = UNION {ThenLoad(out, args[n], goOn) : out \in g[n - 1]}

LEMMA LoadEachRuns ==
    ASSUME NEW pl, NEW args, NEW goOn, NEW N \in Nat, N = Len(args)
    PROVE  \E g : Loads(g, pl, args, goOn, N)
<1> DEFINE First == {[ok |-> TRUE, pl |-> pl, twice |-> FALSE]}
           Step(x, n) == UNION {ThenLoad(out, args[n], goOn) : out \in x}
           Runs(g, m) == g = [n \in 0 .. m |-> IF n = 0 THEN First ELSE Step(g[n - 1], n)]
           T == {m \in 0 .. N : \E g : Runs(g, m)}
           Then(out, arg) ==
              IF arg.is = "int" \/ (~ out.ok /\ ~ goOn) THEN {out}
              ELSE {[o EXCEPT !.twice = @ \/ out.twice] : o \in MediaLoaderLoad(out.pl, arg)}
           after[n \in 0 .. N] ==
              IF n = 0 THEN {[ok |-> TRUE, pl |-> pl, twice |-> FALSE]}
              ELSE UNION {Then(out, args[n]) : out \in after[n - 1]}
<1>1. LoadEach(pl, args, goOn) = after[N]
  BY DEF LoadEach
<1>2. \E g : Runs(g, 0)
  <2> HIDE DEF First
  <2>1. Runs([n \in 0 .. 0 |-> First], 0)
    OBVIOUS
  <2>2. QED
    BY <2>1
<1>3. ASSUME NEW m \in 1 .. N, m - 1 \in T PROVE m \in T
  <2> HIDE DEF First, Step
  <2>1. PICK g : Runs(g, m - 1)
    BY <1>3
  <2> DEFINE h == [n \in 0 .. m |-> IF n = m THEN Step(g[m - 1], m) ELSE g[n]]
  <2>2. /\ m \in Nat /\ m > 0
        /\ \A n \in 0 .. m - 1 : h[n] = g[n] /\ n # m
        /\ h[m] = Step(g[m - 1], m)
    BY <1>3
  <2>3. \A n \in 0 .. m : n # 0 => /\ n - 1 \in 0 .. m - 1
                                   /\ n # m => n \in 0 .. m - 1
    BY <2>2
  <2>4. \A n \in 0 .. m : h[n] = IF n = 0 THEN First ELSE Step(h[n - 1], n)
    <3> HIDE DEF h
    <3>1. \A n \in 0 .. m - 1 : g[n] = IF n = 0 THEN First ELSE Step(g[n - 1], n)
      BY <2>1, Zenon
    <3>2. 0 \in 0 .. m - 1
      BY <2>2
    <3>3. QED
      BY <2>2, <2>3, <3>1, <3>2
  <2>5. Runs(h, m)
    <3>1. h = [n \in 0 .. m |-> h[n]]
      BY Zenon
    <3> HIDE DEF h
    <3>2. QED
      BY <2>4, <3>1
  <2>6. QED
    <3> HIDE DEF Runs, h
    <3>1. QED
      BY <1>3, <2>5
<1>4. \E g : Runs(g, N)
  <2> HIDE DEF Runs
  <2>1. 0 \in T
    BY <1>2
  <2>2. N \in T
    <3> HIDE DEF T
    <3>1. \A n \in 0 .. N : n \in T
      BY <1>3, <2>1, UpTo
    <3>2. QED
      BY <3>1
  <2>3. QED
    BY <2>2
<1>5. Runs(after, N)
  <2> DEFINE Step2(x, n) == UNION {Then(out, args[n]) : out \in x}
  <2>1. \A out, arg : Then(out, arg) = ThenLoad(out, arg, goOn)
    BY Zenon DEF ThenLoad
  <2>2. \A x, n : Step(x, n) = Step2(x, n)
    <3> HIDE DEF Then
    <3>1. QED
      BY <2>1
  <2>3. \E g : g = [n \in 0 .. N |-> IF n = 0 THEN First ELSE Step2(g[n - 1], n)]
    <3> HIDE DEF Step, Step2, First
    <3>1. QED
      BY <1>4, <2>2
  <2>4. after = [n \in 0 .. N |-> IF n = 0 THEN First ELSE Step2(after[n - 1], n)]
    <3> HIDE DEF Then
    <3>1. QED
      BY <2>3, Zenon
  <2> HIDE DEF after, Step, Step2, First
  <2>5. QED
    BY <2>2, <2>4
<1>6. /\ after[0] = First
      /\ \A n \in 1 .. N : after[n] = Step(after[n - 1], n)
  <2> HIDE DEF after, Step, First
  <2>1. QED
    BY <1>5
<1>7. QED
  <2> HIDE DEF after
  <2>1. Loads(after, pl, args, goOn, N)
    BY <1>1, <1>6 DEF Loads
  <2>2. QED
    BY <2>1

LEMMA RoomLeft ==
    ASSUME NEW size \in Nat, NEW old \in Nat, NEW before \in Nat, NEW adds \in Nat,
           NEW sum, sum = before + adds, old <= size + before
    PROVE  /\ \A max \in Nat : size + sum <= max => old + adds <= max
           /\ \A new \in Nat : new <= old + adds => new <= size + sum
  OBVIOUS

(* What the loops over the arguments return for a playlist that has room   *)
(* for them: a sound playlist, and if --play goes on then no argument was  *)
(* anything but a number, a track or a list of tracks.                     *)
LEMMA LoadEachSound ==
    ASSUME NEW pl, Sound(pl), NEW args \in Seq(Args), Fits(pl, args), NEW goOn \in BOOLEAN,
           NEW out \in LoadEach(pl, args, goOn)
    PROVE  /\ IsLoad(out)
           /\ Len(out.pl.vec) <= MaxSize
           /\ ~ goOn /\ out.ok => \A i \in DOMAIN args : args[i].is \in {"int", "media", "list"}
<1> DEFINE Good(i) == args[i].is \in {"int", "media", "list"}
<1>1. PICK N \in Nat : N = Len(args)
  OBVIOUS
<1>2. PICK h : Sums(h, pl, args, N)
  BY <1>1, FitsRuns
<1>3. PICK g : Loads(g, pl, args, goOn, N)
  BY <1>1, LoadEachRuns
<1>4. Len(pl.vec) \in Nat /\ MaxSize \in Nat
  BY SoundFields, CapacityTypes
<1>5. \A n \in 1 .. N : args[n] \in Args /\ AddsOf(args[n]) \in Nat
  BY <1>1, AddsOfType
<1>6. \A n \in 0 .. N : h[n] \in Nat
  <2> DEFINE T == {n \in 0 .. N : h[n] \in Nat}
  <2>1. 0 \in T
    BY <1>2 DEF Sums
  <2>2. ASSUME NEW n \in 1 .. N, n - 1 \in T PROVE n \in T
    BY <1>2, <1>5, <2>2 DEF Sums
  <2> HIDE DEF T
  <2>3. \A n \in 0 .. N : n \in T
    BY <2>1, <2>2, UpTo
  <2>4. QED
    BY <2>3 DEF T
<1>7. \A n \in 0 .. N : Len(pl.vec) + h[N - n] <= MaxSize
  <2> DEFINE T == {n \in 0 .. N : Len(pl.vec) + h[N - n] <= MaxSize}
  <2>1. 0 \in T
    BY <1>1, <1>2 DEF Sums, PlaylistSize
  <2>2. ASSUME NEW n \in 1 .. N, n - 1 \in T PROVE n \in T
    <3>1. /\ N - n \in 0 .. N /\ N - n + 1 \in 1 .. N /\ N - (n - 1) = N - n + 1
          /\ (N - n + 1) - 1 = N - n
      OBVIOUS
    <3>2. h[N - n + 1] = h[N - n] + AddsOf(args[N - n + 1])
      BY <1>2, <3>1 DEF Sums
    <3>3. Len(pl.vec) + h[N - n + 1] <= MaxSize
      BY <2>2, <3>1
    <3>4. h[N - n] \in Nat /\ AddsOf(args[N - n + 1]) \in Nat
      BY <1>5, <1>6, <3>1
    <3>5. Len(pl.vec) + h[N - n] <= MaxSize
      BY <1>4, <3>2, <3>3, <3>4
    <3>6. QED
      BY <3>5
  <2> HIDE DEF T
  <2>3. \A n \in 0 .. N : n \in T
    BY <2>1, <2>2, UpTo
  <2>4. QED
    BY <2>3 DEF T
<1> DEFINE Ok(o, n) == /\ IsLoad(o)
                       /\ Len(o.pl.vec) <= Len(pl.vec) + h[n]
                       /\ ~ goOn /\ o.ok => \A i \in 1 .. n : Good(i)
           T == {n \in 0 .. N : \A o \in g[n] : Ok(o, n)}
<1>8. 0 \in T
  <2>1. ASSUME NEW o \in g[0] PROVE Ok(o, 0)
    <3>1. PICK ok \in BOOLEAN, twice \in BOOLEAN : ok = TRUE /\ twice = FALSE
      OBVIOUS
    <3>2. o = [ok |-> ok, pl |-> pl, twice |-> twice]
      BY <1>3, <2>1, <3>1 DEF Loads
    <3>3. IsLoad(o) /\ o.pl = pl
      BY <3>2, LoadOf
    <3>4. h[0] = 0 /\ 1 .. 0 = {}
      BY <1>2 DEF Sums
    <3>5. Len(o.pl.vec) <= Len(pl.vec) + h[0]
      BY <1>4, <3>3, <3>4
    <3>6. QED
      BY <3>3, <3>4, <3>5
  <2> HIDE DEF Ok
  <2>2. QED
    BY <1>1, <2>1
<1>9. ASSUME NEW n \in 1 .. N, n - 1 \in T PROVE n \in T
  <2>1. ASSUME NEW o \in g[n] PROVE Ok(o, n)
    <3>1. PICK old \in g[n - 1] : o \in ThenLoad(old, args[n], goOn)
      BY <1>3, <2>1 DEF Loads
    <3>2. /\ IsLoad(old)
          /\ Len(old.pl.vec) <= Len(pl.vec) + h[n - 1]
          /\ ~ goOn /\ old.ok => \A i \in 1 .. n - 1 : Good(i)
      BY <1>9
    <3>3. args[n] \in Args /\ AddsOf(args[n]) \in Nat
      BY <1>5
    <3>4. h[n] = h[n - 1] + AddsOf(args[n]) /\ h[n - 1] \in Nat
      BY <1>2, <1>6 DEF Sums
    <3>5. Len(pl.vec) + h[n] <= MaxSize
      <4>1. N - n \in 0 .. N /\ N - (N - n) = n
        OBVIOUS
      <4>2. QED
        BY <1>7, <4>1
    <3>6. Len(old.pl.vec) \in Nat
      BY <3>2, SoundFields DEF IsLoad
    <3>7. PICK size \in Nat, was \in Nat, before \in Nat, adds \in Nat :
              /\ size = Len(pl.vec) /\ was = Len(old.pl.vec)
              /\ before = h[n - 1] /\ adds = AddsOf(args[n])
      BY <1>4, <3>3, <3>4, <3>6
    <3>8. PICK sum \in Nat : sum = h[n] /\ sum = before + adds
      BY <3>4, <3>7
    <3>9. was <= size + before /\ size + sum <= MaxSize /\ MaxSize \in Nat
      BY <3>2, <3>5, <3>7, <3>8, CapacityTypes
    <3>10. /\ was + adds <= MaxSize
           /\ \A new \in Nat : new <= was + adds => new <= size + sum
      BY <3>8, <3>9, RoomLeft
    <3>11. Len(old.pl.vec) + AddsOf(args[n]) <= MaxSize
      BY <3>7, <3>10
    <3>12. /\ IsLoad(o)
           /\ Len(o.pl.vec) <= Len(old.pl.vec) + AddsOf(args[n])
           /\ ~ goOn /\ o.ok => old.ok /\ args[n].is \in {"int", "media", "list"}
      BY <3>1, <3>2, <3>3, <3>11, ThenLoadSound
    <3>13. Len(o.pl.vec) \in Nat /\ Len(o.pl.vec) <= Len(old.pl.vec) + AddsOf(args[n])
      <4>1. Sound(o.pl)
        BY <3>12 DEF IsLoad
      <4>2. Len(o.pl.vec) \in Nat
        BY <4>1, SoundFields
      <4>3. QED
        BY <3>12, <4>2
    <3>14. Len(o.pl.vec) <= Len(pl.vec) + h[n]
      BY <3>13, <3>7, <3>8, <3>10
    <3>15. ASSUME ~ goOn, o.ok, NEW i \in 1 .. n PROVE Good(i)
      <4>1. old.ok /\ Good(n)
        BY <3>12, <3>15
      <4> HIDE DEF Good
      <4>2. \A j \in 1 .. n - 1 : Good(j)
        BY <3>2, <3>15, <4>1
      <4>3. i = n \/ i \in 1 .. n - 1
        OBVIOUS
      <4>4. QED
        BY <4>1, <4>2, <4>3
    <3> HIDE DEF Good
    <3>16. ~ goOn /\ o.ok => \A i \in 1 .. n : Good(i)
      BY <3>15
    <3>17. QED
      BY <3>12, <3>14, <3>16, Zenon
  <2> HIDE DEF Ok
  <2>2. QED
    BY <2>1
<1>10. N \in T
  <2> HIDE DEF T
  <2>1. \A n \in 0 .. N : n \in T
    BY <1>8, <1>9, UpTo
  <2>2. QED
    BY <2>1
<1>11. Ok(out, N)
  <2> HIDE DEF Ok
  <2>1. out \in g[N]
    BY <1>3 DEF Loads
  <2>2. QED
    BY <1>10, <2>1
<1>12. Len(pl.vec) + h[N] <= MaxSize /\ h[N] \in Nat
  <2>1. 0 \in 0 .. N /\ N \in 0 .. N /\ N - 0 = N
    OBVIOUS
  <2>2. QED
    BY <1>6, <1>7, <2>1
<1>13. Len(out.pl.vec) <= MaxSize
  <2>1. Len(out.pl.vec) \in Nat /\ Len(out.pl.vec) <= Len(pl.vec) + h[N]
    BY <1>11, SoundFields DEF IsLoad
  <2>2. QED
    BY <1>4, <1>12, <2>1
<1>14. DOMAIN args = 1 .. N
  BY <1>1
<1>15. QED
  BY <1>11, <1>13, <1>14

LEMMA HasLast ==
    ASSUME NEW N \in Nat, NEW S \in SUBSET (1 .. N), S # {}
    PROVE  \E n \in S : \A m \in S : m <= n
<1> DEFINE Last(R) == \E n \in R : \A m \in R : m <= n
           T == {n \in 0 .. N : \A R \in SUBSET (1 .. n) : R = {} \/ Last(R)}
<1>1. 0 \in T
  <2>1. 1 .. 0 = {}
    OBVIOUS
  <2>2. QED
    BY <2>1
<1>2. ASSUME NEW n \in 1 .. N, n - 1 \in T PROVE n \in T
  <2>1. ASSUME NEW R \in SUBSET (1 .. n), R # {} PROVE Last(R)
    <3>1. CASE n \in R
      BY <3>1
    <3>2. CASE n \notin R
      <4>1. R \in SUBSET (1 .. n - 1)
        BY <3>2
      <4>2. QED
        BY <1>2, <2>1, <4>1
    <3>3. QED
      BY <3>1, <3>2
  <2> HIDE DEF Last
  <2>2. QED
    BY <2>1
<1>3. N \in T
  <2> HIDE DEF T
  <2>1. \A n \in 0 .. N : n \in T
    BY <1>1, <1>2, UpTo
  <2>2. QED
    BY <2>1
<1>4. QED
  BY <1>3

-----------------------------------------------------------------------------
(* The inductive invariant: the player as described above, and a file that *)
(* a playlist can be loaded from.                                          *)
IInv ==
    /\ PlayerInv(ap)
    /\ saved \in Seq(Tracks) /\ Len(saved) <= MaxSize
    /\ running \in BOOLEAN /\ quiet \in BOOLEAN

LEMMA InvParts ==
    ASSUME IInv
    PROVE  /\ PlayerInv(ap) /\ Sound(ap.pl)
           /\ saved \in Seq(Tracks) /\ Len(saved) <= MaxSize
           /\ running \in BOOLEAN /\ quiet \in BOOLEAN
  BY DEF IInv, PlayerInv

LEMMA RunningAfterType ==
    ASSUME NEW twice \in BOOLEAN, RunningAfter(twice)
    PROVE  running' \in BOOLEAN
  BY DEF RunningAfter

LEMMA PlaylistCommandInv ==
    ASSUME IInv, NEW pl, Sound(pl), PlaylistCommand(pl)
    PROVE  IInv'
<1>1. /\ ap' = [ap EXCEPT !.pl = pl]
      /\ running' = running /\ saved' = saved /\ quiet' = quiet
  BY DEF PlaylistCommand, Command
<1>2. PlayerInv(ap')
  BY <1>1, InvParts, WithPlaylist
<1>3. QED
  BY <1>1, <1>2, InvParts DEF IInv

LEMMA PlayerCommandInv ==
    ASSUME IInv, NEW outcomes, \A out \in outcomes : Outcome(out, ap), PlayerCommand(outcomes)
    PROVE  IInv'
<1>1. /\ \E out \in outcomes : ap' = out.ap
      /\ running' = running /\ saved' = saved /\ quiet' = quiet
  BY DEF PlayerCommand, Command
<1>2. PlayerInv(ap')
  BY <1>1 DEF Outcome
<1>3. QED
  BY <1>1, <1>2, InvParts DEF IInv

(* --add, --playlist and --stdin *)
LEMMA LoadedInv ==
    ASSUME IInv, NEW args \in LoadArgs, NEW pl, Sound(pl), Fits(pl, args), Command,
           NEW out \in LoadEach(pl, args, TRUE),
           ap' = [ap EXCEPT !.pl = out.pl], RunningAfter(out.twice), UNCHANGED saved
    PROVE  IInv'
<1>1. args \in Seq(Args)
  BY ArgsAssumption
<1>2. IsLoad(out)
  BY <1>1, LoadEachSound
<1>3. Sound(out.pl) /\ running' \in BOOLEAN
  BY <1>2, RunningAfterType DEF IsLoad
<1>4. PlayerInv(ap')
  BY <1>3, InvParts, WithPlaylist
<1>5. QED
  BY <1>3, <1>4, InvParts DEF IInv, Command

LEMMA HandleAddInv ==
    ASSUME IInv, NEW args \in LoadArgs, HandleAdd(args)
    PROVE  IInv'
<1>1. /\ Command /\ Fits(ap.pl, args) /\ UNCHANGED saved
      /\ \E out \in LoadEach(ap.pl, args, TRUE) :
            ap' = [ap EXCEPT !.pl = out.pl] /\ RunningAfter(out.twice)
  BY DEF HandleAdd
<1>2. QED
  BY <1>1, InvParts, LoadedInv

LEMMA HandlePlaylistInv ==
    ASSUME IInv, NEW args \in LoadArgs, HandlePlaylist(args)
    PROVE  IInv'
<1> DEFINE cleared == PlaylistClear(ap.pl)
<1>1. /\ Command /\ Fits(cleared, args) /\ UNCHANGED saved
      /\ \E out \in LoadEach(cleared, args, TRUE) :
            ap' = [ap EXCEPT !.pl = out.pl] /\ RunningAfter(out.twice)
  BY DEF HandlePlaylist
<1>2. Sound(cleared)
  BY InvParts, PlaylistClearSound
<1> HIDE DEF cleared
<1>3. QED
  BY <1>1, <1>2, LoadedInv

LEMMA HandleStdinInv == IInv /\ HandleStdin => IInv'
  BY HandleAddInv DEF HandleStdin

(* --play with arguments: the number to begin with is an int, because one  *)
(* that does not fit makes the loop fail.                                  *)
LEMMA HandlePlayArgsInv ==
    ASSUME IInv, NEW args \in PlayArgs, HandlePlayArgs(args)
    PROVE  IInv'
<1> DEFINE numbers == {n \in DOMAIN args : args[n].is \in {"int", "overflow"}}
           pl      == IF numbers = DOMAIN args THEN ap.pl ELSE PlaylistClear(ap.pl)
           last    == CHOOSE n \in numbers : \A m \in numbers : m <= n
           Begins(player) == IF numbers = {} THEN AudioPlayerPlayNext(player)
                             ELSE PlayTrack(player, args[last].val)
<1>1. args \in Seq(Args)
  BY ArgsAssumption
<1>2. /\ Command /\ Fits(pl, args)
      /\ \E out \in LoadEach(pl, args, FALSE) :
            /\ RunningAfter(out.twice)
            /\ IF ~ out.ok
               THEN ap' = [ap EXCEPT !.pl = PlaylistClear(out.pl)] /\ UNCHANGED saved
               ELSE \E start \in Begins([ap EXCEPT !.pl = out.pl]) :
                       /\ ap' = start.ap
                       /\ saved' \in IF start.ok THEN PlaylistSave(ap'.pl, saved) ELSE {saved}
  BY DEF HandlePlayArgs
<1>3. Sound(pl)
  BY InvParts, PlaylistClearSound
<1> HIDE DEF pl, Begins
<1>4. PICK out \in LoadEach(pl, args, FALSE) :
          /\ RunningAfter(out.twice)
          /\ IF ~ out.ok
             THEN ap' = [ap EXCEPT !.pl = PlaylistClear(out.pl)] /\ UNCHANGED saved
             ELSE \E start \in Begins([ap EXCEPT !.pl = out.pl]) :
                     /\ ap' = start.ap
                     /\ saved' \in IF start.ok THEN PlaylistSave(ap'.pl, saved) ELSE {saved}
  BY <1>2
<1>5. PICK goOn \in BOOLEAN : goOn = FALSE
  OBVIOUS
<1>6. /\ IsLoad(out)
      /\ ~ goOn /\ out.ok => \A i \in DOMAIN args : args[i].is \in {"int", "media", "list"}
  BY <1>1, <1>2, <1>3, <1>4, <1>5, LoadEachSound
<1>7. Sound(out.pl) /\ running' \in BOOLEAN /\ quiet' \in BOOLEAN
  BY <1>2, <1>4, <1>6, InvParts, RunningAfterType DEF IsLoad, Command
<1>8. CASE ~ out.ok
  <2>1. ap' = [ap EXCEPT !.pl = PlaylistClear(out.pl)] /\ saved' = saved
    BY <1>4, <1>8
  <2>2. Sound(PlaylistClear(out.pl))
    BY <1>7, PlaylistClearSound
  <2>3. PlayerInv(ap')
    BY <2>1, <2>2, InvParts, WithPlaylist
  <2>4. QED
    BY <1>7, <2>1, <2>3, InvParts DEF IInv
<1>9. CASE out.ok
  <2> DEFINE player == [ap EXCEPT !.pl = out.pl]
  <2>1. PICK start \in Begins(player) :
            /\ ap' = start.ap
            /\ saved' \in IF start.ok THEN PlaylistSave(ap'.pl, saved) ELSE {saved}
    BY <1>4, <1>9
  <2>2. PlayerInv(player)
    BY <1>7, InvParts, WithPlaylist
  <2> HIDE DEF player
  <2>3. numbers # {} => args[last].val \in Int
    <3>1. ASSUME numbers # {} PROVE args[last].val \in Int
      <4>1. numbers \in SUBSET (1 .. Len(args)) /\ Len(args) \in Nat
        BY <1>1
      <4>2. \E n \in numbers : \A m \in numbers : m <= n
        <5> HIDE DEF numbers
        <5>1. QED
          BY <3>1, <4>1, HasLast
      <4>3. last \in numbers
        <5> HIDE DEF numbers
        <5>1. QED
          BY <4>2
      <4> HIDE DEF last
      <4>4. last \in DOMAIN args /\ args[last].is \in {"int", "overflow"}
        BY <4>3
      <4>5. args[last] \in Args /\ args[last].is = "int"
        BY <1>1, <1>5, <1>6, <1>9, <4>4
      <4>6. QED
        BY <4>5, ArgTypes
    <3>2. QED
      BY <3>1
  <2>4. Outcome(start, player)
    <3>1. CASE numbers = {}
      BY <2>1, <2>2, <3>1, PlayNextSound DEF Begins
    <3>2. CASE numbers # {}
      <4>1. PICK val \in Int : val = args[last].val
        BY <2>3, <3>2
      <4>2. start \in PlayTrack(player, val)
        BY <2>1, <3>2, <4>1 DEF Begins
      <4>3. QED
        BY <2>2, <4>2, PlayTrackSound
    <3>3. QED
      BY <3>1, <3>2
  <2>5. PlayerInv(ap') /\ Sound(ap'.pl)
    BY <2>1, <2>4 DEF Outcome, PlayerInv
  <2>6. saved' = saved \/ saved' \in PlaylistSave(ap'.pl, saved)
    BY <2>1
  <2>7. saved' \in Seq(Tracks) /\ Len(saved') <= MaxSize
    BY <2>5, <2>6, InvParts, PlaylistSaveSound
  <2>8. QED
    BY <1>7, <2>5, <2>7 DEF IInv
<1>10. QED
  BY <1>8, <1>9

LEMMA WiderSeq ==
    ASSUME NEW S, NEW T, S \subseteq T, NEW s \in Seq(S)
    PROVE  s \in Seq(T)
<1>1. /\ Len(s) \in Nat /\ s = [i \in 1 .. Len(s) |-> s[i]]
      /\ \A i \in 1 .. Len(s) : s[i] \in T
  OBVIOUS
<1>2. s \in [1 .. Len(s) -> T]
  BY <1>1
<1>3. QED
  BY <1>1, <1>2, SeqDef

LEMMA HandleRemoveInv ==
    ASSUME IInv, NEW indices \in RemoveArgs, HandleRemove(indices)
    PROVE  IInv'
<1>1. PICK pl \in PlaylistRemoveArray(ap.pl, indices) : PlaylistCommand(pl)
  BY DEF HandleRemove
<1>2. indices \in Seq(Int)
  <2>1. indices \in Seq(Ints) /\ Ints \subseteq Int
    BY ArgsAssumption, IntTypes DEF Ints
  <2>2. QED
    BY <2>1, WiderSeq
<1>3. Kept(pl, ap.pl)
  BY <1>1, <1>2, InvParts, PlaylistRemoveArraySound
<1>4. QED
  BY <1>1, <1>3, PlaylistCommandInv DEF Kept

(* The handlers that change only the playlist. *)
LEMMA PlaylistHandlersInv ==
    ASSUME IInv, HandleClear \/ HandleRepeat \/ HandleShuffle \/ HandleSort \/ HandleConfig
    PROVE  IInv'
<1>1. Sound(ap.pl)
  BY InvParts
<1>2. CASE HandleClear
  BY <1>1, <1>2, PlaylistClearSound, PlaylistCommandInv DEF HandleClear
<1>3. CASE HandleRepeat
  <2>1. PICK b \in BOOLEAN : \E pl : pl = [ap.pl EXCEPT !.repeat = b] /\ PlaylistCommand(pl)
    BY <1>3 DEF HandleRepeat
  <2>2. QED
    BY <1>1, <2>1, RepeatSound, PlaylistCommandInv
<1>4. CASE HandleShuffle
  <2>1. PICK b \in BOOLEAN : \E pl : pl = [ap.pl EXCEPT !.shuffle = b] /\ PlaylistCommand(pl)
    BY <1>4 DEF HandleShuffle
  <2>2. QED
    BY <1>1, <2>1, ShuffleSound, PlaylistCommandInv
<1>5. CASE HandleSort
  BY <1>1, <1>5, PlaylistSortSound, PlaylistCommandInv DEF HandleSort
<1>6. CASE HandleConfig
  <2>1. PICK r, s \in BOOLEAN : PlaylistCommand(Switched(ap.pl, r, s))
    BY <1>6 DEF HandleConfig, Switched
  <2>2. Sound(Switched(ap.pl, r, s))
    BY <1>1, <2>1, SwitchesSound
  <2>3. QED
    BY <2>1, <2>2, PlaylistCommandInv
<1>7. QED
  BY <1>2, <1>3, <1>4, <1>5, <1>6

(* The handlers that call one function of audio-player.c. *)
LEMMA PlayerHandlersInv ==
    ASSUME IInv, HandleNext \/ HandlePause \/ HandlePlay \/ HandleStop \/ HandleSeek
    PROVE  IInv'
<1>1. PlayerInv(ap)
  BY InvParts
<1>2. CASE HandleNext
  BY <1>1, <1>2, PlayNextSound, PlayerCommandInv DEF HandleNext
<1>3. CASE HandlePause
  <2>1. \/ PlayerCommand(AudioPlayerPause(ap))
        \/ PlayerCommand(AudioPlayerPlay(ap))
        \/ PlayerCommand(Fails(ap))
    BY <1>3, Zenon DEF HandlePause
  <2>2. \A out \in Fails(ap) : Outcome(out, ap)
    BY <1>1, DoneOrFails
  <2>3. QED
    BY <1>1, <2>1, <2>2, PauseSound, PlaySound, PlayerCommandInv
<1>4. CASE HandlePlay
  BY <1>1, <1>4, PlaySound, PlayerCommandInv DEF HandlePlay
<1>5. CASE HandleStop
  BY <1>1, <1>5, StopSound, PlayerCommandInv DEF HandleStop
<1>6. CASE HandleSeek
  BY <1>1, <1>6, SeekSound, PlayerCommandInv DEF HandleSeek
<1>7. QED
  BY <1>2, <1>3, <1>4, <1>5, <1>6

LEMMA HandleCurrentInv == IInv /\ HandleCurrent => IInv'
  BY DEF IInv, HandleCurrent, Command

LEMMA HandleQuitInv == IInv /\ HandleQuit => IInv'
<1>1. SUFFICES ASSUME IInv, HandleQuit PROVE IInv'
  OBVIOUS
<1>2. /\ saved' \in PlaylistSave(ap.pl, saved)
      /\ ap' = ap /\ running' = FALSE /\ quiet' = quiet
  BY <1>1 DEF HandleQuit, Command
<1>3. saved' \in Seq(Tracks) /\ Len(saved') <= MaxSize
  BY <1>1, <1>2, InvParts, PlaylistSaveSound
<1>4. QED
  BY <1>1, <1>2, <1>3, InvParts DEF IInv

(* A new daemon begins with what it could load. *)
LEMMA FirstPlayer ==
    ASSUME NEW pl, Sound(pl)
    PROVE  PlayerInv(AudioPlayerInit(pl))
<1> DEFINE en == [state |-> "NULL", uri |-> None, stream |-> "none", bus |-> <<>>]
           p == AudioPlayerInit(pl)
<1>1. p = [pl |-> pl, active |-> None, en |-> en]
  BY DEF AudioPlayerInit
<1>2. <<>> \in Seq(Messages) /\ DOMAIN <<>> = {}
  OBVIOUS
<1>3. en \in EngineType /\ EngineInv(en, None)
  BY <1>2 DEF EngineType, EngineInv, EngineStates, Streams
<1> HIDE DEF en, p
<1>4. PlayerInv(p)
  BY <1>1, <1>3 DEF PlayerInv, IsPlayer
<1>5. QED
  BY <1>4 DEF p

LEMMA StartedSound ==
    ASSUME saved \in Seq(Tracks), Len(saved) <= MaxSize,
           NEW ok \in BOOLEAN, NEW r \in BOOLEAN, NEW s \in BOOLEAN,
           NEW p \in Started(ok, r, s)
    PROVE  PlayerInv(p)
<1>1. PICK init \in PlaylistInit :
          \E out \in LoadFile(init, saved) : p = AudioPlayerInit(Switched(out.pl, r, s))
  BY DEF Started, Switched
<1>0. PICK out \in LoadFile(init, saved) : p = AudioPlayerInit(Switched(out.pl, r, s))
  BY <1>1
<1>2. saved \in Seq(Int)
  BY PlaylistAssumption, WiderSeq
<1>3. Len(init.vec) + Len(saved) <= MaxSize
  <2>1. Len(<<>>) = 0 /\ Len(saved) \in Nat
    OBVIOUS
  <2>2. QED
    BY <2>1, PlaylistInitSound
<1>4. Sound(out.pl)
  BY <1>0, <1>2, <1>3, PlaylistInitSound, LoadFileSound DEF Extended
<1>5. Sound(Switched(out.pl, r, s))
  BY <1>4, SwitchesSound
<1>6. QED
  BY <1>0, <1>5, FirstPlayer

LEMMA StartInv == IInv /\ Start => IInv'
<1>1. SUFFICES ASSUME IInv, Start PROVE IInv'
  OBVIOUS
<1>2. PICK ok, r, s \in BOOLEAN : ap' \in Started(ok, r, s) /\ RunningAfter(~ ok)
  BY <1>1 DEF Start
<1>3. PlayerInv(ap')
  BY <1>1, <1>2, InvParts, StartedSound
<1>4. running' \in BOOLEAN
  BY <1>2 DEF RunningAfter
<1>5. QED
  BY <1>1, <1>3, <1>4, InvParts DEF IInv, Start

LEMMA DispatchInv ==
    ASSUME IInv, Dispatch
    PROVE  IInv' /\ (ap.en.state = "NULL" => ap'.en.state = "NULL")
<1>1. PlayerInv(ap') /\ (ap.en.state = "NULL" => ap'.en.state = "NULL")
  BY InvParts, BusWatcherSound DEF Dispatch
<1>2. QED
  BY <1>1, InvParts DEF IInv, Dispatch

LEMMA PipelineInv == IInv /\ (StreamEnd \/ StreamBreak) => IInv'
<1>1. SUFFICES ASSUME IInv, StreamEnd \/ StreamBreak PROVE IInv'
  OBVIOUS
<1>2. PICK en \in StreamEnds(ap.en) \cup StreamBreaks(ap.en) : ap' = [ap EXCEPT !.en = en]
  BY <1>1 DEF StreamEnd, StreamBreak, Pipeline
<1>3. UNCHANGED <<running, saved, quiet>>
  BY <1>1 DEF StreamEnd, StreamBreak, Pipeline
<1>4. en \in EngineType /\ EngineInv(en, ap.active)
  BY <1>1, <1>2, InvParts, PipelineMoves
<1>5. PlayerInv(ap')
  BY <1>1, <1>2, <1>4, InvParts, WithEngine
<1>6. QED
  BY <1>1, <1>3, <1>5, InvParts DEF IInv

LEMMA InitInv == Init => IInv
<1>1. SUFFICES ASSUME Init PROVE IInv
  OBVIOUS
<1>2. saved = <<>> /\ running = TRUE /\ quiet = FALSE
  BY <1>1 DEF Init
<1>3. saved \in Seq(Tracks) /\ Len(saved) <= MaxSize
  <2>1. <<>> \in Seq(Tracks) /\ Len(<<>>) = 0
    OBVIOUS
  <2>2. QED
    BY <1>2, <2>1, CapacityTypes
<1>4. PICK ok, r, s \in BOOLEAN : ap \in Started(ok, r, s)
  BY <1>1 DEF Init
<1>5. PlayerInv(ap)
  BY <1>3, <1>4, StartedSound
<1>6. QED
  BY <1>2, <1>3, <1>5 DEF IInv

LEMMA NextInv == IInv /\ [Next]_vars => IInv'
<1> SUFFICES ASSUME IInv, [Next]_vars PROVE IInv'
  OBVIOUS
<1>1. ASSUME NEW args \in LoadArgs, HandleAdd(args) \/ HandlePlaylist(args) PROVE IInv'
  BY <1>1, HandleAddInv, HandlePlaylistInv
<1>2. ASSUME NEW args \in PlayArgs, HandlePlayArgs(args) PROVE IInv'
  BY <1>2, HandlePlayArgsInv
<1>3. ASSUME NEW indices \in RemoveArgs, HandleRemove(indices) PROVE IInv'
  BY <1>3, HandleRemoveInv
<1>4. CASE HandleStdin
  BY <1>4, HandleStdinInv
<1>5. CASE HandleClear \/ HandleRepeat \/ HandleShuffle \/ HandleSort \/ HandleConfig
  BY <1>5, PlaylistHandlersInv
<1>6. CASE HandleNext \/ HandlePause \/ HandlePlay \/ HandleStop \/ HandleSeek
  BY <1>6, PlayerHandlersInv
<1>7. CASE HandleCurrent
  BY <1>7, HandleCurrentInv
<1>8. CASE HandleQuit
  BY <1>8, HandleQuitInv
<1>9. CASE Start
  BY <1>9, StartInv
<1>10. CASE Dispatch
  BY <1>10, DispatchInv
<1>11. CASE StreamEnd \/ StreamBreak
  BY <1>11, PipelineInv
<1>12. CASE FallQuiet
  BY <1>12 DEF FallQuiet, IInv
<1>13. CASE UNCHANGED vars
  BY <1>13 DEF vars, IInv
<1>14. QED
  BY <1>1, <1>2, <1>3, <1>4, <1>5, <1>6, <1>7, <1>8, <1>9, <1>10, <1>11, <1>12, <1>13 DEF Next

LEMMA Invariance == Spec => []IInv
<1>1. QED
  BY InitInv, NextInv, PTL DEF Spec

-----------------------------------------------------------------------------
(* The player, its playlist and the file of the last playlist are always   *)
(* what their types say, and the asserts of playlist.c hold in the daemon. *)
THEOREM DaemonTypeCorrect == Spec => []TypeOK
<1>1. IInv => TypeOK
  BY DEF IInv, PlayerInv, TypeOK, AudioPlayerType, EngineType, Sound
<1>2. QED
  BY <1>1, Invariance, PTL

(* What one hears is the active track: an engine that is not stopped has   *)
(* the uri of the active track, and a stopped one has no stream, whatever  *)
(* failed on the way to the next track (audio_player_play_track).          *)
THEOREM OneHearsTheActiveTrack == Spec => []EngineHasActiveTrack
<1>1. IInv => EngineHasActiveTrack
  BY DEF IInv, PlayerInv, EngineInv, EngineHasActiveTrack
<1>2. QED
  BY <1>1, Invariance, PTL

(* The end of the track before, which would cut a new one short, never     *)
(* waits on the bus (audio_player_play_track, bus_watcher).                *)
THEOREM NoStaleEndOnTheBus == Spec => []BusIsCurrent
<1>1. IInv => BusIsCurrent
  BY DEF IInv, PlayerInv, EngineInv, BusIsCurrent
<1>2. QED
  BY <1>1, Invariance, PTL

(* Stopped stays stopped: what waits on the bus of a stopped engine does   *)
(* not start the next track (audio_player_stop, bus_watcher).              *)
THEOREM StoppedStaysStopped == Spec => StopIsFinal
<1>1. IInv /\ [Next]_vars =>
         [Dispatch /\ ap.en.state = "NULL" => ap'.en.state = "NULL"]_vars
  BY DispatchInv
<1>2. QED
  BY <1>1, Invariance, PTL DEF Spec, StopIsFinal
=============================================================================
