---------------------------- MODULE PlaylistProofs ----------------------------
(***************************************************************************)
(* The playlist in use, for every number of tracks, every width of an int, *)
(* all playlist files and all arguments: the asserts of playlist.c hold,   *)
(* playlist_next names a track there is, a pass through the playlist is    *)
(* complete, and a load that fails leaves nothing behind.                  *)
(***************************************************************************)
EXTENDS Playlist, PlaylistOpsProofs, TLAPS

(***************************************************************************)
(* What the indices heard so far in a pass have to do with the playlist: a *)
(* shuffled one can still draw exactly the others, in order they are those *)
(* up to the current track.  PassIsComplete follows from this and from     *)
(* nothing weaker: the shuffler has to know which tracks were heard.       *)
(***************************************************************************)
PassOf(p, h) ==
    IF p.shuffle
    THEN /\ h \cap Remaining(p.kfy) = {}
         /\ h \cup Remaining(p.kfy) = 0 .. Len(p.vec) - 1
    ELSE \/ p.index = NoIndex /\ h = {}
         \/ p.index \in 0 .. Len(p.vec) - 1 /\ h = 0 .. p.index

PassInv == intact => PassOf(pl, heard)

IInv == TypeOK /\ PassInv

-----------------------------------------------------------------------------
(* A pass that has just begun. *)
LEMMA PassIsNew ==
    ASSUME NEW p, IF p.shuffle THEN Remaining(p.kfy) = 0 .. Len(p.vec) - 1
                  ELSE p.index = NoIndex
    PROVE  PassOf(p, {})
  BY DEF PassOf

(* Adding tracks at the end does not end a pass. *)
LEMMA PassGrows ==
    ASSUME NEW p, NEW q, NEW h, Sound(p), Sound(q), PassOf(p, h),
           q.shuffle = p.shuffle, q.index = p.index, Len(p.vec) <= Len(q.vec),
           Remaining(q.kfy) = Remaining(p.kfy) \cup Len(p.vec) .. Len(q.vec) - 1
    PROVE  PassOf(q, h)
<1>1. Len(p.vec) \in Nat /\ Len(q.vec) \in Nat
  BY SoundFields
<1>2. CASE p.shuffle
  <2>1. h \cap Remaining(p.kfy) = {} /\ h \cup Remaining(p.kfy) = 0 .. Len(p.vec) - 1
    BY <1>2 DEF PassOf
  <2>2. \A i \in h : i \notin Len(p.vec) .. Len(q.vec) - 1
    BY <1>1, <2>1
  <2>3. (0 .. Len(p.vec) - 1) \cup Len(p.vec) .. Len(q.vec) - 1 = 0 .. Len(q.vec) - 1
    BY <1>1
  <2>4. QED
    BY <1>2, <2>1, <2>2, <2>3 DEF PassOf
<1>3. CASE ~ p.shuffle
  BY <1>1, <1>3 DEF PassOf
<1>4. QED
  BY <1>2, <1>3

(* playlist_next begins a pass when it returns that the playlist is over.  *)
LEMMA EndBeginsPass ==
    ASSUME NEW p, Sound(p), p.vec # <<>>, NEW out \in PlaylistNext(p), out.ret = NoIndex
    PROVE  PassOf(out.pl, {})
<1>1. Len(p.vec) \in Nat /\ Len(p.vec) <= MaxSize /\ NoIndex \notin 0 .. Len(p.vec) - 1
  BY SoundFields, IntTypes
<1>2. CASE p.shuffle
  <2>1. out \in NextShuffled(p)
    BY <1>2 DEF PlaylistNext
  <2>2. Remaining(out.pl.kfy) = 0 .. Len(p.vec) - 1 /\ out.pl.vec = p.vec
    BY <1>1, <2>1, NextShuffledSound
  <2>3. out.pl.shuffle
    BY <1>2, <2>1, NextShuffledSound
  <2>4. QED
    BY <2>2, <2>3, PassIsNew
<1>3. CASE ~ p.shuffle
  <2>1. out \in NextInOrder(p)
    BY <1>3 DEF PlaylistNext
  <2>2. out.pl.index = NoIndex /\ ~ out.pl.shuffle
    BY <1>3, <2>1, NextInOrderSound
  <2>3. QED
    BY <2>2, PassIsNew
<1>4. QED
  BY <1>2, <1>3

Heard(h, ret) == IF ret \in h THEN {ret} ELSE h \cup {ret}

(* What playlist_next returns continues the pass, and it returns an index  *)
(* again, or none, only after all of them.                                 *)
LEMMA NextShuffledPass ==
    ASSUME NEW p, Sound(p), p.vec # <<>>, p.shuffle, NEW h, PassOf(p, h),
           NEW out \in NextShuffled(p)
    PROVE  /\ out.ret # NoIndex => PassOf(out.pl, Heard(h, out.ret))
           /\ out.ret = NoIndex \/ out.ret \in h => h = 0 .. Len(p.vec) - 1
<1> DEFINE n    == Len(p.vec)
           pool == IF KfyCycleDone(p.kfy) THEN 0 .. n - 1 ELSE Remaining(p.kfy)
<1>1. /\ n \in Nat /\ n > 0 /\ NoIndex \notin 0 .. n - 1
  BY SoundFields, NotEmpty, IntTypes
<1>2. /\ Remaining(p.kfy) \subseteq 0 .. n - 1
      /\ KfyCycleDone(p.kfy) <=> Remaining(p.kfy) = {}
  BY BagOfTracks
<1>3. h \cap Remaining(p.kfy) = {} /\ h \cup Remaining(p.kfy) = 0 .. n - 1
  BY DEF PassOf
<1>4. /\ out.pl.vec = p.vec /\ out.pl.shuffle
      /\ \/ KfyCycleDone(p.kfy) /\ out.ret = NoIndex
         \/ /\ out.ret \in pool /\ out.ret \in 0 .. n - 1
            /\ Remaining(out.pl.kfy) = pool \ {out.ret}
  BY NextShuffledSound
<1> HIDE DEF n
<1>5. CASE KfyCycleDone(p.kfy)
  <2>1. h = 0 .. n - 1 /\ pool = 0 .. n - 1
    BY <1>2, <1>3, <1>5
  <2>2. CASE out.ret # NoIndex
    <3>1. out.ret \in h /\ Remaining(out.pl.kfy) = (0 .. n - 1) \ {out.ret}
      BY <1>4, <2>1, <2>2
    <3>2. Heard(h, out.ret) = {out.ret}
      BY <3>1 DEF Heard
    <3>3. PassOf(out.pl, {out.ret})
      BY <1>4, <2>1, <3>1 DEF PassOf, n
    <3>4. QED
      BY <2>1, <3>2, <3>3 DEF n
  <2>3. QED
    BY <2>1, <2>2 DEF n
<1>6. CASE ~ KfyCycleDone(p.kfy)
  <2>1. /\ out.ret \in Remaining(p.kfy) /\ out.ret \in 0 .. n - 1
        /\ Remaining(out.pl.kfy) = Remaining(p.kfy) \ {out.ret}
    BY <1>4, <1>6
  <2>2. out.ret \notin h /\ out.ret # NoIndex
    BY <1>1, <1>3, <2>1 DEF n
  <2>3. Heard(h, out.ret) = h \cup {out.ret}
    BY <2>2 DEF Heard
  <2>4. PassOf(out.pl, h \cup {out.ret})
    BY <1>3, <1>4, <2>1 DEF PassOf, n
  <2>5. QED
    BY <2>2, <2>3, <2>4
<1>7. QED
  BY <1>5, <1>6

LEMMA NextInOrderPass ==
    ASSUME NEW p, Sound(p), p.vec # <<>>, ~ p.shuffle, NEW h, PassOf(p, h),
           NEW out \in NextInOrder(p)
    PROVE  /\ out.ret # NoIndex => PassOf(out.pl, Heard(h, out.ret))
           /\ out.ret = NoIndex \/ out.ret \in h => h = 0 .. Len(p.vec) - 1
<1> DEFINE n    == Len(p.vec)
           succ == IF p.index = NoIndex THEN 0 ELSE p.index + 1
<1>1. /\ n \in Nat /\ n > 0 /\ NoIndex \notin 0 .. n - 1
      /\ NoIndex \in Nat /\ NoIndex > n
  BY SoundFields, NotEmpty, IntTypes
<1>2. \/ p.index = NoIndex /\ h = {}
      \/ p.index \in 0 .. n - 1 /\ h = 0 .. p.index
  BY DEF PassOf
<1>3. /\ out.pl.vec = p.vec /\ ~ out.pl.shuffle /\ out.pl.index = out.ret
      /\ IF succ < n THEN out.ret = succ ELSE out.ret = 0 \/ out.ret = NoIndex
  BY NextInOrderSound
<1>4. CASE p.index = NoIndex /\ h = {}
  <2>1. out.ret = 0
    BY <1>1, <1>3, <1>4
  <2>2. Heard(h, out.ret) = 0 .. 0
    BY <1>4, <2>1 DEF Heard
  <2>3. PassOf(out.pl, 0 .. 0)
    BY <1>1, <1>3, <2>1 DEF PassOf
  <2>4. out.ret # NoIndex /\ out.ret \notin h
    BY <1>1, <1>4, <2>1
  <2>5. PassOf(out.pl, Heard(h, out.ret))
    BY <2>2, <2>3
  <2>6. QED
    BY <2>4, <2>5
<1>5. CASE p.index \in 0 .. n - 1 /\ h = 0 .. p.index /\ p.index + 1 < n
  <2>1. out.ret = p.index + 1
    BY <1>1, <1>3, <1>5
  <2>2. out.ret \notin h /\ out.ret # NoIndex /\ out.ret \in 0 .. n - 1
    BY <1>1, <1>5, <2>1
  <2>3. Heard(h, out.ret) = 0 .. out.ret
    <3>1. h \cup {out.ret} = 0 .. out.ret
      BY <1>1, <1>5, <2>1
    <3>2. QED
      BY <2>2, <3>1 DEF Heard
  <2>4. PassOf(out.pl, 0 .. out.ret)
    BY <1>3, <2>2 DEF PassOf
  <2>5. QED
    BY <2>2, <2>3, <2>4
<1>6. CASE p.index \in 0 .. n - 1 /\ h = 0 .. p.index /\ ~ (p.index + 1 < n)
  <2>1. h = 0 .. n - 1 /\ (out.ret = 0 \/ out.ret = NoIndex)
    BY <1>1, <1>3, <1>6
  <2>2. CASE out.ret = 0
    <3>1. Heard(h, out.ret) = 0 .. 0
      BY <1>1, <2>1, <2>2 DEF Heard
    <3>2. PassOf(out.pl, 0 .. 0)
      BY <1>1, <1>3, <2>2 DEF PassOf
    <3>3. QED
      BY <2>1, <3>1, <3>2
  <2>3. QED
    BY <2>1, <2>2
<1>7. QED
  BY <1>2, <1>4, <1>5, <1>6

LEMMA NextPass ==
    ASSUME NEW p, Sound(p), p.vec # <<>>, NEW h, PassOf(p, h), NEW out \in PlaylistNext(p)
    PROVE  /\ out.ret # NoIndex => PassOf(out.pl, Heard(h, out.ret))
           /\ out.ret = NoIndex \/ out.ret \in h => h = 0 .. Len(p.vec) - 1
<1>1. CASE p.shuffle
  BY <1>1, NextShuffledPass DEF PlaylistNext
<1>2. CASE ~ p.shuffle
  BY <1>2, NextInOrderPass DEF PlaylistNext
<1>3. QED
  BY <1>1, <1>2

-----------------------------------------------------------------------------
LEMMA InvParts ==
    IInv <=> /\ Sound(pl) /\ PassInv
             /\ running \in BOOLEAN /\ heard \in SUBSET (0 .. MaxSize) /\ intact \in BOOLEAN
  BY DEF IInv, TypeOK, Sound

(* What an action has to establish, by what it does to the pass. *)
LEMMA PassesOn ==
    ASSUME IInv, Sound(pl'), running' \in BOOLEAN, PassGoesOn,
           intact => PassOf(pl', heard)
    PROVE  IInv'
  BY InvParts DEF IInv, TypeOK, Sound, PassInv, PassGoesOn

LEMMA PassStarts ==
    ASSUME Sound(pl'), running' \in BOOLEAN, PassBegins, PassOf(pl', {})
    PROVE  IInv'
  BY DEF IInv, TypeOK, Sound, PassInv, PassBegins

LEMMA PassIsLost ==
    ASSUME Sound(pl'), running' \in BOOLEAN, PassIsUnclear
    PROVE  IInv'
  BY DEF IInv, TypeOK, Sound, PassInv, PassIsUnclear

LEMMA FileTypes ==
    /\ \A file \in Files : file \in Seq(Int) /\ Len(file) \in Nat
    /\ \A indices \in Arrays : indices \in Seq(Int)
<1>1. Ints \subseteq Int
  BY IntTypes DEF Ints
<1>2. \A indices \in Seq(Ints) : indices \in Seq(Int)
  <2>1. ASSUME NEW indices \in Seq(Ints)
        PROVE  indices \in Seq(Int)
    <3>1. PICK n \in Nat : indices \in [1 .. n -> Ints]
      BY SeqDef
    <3>2. indices \in [1 .. n -> Int]
      BY <1>1, <3>1
    <3>3. QED
      BY <3>2, SeqDef
  <2>2. QED
    BY <2>1
<1>3. QED
  BY <1>2, UseAssumption

(* main sets the playlist up. *)
LEMMA InitInv == Init => IInv
<1>1. SUFFICES ASSUME Init PROVE IInv
  OBVIOUS
<1>2. PICK init \in PlaylistInit, r \in BOOLEAN, s \in BOOLEAN : pl = Switched(init, r, s)
  BY <1>1 DEF Init, Switched
<1>3. /\ Sound(pl) /\ pl.vec = <<>> /\ pl.index = NoIndex
  BY <1>2, PlaylistInitSound, SwitchesSound
<1>4. Remaining(pl.kfy) \subseteq 0 .. Len(pl.vec) - 1 /\ 0 .. Len(pl.vec) - 1 = {}
  BY <1>3, BagOfTracks
<1>5. PassOf(pl, {})
  BY <1>3, <1>4, PassIsNew
<1>6. QED
  BY <1>1, <1>3, <1>5, InvParts DEF Init, PassInv

LEMMA AddInv ==
    ASSUME IInv, NEW m \in Tracks, Add(m)
    PROVE  IInv'
<1>1. Sound(pl) /\ running' \in BOOLEAN /\ PassGoesOn
  BY InvParts DEF Add
<1>2. PICK out \in PlaylistAdd(pl, m) : pl' = out.pl
  BY DEF Add
<1>3. Len(pl.vec) < MaxSize /\ Len(pl.vec) \in Nat
  BY <1>1, SoundFields DEF Add
<1>4. /\ Sound(pl')
      /\ \/ pl' = pl
         \/ /\ pl'.vec = Append(pl.vec, m) /\ pl'.index = pl.index
            /\ pl'.shuffle = pl.shuffle
            /\ Remaining(pl'.kfy) = Remaining(pl.kfy) \cup {Len(pl.vec)}
  BY <1>1, <1>2, <1>3, PlaylistAddSound
<1>5. ASSUME PassOf(pl, heard) PROVE PassOf(pl', heard)
  <2>1. CASE pl' = pl
    BY <1>5, <2>1
  <2>2. CASE /\ pl'.vec = Append(pl.vec, m) /\ pl'.index = pl.index
             /\ pl'.shuffle = pl.shuffle
             /\ Remaining(pl'.kfy) = Remaining(pl.kfy) \cup {Len(pl.vec)}
    <3>1. Len(pl'.vec) = Len(pl.vec) + 1
      BY <1>1, <2>2, SoundFields, Appended
    <3>2. Len(pl.vec) .. Len(pl'.vec) - 1 = {Len(pl.vec)}
      BY <1>3, <3>1
    <3>3. QED
      BY <1>1, <1>3, <1>4, <1>5, <2>2, <3>1, <3>2, PassGrows
  <2>3. QED
    BY <1>4, <2>1, <2>2
<1>6. QED
  BY <1>1, <1>4, <1>5, PassesOn, InvParts DEF PassInv

LEMMA ClearInv ==
    ASSUME IInv, Clear
    PROVE  IInv'
<1>1. Sound(pl) /\ running' \in BOOLEAN /\ PassBegins /\ pl' = PlaylistClear(pl)
  BY InvParts DEF Clear
<1>2. Sound(pl') /\ pl'.vec = <<>> /\ pl'.index = NoIndex
  BY <1>1, PlaylistClearSound
<1>3. Remaining(pl'.kfy) \subseteq 0 .. Len(pl'.vec) - 1 /\ 0 .. Len(pl'.vec) - 1 = {}
  BY <1>2, BagOfTracks
<1>4. PassOf(pl', {})
  BY <1>2, <1>3, PassIsNew
<1>5. QED
  BY <1>1, <1>2, <1>4, PassStarts

LEMMA LoadSucceedsInv ==
    ASSUME IInv, NEW file \in Files, LoadSucceeds(file)
    PROVE  IInv'
<1>1. Sound(pl) /\ running' \in BOOLEAN /\ PassGoesOn
  BY InvParts DEF LoadSucceeds
<1>2. PICK out \in LoadFile(pl, file) : out.ok /\ pl' = out.pl
  BY DEF LoadSucceeds
<1>3. /\ file \in Seq(Int) /\ Len(file) \in Nat /\ Len(pl.vec) \in Nat
      /\ Len(pl.vec) + Len(file) <= MaxSize
  BY <1>1, FileTypes, SoundFields DEF LoadSucceeds
<1>4. Extended(pl', pl, file, Len(file))
  BY <1>1, <1>2, <1>3, LoadFileSound
<1>5. /\ Sound(pl') /\ pl'.index = pl.index /\ pl'.shuffle = pl.shuffle
      /\ Len(pl.vec) <= Len(pl'.vec)
      /\ Remaining(pl'.kfy) = Remaining(pl.kfy) \cup Len(pl.vec) .. Len(pl'.vec) - 1
  BY <1>3, <1>4 DEF Extended
<1>6. ASSUME PassOf(pl, heard) PROVE PassOf(pl', heard)
  BY <1>1, <1>5, <1>6, PassGrows
<1>7. QED
  BY <1>1, <1>5, <1>6, PassesOn, InvParts DEF PassInv

(* playlist_load_file that fails *)
LEMMA LoadFailsKeeps ==
    ASSUME IInv, NEW file \in Files, LoadFails(file)
    PROVE  /\ Sound(pl')
           /\ pl'.vec = pl.vec /\ pl'.index = pl.index /\ pl'.shuffle = pl.shuffle
<1>1. Sound(pl)
  BY InvParts
<1>2. PICK out \in LoadFile(pl, file) : ~ out.ok /\ pl' = out.pl
  BY DEF LoadFails
<1>3. file \in Seq(Int) /\ Len(pl.vec) + Len(file) <= MaxSize
  BY <1>1, FileTypes, SoundFields DEF LoadFails
<1>4. QED
  BY <1>1, <1>2, <1>3, LoadFileSound

LEMMA LoadFailsInv ==
    ASSUME IInv, NEW file \in Files, LoadFails(file)
    PROVE  IInv'
<1>1. /\ Sound(pl')
      /\ pl'.vec = pl.vec /\ pl'.index = pl.index /\ pl'.shuffle = pl.shuffle
      /\ running' \in BOOLEAN
  BY LoadFailsKeeps DEF LoadFails
<1>2. CASE pl.shuffle
  <2>1. PassIsUnclear
    BY <1>2 DEF LoadFails, PassGoesOnIf
  <2>2. QED
    BY <1>1, <2>1, PassIsLost
<1>3. CASE ~ pl.shuffle
  <2>1. PassGoesOn
    BY <1>3 DEF LoadFails, PassGoesOnIf
  <2>2. PassOf(pl, heard) => PassOf(pl', heard)
    BY <1>1, <1>3 DEF PassOf
  <2>3. QED
    BY <1>1, <2>1, <2>2, PassesOn, InvParts DEF PassInv
<1>4. QED
  BY <1>2, <1>3

LEMMA RemoveArrayInv ==
    ASSUME IInv, NEW indices \in Arrays, RemoveArray(indices)
    PROVE  IInv'
<1>1. Sound(pl) /\ running' \in BOOLEAN /\ pl' \in PlaylistRemoveArray(pl, indices)
  BY InvParts DEF RemoveArray
<1>2. Kept(pl', pl)
  BY <1>1, FileTypes, PlaylistRemoveArraySound
<1>3. Sound(pl')
  BY <1>2 DEF Kept
<1>4. CASE pl'.vec = pl.vec
  <2>1. pl' = pl
    <3>1. Len(pl.vec) \in Nat
      BY <1>1, SoundFields
    <3>2. QED
      BY <1>2, <1>4, <3>1 DEF Kept
  <2>2. PassGoesOn
    BY <1>4 DEF RemoveArray, PassGoesOnIf
  <2>3. QED
    BY <1>1, <2>1, <2>2, PassesOn, InvParts DEF PassInv
<1>5. CASE pl'.vec # pl.vec
  <2>1. PassIsUnclear
    BY <1>5 DEF RemoveArray, PassGoesOnIf
  <2>2. QED
    BY <1>1, <1>3, <2>1, PassIsLost
<1>6. QED
  BY <1>4, <1>5

LEMMA JumpToInv ==
    ASSUME IInv, NEW index \in Ints, JumpTo(index)
    PROVE  IInv'
<1>1. Sound(pl) /\ running' \in BOOLEAN /\ HasTrack(pl, index) /\ pl' = SetIndex(pl, index)
  BY InvParts DEF JumpTo
<1>2. index \in Int
  BY IntTypes DEF Ints
<1>3. /\ Sound(pl') /\ pl'.vec = pl.vec /\ pl'.kfy = pl.kfy /\ pl'.shuffle = pl.shuffle
  BY <1>1, <1>2, SetIndexSound
<1>4. CASE pl.shuffle
  <2>1. PassGoesOn
    BY <1>4 DEF JumpTo, PassGoesOnIf
  <2>2. PassOf(pl, heard) => PassOf(pl', heard)
    BY <1>3, <1>4 DEF PassOf
  <2>3. QED
    BY <1>1, <1>3, <2>1, <2>2, PassesOn, InvParts DEF PassInv
<1>5. CASE ~ pl.shuffle
  <2>1. PassIsUnclear
    BY <1>5 DEF JumpTo, PassGoesOnIf
  <2>2. QED
    BY <1>1, <1>3, <2>1, PassIsLost
<1>6. QED
  BY <1>4, <1>5

LEMMA SetRepeatInv ==
    ASSUME IInv, SetRepeat
    PROVE  IInv'
<1>1. Sound(pl) /\ running' \in BOOLEAN /\ PassGoesOn /\ pl.shuffle \in BOOLEAN
  BY InvParts, SoundFields DEF SetRepeat
<1>2. PICK r \in BOOLEAN : pl' = [pl EXCEPT !.repeat = r]
  <2>1. (~ pl.repeat) \in BOOLEAN
    OBVIOUS
  <2>2. QED
    BY <2>1 DEF SetRepeat
<1>3. /\ Sound(pl') /\ pl'.vec = pl.vec /\ pl'.kfy = pl.kfy
      /\ pl'.index = pl.index /\ pl'.shuffle = pl.shuffle
  BY <1>1, <1>2, RepeatSound
<1>4. PassOf(pl, heard) => PassOf(pl', heard)
  BY <1>3 DEF PassOf
<1>5. QED
  BY <1>1, <1>3, <1>4, PassesOn, InvParts DEF PassInv

LEMMA SetShuffleInv ==
    ASSUME IInv, SetShuffle
    PROVE  IInv'
<1>1. Sound(pl) /\ running' \in BOOLEAN /\ PassIsUnclear
  BY InvParts DEF SetShuffle
<1>2. PICK s \in BOOLEAN : pl' = [pl EXCEPT !.shuffle = s]
  <2>1. (~ pl.shuffle) \in BOOLEAN
    OBVIOUS
  <2>2. QED
    BY <2>1 DEF SetShuffle
<1>3. Sound(pl')
  BY <1>1, <1>2, ShuffleSound
<1>4. QED
  BY <1>1, <1>3, PassIsLost

LEMMA SortInv ==
    ASSUME IInv, Sort
    PROVE  IInv'
<1>1. Sound(pl) /\ running' \in BOOLEAN /\ PassBegins /\ pl' \in PlaylistSort(pl)
  BY InvParts DEF Sort
<1>2. /\ Sound(pl') /\ Len(pl'.vec) = Len(pl.vec) /\ pl'.index = NoIndex
      /\ Remaining(pl'.kfy) = 0 .. Len(pl.vec) - 1
  BY <1>1, PlaylistSortSound
<1>3. PassOf(pl', {})
  BY <1>2, PassIsNew
<1>4. QED
  BY <1>1, <1>2, <1>3, PassStarts

(* What PlayNext does, by what playlist_next returned. *)
LEMMA PlayNextCases ==
    ASSUME IInv, PlayNext
    PROVE  /\ Sound(pl') /\ pl'.vec = pl.vec /\ running' \in BOOLEAN
           /\ \E out \in PlaylistNext(pl) :
                 /\ pl' = out.pl
                 /\ \/ out.ret = NoIndex /\ PassBegins
                    \/ /\ out.ret # NoIndex /\ out.ret \in 0 .. Len(pl.vec) - 1
                       /\ heard' = Heard(heard, out.ret) /\ intact' = intact
<1>1. Sound(pl) /\ running' \in BOOLEAN
  BY InvParts DEF PlayNext
<1>2. PICK out \in PlaylistNext(pl) :
          /\ pl' = out.pl
          /\ IF out.ret = NoIndex THEN PassBegins
             ELSE /\ heard' = IF out.ret \in heard THEN {out.ret}
                              ELSE heard \cup {out.ret}
                  /\ UNCHANGED intact
  BY DEF PlayNext
<1>3. /\ Sound(out.pl) /\ out.pl.vec = pl.vec
      /\ out.ret = NoIndex \/ out.ret \in 0 .. Len(pl.vec) - 1
  BY <1>1, PlaylistNextSound
<1>4. QED
  BY <1>1, <1>2, <1>3 DEF Heard

LEMMA PlayNextInv ==
    ASSUME IInv, PlayNext
    PROVE  IInv'
<1>1. /\ Sound(pl) /\ Sound(pl') /\ pl'.vec = pl.vec /\ running' \in BOOLEAN
      /\ heard \in SUBSET (0 .. MaxSize) /\ intact \in BOOLEAN /\ pl.vec # <<>>
  BY PlayNextCases, InvParts DEF PlayNext
<1>2. PICK out \in PlaylistNext(pl) :
          /\ pl' = out.pl
          /\ \/ out.ret = NoIndex /\ PassBegins
             \/ /\ out.ret # NoIndex /\ out.ret \in 0 .. Len(pl.vec) - 1
                /\ heard' = Heard(heard, out.ret) /\ intact' = intact
  BY PlayNextCases
<1>3. CASE out.ret = NoIndex /\ PassBegins
  <2>1. PassOf(pl', {})
    BY <1>1, <1>2, <1>3, EndBeginsPass
  <2>2. QED
    BY <1>1, <1>3, <2>1, PassStarts
<1>4. CASE /\ out.ret # NoIndex /\ out.ret \in 0 .. Len(pl.vec) - 1
           /\ heard' = Heard(heard, out.ret) /\ intact' = intact
  <2>1. heard' \in SUBSET (0 .. MaxSize)
    <3>1. out.ret \in 0 .. MaxSize
      BY <1>1, <1>4, SoundFields, CapacityTypes
    <3>2. QED
      BY <1>1, <1>4, <3>1 DEF Heard
  <2>2. intact' => PassOf(pl', heard')
    <3>1. PassOf(pl, heard) => PassOf(out.pl, Heard(heard, out.ret))
      BY <1>1, <1>4, NextPass
    <3>2. QED
      BY <1>2, <1>4, <3>1, InvParts DEF PassInv
  <2>3. QED
    BY <1>1, <1>4, <2>1, <2>2 DEF IInv, TypeOK, Sound, PassInv
<1>5. QED
  BY <1>2, <1>3, <1>4

LEMMA NextInv == IInv /\ [Next]_vars => IInv'
<1> SUFFICES ASSUME IInv, [Next]_vars PROVE IInv'
  OBVIOUS
<1>1. ASSUME NEW m \in Tracks, Add(m) PROVE IInv'
  BY <1>1, AddInv
<1>2. CASE Clear
  BY <1>2, ClearInv
<1>3. ASSUME NEW file \in Files, LoadSucceeds(file) PROVE IInv'
  BY <1>3, LoadSucceedsInv
<1>4. ASSUME NEW file \in Files, LoadFails(file) PROVE IInv'
  BY <1>4, LoadFailsInv
<1>5. ASSUME NEW indices \in Arrays, RemoveArray(indices) PROVE IInv'
  BY <1>5, RemoveArrayInv
<1>6. ASSUME NEW index \in Ints, JumpTo(index) PROVE IInv'
  BY <1>6, JumpToInv
<1>7. CASE SetRepeat
  BY <1>7, SetRepeatInv
<1>8. CASE SetShuffle
  BY <1>8, SetShuffleInv
<1>9. CASE Sort
  BY <1>9, SortInv
<1>10. CASE PlayNext
  BY <1>10, PlayNextInv
<1>11. CASE UNCHANGED vars
  BY <1>11 DEF vars, IInv, TypeOK, PassInv
<1>12. QED
  BY <1>1, <1>2, <1>3, <1>4, <1>5, <1>6, <1>7, <1>8, <1>9, <1>10, <1>11 DEF Next

LEMMA Invariance == Spec => []IInv
<1>1. QED
  BY InitInv, NextInv, PTL DEF Spec

-----------------------------------------------------------------------------
(* The asserts "INVALID SIZE" of playlist.c hold: the tracks and the       *)
(* shuffler agree on how many there are, after every call.                 *)
THEOREM TypeCorrect == Spec => []TypeOK
<1>1. IInv => TypeOK
  BY DEF IInv
<1>2. QED
  BY <1>1, Invariance, PTL

(* The assert "invalid playlist index" holds: playlist_next returns a      *)
(* track there is, whatever was called before.                             *)
THEOREM NextIsATrack == Spec => []NextTrackExists
<1>1. IInv => NextTrackExists
  <2>1. SUFFICES ASSUME IInv, NEW out \in PlaylistNext(pl)
                 PROVE  out.ret = NoIndex \/ HasTrack(pl, out.ret)
    BY DEF NextTrackExists
  <2>2. Sound(pl) /\ Len(pl.vec) \in Nat /\ PlaylistSize(pl) = Len(pl.vec)
    BY <2>1, InvParts, SoundFields
  <2>3. out.ret = NoIndex \/ out.ret \in 0 .. Len(pl.vec) - 1
    BY <2>1, <2>2, PlaylistNextSound
  <2>4. CASE out.ret \in 0 .. Len(pl.vec) - 1
    <3>1. ~ (out.ret < 0) /\ out.ret < PlaylistSize(pl)
      BY <2>2, <2>4
    <3>2. EnsurePositivIndex(pl, out.ret) = out.ret
      BY <3>1 DEF EnsurePositivIndex
    <3>3. QED
      BY <3>1, <3>2 DEF HasTrack
  <2>5. QED
    BY <2>3, <2>4
<1>2. QED
  BY <1>1, Invariance, PTL

(* A pass through the playlist ends, and a track is played again, only     *)
(* after every track was played, shuffled or not and repeating or not.     *)
THEOREM PassesAreComplete == Spec => PassIsComplete
<1>1. IInv /\ [Next]_vars =>
         [intact /\ PlayNext /\ ~ ReturnsAnother => heard = 0 .. PlaylistSize(pl) - 1]_vars
  <2>1. SUFFICES ASSUME IInv, intact, PlayNext, ~ ReturnsAnother
                 PROVE  heard = 0 .. PlaylistSize(pl) - 1
    OBVIOUS
  <2>2. /\ Sound(pl) /\ pl.vec # <<>> /\ PassOf(pl, heard)
        /\ PlaylistSize(pl) = Len(pl.vec)
    BY <2>1, InvParts, SoundFields DEF PlayNext, PassInv
  <2>3. PICK out \in PlaylistNext(pl) :
            /\ pl' = out.pl
            /\ \/ out.ret = NoIndex
               \/ /\ out.ret # NoIndex
                  /\ heard' = IF out.ret \in heard THEN {out.ret} ELSE heard \cup {out.ret}
    BY <2>1 DEF PlayNext
  <2>4. out.ret # NoIndex => pl'.index = out.ret
    <3>1. CASE pl.shuffle
      BY <2>2, <2>3, <3>1, NextShuffledSound DEF PlaylistNext
    <3>2. CASE ~ pl.shuffle
      BY <2>2, <2>3, <3>2, NextInOrderSound DEF PlaylistNext
    <3>3. QED
      BY <3>1, <3>2
  <2>5. out.ret = NoIndex \/ out.ret \in heard
    BY <2>1, <2>3, <2>4 DEF ReturnsAnother
  <2>6. QED
    BY <2>2, <2>5, NextPass
<1>2. QED
  BY <1>1, Invariance, PTL DEF Spec, PassIsComplete

(* A playlist file that cannot be loaded to its end leaves no track behind *)
(* and the current track where it was.                                     *)
THEOREM FailedLoadsLeaveNoTrack == Spec => FailedLoadLeavesNoTrack
<1>1. IInv /\ [Next]_vars =>
         [\A file \in Files :
             LoadFails(file) => pl'.vec = pl.vec /\ pl'.index = pl.index]_vars
  BY LoadFailsKeeps
<1>2. QED
  BY <1>1, Invariance, PTL DEF Spec, FailedLoadLeavesNoTrack

(* The indices of one --remove all count in the playlist as it was when    *)
(* the command was given, in whatever order they are given and sorted, and *)
(* a track that is named twice is removed once (playlist_remove_array).    *)
LEMMA RemovedAsNamed ==
    ASSUME IInv, NEW indices \in Arrays, RemoveArray(indices),
           NEW named, named = {EnsurePositivIndex(pl, indices[n]) : n \in DOMAIN indices},
           named \subseteq 0 .. Len(pl.vec) - 1, NEW L, LeftOf(L, pl.vec, named, Len(pl.vec))
    PROVE  pl'.vec = L[Len(pl.vec)]
<1>1. Sound(pl) /\ Len(pl.vec) \in Nat
  BY InvParts, SoundFields
<1>2. indices \in Seq(Int) /\ pl' \in PlaylistRemoveArray(pl, indices)
  BY FileTypes DEF RemoveArray
<1>3. Leaves(pl'.vec, pl.vec, named, Len(pl.vec))
  BY <1>1, <1>2, PlaylistRemoveArrayLeaves
<1>4. PICK M : LeftOf(M, pl.vec, named, Len(pl.vec)) /\ pl'.vec = M[Len(pl.vec)]
  BY <1>3 DEF Leaves
<1>5. QED
  BY <1>1, <1>4, LeftIsOne

THEOREM NamedTracksAreRemoved == Spec => RemovesWhatWasNamed
<1> DEFINE Named(indices) ==
              {EnsurePositivIndex(pl, indices[n]) : n \in DOMAIN indices}
           Removed(indices) ==
              LET size  == PlaylistSize(pl)
                  named == {EnsurePositivIndex(pl, indices[n]) : n \in DOMAIN indices}
                  Left[i \in 0 .. size] ==
                      IF i = 0 THEN <<>>
                      ELSE IF i - 1 \in named THEN Left[i - 1]
                      ELSE Append(Left[i - 1], pl.vec[i])
              IN  RemoveArray(indices) /\ named \subseteq 0 .. size - 1
                     => pl'.vec = Left[size]
<1>1. ASSUME IInv, NEW indices \in Arrays PROVE Removed(indices)
  <2> DEFINE N == Len(pl.vec)
             named == Named(indices)
             Left[i \in 0 .. N] ==
                IF i = 0 THEN <<>>
                ELSE IF i - 1 \in named THEN Left[i - 1]
                ELSE Append(Left[i - 1], pl.vec[i])
  <2>1. N \in Nat
    BY <1>1, InvParts, SoundFields
  <2>2. LeftOf(Left, pl.vec, named, N)
    <3> HIDE DEF N, named
    <3>1. QED
      BY <2>1, LeftRuns
  <2>3. RemoveArray(indices) /\ named \subseteq 0 .. N - 1 => pl'.vec = Left[N]
    <3> HIDE DEF Left
    <3>1. QED
      BY <1>1, <2>2, RemovedAsNamed
  <2>4. QED
    BY <2>3, Zenon DEF PlaylistSize
<1>2. IInv /\ [Next]_vars => [\A indices \in Arrays : Removed(indices)]_vars
  <2> HIDE DEF Removed
  <2>1. QED
    BY <1>1
<1>3. QED
  BY <1>2, Invariance, PTL DEF Spec, RemovesWhatWasNamed
=============================================================================
