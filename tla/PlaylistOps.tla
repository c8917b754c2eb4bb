----------------------------- MODULE PlaylistOps -----------------------------
(***************************************************************************)
(* The playlist of climpd (src/climpd/core/playlist/playlist.c).  A struct *)
(* playlist is the record                                                  *)
(*    vec      the tracks, vec_media: element i of the C vector is         *)
(*             vec[i + 1]                                                  *)
(*    kfy      the shuffler, see KfyOps                                    *)
(*    index    the index of the current track, NoIndex when there is none  *)
(*    repeat, shuffle                                                      *)
(* As in KfyOps a function that allocates, draws or sorts is the set of    *)
(* its outcomes.  The tag reader, which works behind the playlist's back   *)
(* and never changes it, is left out.                                      *)
(***************************************************************************)
EXTENDS KfyOps, Sequences, FiniteSets

CONSTANTS
    Tracks,             \* paths, as their rank in the order of media_compare
    IntMax              \* INT_MAX

ASSUME PlaylistAssumption ==
    /\ Tracks \subseteq Int
    /\ IntMax \in Nat
    /\ MaxSize <= IntMax        \* bound: indices of tracks fit an int

-----------------------------------------------------------------------------
(* Conversions between int and unsigned int. *)
UIntRange == 2 * IntMax + 2
UInts     == 0 .. UIntRange - 1
Ints      == -(IntMax + 1) .. IntMax

ToInt(u) == IF u > IntMax THEN u - UIntRange ELSE u

(* (unsigned int) -1 *)
NoIndex == UIntRange - 1

(* ensure_positiv_index: vector_size + i in unsigned arithmetic. *)
EnsurePositivIndex(pl, i) ==
    IF i < 0 THEN (Len(pl.vec) + i) % UIntRange ELSE i

(* What qsort and vector_sort make of s: a permutation of it in which no   *)
(* element comes before one that Less puts first.                          *)
Sorted(s, Less(_, _)) ==
    {t \in [DOMAIN s -> {s[i] : i \in DOMAIN s}] :
        /\ \A i, j \in DOMAIN s : i < j => ~ Less(t[j], t[i])
        /\ \A i \in DOMAIN s :
              Cardinality({j \in DOMAIN s : t[j] = s[i]}) =
                 Cardinality({j \in DOMAIN s : s[j] = s[i]})}

-----------------------------------------------------------------------------
(* playlist_init, where it returns 0: vector, tag reader and generator are *)
(* there, the array of the shuffler need not be.                           *)
PlaylistInit ==
    {[vec |-> <<>>, kfy |-> k, index |-> NoIndex,
      repeat |-> FALSE, shuffle |-> FALSE] : k \in KfyInit(0)}

PlaylistSize(pl) == Len(pl.vec)

(* Mutant: the shuffler keeps the tracks. *)
PlaylistClearVec(pl) == [pl EXCEPT !.vec = <<>>, !.index = NoIndex]

PlaylistClear(pl) ==
    [pl EXCEPT !.vec = <<>>, !.kfy = KfyRemove(@, @.size), !.index = NoIndex]

(* playlist_add_media after both insertions have succeeded. *)
Inserted(pl, m, kfy) == [pl EXCEPT !.vec = Append(@, m), !.kfy = kfy]

(* playlist_add: no memory for the media or in the vector, or none for the *)
(* shuffler, in which case the media is taken back from the vector.        *)
PlaylistAdd(pl, m) ==
    {IF out.ok THEN [ok |-> TRUE, pl |-> Inserted(pl, m, out.kfy)]
               ELSE [ok |-> FALSE, pl |-> pl] : out \in KfyAdd(pl.kfy, 1)}
    \cup {[ok |-> FALSE, pl |-> pl]}

(* playlist_remove: an index behind the last track is ignored, and index,  *)
(* the current track, stays as it is.                                      *)
PlaylistRemove(pl, index) ==
    LET i == EnsurePositivIndex(pl, index)
    IN  IF i < PlaylistSize(pl)
        THEN [pl EXCEPT !.vec = SubSeq(@, 1, i) \o SubSeq(@, i + 2, Len(@)),
                        !.kfy = KfyRemove(@, 1)]
        ELSE pl

(* playlist_remove of indices[1], indices[2], ... in this order, but for   *)
(* those at the places in skip.                                            *)
RemoveEach(pl, indices, skip) ==
    LET after[n \in 0 .. Len(indices)] ==
            IF n = 0 THEN pl
            ELSE IF n \in skip THEN after[n - 1]
            ELSE PlaylistRemove(after[n - 1], indices[n])
    IN  after[Len(indices)]

(* Mutant: an index named twice is removed twice. *)
PlaylistRemoveRepeated(pl, indices) ==
    LET positive == [n \in DOMAIN indices |-> ToInt(EnsurePositivIndex(pl, indices[n]))]
    IN  {RemoveEach(pl, s, {}) : s \in Sorted(positive, LAMBDA x, y : x > y)}

(* playlist_remove_array.  The indices are made positive first, so that    *)
(* all of them mean the tracks they meant before the first removal; they   *)
(* are still ints, and one that is negative even so is made positive again *)
(* by playlist_remove, in a playlist of another size.                      *)
PlaylistRemoveArray(pl, indices) ==
    LET positive == [n \in DOMAIN indices |-> ToInt(EnsurePositivIndex(pl, indices[n]))]
        Repeated(s) == {n \in 2 .. Len(s) : s[n - 1] = s[n]}
    IN  IF indices = <<>> \/ pl.vec = <<>> THEN {pl}
        ELSE {RemoveEach(pl, s, Repeated(s)) :
                 s \in Sorted(positive, LAMBDA x, y : x > y)}

(* The loop of playlist_load_file over lines that all can be added. *)
AddEach(pl, lines) ==
    LET after[n \in 0 .. Len(lines)] ==
            IF n = 0 THEN pl
            ELSE Inserted(after[n - 1], lines[n], KfyAdded(after[n - 1].kfy, 1))
    IN  after[Len(lines)]

(* Mutant: one line too few is removed. *)
RollBackShort(pl, n) == RemoveEach(pl, [i \in 1 .. n |-> -1], {1})

(* cleanup1: the n lines added so far are removed again, from the end. *)
RollBack(pl, n) == RemoveEach(pl, [i \in 1 .. n |-> -1], {})

(***************************************************************************)
(* playlist_load_file.  A file is the sequence of its lines that are not   *)
(* blank and not comments; a line that is no track is neither an absolute  *)
(* path nor a URI.  The load ends at the first such line or at the first   *)
(* line for which there is no memory.                                      *)
(***************************************************************************)
LoadStops(lines) ==
    {n \in 1 .. Len(lines) : \A i \in 1 .. n - 1 : lines[i] \in Tracks}

LoadFile(pl, lines) ==
    {[ok |-> FALSE, pl |-> RollBack(AddEach(pl, SubSeq(lines, 1, n - 1)), n - 1)] :
        n \in LoadStops(lines)}
    \cup {[ok |-> TRUE, pl |-> AddEach(pl, l)] :
             l \in {lines} \cap Seq(Tracks)}

(* playlist_save: the file is emptied and written line by line, and nobody *)
(* looks whether a line was written; a disk that fills up ends it early.   *)
(* When the file cannot be opened it keeps what it had.                    *)
PlaylistSave(pl, file) ==
    {file} \cup {SubSeq(pl.vec, 1, n) : n \in 0 .. PlaylistSize(pl)}

SetIndex(pl, index) == [pl EXCEPT !.index = EnsurePositivIndex(pl, index)]

(* Whether playlist_at returns a track and not NULL. *)
HasTrack(pl, index) == EnsurePositivIndex(pl, index) < PlaylistSize(pl)

PlaylistAt(pl, index) == pl.vec[EnsurePositivIndex(pl, index) + 1]

(* playlist_next, by mode.  At the end of a playlist that is not repeated  *)
(* the shuffler is refilled but index keeps naming the last track; in      *)
(* sequential order index is reset.                                        *)
NextShuffled(pl) ==
    IF KfyCycleDone(pl.kfy) /\ ~ pl.repeat
    THEN {[ret |-> NoIndex, pl |-> [pl EXCEPT !.kfy = k]] : k \in KfyReset(pl.kfy)}
    ELSE {[ret |-> out.val, pl |-> [pl EXCEPT !.kfy = out.kfy, !.index = out.val]] :
             out \in KfyShuffle(pl.kfy)}

(* Mutants: the end is noticed one track too late; a playlist that is      *)
(* repeated starts over at its last track.                                 *)
NextInOrderLate(pl) ==
    LET succ  == (pl.index + 1) % UIntRange
        index == IF succ <= PlaylistSize(pl) THEN succ
                 ELSE IF pl.repeat THEN 0 ELSE NoIndex
    IN  {[ret |-> index, pl |-> [pl EXCEPT !.index = index]]}

NextInOrderSticks(pl) ==
    LET succ  == (pl.index + 1) % UIntRange
        index == IF succ < PlaylistSize(pl) THEN succ
                 ELSE IF pl.repeat THEN PlaylistSize(pl) - 1 ELSE NoIndex
    IN  {[ret |-> index, pl |-> [pl EXCEPT !.index = index]]}

NextInOrder(pl) ==
    LET succ  == (pl.index + 1) % UIntRange
        index == IF succ < PlaylistSize(pl) THEN succ
                 ELSE IF pl.repeat THEN 0 ELSE NoIndex
    IN  {[ret |-> index, pl |-> [pl EXCEPT !.index = index]]}

PlaylistNext(pl) ==
    IF pl.vec = <<>> THEN {[ret |-> NoIndex, pl |-> pl]}
    ELSE IF pl.shuffle THEN NextShuffled(pl) ELSE NextInOrder(pl)

(* Mutant: the current index survives. *)
PlaylistSortOnly(pl) ==
    {[pl EXCEPT !.vec = s, !.kfy = k] :
        s \in Sorted(pl.vec, LAMBDA x, y : x < y), k \in KfyReset(pl.kfy)}

PlaylistSort(pl) ==
    {[pl EXCEPT !.vec = s, !.kfy = k, !.index = NoIndex] :
        s \in Sorted(pl.vec, LAMBDA x, y : x < y), k \in KfyReset(pl.kfy)}

-----------------------------------------------------------------------------
PlaylistType(pl) ==
    /\ pl = [vec |-> pl.vec, kfy |-> pl.kfy, index |-> pl.index,
             repeat |-> pl.repeat, shuffle |-> pl.shuffle]
    /\ pl.vec \in Seq(Tracks)
    /\ KfyType(pl.kfy)
    /\ pl.index \in UInts
    /\ pl.repeat \in BOOLEAN /\ pl.shuffle \in BOOLEAN

(* The asserts "INVALID SIZE" of playlist.c, and that the shuffler is one. *)
PlaylistSound(pl) ==
    /\ PlaylistSize(pl) = pl.kfy.size
    /\ KfySound(pl.kfy)
=============================================================================
