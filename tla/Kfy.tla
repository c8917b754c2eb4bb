--------------------------------- MODULE Kfy ---------------------------------
(***************************************************************************)
(* A shuffler in use: the calls that playlist.c makes on a struct kfy, in  *)
(* any order, with every outcome of the allocator and of the random number *)
(* generator.  Two history variables record what was heard of the cycle.   *)
(***************************************************************************)
EXTENDS KfyOps

VARIABLES
    kfy,                \* the struct kfy
    drawn,              \* history: what kfy_shuffle returned in this cycle
    intact              \* history: no track was removed since it began

vars == <<kfy, drawn, intact>>

Init ==
    /\ kfy \in KfyInit(0)
    /\ drawn = {}
    /\ intact = TRUE

Reset ==
    /\ kfy' \in KfyReset(kfy)
    /\ drawn' = {}
    /\ intact' = TRUE

(* playlist_next never draws from an empty playlist. *)
Shuffle ==
    /\ kfy.size > 0
    /\ \E out \in KfyShuffle(kfy) :
          /\ kfy' = out.kfy
          /\ drawn' = IF KfyCycleDone(kfy) THEN {out.val} ELSE drawn \cup {out.val}
    /\ intact' = (intact \/ KfyCycleDone(kfy))

Add(cnt) ==
    /\ kfy.size + cnt <= MaxSize
    /\ \E out \in KfyAdd(kfy, cnt) : kfy' = out.kfy
    /\ UNCHANGED <<drawn, intact>>

Remove(cnt) ==
    /\ cnt <= kfy.size          \* assert, kfy.c:150
    /\ kfy' = KfyRemove(kfy, cnt)
    /\ drawn' = {}
    /\ intact' = (cnt = kfy.size)

Next ==
    \/ Reset
    \/ Shuffle
    \/ \E cnt \in 1 .. MaxSize : Add(cnt) \/ Remove(cnt)

Spec == Init /\ [][Next]_vars

-----------------------------------------------------------------------------
(* The struct stays well-formed, whatever is called on it and whichever    *)
(* allocations fail, the one of kfy_init, whose failure goes unnoticed,    *)
(* included: no function of kfy.c reads an unwritten cell, writes behind   *)
(* the array or hands out the index of a track that is not there.          *)
TypeOK ==
    /\ KfyType(kfy)
    /\ KfySound(kfy)
    /\ drawn \in SUBSET (0 .. MaxSize)
    /\ intact \in BOOLEAN

(* Shuffle play is fair: while no track is removed, the tracks heard since *)
(* the cycle began and those still to come are disjoint and are together   *)
(* all tracks, including the ones added meanwhile.  So every track is      *)
(* heard exactly once per cycle (kfy_shuffle, kfy_add, kfy_reset).         *)
CycleIsPermutation ==
    intact => /\ drawn \cap Remaining(kfy) = {}
              /\ drawn \cup Remaining(kfy) = 0 .. kfy.size - 1

(* The asserts on capacities in kfy_reset and kfy_add hold for whatever is *)
(* called next: a shrinking array gets smaller, a growing one larger, and  *)
(* the new one can hold the tracks.                                        *)
CapacityAssertsHold ==
    /\ WantsShrink(kfy) => NextPow2(kfy.size) < kfy.capacity
    /\ \A cnt \in 0 .. MaxSize - kfy.size :
          NeedsGrowth(kfy, cnt) => NextPow2(kfy.size + cnt) > kfy.capacity

(* A cycle loses no more tracks than were removed and gains exactly those  *)
(* that were added: the array implements the abstract shuffler.            *)
Abstract == INSTANCE ShuffleCycle WITH
    size <- kfy.size, remaining <- Remaining(kfy)

ImplementsShuffleCycle == Abstract!Spec
=============================================================================
