---------------------------- MODULE ShuffleCycle ----------------------------
(***************************************************************************)
(* What a track shuffler promises, without the array that implements it    *)
(* (src/climpd/core/playlist/kfy.h, and the way playlist.c uses it): size  *)
(* tracks, of which those in remaining have not been drawn in this cycle.  *)
(* A draw takes any remaining track, a cycle ends when none remains, and   *)
(* the next draw starts another one with all tracks.                       *)
(***************************************************************************)
EXTENDS Integers, FiniteSets

CONSTANT MaxSize        \* bound: how many tracks there are

VARIABLES
    size,               \* tracks are 0, ..., size - 1
    remaining           \* those not drawn since the cycle began

vars == <<size, remaining>>

Tracks(n) == 0 .. n - 1

Init == size \in 0 .. MaxSize /\ remaining = Tracks(size)

(* A new cycle begins. *)
Reset == remaining' = Tracks(size) /\ UNCHANGED size

(* Some track of the cycle, of a new one if this one is over, is drawn. *)
Draw(val) ==
    LET pool == IF remaining = {} THEN Tracks(size) ELSE remaining
    IN  /\ val \in pool
        /\ remaining' = pool \ {val}
        /\ UNCHANGED size

(* New tracks come last and join the current cycle. *)
Add(cnt) ==
    /\ size' = size + cnt
    /\ remaining' = remaining \cup size .. size' - 1

(* The last cnt numbers disappear; which tracks remain in the cycle is not *)
(* promised, only how many: cnt fewer, if there were so many.              *)
Remove(cnt) ==
    /\ cnt \in 1 .. size
    /\ size' = size - cnt
    /\ remaining' \in SUBSET Tracks(size')
    /\ Cardinality(remaining') =
          IF Cardinality(remaining) >= cnt THEN Cardinality(remaining) - cnt ELSE 0

Next ==
    \/ Reset
    \/ \E val \in Tracks(MaxSize) : Draw(val)
    \/ \E cnt \in 1 .. MaxSize : Add(cnt) \/ Remove(cnt)

Spec == Init /\ [][Next]_vars
=============================================================================
