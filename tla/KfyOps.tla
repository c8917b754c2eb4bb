------------------------------- MODULE KfyOps -------------------------------
(***************************************************************************)
(* The track shuffler of climpd (src/climpd/core/playlist/kfy.c): a Knuth- *)
(* Fisher-Yates bag.  Cells a[0], ..., a[end-1] of an array hold the track *)
(* indices that have not been drawn in the current cycle; the cells from   *)
(* end on hold whatever was left there and are never read.                 *)
(*                                                                         *)
(* The functions of kfy.c are operators on the value of a struct kfy, the  *)
(* record [a, end, size, capacity], so that the playlist, which embeds one *)
(* can compose them.  An operator whose C function calls the random number *)
(* generator or the allocator returns the set of its possible outcomes.    *)
(***************************************************************************)
EXTENDS Integers

CONSTANTS
    KfyMinCapacity,     \* KFY_MIN_CAPACITY, the capacity of an empty bag
    Capacities,         \* the capacities next_pow_2 can return
    MaxSize             \* bound: how many tracks a bag is asked to hold

(***************************************************************************)
(* The array lengths are KfyMinCapacity and its doublings, as far as       *)
(* MaxSize needs them.                                                     *)
(***************************************************************************)
ASSUME CapacityAssumption ==
    /\ MaxSize \in Nat
    /\ Capacities \subseteq Nat \ {0}
    /\ KfyMinCapacity \in Capacities
    /\ \A c \in Capacities :
          /\ KfyMinCapacity <= c
          /\ c = KfyMinCapacity \/ \E d \in Capacities : c = 2 * d
    /\ \A val \in 0 .. MaxSize : \E c \in Capacities : val < c

(* A cell that malloc or realloc returned and nothing has written yet. *)
Uninit == -1

-----------------------------------------------------------------------------
NextPow2(val) ==
    CHOOSE c \in Capacities :
        val < c /\ \A d \in Capacities : val < d => c <= d

(* realloc of the array to cap cells: the common prefix survives. *)
Realloc(a, cap) ==
    [i \in 0 .. cap - 1 |-> IF i \in DOMAIN a THEN a[i] ELSE Uninit]

(* The loops that set a[i] = i for every i below n. *)
Renumber(a, n) == [i \in DOMAIN a |-> IF i < n THEN i ELSE a[i]]

(* A struct kfy of zeros, with NULL for an array. *)
NoBag == [a |-> [i \in {} |-> Uninit], end |-> 0, size |-> 0, capacity |-> 0]

(* kfy_init.  When malloc fails it returns errno, which is positive, and   *)
(* playlist_init takes that for success: it goes on with the zeros its     *)
(* memset has left, and with a generator that random_destroy was called on *)
(* (what it draws is taken to stay between its bounds).  When random_init  *)
(* fails there is no playlist, and no daemon.                              *)
KfyInit(size) ==
    LET cap == NextPow2(size)
    IN  {[a        |-> [i \in 0 .. cap - 1 |-> IF i < size THEN i ELSE Uninit],
          end      |-> size,
          size     |-> size,
          capacity |-> cap],
         NoBag}

(* Mutant: the capacity is not divided by four. *)
WantsShrinkAlways(k) == k.size < k.capacity /\ k.size >= KfyMinCapacity

(* The condition of kfy_reset; capacity >> 2 is capacity \div 4. *)
WantsShrink(k) == k.size < k.capacity \div 4 /\ k.size >= KfyMinCapacity

(* kfy_reset: every track goes back into the bag; a bag much too large asks *)
(* realloc for a smaller array and keeps the old one when that fails.       *)
KfyReset(k) ==
    LET Refill(a, cap) == [a        |-> Renumber(a, k.size),
                           end      |-> k.size,
                           size     |-> k.size,
                           capacity |-> cap]
        fit == NextPow2(k.size)
    IN  {Refill(k.a, k.capacity)} \cup
        {Refill(Realloc(k.a, cap), cap) : cap \in IF WantsShrink(k) THEN {fit} ELSE {}}

KfyCycleDone(k) == k.end = 0

(* Mutant: the last live cell is dropped, whichever was drawn. *)
TakeLast(k, i) ==
    [val |-> k.a[i],
     kfy |-> [a |-> k.a, end |-> k.end - 1, size |-> k.size, capacity |-> k.capacity]]

(* Taking cell i out of the bag: the last live cell moves into its place. *)
Take(k, i) ==
    [val |-> k.a[i],
     kfy |-> [a        |-> [k.a EXCEPT ![i] = k.a[k.end - 1]],
              end      |-> k.end - 1,
              size     |-> k.size,
              capacity |-> k.capacity]]

(* kfy_shuffle; random_uint_range(0, end) may return both of its bounds. *)
KfyShuffle(k) ==
    UNION {{Take(b, i) : i \in 0 .. b.end - 1} :
              b \in IF KfyCycleDone(k) THEN KfyReset(k) ELSE {k}}

(* kfy_add: the new indices go behind the live cells. *)
PutBehind(k, a, cnt, cap) ==
    [a        |-> [i \in DOMAIN a |-> IF i \in k.end .. k.end + cnt - 1
                                      THEN k.size + i - k.end ELSE a[i]],
     end      |-> k.end + cnt,
     size     |-> k.size + cnt,
     capacity |-> cap]

NeedsGrowth(k, cnt) == k.size + cnt >= k.capacity

KfyAdded(k, cnt) ==
    IF NeedsGrowth(k, cnt)
    THEN LET cap == NextPow2(k.size + cnt)
         IN  PutBehind(k, Realloc(k.a, cap), cnt, cap)
    ELSE PutBehind(k, k.a, cnt, k.capacity)

(* The outcomes of kfy_add: only a growing array can run out of memory. *)
KfyAdd(k, cnt) ==
    {[ok |-> TRUE, kfy |-> KfyAdded(k, cnt)]} \cup
    (IF NeedsGrowth(k, cnt) THEN {[ok |-> FALSE, kfy |-> k]} ELSE {})

(* Mutants: the cells keep indices of tracks that are gone; a removal puts *)
(* all tracks back into the bag.                                           *)
KfyRemoveStale(k, cnt) ==
    [a        |-> k.a,
     end      |-> IF k.end >= cnt THEN k.end - cnt ELSE 0,
     size     |-> k.size - cnt,
     capacity |-> k.capacity]

KfyRemoveRefill(k, cnt) ==
    [a        |-> Renumber(k.a, k.size - cnt),
     end      |-> k.size - cnt,
     size     |-> k.size - cnt,
     capacity |-> k.capacity]

KfyRemove(k, cnt) ==
    LET end == IF k.end >= cnt THEN k.end - cnt ELSE 0
    IN  IF cnt = 0 THEN k
        ELSE [a        |-> Renumber(k.a, end),
              end      |-> end,
              size     |-> k.size - cnt,
              capacity |-> k.capacity]

-----------------------------------------------------------------------------
(* The numbers in the cells a[0], ..., a[end-1], and that these are distinct *)
(* indices of one of size tracks.                                           *)
Cells(a, end) == {a[i] : i \in 0 .. end - 1}

DistinctBelow(a, end, size) ==
    /\ \A i \in 0 .. end - 1 : a[i] \in 0 .. size - 1
    /\ \A i, j \in 0 .. end - 1 : a[i] = a[j] => i = j

(* The tracks that can still be drawn in this cycle. *)
Remaining(k) == Cells(k.a, k.end)

(* How long the array can be: the first kfy_add allocates a missing one.   *)
Lengths == Capacities \cup {0}

KfyType(k) ==
    \E c \in Lengths :
        k \in [a        : [0 .. c - 1 -> {Uninit} \cup Nat],
               end      : 0 .. MaxSize,
               size     : 0 .. MaxSize,
               capacity : {c}]

(***************************************************************************)
(* What every function of kfy.c relies on and re-establishes: the array is *)
(* as long as capacity says and has a cell to spare while there are tracks;*)
(* the live cells are initialised, distinct and name tracks that exist.    *)
(***************************************************************************)
KfySound(k) ==
    /\ k.size < k.capacity \/ k.size = 0
    /\ k.end <= k.size
    /\ DistinctBelow(k.a, k.end, k.size)
=============================================================================
