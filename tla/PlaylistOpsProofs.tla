--------------------------- MODULE PlaylistOpsProofs ---------------------------
(***************************************************************************)
(* Every function of kfy.c and of playlist.c keeps shuffler and playlist   *)
(* well-formed, and what each does to the tracks, to those still to be     *)
(* drawn and to the current one.  The proofs about the shuffler in use     *)
(* (KfyProofs), the playlist in use (PlaylistProofs) and the daemon        *)
(* (ClimpdProofs) cite these lemmas by name.                               *)
(*                                                                         *)
(* The loops of playlist.c are recursive functions on 0 .. n.  A lemma     *)
(* "...Runs" says for each that there is such a function and what it does  *)
(* in one step; what holds after every step then follows by UpTo.          *)
(***************************************************************************)
EXTENDS PlaylistOps, TLAPS, WellFoundedInduction, SequenceTheorems, FiniteSetTheorems

-----------------------------------------------------------------------------
(* The shuffler, one lemma per function of kfy.c. *)

(* The part of the assumption that says what kind of values these are. *)
LEMMA CapacityTypes ==
    /\ MaxSize \in Nat
    /\ KfyMinCapacity \in Nat
    /\ \A c \in Capacities : c \in Nat /\ c > 0
    /\ Capacities \subseteq Lengths /\ Lengths \subseteq Nat
  BY CapacityAssumption DEF Lengths

(* next_pow_2 returns the smallest capacity that is larger than val. *)
LEMMA NextPow2Least ==
    ASSUME NEW val \in 0 .. MaxSize
    PROVE  /\ NextPow2(val) \in Capacities
           /\ val < NextPow2(val)
           /\ \A d \in Capacities : val < d => NextPow2(val) <= d
<1> DEFINE C == {c \in Capacities : val < c}
<1>1. PICK x \in C : \A y \in C : ~ (<<y, x>> \in OpToRel(<, Nat))
  <2>1. IsWellFoundedOn(OpToRel(<, Nat), Nat)
    BY NatLessThanWellFounded
  <2>2. C \subseteq Nat /\ C # {}
    BY CapacityAssumption
  <2>3. QED
    BY <2>1, <2>2, WFMin
<1>2. \A y \in C : y < x => <<y, x>> \in OpToRel(<, Nat)
  BY CapacityAssumption DEF OpToRel
<1>3. \A y \in C : ~ (y < x)
  BY <1>1, <1>2, Zenon
<1>4. \A d \in Capacities : val < d => x <= d
  BY <1>3, CapacityAssumption
<1>5. \E c \in Capacities : val < c /\ \A d \in Capacities : val < d => c <= d
  BY <1>4
<1>6. QED
  BY <1>5 DEF NextPow2

(* It is at most twice its argument once that has reached the minimum,     *)
(* which is what lets kfy_reset assert that it shrinks the array.          *)
LEMMA NextPow2AtMostDouble ==
    ASSUME NEW val \in 0 .. MaxSize, val >= KfyMinCapacity
    PROVE  NextPow2(val) <= 2 * val
<1> DEFINE cap == NextPow2(val)
<1>1. /\ cap \in Capacities /\ val < cap
      /\ \A d \in Capacities : val < d => cap <= d
  BY NextPow2Least
<1>2. KfyMinCapacity \in Nat /\ val \in Nat /\ Capacities \subseteq Nat \ {0}
  BY CapacityAssumption
<1> HIDE DEF cap
<1>3. PICK d \in Capacities : cap = 2 * d
  BY <1>1, <1>2, CapacityAssumption
<1>4. ~ (val < d)
  BY <1>1, <1>2, <1>3
<1>5. cap <= 2 * val
  BY <1>2, <1>3, <1>4
<1>6. QED
  BY <1>5 DEF cap

LEMMA ReallocType ==
    ASSUME NEW c \in Lengths, NEW d \in Capacities,
           NEW a \in [0 .. c - 1 -> {Uninit} \cup Nat]
    PROVE  /\ Realloc(a, d) \in [0 .. d - 1 -> {Uninit} \cup Nat]
           /\ \A i \in 0 .. c - 1 : i < d => Realloc(a, d)[i] = a[i]
  BY CapacityTypes DEF Realloc

(* kfy_init builds a full bag, or leaves an empty one without an array. *)
LEMMA KfyInitSound ==
    ASSUME NEW k \in KfyInit(0)
    PROVE  /\ KfyType(k) /\ KfySound(k)
           /\ k.size = 0
           /\ Remaining(k) = 0 .. k.size - 1
<1> DEFINE cap == NextPow2(0)
<1>1. 0 \in 0 .. MaxSize /\ 0 \in Lengths
  BY CapacityTypes DEF Lengths
<1>2. cap \in Lengths /\ cap \in Nat
  BY <1>1, NextPow2Least, CapacityTypes
<1>3. PICK c \in {0, cap} :
          k = [a |-> [i \in 0 .. c - 1 |-> Uninit], end |-> 0, size |-> 0, capacity |-> c]
  <2>1. CASE k = NoBag
    BY <2>1 DEF NoBag
  <2>2. CASE k = [a        |-> [i \in 0 .. cap - 1 |-> IF i < 0 THEN i ELSE Uninit],
                  end      |-> 0,
                  size     |-> 0,
                  capacity |-> cap]
    <3>1. [i \in 0 .. cap - 1 |-> IF i < 0 THEN i ELSE Uninit]
             = [i \in 0 .. cap - 1 |-> Uninit]
      BY <1>2
    <3>2. QED
      BY <2>2, <3>1
  <2>3. QED
    BY <2>1, <2>2 DEF KfyInit
<1> HIDE DEF cap
<1>4. KfyType(k)
  BY <1>1, <1>2, <1>3 DEF KfyType
<1>5. KfySound(k)
  BY <1>3 DEF KfySound, DistinctBelow
<1>6. Remaining(k) = 0 .. k.size - 1
  BY <1>3 DEF Remaining, Cells
<1>7. QED
  BY <1>3, <1>4, <1>5, <1>6

(* The fields of a well-typed shuffler. *)
LEMMA KfyFields ==
    ASSUME NEW k, KfyType(k)
    PROVE  /\ k.capacity \in Lengths /\ k.capacity \in Nat
           /\ k.a \in [0 .. k.capacity - 1 -> {Uninit} \cup Nat]
           /\ k.size \in 0 .. MaxSize /\ k.size \in Nat
           /\ k.end \in 0 .. MaxSize /\ k.end \in Nat
           /\ k = [a |-> k.a, end |-> k.end, size |-> k.size, capacity |-> k.capacity]
<1>1. PICK c \in Lengths :
          k \in [a : [0 .. c - 1 -> {Uninit} \cup Nat], end : 0 .. MaxSize,
                 size : 0 .. MaxSize, capacity : {c}]
  BY DEF KfyType
<1>2. QED
  BY <1>1, CapacityTypes

(* A bag of n fresh tracks in an array that is long enough for them. *)
LEMMA FullBag ==
    ASSUME NEW c \in Lengths, NEW n \in 0 .. MaxSize, n < c \/ n = 0,
           NEW a \in [0 .. c - 1 -> {Uninit} \cup Nat]
    PROVE  LET b == [a |-> Renumber(a, n), end |-> n, size |-> n, capacity |-> c]
           IN  KfyType(b) /\ KfySound(b) /\ Remaining(b) = 0 .. n - 1
<1> DEFINE b == [a |-> Renumber(a, n), end |-> n, size |-> n, capacity |-> c]
<1>1. n \in Nat /\ c \in Nat
  BY CapacityTypes
<1>2. Renumber(a, n) \in [0 .. c - 1 -> {Uninit} \cup Nat]
  BY <1>1 DEF Renumber
<1>3. \A i \in 0 .. n - 1 : Renumber(a, n)[i] = i
  BY <1>1 DEF Renumber
<1>4. KfyType(b)
  BY <1>2 DEF KfyType
<1>5. KfySound(b)
  BY <1>1, <1>3 DEF KfySound, DistinctBelow
<1>6. Remaining(b) = 0 .. n - 1
  BY <1>1, <1>3 DEF Remaining, Cells
<1>7. QED
  BY <1>4, <1>5, <1>6

(* The shrinking array of kfy_reset gets smaller and still has a cell to   *)
(* spare: the assert in kfy_reset holds.                                   *)
LEMMA ShrinkIsSmaller ==
    ASSUME NEW k, KfyType(k), WantsShrink(k)
    PROVE  NextPow2(k.size) < k.capacity
<1>1. NextPow2(k.size) <= 2 * k.size
  BY KfyFields, NextPow2AtMostDouble DEF WantsShrink
<1>2. NextPow2(k.size) \in Nat
  BY KfyFields, NextPow2Least, CapacityTypes
<1>3. QED
  BY <1>1, <1>2, KfyFields DEF WantsShrink

(* The array kfy_add asks for is larger than the one it has. *)
LEMMA GrowthIsLarger ==
    ASSUME NEW k, KfyType(k), NEW cnt \in Nat, k.size + cnt <= MaxSize,
           NeedsGrowth(k, cnt)
    PROVE  NextPow2(k.size + cnt) > k.capacity
<1>1. k.size + cnt \in 0 .. MaxSize
  BY KfyFields, CapacityTypes
<1>2. /\ k.size + cnt < NextPow2(k.size + cnt)
      /\ NextPow2(k.size + cnt) \in Nat
  BY <1>1, NextPow2Least, CapacityTypes
<1>3. QED
  BY <1>2, KfyFields DEF NeedsGrowth

(* kfy_reset puts every track back into the bag. *)
LEMMA KfyResetSound ==
    ASSUME NEW k, KfyType(k), KfySound(k), NEW b \in KfyReset(k)
    PROVE  /\ KfyType(b) /\ KfySound(b)
           /\ b.size = k.size /\ b.end = k.size
           /\ Remaining(b) = 0 .. k.size - 1
<1> DEFINE Refill(a, cap) == [a |-> Renumber(a, k.size), end |-> k.size,
                              size |-> k.size, capacity |-> cap]
           fit == NextPow2(k.size)
<1>1. PICK a, c : /\ b = Refill(a, c)
                  /\ c \in Lengths /\ (k.size < c \/ k.size = 0)
                  /\ a \in [0 .. c - 1 -> {Uninit} \cup Nat]
  <2>1. CASE b = Refill(k.a, k.capacity)
    BY <2>1, KfyFields DEF KfySound, DistinctBelow
  <2>2. CASE b = Refill(Realloc(k.a, fit), fit)
    <3>1. fit \in Capacities /\ k.size < fit
      BY NextPow2Least, KfyFields
    <3>2. Realloc(k.a, fit) \in [0 .. fit - 1 -> {Uninit} \cup Nat]
      BY <3>1, ReallocType, KfyFields
    <3>3. QED
      BY <2>2, <3>1, <3>2, CapacityTypes
  <2>3. QED
    BY <2>1, <2>2 DEF KfyReset
<1>2. KfyType(b) /\ KfySound(b) /\ Remaining(b) = 0 .. k.size - 1
  BY <1>1, FullBag, KfyFields
<1>3. QED
  BY <1>1, <1>2

(* Taking a live cell out of the bag keeps the others. *)
LEMMA TakeSound ==
    ASSUME NEW k, KfyType(k), KfySound(k), NEW i \in 0 .. k.end - 1
    PROVE  LET out == Take(k, i)
           IN  /\ KfyType(out.kfy) /\ KfySound(out.kfy)
               /\ out.kfy.size = k.size /\ out.kfy.end = k.end - 1
               /\ out.val \in Remaining(k)
               /\ Remaining(out.kfy) = Remaining(k) \ {out.val}
<1> DEFINE a == [k.a EXCEPT ![i] = k.a[k.end - 1]]
           b == [a |-> a, end |-> k.end - 1, size |-> k.size, capacity |-> k.capacity]
<1>1. /\ k.capacity \in Lengths /\ k.capacity \in Nat
      /\ k.size \in Nat /\ k.end \in 1 .. MaxSize /\ k.end \in Nat
      /\ k.size \in 0 .. MaxSize /\ MaxSize \in Nat
      /\ k.a \in [0 .. k.capacity - 1 -> {Uninit} \cup Nat]
      /\ k.end <= k.size /\ k.size < k.capacity
  BY KfyFields, CapacityTypes DEF KfySound, DistinctBelow
<1>2. Take(k, i) = [val |-> k.a[i], kfy |-> b]
  BY DEF Take
<1>3. a \in [0 .. k.capacity - 1 -> {Uninit} \cup Nat]
  BY <1>1
<1>4. KfyType(b)
  BY <1>1, <1>3 DEF KfyType
<1>5. /\ \A j \in 0 .. k.end - 1 : k.a[j] \in 0 .. k.size - 1
      /\ \A j, l \in 0 .. k.end - 1 : k.a[j] = k.a[l] => j = l
  BY DEF KfySound, DistinctBelow
<1>6. /\ k.end - 1 \in 0 .. k.end - 1
      /\ \A j \in 0 .. k.end - 2 :
            /\ j \in 0 .. k.end - 1 /\ j # k.end - 1
            /\ a[j] = IF j = i THEN k.a[k.end - 1] ELSE k.a[j]
  BY <1>1
<1>7. 0 .. b.end - 1 = 0 .. k.end - 2 /\ b.a = a /\ b.size = k.size
  BY <1>1
<1> HIDE DEF a
<1>8. KfySound(b)
  <2>1. \A j \in 0 .. k.end - 2 : a[j] \in 0 .. k.size - 1
    BY <1>5, <1>6
  <2>2. \A j, l \in 0 .. k.end - 2 : a[j] = a[l] => j = l
    BY <1>5, <1>6
  <2>3. DistinctBelow(a, k.end - 1, k.size)
    BY <1>7, <2>1, <2>2 DEF DistinctBelow
  <2>4. k.end - 1 <= k.size
    BY <1>1
  <2>5. QED
    BY <1>1, <2>3, <2>4 DEF KfySound
<1>9. Remaining(b) = Remaining(k) \ {k.a[i]}
  <2>1. Remaining(b) \subseteq Remaining(k) \ {k.a[i]}
    <3>1. SUFFICES ASSUME NEW j \in 0 .. k.end - 2
                   PROVE  a[j] \in Remaining(k) \ {k.a[i]}
      BY <1>7 DEF Remaining, Cells
    <3>2. a[j] \in Remaining(k)
      BY <1>6 DEF Remaining, Cells
    <3>3. a[j] # k.a[i]
      BY <1>5, <1>6
    <3>4. QED
      BY <3>2, <3>3
  <2>2. Remaining(k) \ {k.a[i]} \subseteq Remaining(b)
    <3>1. SUFFICES ASSUME NEW j \in 0 .. k.end - 1, j # i
                   PROVE  k.a[j] \in Remaining(b)
      BY DEF Remaining, Cells
    <3>2. CASE j = k.end - 1
      <4>1. i \in 0 .. b.end - 1 /\ b.a[i] = k.a[j]
        BY <1>1, <1>6, <1>7, <3>1, <3>2
      <4>2. QED
        BY <4>1 DEF Remaining, Cells
    <3>3. CASE j # k.end - 1
      <4>1. j \in 0 .. b.end - 1 /\ b.a[j] = k.a[j]
        BY <1>1, <1>6, <1>7, <3>1, <3>3
      <4>2. QED
        BY <4>1 DEF Remaining, Cells
    <3>4. QED
      BY <3>2, <3>3
  <2>3. QED
    BY <2>1, <2>2
<1>10. k.a[i] \in Remaining(k)
  BY DEF Remaining, Cells
<1>11. QED
  BY <1>2, <1>4, <1>8, <1>9, <1>10

(* kfy_shuffle draws a track of the cycle, of a new one if this is over. *)
LEMMA KfyShuffleSound ==
    ASSUME NEW k, KfyType(k), KfySound(k), k.size > 0, NEW out \in KfyShuffle(k)
    PROVE  LET pool == IF KfyCycleDone(k) THEN 0 .. k.size - 1 ELSE Remaining(k)
           IN  /\ KfyType(out.kfy) /\ KfySound(out.kfy)
               /\ out.kfy.size = k.size
               /\ out.val \in pool
               /\ Remaining(out.kfy) = pool \ {out.val}
<1>1. PICK b \in IF KfyCycleDone(k) THEN KfyReset(k) ELSE {k} :
          \E i \in 0 .. b.end - 1 : out = Take(b, i)
  BY DEF KfyShuffle
<1>2. PICK i \in 0 .. b.end - 1 : out = Take(b, i)
  BY <1>1
<1>3. CASE KfyCycleDone(k)
  <2>1. /\ KfyType(b) /\ KfySound(b) /\ b.size = k.size
        /\ Remaining(b) = 0 .. k.size - 1
    BY <1>1, <1>3, KfyResetSound
  <2>2. QED
    BY <1>2, <1>3, <2>1, TakeSound
<1>4. CASE ~ KfyCycleDone(k)
  BY <1>1, <1>2, <1>4, TakeSound
<1>5. QED
  BY <1>3, <1>4

(* The numbers from n to n+cnt-1 written behind e distinct ones below n. *)
CellsWritten(e, n, cnt, old, new) ==
    /\ \A i \in 0 .. e - 1 : new[i] = old[i]
    /\ \A i \in e .. e + cnt - 1 : new[i] = n + i - e

LEMMA CellsBehind ==
    ASSUME NEW e \in Nat, NEW n \in Nat, NEW cnt \in Nat, NEW old, NEW new,
           DistinctBelow(old, e, n), CellsWritten(e, n, cnt, old, new)
    PROVE  /\ DistinctBelow(new, e + cnt, n + cnt)
           /\ Cells(new, e + cnt) = Cells(old, e) \cup n .. n + cnt - 1
<1> USE DEF CellsWritten, DistinctBelow, Cells
<1>1. \A i \in 0 .. e + cnt - 1 :
         \/ i \in 0 .. e - 1 /\ new[i] = old[i] /\ new[i] \in 0 .. n - 1
         \/ /\ i \in e .. e + cnt - 1 /\ new[i] = n + i - e
            /\ new[i] \in n .. n + cnt - 1
  OBVIOUS
<1>2. \A i \in 0 .. e + cnt - 1 : new[i] \in 0 .. n + cnt - 1
  BY <1>1
<1>3. ASSUME NEW i \in 0 .. e + cnt - 1, NEW j \in 0 .. e + cnt - 1, new[i] = new[j]
      PROVE  i = j
  BY <1>1, <1>3
<1>4. {new[i] : i \in 0 .. e + cnt - 1} \subseteq
         {old[i] : i \in 0 .. e - 1} \cup n .. n + cnt - 1
  BY <1>1
<1>5. {old[i] : i \in 0 .. e - 1} \subseteq {new[i] : i \in 0 .. e + cnt - 1}
  OBVIOUS
<1>6. n .. n + cnt - 1 \subseteq {new[i] : i \in 0 .. e + cnt - 1}
  <2>1. \A v \in n .. n + cnt - 1 :
           v - n + e \in 0 .. e + cnt - 1 /\ new[v - n + e] = v
    OBVIOUS
  <2>2. QED
    BY <2>1
<1>7. QED
  BY <1>2, <1>3, <1>4, <1>5, <1>6

(* Writing the cnt new indices behind the live cells of a large enough array. *)
LEMMA PutBehindSound ==
    ASSUME NEW k, KfyType(k), KfySound(k),
           NEW cnt \in Nat, k.size + cnt <= MaxSize,
           NEW c \in Lengths, k.size + cnt < c,
           NEW a \in [0 .. c - 1 -> {Uninit} \cup Nat],
           \A i \in 0 .. k.end - 1 : a[i] = k.a[i]
    PROVE  LET b == PutBehind(k, a, cnt, c)
           IN  /\ KfyType(b) /\ KfySound(b)
               /\ b.size = k.size + cnt
               /\ Remaining(b) = Remaining(k) \cup k.size .. k.size + cnt - 1
<1> DEFINE d == [i \in DOMAIN a |-> IF i \in k.end .. k.end + cnt - 1
                                    THEN k.size + i - k.end ELSE a[i]]
           b == [a |-> d, end |-> k.end + cnt, size |-> k.size + cnt, capacity |-> c]
<1>1. /\ k.size \in Nat /\ k.end \in Nat /\ MaxSize \in Nat /\ c \in Nat
      /\ k.end <= k.size
  BY KfyFields, CapacityTypes DEF KfySound, DistinctBelow
<1>2. PutBehind(k, a, cnt, c) = b
  BY DEF PutBehind
<1>3. d \in [0 .. c - 1 -> {Uninit} \cup Nat]
  BY <1>1
<1>4. KfyType(b)
  BY <1>1, <1>3 DEF KfyType
<1>5. /\ \A i \in 0 .. k.end - 1 : i \in 0 .. c - 1
      /\ \A i \in k.end .. k.end + cnt - 1 : i \in 0 .. c - 1
      /\ \A i \in 0 .. k.end - 1 : i \notin k.end .. k.end + cnt - 1
  BY <1>1
<1>6. CellsWritten(k.end, k.size, cnt, k.a, d)
  BY <1>5 DEF CellsWritten
<1> HIDE DEF d
<1>7. DistinctBelow(k.a, k.end, k.size)
  BY DEF KfySound
<1>8. /\ DistinctBelow(d, k.end + cnt, k.size + cnt)
      /\ Cells(d, k.end + cnt) = Cells(k.a, k.end) \cup k.size .. k.size + cnt - 1
  BY <1>1, <1>6, <1>7, CellsBehind
<1>9. k.end + cnt <= k.size + cnt
  BY <1>1
<1>10. KfySound(b)
  BY <1>8, <1>9 DEF KfySound
<1>11. Remaining(b) = Remaining(k) \cup k.size .. k.size + cnt - 1
  BY <1>8 DEF Remaining
<1>12. QED
  BY <1>2, <1>4, <1>10, <1>11

(* kfy_add either fails and changes nothing, or the new tracks join the    *)
(* bag: growing the array keeps the cells that were drawn from.            *)
LEMMA KfyAddSound ==
    ASSUME NEW k, KfyType(k), KfySound(k),
           NEW cnt \in Nat, k.size + cnt <= MaxSize, NEW out \in KfyAdd(k, cnt)
    PROVE  /\ KfyType(out.kfy) /\ KfySound(out.kfy)
           /\ \/ /\ out = [ok |-> FALSE, kfy |-> k]
              \/ /\ out.ok = TRUE
                 /\ out.kfy.size = k.size + cnt
                 /\ Remaining(out.kfy) = Remaining(k) \cup k.size .. k.size + cnt - 1
<1>1. CASE out = [ok |-> FALSE, kfy |-> k]
  BY <1>1
<1>2. CASE out = [ok |-> TRUE, kfy |-> KfyAdded(k, cnt)]
  <2>1. PICK a, c : /\ KfyAdded(k, cnt) = PutBehind(k, a, cnt, c)
                    /\ c \in Lengths /\ k.size + cnt < c
                    /\ a \in [0 .. c - 1 -> {Uninit} \cup Nat]
                    /\ \A i \in 0 .. k.end - 1 : a[i] = k.a[i]
    <3>1. CASE ~ NeedsGrowth(k, cnt)
      <4>1. k.size + cnt < k.capacity
        BY <3>1, KfyFields DEF NeedsGrowth
      <4>2. KfyAdded(k, cnt) = PutBehind(k, k.a, cnt, k.capacity)
        BY <3>1 DEF KfyAdded
      <4>3. QED
        BY <4>1, <4>2, KfyFields
    <3>2. CASE NeedsGrowth(k, cnt)
      <4> DEFINE cap == NextPow2(k.size + cnt)
      <4>1. k.size + cnt \in 0 .. MaxSize
        BY KfyFields, CapacityTypes
      <4>2. cap \in Capacities /\ k.size + cnt < cap
        BY <4>1, NextPow2Least
      <4>3. /\ Realloc(k.a, cap) \in [0 .. cap - 1 -> {Uninit} \cup Nat]
            /\ \A i \in 0 .. k.capacity - 1 : i < cap => Realloc(k.a, cap)[i] = k.a[i]
        BY <4>2, ReallocType, KfyFields
      <4>4. \A i \in 0 .. k.end - 1 : i \in 0 .. k.capacity - 1 /\ i < cap
        BY <4>1, <4>2, KfyFields, CapacityTypes DEF KfySound
      <4>5. KfyAdded(k, cnt) = PutBehind(k, Realloc(k.a, cap), cnt, cap)
        BY <3>2 DEF KfyAdded
      <4>6. QED
        BY <4>2, <4>3, <4>4, <4>5, CapacityTypes
    <3>3. QED
      BY <3>1, <3>2
  <2> DEFINE b == PutBehind(k, a, cnt, c)
  <2>2. /\ KfyType(b) /\ KfySound(b)
        /\ b.size = k.size + cnt
        /\ Remaining(b) = Remaining(k) \cup k.size .. k.size + cnt - 1
    BY <2>1, PutBehindSound
  <2>3. out.kfy = b /\ out.ok = TRUE
    BY <1>2, <2>1
  <2>4. QED
    BY <2>2, <2>3
<1>3. QED
  BY <1>1, <1>2 DEF KfyAdd

(* kfy_remove keeps as many tracks in the cycle as it can. *)
LEMMA KfyRemoveSound ==
    ASSUME NEW k, KfyType(k), KfySound(k), NEW cnt \in 1 .. k.size
    PROVE  LET b   == KfyRemove(k, cnt)
               end == IF k.end >= cnt THEN k.end - cnt ELSE 0
           IN  /\ KfyType(b) /\ KfySound(b)
               /\ b.size = k.size - cnt /\ b.end = end
               /\ Remaining(b) = 0 .. end - 1
<1> DEFINE end == IF k.end >= cnt THEN k.end - cnt ELSE 0
           a == Renumber(k.a, end)
           b == [a |-> a, end |-> end, size |-> k.size - cnt, capacity |-> k.capacity]
<1>1. /\ k.size \in Nat /\ k.end \in Nat /\ MaxSize \in Nat /\ cnt \in Nat /\ cnt > 0
      /\ k.capacity \in Lengths /\ k.capacity \in Nat
      /\ k.a \in [0 .. k.capacity - 1 -> {Uninit} \cup Nat]
      /\ k.end <= k.size /\ k.size < k.capacity /\ k.size <= MaxSize /\ cnt <= k.size
  BY KfyFields, CapacityTypes DEF KfySound
<1>2. KfyRemove(k, cnt) = b
  BY <1>1 DEF KfyRemove
<1>3. /\ end \in Nat /\ end \in 0 .. MaxSize /\ k.size - cnt \in 0 .. MaxSize
      /\ end <= k.size - cnt /\ k.size - cnt < k.capacity /\ k.size - cnt \in Nat
  BY <1>1
<1> HIDE DEF end
<1>4. a \in [0 .. k.capacity - 1 -> {Uninit} \cup Nat]
  BY <1>1, <1>3 DEF Renumber
<1>5. \A i \in 0 .. end - 1 : a[i] = i
  <2>1. \A i \in 0 .. end - 1 : i \in 0 .. k.capacity - 1 /\ i < end
    BY <1>1, <1>3
  <2>2. QED
    BY <1>1, <2>1 DEF Renumber
<1> HIDE DEF a
<1>6. KfyType(b)
  BY <1>1, <1>3, <1>4 DEF KfyType
<1>7. DistinctBelow(a, end, k.size - cnt)
  BY <1>3, <1>5 DEF DistinctBelow
<1>8. KfySound(b)
  BY <1>3, <1>7 DEF KfySound
<1>9. Remaining(b) = 0 .. end - 1
  BY <1>3, <1>5 DEF Remaining, Cells
<1>10. QED
  BY <1>2, <1>6, <1>8, <1>9 DEF end

-----------------------------------------------------------------------------
(* The playlist. *)

(* Induction along a loop of N steps. *)
LEMMA UpTo ==
    ASSUME NEW N \in Nat, NEW T, 0 \in T, \A n \in 1 .. N : n - 1 \in T => n \in T
    PROVE  \A n \in 0 .. N : n \in T
<1> DEFINE C == {n \in 0 .. N : n \notin T}
<1>1. SUFFICES ASSUME C # {} PROVE FALSE
  OBVIOUS
<1>2. C \subseteq Nat
  OBVIOUS
<1>3. PICK x \in C : \A y \in C : ~ (<<y, x>> \in OpToRel(<, Nat))
  <2>1. IsWellFoundedOn(OpToRel(<, Nat), Nat)
    BY NatLessThanWellFounded
  <2>2. QED
    BY <1>1, <1>2, <2>1, WFMin
<1>4. x \in 1 .. N
  OBVIOUS
<1>5. x - 1 \notin C
  <2>1. x - 1 \in Nat /\ x \in Nat /\ x - 1 < x
    BY <1>4
  <2>2. <<x - 1, x>> \in OpToRel(<, Nat)
    BY <2>1 DEF OpToRel
  <2>3. QED
    BY <1>3, <2>2
<1>6. x - 1 \in T
  BY <1>4, <1>5
<1>7. QED
  BY <1>4, <1>6

(* g[0], ..., g[N] are the playlists during RemoveEach. *)
Removals(g, pl, indices, N, skip) ==
    /\ RemoveEach(pl, indices, skip) = g[N]
    /\ g[0] = pl
    /\ \A n \in 1 .. N : g[n] = IF n \in skip THEN g[n - 1]
                                ELSE PlaylistRemove(g[n - 1], indices[n])

LEMMA RemoveEachRuns ==
    ASSUME NEW pl, NEW indices, NEW skip, NEW N \in Nat, N = Len(indices)
    PROVE  \E g : Removals(g, pl, indices, N, skip)
<1> DEFINE Step(x, n) == IF n \in skip THEN x ELSE PlaylistRemove(x, indices[n])
           Runs(g, m) == g = [n \in 0 .. m |-> IF n = 0 THEN pl ELSE Step(g[n - 1], n)]
           T == {m \in 0 .. N : \E g : Runs(g, m)}
           after[n \in 0 .. N] ==
              IF n = 0 THEN pl
              ELSE IF n \in skip THEN after[n - 1]
              ELSE PlaylistRemove(after[n - 1], indices[n])
<1>1. RemoveEach(pl, indices, skip) = after[N]
  BY DEF RemoveEach
<1>2. \E g : Runs(g, 0)
  <2>1. Runs([n \in 0 .. 0 |-> pl], 0)
    OBVIOUS
  <2>2. QED
    BY <2>1
<1>3. ASSUME NEW m \in 1 .. N, m - 1 \in T PROVE m \in T
  <2>1. PICK g : Runs(g, m - 1)
    BY <1>3
  <2> DEFINE h == [n \in 0 .. m |-> IF n = m THEN Step(g[m - 1], m) ELSE g[n]]
  <2>2. /\ m \in Nat /\ m > 0
        /\ \A n \in 0 .. m - 1 : h[n] = g[n] /\ n # m
        /\ h[m] = Step(g[m - 1], m)
    BY <1>3
  <2>3. \A n \in 0 .. m : n # 0 => /\ n - 1 \in 0 .. m - 1
                                   /\ n # m => n \in 0 .. m - 1
    BY <2>2
  <2>4. \A n \in 0 .. m : h[n] = IF n = 0 THEN pl ELSE Step(h[n - 1], n)
    <3> HIDE DEF Step, h
    <3>1. \A n \in 0 .. m - 1 : g[n] = IF n = 0 THEN pl ELSE Step(g[n - 1], n)
      BY <2>1, Zenon
    <3>2. 0 \in 0 .. m - 1
      BY <2>2
    <3>3. QED
      BY <2>2, <2>3, <3>1, <3>2
  <2>5. Runs(h, m)
    <3>1. h = [n \in 0 .. m |-> h[n]]
      BY Zenon
    <3> HIDE DEF Step, h
    <3>2. QED
      BY <2>4, <3>1
  <2>6. QED
    <3> HIDE DEF Runs, h
    <3>1. QED
      BY <1>3, <2>5
<1>4. \E g : Runs(g, N)
  <2> HIDE DEF Runs
  <2>1. 0 \in T
    BY <1>2
  <2>2. N \in T
    <3> HIDE DEF T
    <3>1. \A n \in 0 .. N : n \in T
      BY <1>3, <2>1, UpTo
    <3>2. QED
      BY <3>1
  <2>3. QED
    BY <2>2
<1>5. Runs(after, N)
  BY <1>4
<1>6. /\ after[0] = pl
      /\ \A n \in 1 .. N : after[n] = Step(after[n - 1], n)
  <2> HIDE DEF after, Step
  <2>1. QED
    BY <1>5
<1>7. QED
  <2> HIDE DEF after
  <2>1. Removals(after, pl, indices, N, skip)
    BY <1>1, <1>6 DEF Removals
  <2>2. QED
    BY <2>1

-----------------------------------------------------------------------------
(* What the asserts of playlist.c and the types of its fields ask for. *)
Sound(pl) == PlaylistType(pl) /\ PlaylistSound(pl)

LEMMA IntTypes ==
    /\ MaxSize \in Nat /\ IntMax \in Nat /\ MaxSize <= IntMax
    /\ UIntRange \in Nat /\ UIntRange > 0 /\ IntMax < UIntRange
    /\ NoIndex \in UInts /\ MaxSize < NoIndex
    /\ UInts = 0 .. UIntRange - 1
    /\ Tracks \subseteq Int
  BY CapacityTypes, PlaylistAssumption DEF UIntRange, UInts, NoIndex

(* Arithmetic of unsigned ints. *)
LEMMA WrapsAround == \A i \in Int : i % UIntRange \in UInts
  BY IntTypes

LEMMA NoWrap == \A u \in UInts : u % UIntRange = u
  BY IntTypes

LEMMA Successor ==
    ASSUME NEW u \in UInts
    PROVE  (u + 1) % UIntRange = IF u = NoIndex THEN 0 ELSE u + 1
<1>1. CASE u = NoIndex
  BY <1>1, IntTypes DEF NoIndex
<1>2. CASE u # NoIndex
  BY <1>2, IntTypes DEF NoIndex
<1>3. QED
  BY <1>1, <1>2

(* An index made positive is one of an unsigned int, and not changed if it *)
(* was one.                                                                *)
LEMMA PositiveIndex ==
    ASSUME NEW pl, Len(pl.vec) \in Nat, NEW i \in Int
    PROVE  /\ EnsurePositivIndex(pl, i) \in Nat
           /\ i >= 0 => EnsurePositivIndex(pl, i) = i
           /\ i < 0 => EnsurePositivIndex(pl, i) \in UInts
<1>1. Len(pl.vec) + i \in Int
  OBVIOUS
<1>2. (Len(pl.vec) + i) % UIntRange \in UInts
  BY <1>1, WrapsAround
<1>3. UInts \subseteq Nat
  BY IntTypes
<1>4. CASE i < 0
  <2>1. EnsurePositivIndex(pl, i) = (Len(pl.vec) + i) % UIntRange
    BY <1>4 DEF EnsurePositivIndex
  <2>2. EnsurePositivIndex(pl, i) \in UInts
    BY <1>2, <2>1, Zenon
  <2>3. ~ (i >= 0)
    BY <1>4
  <2>4. QED
    BY <1>3, <2>2, <2>3, Zenon
<1>5. CASE i >= 0
  BY <1>5 DEF EnsurePositivIndex
<1>6. QED
  BY <1>4, <1>5

LEMMA SoundFields ==
    ASSUME NEW pl, Sound(pl)
    PROVE  /\ pl.vec \in Seq(Tracks) /\ Len(pl.vec) \in Nat
           /\ PlaylistSize(pl) = Len(pl.vec)
           /\ Len(pl.vec) <= MaxSize
           /\ KfyType(pl.kfy) /\ KfySound(pl.kfy)
           /\ pl.kfy.size = Len(pl.vec)
           /\ pl.index \in UInts
           /\ pl.repeat \in BOOLEAN /\ pl.shuffle \in BOOLEAN
  BY KfyFields, CapacityTypes DEF Sound, PlaylistType, PlaylistSound, PlaylistSize

(* A struct playlist is a record of these fields, and an assignment to some *)
(* of them leaves it one.                                                   *)
IsRecord(pl) == pl = [f \in {"vec", "kfy", "index", "repeat", "shuffle"} |-> pl[f]]

LEMMA SoundRecord ==
    ASSUME NEW pl, Sound(pl)
    PROVE  IsRecord(pl)
<1>1. pl = [vec |-> pl.vec, kfy |-> pl.kfy, index |-> pl.index,
            repeat |-> pl.repeat, shuffle |-> pl.shuffle]
  BY DEF Sound, PlaylistType
<1>2. QED
  BY <1>1 DEF IsRecord

(* A playlist made of parts that agree on the number of tracks. *)
LEMMA SoundParts ==
    ASSUME NEW pl, IsRecord(pl),
           pl.vec \in Seq(Tracks), KfyType(pl.kfy), KfySound(pl.kfy),
           pl.kfy.size = Len(pl.vec), pl.index \in UInts,
           pl.repeat \in BOOLEAN, pl.shuffle \in BOOLEAN
    PROVE  Sound(pl)
<1>1. pl = [vec |-> pl.vec, kfy |-> pl.kfy, index |-> pl.index,
            repeat |-> pl.repeat, shuffle |-> pl.shuffle]
  BY DEF IsRecord
<1>2. QED
  BY <1>1 DEF Sound, PlaylistType, PlaylistSound, PlaylistSize

(* playlist_init *)
LEMMA PlaylistInitSound ==
    ASSUME NEW pl \in PlaylistInit
    PROVE  Sound(pl) /\ pl.vec = <<>> /\ pl.index = NoIndex
<1>1. PICK k \in KfyInit(0) :
          pl = [vec |-> <<>>, kfy |-> k, index |-> NoIndex,
                repeat |-> FALSE, shuffle |-> FALSE]
  BY DEF PlaylistInit
<1>2. KfyType(k) /\ KfySound(k) /\ k.size = 0
  BY KfyInitSound
<1>3. <<>> \in Seq(Tracks) /\ Len(<<>>) = 0
  BY EmptySeq
<1>4. /\ IsRecord(pl)
      /\ pl.vec = <<>> /\ pl.kfy = k /\ pl.index = NoIndex
      /\ pl.repeat = FALSE /\ pl.shuffle = FALSE
  BY <1>1 DEF IsRecord
<1>5. Sound(pl)
  BY <1>2, <1>3, <1>4, SoundParts, IntTypes
<1>6. QED
  BY <1>4, <1>5

(* repeat and shuffle are only read by playlist_next. *)
Switched(pl, r, s) == [pl EXCEPT !.repeat = r, !.shuffle = s]

LEMMA SwitchesSound ==
    ASSUME NEW pl, Sound(pl), NEW r \in BOOLEAN, NEW s \in BOOLEAN
    PROVE  LET set == Switched(pl, r, s)
           IN  /\ Sound(set)
               /\ set.vec = pl.vec /\ set.kfy = pl.kfy /\ set.index = pl.index
               /\ set.repeat = r /\ set.shuffle = s
<1> DEFINE set == Switched(pl, r, s)
<1>1. IsRecord(pl)
  BY SoundRecord
<1>2. /\ IsRecord(set)
      /\ set.vec = pl.vec /\ set.kfy = pl.kfy /\ set.index = pl.index
      /\ set.repeat = r /\ set.shuffle = s
  BY <1>1 DEF IsRecord, Switched
<1> HIDE DEF set
<1>3. Sound(set)
  BY <1>2, SoundFields, SoundParts
<1>4. QED
  BY <1>2, <1>3 DEF set

LEMMA RepeatSound ==
    ASSUME NEW pl, Sound(pl), NEW r \in BOOLEAN, NEW set, set = [pl EXCEPT !.repeat = r]
    PROVE  /\ Sound(set)
           /\ set.vec = pl.vec /\ set.kfy = pl.kfy /\ set.index = pl.index
           /\ set.repeat = r /\ set.shuffle = pl.shuffle
<1>1. IsRecord(pl)
  BY SoundRecord
<1>2. /\ IsRecord(set)
      /\ set.vec = pl.vec /\ set.kfy = pl.kfy /\ set.index = pl.index
      /\ set.repeat = r /\ set.shuffle = pl.shuffle
  BY <1>1 DEF IsRecord
<1>3. QED
  BY ONLY <1>2, Sound(pl), r \in BOOLEAN, SoundFields, SoundParts

LEMMA ShuffleSound ==
    ASSUME NEW pl, Sound(pl), NEW s \in BOOLEAN, NEW set, set = [pl EXCEPT !.shuffle = s]
    PROVE  /\ Sound(set)
           /\ set.vec = pl.vec /\ set.kfy = pl.kfy /\ set.index = pl.index
           /\ set.repeat = pl.repeat /\ set.shuffle = s
<1>1. IsRecord(pl)
  BY SoundRecord
<1>2. /\ IsRecord(set)
      /\ set.vec = pl.vec /\ set.kfy = pl.kfy /\ set.index = pl.index
      /\ set.repeat = pl.repeat /\ set.shuffle = s
  BY <1>1 DEF IsRecord
<1>3. QED
  BY ONLY <1>2, Sound(pl), s \in BOOLEAN, SoundFields, SoundParts

(* playlist_clear *)
LEMMA PlaylistClearSound ==
    ASSUME NEW pl, Sound(pl)
    PROVE  LET cleared == PlaylistClear(pl)
           IN  /\ Sound(cleared)
               /\ cleared.vec = <<>> /\ cleared.index = NoIndex
               /\ cleared.repeat = pl.repeat /\ cleared.shuffle = pl.shuffle
<1> DEFINE kfy == KfyRemove(pl.kfy, pl.kfy.size)
           cleared == PlaylistClear(pl)
<1>1. KfyType(kfy) /\ KfySound(kfy) /\ kfy.size = 0
  <2>1. pl.kfy.size \in Nat
    BY SoundFields
  <2>2. CASE pl.kfy.size = 0
    BY <2>2, SoundFields DEF KfyRemove
  <2>3. CASE pl.kfy.size # 0
    <3>1. pl.kfy.size \in 1 .. pl.kfy.size
      BY <2>1, <2>3
    <3>2. QED
      BY <2>1, <3>1, SoundFields, KfyRemoveSound
  <2>4. QED
    BY <2>2, <2>3
<1>2. /\ IsRecord(cleared)
      /\ cleared.vec = <<>> /\ cleared.kfy = kfy /\ cleared.index = NoIndex
      /\ cleared.repeat = pl.repeat /\ cleared.shuffle = pl.shuffle
  <2>1. IsRecord(pl)
    BY SoundRecord
  <2>2. QED
    BY <2>1 DEF IsRecord, PlaylistClear
<1>3. <<>> \in Seq(Tracks) /\ Len(<<>>) = 0
  BY EmptySeq
<1> HIDE DEF kfy, cleared
<1>4. Sound(cleared)
  BY <1>1, <1>2, <1>3, SoundFields, SoundParts, IntTypes
<1>5. QED
  BY <1>2, <1>4 DEF cleared

(* playlist_add after both insertions. *)
LEMMA InsertedSound ==
    ASSUME NEW pl, Sound(pl), NEW m \in Tracks, NEW kfy,
           KfyType(kfy), KfySound(kfy), kfy.size = Len(pl.vec) + 1
    PROVE  LET new == Inserted(pl, m, kfy)
           IN  /\ Sound(new)
               /\ new.vec = Append(pl.vec, m) /\ new.kfy = kfy /\ new.index = pl.index
               /\ new.repeat = pl.repeat /\ new.shuffle = pl.shuffle
<1> DEFINE new == Inserted(pl, m, kfy)
<1>1. /\ IsRecord(new)
      /\ new.vec = Append(pl.vec, m) /\ new.kfy = kfy /\ new.index = pl.index
      /\ new.repeat = pl.repeat /\ new.shuffle = pl.shuffle
  <2>1. IsRecord(pl)
    BY SoundRecord
  <2>2. QED
    BY <2>1 DEF IsRecord, Inserted
<1>2. Append(pl.vec, m) \in Seq(Tracks) /\ Len(Append(pl.vec, m)) = Len(pl.vec) + 1
  BY SoundFields, AppendProperties
<1> HIDE DEF new
<1>3. Sound(new)
  BY <1>1, <1>2, SoundFields, SoundParts
<1>4. QED
  BY <1>1, <1>3 DEF new

(* kfy_add when it succeeds, and for one track. *)
LEMMA KfyAddGrows ==
    ASSUME NEW k, KfyType(k), KfySound(k),
           NEW cnt \in Nat, k.size + cnt <= MaxSize, NEW out \in KfyAdd(k, cnt), out.ok
    PROVE  /\ KfyType(out.kfy) /\ KfySound(out.kfy)
           /\ out.kfy.size = k.size + cnt
           /\ Remaining(out.kfy) = Remaining(k) \cup k.size .. k.size + cnt - 1
<1>1. out # [ok |-> FALSE, kfy |-> k]
  OBVIOUS
<1>2. /\ KfyType(out.kfy) /\ KfySound(out.kfy)
      /\ \/ /\ out = [ok |-> FALSE, kfy |-> k]
         \/ /\ out.ok = TRUE
            /\ out.kfy.size = k.size + cnt
            /\ Remaining(out.kfy) = Remaining(k) \cup k.size .. k.size + cnt - 1
  BY KfyAddSound, Zenon
<1>3. QED
  BY <1>1, <1>2, Zenon

LEMMA KfyAddOne ==
    ASSUME NEW k, KfyType(k), KfySound(k), k.size + 1 <= MaxSize,
           NEW out, NEW cnt \in Nat, cnt = 1, out \in KfyAdd(k, cnt), out.ok
    PROVE  /\ KfyType(out.kfy) /\ KfySound(out.kfy)
           /\ out.kfy.size = k.size + 1
           /\ Remaining(out.kfy) = Remaining(k) \cup {k.size}
<1>1. /\ k.size + cnt <= MaxSize
      /\ k.size .. k.size + cnt - 1 = {k.size}
      /\ k.size + cnt = k.size + 1
  BY KfyFields
<1>2. /\ KfyType(out.kfy) /\ KfySound(out.kfy)
      /\ out.kfy.size = k.size + cnt
      /\ Remaining(out.kfy) = Remaining(k) \cup k.size .. k.size + cnt - 1
  BY <1>1, KfyAddGrows
<1>3. QED
  BY <1>1, <1>2, Zenon

(* playlist_add either adds the track at the end, where the shuffler can   *)
(* draw it as well, or changes nothing.                                    *)
LEMMA PlaylistAddSound ==
    ASSUME NEW pl, Sound(pl), Len(pl.vec) < MaxSize, NEW m \in Tracks,
           NEW out \in PlaylistAdd(pl, m)
    PROVE  /\ Sound(out.pl)
           /\ out.ok \in BOOLEAN
           /\ ~ out.ok => out.pl = pl
           /\ out.ok => /\ out.pl.vec = Append(pl.vec, m) /\ out.pl.index = pl.index
                        /\ out.pl.repeat = pl.repeat /\ out.pl.shuffle = pl.shuffle
                        /\ Remaining(out.pl.kfy) = Remaining(pl.kfy) \cup {Len(pl.vec)}
<1>1. CASE out = [ok |-> FALSE, pl |-> pl]
  BY <1>1
<1>2. ASSUME NEW add \in KfyAdd(pl.kfy, 1), add.ok,
             out = [ok |-> TRUE, pl |-> Inserted(pl, m, add.kfy)]
      PROVE  /\ Sound(out.pl) /\ out.ok = TRUE
             /\ out.pl.vec = Append(pl.vec, m) /\ out.pl.index = pl.index
             /\ out.pl.repeat = pl.repeat /\ out.pl.shuffle = pl.shuffle
             /\ Remaining(out.pl.kfy) = Remaining(pl.kfy) \cup {Len(pl.vec)}
  <2>1. /\ KfyType(add.kfy) /\ KfySound(add.kfy)
        /\ add.kfy.size = Len(pl.vec) + 1
        /\ Remaining(add.kfy) = Remaining(pl.kfy) \cup {Len(pl.vec)}
    <3>1. /\ KfyType(pl.kfy) /\ KfySound(pl.kfy) /\ pl.kfy.size = Len(pl.vec)
          /\ Len(pl.vec) \in Nat
      BY SoundFields
    <3>2. pl.kfy.size + 1 <= MaxSize
      BY <3>1, CapacityTypes
    <3>3. PICK cnt \in Nat : cnt = 1
      OBVIOUS
    <3>4. add \in KfyAdd(pl.kfy, cnt)
      BY <3>3
    <3>5. /\ KfyType(add.kfy) /\ KfySound(add.kfy)
          /\ add.kfy.size = pl.kfy.size + 1
          /\ Remaining(add.kfy) = Remaining(pl.kfy) \cup {pl.kfy.size}
      BY <1>2, <3>1, <3>2, <3>3, <3>4, KfyAddOne
    <3>6. QED
      BY <3>1, <3>5
  <2>2. QED
    BY <1>2, <2>1, InsertedSound
<1>3. \/ out = [ok |-> FALSE, pl |-> pl]
      \/ \E add \in KfyAdd(pl.kfy, 1) :
            add.ok /\ out = [ok |-> TRUE, pl |-> Inserted(pl, m, add.kfy)]
  BY DEF PlaylistAdd
<1>4. QED
  BY <1>1, <1>2, <1>3

(* What vector_take makes of the tracks. *)
LEMMA Spliced ==
    ASSUME NEW v \in Seq(Tracks), NEW i \in 0 .. Len(v) - 1
    PROVE  LET r == SubSeq(v, 1, i) \o SubSeq(v, i + 2, Len(v))
           IN  /\ r \in Seq(Tracks) /\ Len(r) = Len(v) - 1
               /\ \A j \in 1 .. Len(v) - 1 : r[j] = v[IF j <= i THEN j ELSE j + 1]
<1> DEFINE p == SubSeq(v, 1, i)
           q == SubSeq(v, i + 2, Len(v))
           r == p \o q
<1>1. /\ p \in Seq(Tracks) /\ Len(p) = i
      /\ \A j \in 1 .. i : p[j] = v[j]
  OBVIOUS
<1>2. /\ q \in Seq(Tracks) /\ Len(q) = Len(v) - 1 - i
      /\ \A j \in 1 .. Len(v) - 1 - i : q[j] = v[j + i + 1]
  OBVIOUS
<1> HIDE DEF p, q
<1> HIDE DEF r
<1>3. /\ r \in Seq(Tracks) /\ Len(r) = Len(v) - 1
      /\ \A j \in 1 .. Len(v) - 1 : r[j] = IF j <= i THEN p[j] ELSE q[j - i]
  <2>1. r \in Seq(Tracks) /\ Len(r) = Len(p) + Len(q)
    BY <1>1, <1>2, ConcatProperties, Zenon DEF r
  <2>2. \A j \in 1 .. Len(p) + Len(q) : r[j] = IF j <= Len(p) THEN p[j] ELSE q[j - Len(p)]
    BY <1>1, <1>2, ConcatProperties DEF r
  <2>3. Len(p) + Len(q) = Len(v) - 1
    BY <1>1, <1>2
  <2>4. QED
    BY <1>1, <2>1, <2>2, <2>3
<1>4. ASSUME NEW j \in 1 .. Len(v) - 1
      PROVE  r[j] = v[IF j <= i THEN j ELSE j + 1]
  <2>1. CASE j <= i
    BY <1>1, <1>3, <2>1
  <2>2. CASE ~ (j <= i)
    <3>1. j - i \in 1 .. Len(v) - 1 - i /\ j - i + i + 1 = j + 1
      BY <2>2
    <3>2. QED
      BY <1>2, <1>3, <2>2, <3>1
  <2>3. QED
    BY <2>1, <2>2
<1>5. QED
  BY <1>3, <1>4 DEF r, p, q

(* playlist_remove takes out the track with the index, or none. *)
LEMMA PlaylistRemoveSound ==
    ASSUME NEW pl, Sound(pl), NEW index \in Int
    PROVE  LET new == PlaylistRemove(pl, index)
               i   == EnsurePositivIndex(pl, index)
           IN  /\ Sound(new)
               /\ new.index = pl.index
               /\ new.repeat = pl.repeat /\ new.shuffle = pl.shuffle
               /\ i \in Nat
               /\ i >= Len(pl.vec) => new = pl
               /\ i < Len(pl.vec) =>
                     /\ Len(new.vec) = Len(pl.vec) - 1
                     /\ \A j \in 1 .. Len(new.vec) :
                           new.vec[j] = pl.vec[IF j <= i THEN j ELSE j + 1]
<1> DEFINE i == EnsurePositivIndex(pl, index)
           vec == SubSeq(pl.vec, 1, i) \o SubSeq(pl.vec, i + 2, Len(pl.vec))
           kfy == KfyRemove(pl.kfy, 1)
           new == PlaylistRemove(pl, index)
<1>1. /\ pl.vec \in Seq(Tracks) /\ Len(pl.vec) \in Nat /\ PlaylistSize(pl) = Len(pl.vec)
      /\ pl.kfy.size = Len(pl.vec)
      /\ i \in Nat
  BY SoundFields, PositiveIndex
<1>2. CASE i >= Len(pl.vec)
  <2>1. new = pl
    BY <1>1, <1>2 DEF PlaylistRemove
  <2>2. QED
    BY <1>1, <1>2, <2>1
<1>3. CASE i < Len(pl.vec)
  <2>1. /\ KfyType(kfy) /\ KfySound(kfy) /\ kfy.size = Len(pl.vec) - 1
    <3>1. 1 \in 1 .. pl.kfy.size
      BY <1>1, <1>3
    <3>2. QED
      BY <1>1, <3>1, SoundFields, KfyRemoveSound
  <2>2. /\ vec \in Seq(Tracks) /\ Len(vec) = Len(pl.vec) - 1
        /\ \A j \in 1 .. Len(pl.vec) - 1 :
              vec[j] = pl.vec[IF j <= i THEN j ELSE j + 1]
    <3>1. PICK v \in Seq(Tracks) : v = pl.vec
      BY <1>1
    <3>2. i \in 0 .. Len(v) - 1
      BY <1>1, <1>3, <3>1
    <3> HIDE DEF i
    <3>3. LET r == SubSeq(v, 1, i) \o SubSeq(v, i + 2, Len(v))
          IN  /\ r \in Seq(Tracks) /\ Len(r) = Len(v) - 1
              /\ \A j \in 1 .. Len(v) - 1 : r[j] = v[IF j <= i THEN j ELSE j + 1]
      BY <3>2, Spliced
    <3>4. QED
      BY <3>1, <3>3, Zenon
  <2>3. /\ IsRecord(new)
        /\ new.vec = vec /\ new.kfy = kfy /\ new.index = pl.index
        /\ new.repeat = pl.repeat /\ new.shuffle = pl.shuffle
    <3>1. IsRecord(pl)
      BY SoundRecord
    <3>2. new = [pl EXCEPT !.vec = vec, !.kfy = kfy]
      BY <1>1, <1>3 DEF PlaylistRemove
    <3> HIDE DEF new, vec, kfy
    <3>3. QED
      BY <3>1, <3>2 DEF IsRecord
  <2> HIDE DEF new, vec, kfy
  <2>4. Sound(new)
    BY <1>1, <2>1, <2>2, <2>3, SoundFields, SoundParts
  <2>5. QED
    BY <1>1, <1>3, <2>2, <2>3, <2>4 DEF new
<1>4. QED
  BY <1>1, <1>2, <1>3

(* A playlist made from pl by removals: it is pl, or there are fewer tracks. *)
Kept(new, pl) ==
    /\ Sound(new)
    /\ new.index = pl.index /\ new.repeat = pl.repeat /\ new.shuffle = pl.shuffle
    /\ new = pl \/ Len(new.vec) < Len(pl.vec)

LEMMA RemoveKeeps ==
    ASSUME NEW pl, Sound(pl), NEW x, Kept(x, pl), NEW index \in Int
    PROVE  Kept(PlaylistRemove(x, index), pl)
<1> DEFINE new == PlaylistRemove(x, index)
           i   == EnsurePositivIndex(x, index)
<1>1. /\ Sound(x) /\ Len(x.vec) \in Nat /\ Len(pl.vec) \in Nat
      /\ Len(x.vec) <= Len(pl.vec)
  <2>1. Sound(x) /\ Len(x.vec) \in Nat /\ Len(pl.vec) \in Nat
    BY SoundFields DEF Kept
  <2>2. QED
    BY <2>1 DEF Kept
<1>2. /\ Sound(new)
      /\ new.index = x.index /\ new.repeat = x.repeat /\ new.shuffle = x.shuffle
      /\ i \in Nat
      /\ i >= Len(x.vec) => new = x
      /\ i < Len(x.vec) => Len(new.vec) = Len(x.vec) - 1
  BY <1>1, PlaylistRemoveSound
<1> HIDE DEF new, i
<1>3. Kept(new, pl)
  <2>1. CASE new = x
    BY <2>1
  <2>2. CASE new # x
    <3>1. Len(new.vec) < Len(pl.vec)
      BY <1>1, <1>2, <2>2
    <3>2. QED
      BY <1>2, <3>1 DEF Kept
  <2>3. QED
    BY <2>1, <2>2
<1>4. QED
  BY <1>3 DEF new

(* Any sequence of removals. *)
LEMMA RemoveEachSound ==
    ASSUME NEW pl, Sound(pl), NEW indices \in Seq(Int), NEW skip
    PROVE  Kept(RemoveEach(pl, indices, skip), pl)
<1>1. PICK N \in Nat : N = Len(indices)
  OBVIOUS
<1>2. PICK g : Removals(g, pl, indices, N, skip)
  BY <1>1, RemoveEachRuns
<1> DEFINE T == {n \in 0 .. N : Kept(g[n], pl)}
<1>3. 0 \in T
  BY <1>1, <1>2 DEF Kept, Removals
<1>4. ASSUME NEW n \in 1 .. N, n - 1 \in T PROVE n \in T
  <2>1. indices[n] \in Int
    BY <1>1
  <2>2. Kept(g[n - 1], pl)
    BY <1>4
  <2>3. Kept(g[n], pl)
    <3>1. Kept(PlaylistRemove(g[n - 1], indices[n]), pl)
      BY <2>1, <2>2, RemoveKeeps
    <3>2. g[n] = g[n - 1] \/ g[n] = PlaylistRemove(g[n - 1], indices[n])
      BY <1>2 DEF Removals
    <3>3. QED
      BY <2>2, <3>1, <3>2
  <2>4. QED
    BY <1>4, <2>3
<1> HIDE DEF T
<1>5. \A n \in 0 .. N : n \in T
  BY <1>1, <1>3, <1>4, UpTo
<1>6. N \in T
  BY <1>1, <1>5
<1>7. QED
  BY <1>2, <1>6 DEF T, Removals

(* playlist_remove_array *)
LEMMA PlaylistRemoveArraySound ==
    ASSUME NEW pl, Sound(pl), NEW indices \in Seq(Int),
           NEW new \in PlaylistRemoveArray(pl, indices)
    PROVE  Kept(new, pl)
<1> DEFINE positive == [n \in DOMAIN indices |-> ToInt(EnsurePositivIndex(pl, indices[n]))]
<1>1. positive \in [1 .. Len(indices) -> Int]
  <2>1. ASSUME NEW n \in 1 .. Len(indices)
        PROVE  EnsurePositivIndex(pl, indices[n]) \in Nat
    <3>1. indices[n] \in Int
      OBVIOUS
    <3>2. QED
      BY <3>1, SoundFields, PositiveIndex
  <2>2. \A u \in Nat : ToInt(u) \in Int
    BY IntTypes DEF ToInt
  <2>3. \A n \in 1 .. Len(indices) : ToInt(EnsurePositivIndex(pl, indices[n])) \in Int
    BY <2>1, <2>2
  <2>4. DOMAIN indices = 1 .. Len(indices)
    OBVIOUS
  <2>5. QED
    BY <2>3, <2>4
<1>2. \/ new = pl
      \/ \E s \in [DOMAIN positive -> {positive[i] : i \in DOMAIN positive}] : \E skip :
            new = RemoveEach(pl, s, skip)
  BY DEF PlaylistRemoveArray, Sorted
<1> HIDE DEF positive
<1>3. CASE new = pl
  BY <1>3 DEF Kept
<1>4. ASSUME NEW s \in [DOMAIN positive -> {positive[i] : i \in DOMAIN positive}], NEW skip,
             new = RemoveEach(pl, s, skip)
      PROVE  Kept(new, pl)
  <2>1. s \in [1 .. Len(indices) -> Int] /\ Len(indices) \in Nat
    BY <1>1
  <2>2. s \in Seq(Int)
    BY <2>1, SeqDef
  <2>3. QED
    BY <1>4, <2>2, RemoveEachSound
<1>5. QED
  BY <1>2, <1>3, <1>4

-----------------------------------------------------------------------------
(* g[0], ..., g[N] are the playlists during AddEach. *)
Additions(g, pl, lines, N) ==
    /\ AddEach(pl, lines) = g[N]
    /\ g[0] = pl
    /\ \A n \in 1 .. N : g[n] = Inserted(g[n - 1], lines[n], KfyAdded(g[n - 1].kfy, 1))

LEMMA AddEachRuns ==
    ASSUME NEW pl, NEW lines, NEW N \in Nat, N = Len(lines)
    PROVE  \E g : Additions(g, pl, lines, N)
<1> DEFINE Step(x, n) == Inserted(x, lines[n], KfyAdded(x.kfy, 1))
           Runs(g, m) == g = [n \in 0 .. m |-> IF n = 0 THEN pl ELSE Step(g[n - 1], n)]
           T == {m \in 0 .. N : \E g : Runs(g, m)}
           after[n \in 0 .. N] ==
              IF n = 0 THEN pl
              ELSE Inserted(after[n - 1], lines[n], KfyAdded(after[n - 1].kfy, 1))
<1>1. AddEach(pl, lines) = after[N]
  BY DEF AddEach
<1>2. \E g : Runs(g, 0)
  <2>1. Runs([n \in 0 .. 0 |-> pl], 0)
    OBVIOUS
  <2>2. QED
    BY <2>1
<1>3. ASSUME NEW m \in 1 .. N, m - 1 \in T PROVE m \in T
  <2>1. PICK g : Runs(g, m - 1)
    BY <1>3
  <2> DEFINE h == [n \in 0 .. m |-> IF n = m THEN Step(g[m - 1], m) ELSE g[n]]
  <2>2. /\ m \in Nat /\ m > 0
        /\ \A n \in 0 .. m - 1 : h[n] = g[n] /\ n # m
        /\ h[m] = Step(g[m - 1], m)
    BY <1>3
  <2>3. \A n \in 0 .. m : n # 0 => /\ n - 1 \in 0 .. m - 1
                                   /\ n # m => n \in 0 .. m - 1
    BY <2>2
  <2>4. \A n \in 0 .. m : h[n] = IF n = 0 THEN pl ELSE Step(h[n - 1], n)
    <3> HIDE DEF Step, h
    <3>1. \A n \in 0 .. m - 1 : g[n] = IF n = 0 THEN pl ELSE Step(g[n - 1], n)
      BY <2>1, Zenon
    <3>2. 0 \in 0 .. m - 1
      BY <2>2
    <3>3. QED
      BY <2>2, <2>3, <3>1, <3>2
  <2>5. Runs(h, m)
    <3>1. h = [n \in 0 .. m |-> h[n]]
      BY Zenon
    <3> HIDE DEF Step, h
    <3>2. QED
      BY <2>4, <3>1
  <2>6. QED
    <3> HIDE DEF Runs, h
    <3>1. QED
      BY <1>3, <2>5
<1>4. \E g : Runs(g, N)
  <2> HIDE DEF Runs
  <2>1. 0 \in T
    BY <1>2
  <2>2. N \in T
    <3> HIDE DEF T
    <3>1. \A n \in 0 .. N : n \in T
      BY <1>3, <2>1, UpTo
    <3>2. QED
      BY <3>1
  <2>3. QED
    BY <2>2
<1>5. Runs(after, N)
  BY <1>4
<1>6. /\ after[0] = pl
      /\ \A n \in 1 .. N : after[n] = Step(after[n - 1], n)
  <2> HIDE DEF after, Step
  <2>1. QED
    BY <1>5
<1>7. QED
  <2> HIDE DEF after
  <2>1. Additions(after, pl, lines, N)
    BY <1>1, <1>6 DEF Additions
  <2>2. QED
    BY <2>1

(* new is pl with the first n of lines behind its tracks, and the shuffler *)
(* can draw them as well as those it could draw before.                    *)
Extended(new, pl, lines, n) ==
    /\ Sound(new)
    /\ new.index = pl.index /\ new.repeat = pl.repeat /\ new.shuffle = pl.shuffle
    /\ Len(new.vec) = Len(pl.vec) + n
    /\ \A j \in 1 .. Len(new.vec) :
          new.vec[j] = IF j <= Len(pl.vec) THEN pl.vec[j] ELSE lines[j - Len(pl.vec)]
    /\ Remaining(new.kfy) = Remaining(pl.kfy) \cup Len(pl.vec) .. Len(new.vec) - 1

(* What vector_insert_back makes of the tracks. *)
LEMMA Appended ==
    ASSUME NEW v \in Seq(Tracks), NEW m \in Tracks
    PROVE  /\ Len(Append(v, m)) = Len(v) + 1
           /\ \A j \in 1 .. Len(v) : Append(v, m)[j] = v[j]
           /\ Append(v, m)[Len(v) + 1] = m
  BY AppendProperties

LEMMA OneMore ==
    ASSUME NEW a \in Nat, NEW n \in Nat, n > 0
    PROVE  a .. a + n - 1 = (a .. a + (n - 1) - 1) \cup {a + n - 1}
  OBVIOUS

LEMMA AddExtends ==
    ASSUME NEW pl, Sound(pl), NEW lines \in Seq(Tracks),
           NEW n \in 1 .. Len(lines), Len(pl.vec) + n <= MaxSize,
           NEW x, Extended(x, pl, lines, n - 1)
    PROVE  Extended(Inserted(x, lines[n], KfyAdded(x.kfy, 1)), pl, lines, n)
<1> DEFINE kfy == KfyAdded(x.kfy, 1)
           new == Inserted(x, lines[n], kfy)
           size == Len(pl.vec)
<1>1. /\ size \in Nat /\ lines[n] \in Tracks /\ n \in Nat /\ n > 0
      /\ Sound(x) /\ x.vec \in Seq(Tracks) /\ Len(x.vec) = size + n - 1
      /\ x.kfy.size = size + n - 1 /\ KfyType(x.kfy) /\ KfySound(x.kfy)
  <2>1. size \in Nat
    BY SoundFields
  <2>2. Sound(x) /\ Len(x.vec) = size + (n - 1)
    BY DEF Extended
  <2>3. /\ x.vec \in Seq(Tracks) /\ x.kfy.size = Len(x.vec)
        /\ KfyType(x.kfy) /\ KfySound(x.kfy)
    BY <2>2, SoundFields
  <2>4. QED
    BY <2>1, <2>2, <2>3
<1>2. /\ KfyType(kfy) /\ KfySound(kfy)
      /\ kfy.size = x.kfy.size + 1
      /\ Remaining(kfy) = Remaining(x.kfy) \cup {x.kfy.size}
  <2> DEFINE out == [ok |-> TRUE, kfy |-> kfy]
  <2>1. out \in KfyAdd(x.kfy, 1) /\ out.ok /\ out.kfy = kfy
    BY DEF KfyAdd
  <2>2. x.kfy.size + 1 <= MaxSize
    BY <1>1
  <2> HIDE DEF kfy, out
  <2>3. /\ KfyType(out.kfy) /\ KfySound(out.kfy)
        /\ out.kfy.size = x.kfy.size + 1
        /\ Remaining(out.kfy) = Remaining(x.kfy) \cup {x.kfy.size}
    BY <1>1, <2>1, <2>2, KfyAddOne
  <2>4. QED
    BY <2>1, <2>3
<1> HIDE DEF kfy
<1>3. /\ Sound(new)
      /\ new.vec = Append(x.vec, lines[n]) /\ new.kfy = kfy /\ new.index = x.index
      /\ new.repeat = x.repeat /\ new.shuffle = x.shuffle
  BY <1>1, <1>2, InsertedSound
<1> HIDE DEF new
<1>4. /\ Len(new.vec) = size + n
      /\ \A j \in 1 .. size + n - 1 : new.vec[j] = x.vec[j]
      /\ new.vec[size + n] = lines[n]
  <2>1. /\ Len(new.vec) = Len(x.vec) + 1
        /\ \A j \in 1 .. Len(x.vec) : new.vec[j] = x.vec[j]
        /\ new.vec[Len(x.vec) + 1] = lines[n]
    BY <1>1, <1>3, Appended
  <2>2. QED
    BY <1>1, <2>1
<1>5. ASSUME NEW j \in 1 .. Len(new.vec)
      PROVE  new.vec[j] = IF j <= size THEN pl.vec[j] ELSE lines[j - size]
  <2>1. CASE j = size + n
    <3>1. ~ (j <= size) /\ j - size = n
      BY <1>1, <2>1
    <3>2. QED
      BY <1>4, <2>1, <3>1
  <2>2. CASE j # size + n
    <3>1. j \in 1 .. size + n - 1
      BY <1>1, <1>4, <2>2
    <3>2. x.vec[j] = IF j <= size THEN pl.vec[j] ELSE lines[j - size]
      BY <1>1, <3>1 DEF Extended
    <3>3. QED
      BY <1>4, <3>1, <3>2
  <2>3. QED
    BY <2>1, <2>2
<1>6. Remaining(new.kfy) = Remaining(pl.kfy) \cup size .. Len(new.vec) - 1
  <2>1. Remaining(x.kfy) = Remaining(pl.kfy) \cup size .. size + (n - 1) - 1
    BY <1>1 DEF Extended
  <2>2. size .. size + n - 1 = (size .. size + (n - 1) - 1) \cup {size + n - 1}
    <3> HIDE DEF size
    <3>1. QED
      BY <1>1, OneMore
  <2>3. Remaining(new.kfy) = Remaining(x.kfy) \cup {size + n - 1}
    BY <1>1, <1>2, <1>3
  <2>4. QED
    BY <1>4, <2>1, <2>2, <2>3
<1>7. Extended(new, pl, lines, n)
  BY <1>3, <1>4, <1>5, <1>6 DEF Extended
<1>8. QED
  BY <1>7 DEF new, kfy

(* The loop of playlist_load_file adds all lines. *)
LEMMA AddEachSound ==
    ASSUME NEW pl, Sound(pl), NEW lines \in Seq(Tracks), Len(pl.vec) + Len(lines) <= MaxSize
    PROVE  Extended(AddEach(pl, lines), pl, lines, Len(lines))
<1>1. PICK N \in Nat : N = Len(lines)
  OBVIOUS
<1>2. PICK g : Additions(g, pl, lines, N)
  BY <1>1, AddEachRuns
<1> DEFINE T == {n \in 0 .. N : Extended(g[n], pl, lines, n)}
<1>3. 0 \in T
  <2>1. g[0] = pl
    BY <1>2 DEF Additions
  <2>2. Extended(pl, pl, lines, 0)
    <3>1. Len(pl.vec) \in Nat
      BY SoundFields
    <3>2. Len(pl.vec) .. Len(pl.vec) - 1 = {}
      BY <3>1
    <3>3. QED
      BY <3>1, <3>2 DEF Extended
  <2>3. QED
    BY <1>1, <2>1, <2>2
<1>4. ASSUME NEW n \in 1 .. N, n - 1 \in T PROVE n \in T
  <2>1. n \in 1 .. Len(lines) /\ Len(pl.vec) + n <= MaxSize /\ Len(pl.vec) \in Nat
    <3>1. Len(pl.vec) \in Nat
      BY SoundFields
    <3>2. QED
      BY <1>1, <3>1, CapacityTypes
  <2>2. Extended(g[n - 1], pl, lines, n - 1)
    BY <1>4
  <2>3. Extended(g[n], pl, lines, n)
    <3>1. Extended(Inserted(g[n - 1], lines[n], KfyAdded(g[n - 1].kfy, 1)), pl, lines, n)
      BY <2>1, <2>2, AddExtends
    <3>2. g[n] = Inserted(g[n - 1], lines[n], KfyAdded(g[n - 1].kfy, 1))
      BY <1>2 DEF Additions
    <3>3. QED
      BY <3>1, <3>2
  <2>4. QED
    BY <1>4, <2>3
<1> HIDE DEF T
<1>5. \A n \in 0 .. N : n \in T
  BY <1>1, <1>3, <1>4, UpTo
<1>6. N \in T
  BY <1>1, <1>5
<1>7. Extended(g[N], pl, lines, N)
  BY <1>6 DEF T
<1>8. QED
  BY <1>1, <1>2, <1>7 DEF Additions

(* new is pl without its last n tracks. *)
Shortened(new, pl, n) ==
    /\ Sound(new)
    /\ new.index = pl.index /\ new.repeat = pl.repeat /\ new.shuffle = pl.shuffle
    /\ Len(new.vec) = Len(pl.vec) - n
    /\ \A j \in 1 .. Len(new.vec) : new.vec[j] = pl.vec[j]

(* -1 is the last track. *)
LEMMA LastIndex ==
    ASSUME NEW pl, Sound(pl), Len(pl.vec) > 0
    PROVE  EnsurePositivIndex(pl, -1) = Len(pl.vec) - 1
<1>1. Len(pl.vec) \in Nat /\ Len(pl.vec) <= MaxSize
  BY SoundFields
<1>2. EnsurePositivIndex(pl, -1) = (Len(pl.vec) + -1) % UIntRange
  BY DEF EnsurePositivIndex
<1>3. PICK last \in Nat : last = Len(pl.vec) + -1 /\ last = Len(pl.vec) - 1
  BY <1>1
<1>4. last \in UInts
  BY <1>1, <1>3, IntTypes
<1>5. last % UIntRange = last
  BY <1>4, NoWrap
<1>6. QED
  BY <1>2, <1>3, <1>5

LEMMA RemoveLastShortens ==
    ASSUME NEW pl, Sound(pl), NEW n \in 1 .. Len(pl.vec), NEW x, Shortened(x, pl, n - 1)
    PROVE  Shortened(PlaylistRemove(x, -1), pl, n)
<1> DEFINE new == PlaylistRemove(x, -1)
           i   == EnsurePositivIndex(x, -1)
<1>1. /\ Sound(x) /\ Len(pl.vec) \in Nat /\ n \in Nat /\ n <= Len(pl.vec)
      /\ Len(x.vec) = Len(pl.vec) - n + 1
  <2>1. Len(pl.vec) \in Nat /\ Sound(x) /\ Len(x.vec) = Len(pl.vec) - (n - 1)
    BY SoundFields DEF Shortened
  <2>2. QED
    BY <2>1
<1>2. i = Len(x.vec) - 1
  BY <1>1, LastIndex
<1>3. /\ Sound(new)
      /\ new.index = x.index /\ new.repeat = x.repeat /\ new.shuffle = x.shuffle
      /\ i < Len(x.vec) => /\ Len(new.vec) = Len(x.vec) - 1
                           /\ \A j \in 1 .. Len(new.vec) :
                                 new.vec[j] = x.vec[IF j <= i THEN j ELSE j + 1]
  <2>1. -1 \in Int
    OBVIOUS
  <2>2. QED
    BY <1>1, <2>1, PlaylistRemoveSound
<1> HIDE DEF new, i
<1>4. /\ Len(new.vec) = Len(pl.vec) - n
      /\ \A j \in 1 .. Len(new.vec) : j <= i /\ j \in 1 .. Len(x.vec)
  <2>1. i = Len(pl.vec) - n /\ i \in Nat /\ i < Len(x.vec)
    BY <1>1, <1>2
  <2>2. Len(new.vec) = i
    BY <1>2, <1>3, <2>1
  <2>3. QED
    BY <1>1, <2>1, <2>2
<1>5. ASSUME NEW j \in 1 .. Len(new.vec)
      PROVE  new.vec[j] = pl.vec[j]
  <2>1. new.vec[j] = x.vec[j]
    <3>1. i < Len(x.vec)
      BY <1>1, <1>2
    <3>2. j <= i
      BY <1>4
    <3>3. QED
      BY <1>3, <3>1, <3>2
  <2>2. x.vec[j] = pl.vec[j]
    BY <1>4 DEF Shortened
  <2>3. QED
    BY <2>1, <2>2
<1>6. Shortened(new, pl, n)
  BY <1>3, <1>4, <1>5 DEF Shortened
<1>7. QED
  BY <1>6 DEF new

(* cleanup1 of playlist_load_file removes the last n tracks. *)
LEMMA RollBackSound ==
    ASSUME NEW pl, Sound(pl), NEW N \in 0 .. Len(pl.vec)
    PROVE  Shortened(RollBack(pl, N), pl, N)
<1> DEFINE indices == [i \in 1 .. N |-> -1]
<1>1. /\ N \in Nat /\ indices \in Seq(Int) /\ Len(indices) = N
      /\ \A n \in 1 .. N : indices[n] = -1 /\ n \in 1 .. Len(pl.vec)
  <2>1. Len(pl.vec) \in Nat
    BY SoundFields
  <2>2. N \in Nat /\ indices \in [1 .. N -> Int]
    BY <2>1
  <2>3. indices \in Seq(Int) /\ Len(indices) = N
    BY <2>2, SeqDef
  <2>4. QED
    BY <2>1, <2>2, <2>3
<1>2. RollBack(pl, N) = RemoveEach(pl, indices, {})
  BY DEF RollBack
<1> HIDE DEF indices
<1>3. PICK g : Removals(g, pl, indices, N, {})
  BY <1>1, RemoveEachRuns
<1> DEFINE T == {n \in 0 .. N : Shortened(g[n], pl, n)}
<1>4. 0 \in T
  <2>1. g[0] = pl
    BY <1>3 DEF Removals
  <2>2. Len(pl.vec) \in Nat
    BY SoundFields
  <2>3. Shortened(pl, pl, 0)
    BY <2>2 DEF Shortened
  <2>4. QED
    BY <1>1, <2>1, <2>3
<1>5. ASSUME NEW n \in 1 .. N, n - 1 \in T PROVE n \in T
  <2>1. Shortened(g[n - 1], pl, n - 1)
    BY <1>5
  <2>2. g[n] = PlaylistRemove(g[n - 1], -1)
    BY <1>1, <1>3 DEF Removals
  <2>3. Shortened(g[n], pl, n)
    BY <1>1, <2>1, <2>2, RemoveLastShortens
  <2>4. QED
    BY <1>5, <2>3
<1> HIDE DEF T
<1>6. \A n \in 0 .. N : n \in T
  BY <1>1, <1>4, <1>5, UpTo
<1>7. N \in T
  BY <1>1, <1>6
<1>8. Shortened(g[N], pl, N)
  BY <1>7 DEF T
<1>9. QED
  BY <1>2, <1>3, <1>8 DEF Removals

LEMMA SameTracks ==
    ASSUME NEW v \in Seq(Tracks), NEW w \in Seq(Tracks), Len(v) = Len(w),
           \A j \in 1 .. Len(v) : v[j] = w[j]
    PROVE  v = w
  OBVIOUS

LEMMA PrefixOfTracks ==
    ASSUME NEW lines \in Seq(Int), NEW n \in 1 .. Len(lines),
           \A i \in 1 .. n - 1 : lines[i] \in Tracks
    PROVE  /\ SubSeq(lines, 1, n - 1) \in Seq(Tracks)
           /\ Len(SubSeq(lines, 1, n - 1)) = n - 1
<1> DEFINE p == SubSeq(lines, 1, n - 1)
<1>1. p \in Seq(Int) /\ Len(p) = n - 1 /\ \A i \in 1 .. n - 1 : p[i] = lines[i]
  OBVIOUS
<1> HIDE DEF p
<1>2. p \in Seq(Tracks)
  <2>1. p = [i \in 1 .. Len(p) |-> p[i]] /\ Len(p) \in Nat
    BY <1>1
  <2>2. p \in [1 .. Len(p) -> Tracks]
    BY <1>1, <2>1
  <2>3. QED
    BY <2>1, <2>2, SeqDef
<1>3. QED
  BY <1>1, <1>2 DEF p

(* playlist_load_file adds every line, or leaves the tracks as they were. *)
LEMMA LoadFileSound ==
    ASSUME NEW pl, Sound(pl), NEW lines \in Seq(Int), Len(pl.vec) + Len(lines) <= MaxSize,
           NEW out \in LoadFile(pl, lines)
    PROVE  \/ /\ out.ok = FALSE /\ Sound(out.pl)
              /\ out.pl.index = pl.index /\ out.pl.repeat = pl.repeat
              /\ out.pl.shuffle = pl.shuffle /\ out.pl.vec = pl.vec
           \/ out.ok = TRUE /\ Extended(out.pl, pl, lines, Len(lines))
<1>1. Len(pl.vec) \in Nat /\ Len(lines) \in Nat
  BY SoundFields
<1>2. ASSUME NEW n \in LoadStops(lines),
             out = [ok |-> FALSE, pl |-> RollBack(AddEach(pl, SubSeq(lines, 1, n - 1)), n - 1)]
      PROVE  /\ out.ok = FALSE /\ Sound(out.pl)
             /\ out.pl.index = pl.index /\ out.pl.repeat = pl.repeat
             /\ out.pl.shuffle = pl.shuffle /\ out.pl.vec = pl.vec
  <2> DEFINE p == SubSeq(lines, 1, n - 1)
             x == AddEach(pl, p)
             new == RollBack(x, n - 1)
  <2>1. n \in 1 .. Len(lines) /\ \A i \in 1 .. n - 1 : lines[i] \in Tracks
    BY DEF LoadStops
  <2>2. n - 1 \in Nat /\ Len(pl.vec) + (n - 1) <= MaxSize
    BY <1>1, <2>1, CapacityTypes
  <2>3. p \in Seq(Tracks) /\ Len(p) = n - 1
    BY <2>1, PrefixOfTracks
  <2>4. out.ok = FALSE /\ out.pl = new
    BY <1>2
  <2> HIDE DEF p
  <2>5. Extended(x, pl, p, n - 1)
    BY <2>2, <2>3, AddEachSound
  <2> HIDE DEF x
  <2>6. Sound(x) /\ n - 1 \in 0 .. Len(x.vec)
    BY <1>1, <2>2, <2>5 DEF Extended
  <2>7. Shortened(new, x, n - 1)
    BY <2>6, RollBackSound
  <2> HIDE DEF new
  <2>8. /\ Sound(new) /\ Len(new.vec) = Len(pl.vec)
        /\ new.index = pl.index /\ new.repeat = pl.repeat /\ new.shuffle = pl.shuffle
    BY <1>1, <2>2, <2>5, <2>7 DEF Extended, Shortened
  <2>9. \A j \in 1 .. Len(new.vec) : new.vec[j] = pl.vec[j]
    <3>1. \A j \in 1 .. Len(new.vec) : j \in 1 .. Len(x.vec) /\ j <= Len(pl.vec)
      BY <1>1, <2>2, <2>5, <2>8 DEF Extended
    <3>2. QED
      BY <2>5, <2>7, <3>1 DEF Extended, Shortened
  <2>10. new.vec = pl.vec
    BY <2>8, <2>9, SoundFields, SameTracks
  <2>11. QED
    BY <2>4, <2>8, <2>10
<1>3. ASSUME lines \in Seq(Tracks), out = [ok |-> TRUE, pl |-> AddEach(pl, lines)]
      PROVE  out.ok = TRUE /\ Extended(out.pl, pl, lines, Len(lines))
  BY <1>3, AddEachSound
<1>4. \/ \E n \in LoadStops(lines) :
            out = [ok |-> FALSE, pl |-> RollBack(AddEach(pl, SubSeq(lines, 1, n - 1)), n - 1)]
      \/ lines \in Seq(Tracks) /\ out = [ok |-> TRUE, pl |-> AddEach(pl, lines)]
  BY DEF LoadFile
<1>5. QED
  BY <1>2, <1>3, <1>4

-----------------------------------------------------------------------------
(* An assignment to index alone. *)
LEMMA IndexSound ==
    ASSUME NEW pl, Sound(pl), NEW i \in UInts, NEW new, new = [pl EXCEPT !.index = i]
    PROVE  /\ Sound(new)
           /\ new.vec = pl.vec /\ new.kfy = pl.kfy /\ new.index = i
           /\ new.repeat = pl.repeat /\ new.shuffle = pl.shuffle
<1>1. IsRecord(pl)
  BY SoundRecord
<1>2. /\ IsRecord(new)
      /\ new.vec = pl.vec /\ new.kfy = pl.kfy /\ new.index = i
      /\ new.repeat = pl.repeat /\ new.shuffle = pl.shuffle
  BY <1>1 DEF IsRecord
<1>3. QED
  BY ONLY <1>2, Sound(pl), i \in UInts, SoundFields, SoundParts

(* playlist_set_index with an index that names a track. *)
LEMMA SetIndexSound ==
    ASSUME NEW pl, Sound(pl), NEW i \in Int, HasTrack(pl, i)
    PROVE  LET new == SetIndex(pl, i)
           IN  /\ Sound(new)
               /\ new.vec = pl.vec /\ new.kfy = pl.kfy
               /\ new.repeat = pl.repeat /\ new.shuffle = pl.shuffle
               /\ new.index \in 0 .. Len(pl.vec) - 1
<1> DEFINE u == EnsurePositivIndex(pl, i)
<1>1. u \in 0 .. Len(pl.vec) - 1
  BY SoundFields, PositiveIndex DEF HasTrack
<1>2. u \in UInts
  BY <1>1, SoundFields, IntTypes DEF NoIndex
<1>3. SetIndex(pl, i) = [pl EXCEPT !.index = u]
  BY DEF SetIndex
<1> HIDE DEF u
<1>4. QED
  BY <1>1, <1>2, <1>3, IndexSound

LEMMA NotEmpty ==
    ASSUME NEW pl, Sound(pl), pl.vec # <<>>
    PROVE  Len(pl.vec) > 0
<1>1. \A v \in Seq(Tracks) : v # <<>> => Len(v) > 0
  OBVIOUS
<1>2. QED
  BY <1>1, SoundFields

(* What is left in the shuffler are indices of tracks. *)
LEMMA BagOfTracks ==
    ASSUME NEW pl, Sound(pl)
    PROVE  /\ Remaining(pl.kfy) \subseteq 0 .. Len(pl.vec) - 1
           /\ KfyCycleDone(pl.kfy) <=> Remaining(pl.kfy) = {}
<1>1. /\ KfyType(pl.kfy) /\ KfySound(pl.kfy)
      /\ pl.kfy.size = Len(pl.vec) /\ pl.kfy.end \in Nat
  BY SoundFields, KfyFields
<1>2. \A i \in 0 .. pl.kfy.end - 1 : pl.kfy.a[i] \in 0 .. Len(pl.vec) - 1
  BY <1>1 DEF KfySound, DistinctBelow
<1>3. pl.kfy.end # 0 => 0 \in 0 .. pl.kfy.end - 1
  BY <1>1
<1>4. pl.kfy.end = 0 => 0 .. pl.kfy.end - 1 = {}
  BY <1>1
<1>5. QED
  BY <1>2, <1>3, <1>4 DEF Remaining, Cells, KfyCycleDone

(* playlist_next in a shuffled playlist draws what is left of the cycle. *)
LEMMA NextShuffledSound ==
    ASSUME NEW pl, Sound(pl), pl.vec # <<>>, NEW out \in NextShuffled(pl)
    PROVE  LET n    == Len(pl.vec)
               pool == IF KfyCycleDone(pl.kfy) THEN 0 .. n - 1 ELSE Remaining(pl.kfy)
           IN  /\ Sound(out.pl) /\ out.pl.vec = pl.vec
               /\ out.pl.repeat = pl.repeat /\ out.pl.shuffle = pl.shuffle
               /\ \/ /\ KfyCycleDone(pl.kfy) /\ out.ret = NoIndex
                     /\ Remaining(out.pl.kfy) = 0 .. n - 1
                  \/ /\ out.ret \in pool /\ out.ret \in 0 .. n - 1
                     /\ out.pl.index = out.ret
                     /\ Remaining(out.pl.kfy) = pool \ {out.ret}
<1> DEFINE n    == Len(pl.vec)
           pool == IF KfyCycleDone(pl.kfy) THEN 0 .. n - 1 ELSE Remaining(pl.kfy)
<1>1. /\ n \in Nat /\ n > 0 /\ pl.kfy.size = n /\ pl.index \in UInts
      /\ KfyType(pl.kfy) /\ KfySound(pl.kfy) /\ n <= MaxSize
  BY SoundFields, NotEmpty
<1>2. ASSUME KfyCycleDone(pl.kfy), NEW k \in KfyReset(pl.kfy),
             out = [ret |-> NoIndex, pl |-> [pl EXCEPT !.kfy = k]]
      PROVE  /\ Sound(out.pl) /\ out.pl.vec = pl.vec
             /\ out.pl.repeat = pl.repeat /\ out.pl.shuffle = pl.shuffle
             /\ out.ret = NoIndex /\ Remaining(out.pl.kfy) = 0 .. n - 1
  <2>1. KfyType(k) /\ KfySound(k) /\ k.size = n /\ Remaining(k) = 0 .. n - 1
    BY <1>1, KfyResetSound
  <2> DEFINE new == [pl EXCEPT !.kfy = k]
  <2>2. IsRecord(pl)
    BY SoundRecord
  <2>3. /\ IsRecord(new)
        /\ new.vec = pl.vec /\ new.kfy = k /\ new.index = pl.index
        /\ new.repeat = pl.repeat /\ new.shuffle = pl.shuffle
    BY <2>2 DEF IsRecord
  <2>4. out.ret = NoIndex /\ out.pl = new
    BY <1>2
  <2> HIDE DEF new
  <2>5. Sound(new)
    BY <1>1, <2>1, <2>3, SoundFields, SoundParts
  <2>6. QED
    BY <2>1, <2>3, <2>4, <2>5
<1>3. ASSUME NEW draw \in KfyShuffle(pl.kfy),
             out = [ret |-> draw.val, pl |-> [pl EXCEPT !.kfy = draw.kfy, !.index = draw.val]]
      PROVE  /\ Sound(out.pl) /\ out.pl.vec = pl.vec
             /\ out.pl.repeat = pl.repeat /\ out.pl.shuffle = pl.shuffle
             /\ out.ret \in pool /\ out.ret \in 0 .. n - 1
             /\ out.pl.index = out.ret
             /\ Remaining(out.pl.kfy) = pool \ {out.ret}
  <2> DEFINE new == [pl EXCEPT !.kfy = draw.kfy, !.index = draw.val]
  <2>1. /\ KfyType(draw.kfy) /\ KfySound(draw.kfy) /\ draw.kfy.size = n
        /\ draw.val \in pool /\ Remaining(draw.kfy) = pool \ {draw.val}
    BY <1>1, KfyShuffleSound
  <2>2. draw.val \in 0 .. n - 1
    BY <2>1, BagOfTracks
  <2>3. draw.val \in UInts
    BY <1>1, <2>2, IntTypes DEF NoIndex
  <2>4. out.ret = draw.val /\ out.pl = new
    BY <1>3
  <2>5. IsRecord(pl)
    BY SoundRecord
  <2>6. /\ IsRecord(new)
        /\ new.vec = pl.vec /\ new.kfy = draw.kfy /\ new.index = draw.val
        /\ new.repeat = pl.repeat /\ new.shuffle = pl.shuffle
    BY <2>5 DEF IsRecord
  <2> HIDE DEF pool, new
  <2>7. Sound(new)
    BY <2>1, <2>3, <2>6, SoundFields, SoundParts
  <2>8. QED
    BY <2>1, <2>2, <2>4, <2>6, <2>7
<1>4. \/ /\ KfyCycleDone(pl.kfy)
         /\ \E k \in KfyReset(pl.kfy) :
               out = [ret |-> NoIndex, pl |-> [pl EXCEPT !.kfy = k]]
      \/ \E draw \in KfyShuffle(pl.kfy) :
            out = [ret |-> draw.val, pl |-> [pl EXCEPT !.kfy = draw.kfy, !.index = draw.val]]
  BY DEF NextShuffled
<1> HIDE DEF pool, n
<1>5. QED
  <2>1. CASE /\ KfyCycleDone(pl.kfy)
             /\ \E k \in KfyReset(pl.kfy) :
                   out = [ret |-> NoIndex, pl |-> [pl EXCEPT !.kfy = k]]
    BY <1>2, <2>1 DEF n, pool
  <2>2. CASE \E draw \in KfyShuffle(pl.kfy) :
            out = [ret |-> draw.val, pl |-> [pl EXCEPT !.kfy = draw.kfy, !.index = draw.val]]
    BY <1>3, <2>2 DEF n, pool
  <2>3. QED
    BY <1>4, <2>1, <2>2

(* playlist_next in a playlist played in order. *)
LEMMA NextInOrderSound ==
    ASSUME NEW pl, Sound(pl), pl.vec # <<>>, NEW out \in NextInOrder(pl)
    PROVE  LET n    == Len(pl.vec)
               succ == IF pl.index = NoIndex THEN 0 ELSE pl.index + 1
           IN  /\ Sound(out.pl) /\ out.pl.vec = pl.vec
               /\ out.pl.repeat = pl.repeat /\ out.pl.shuffle = pl.shuffle
               /\ Remaining(out.pl.kfy) = Remaining(pl.kfy)
               /\ out.pl.index = out.ret
               /\ IF succ < n THEN out.ret = succ
                  ELSE out.ret = 0 \/ out.ret = NoIndex
<1> DEFINE n    == Len(pl.vec)
           succ == IF pl.index = NoIndex THEN 0 ELSE pl.index + 1
           ret  == IF succ < n THEN succ ELSE IF pl.repeat THEN 0 ELSE NoIndex
<1>1. n \in Nat /\ n > 0 /\ pl.index \in UInts /\ n <= MaxSize /\ PlaylistSize(pl) = n
  BY SoundFields, NotEmpty
<1>2. (pl.index + 1) % UIntRange = succ
  BY <1>1, Successor
<1>3. out = [ret |-> ret, pl |-> [pl EXCEPT !.index = ret]]
  BY <1>1, <1>2 DEF NextInOrder
<1>4. ret \in UInts
  BY <1>1, IntTypes DEF NoIndex
<1>5. IF succ < n THEN ret = succ ELSE ret = 0 \/ ret = NoIndex
  OBVIOUS
<1> HIDE DEF ret
<1>6. PICK new : new = [pl EXCEPT !.index = ret]
  OBVIOUS
<1>7. /\ Sound(new)
      /\ new.vec = pl.vec /\ new.kfy = pl.kfy /\ new.index = ret
      /\ new.repeat = pl.repeat /\ new.shuffle = pl.shuffle
  BY <1>4, <1>6, IndexSound
<1>8. out.ret = ret /\ out.pl = new
  BY <1>3, <1>6
<1>9. QED
  BY <1>5, <1>7, <1>8

(* playlist_next returns a track there is, and changes no tracks. *)
LEMMA PlaylistNextSound ==
    ASSUME NEW pl, Sound(pl), NEW out \in PlaylistNext(pl)
    PROVE  /\ Sound(out.pl) /\ out.pl.vec = pl.vec
           /\ out.pl.repeat = pl.repeat /\ out.pl.shuffle = pl.shuffle
           /\ out.ret = NoIndex \/ out.ret \in 0 .. Len(pl.vec) - 1
<1>1. CASE pl.vec = <<>>
  BY <1>1 DEF PlaylistNext
<1>2. CASE pl.vec # <<>> /\ pl.shuffle
  <2>1. out \in NextShuffled(pl)
    BY <1>2 DEF PlaylistNext
  <2>2. QED
    BY <1>2, <2>1, NextShuffledSound
<1>3. CASE pl.vec # <<>> /\ ~ pl.shuffle
  <2>1. out \in NextInOrder(pl)
    BY <1>3 DEF PlaylistNext
  <2>2. Len(pl.vec) \in Nat /\ Len(pl.vec) > 0 /\ pl.index \in Nat
    BY <1>3, NotEmpty, SoundFields, IntTypes
  <2>3. QED
    BY <1>3, <2>1, <2>2, NextInOrderSound
<1>4. QED
  BY <1>1, <1>2, <1>3

(* playlist_sort, after vector_sort has chosen s and kfy_reset k. *)
Rearranged(pl, s, k) == [pl EXCEPT !.vec = s, !.kfy = k, !.index = NoIndex]

Orders(pl) == Sorted(pl.vec, LAMBDA x, y : x < y)

LEMMA SortRearranges ==
    ASSUME NEW pl
    PROVE  PlaylistSort(pl) = {Rearranged(pl, s, k) : s \in Orders(pl), k \in KfyReset(pl.kfy)}
  BY DEF PlaylistSort, Rearranged, Orders, Sorted

LEMMA PlaylistSortSound ==
    ASSUME NEW pl, Sound(pl), NEW new \in PlaylistSort(pl)
    PROVE  /\ Sound(new) /\ Len(new.vec) = Len(pl.vec) /\ new.index = NoIndex
           /\ new.repeat = pl.repeat /\ new.shuffle = pl.shuffle
           /\ Remaining(new.kfy) = 0 .. Len(pl.vec) - 1
<1>1. PICK s \in Orders(pl), k \in KfyReset(pl.kfy) : new = Rearranged(pl, s, k)
  BY SortRearranges
<1>2. s \in Seq(Tracks) /\ Len(s) = Len(pl.vec)
  <2>1. PICK v \in Seq(Tracks) : v = pl.vec
    BY SoundFields
  <2>2. DOMAIN v = 1 .. Len(v) /\ Len(v) \in Nat /\ \A i \in 1 .. Len(v) : v[i] \in Tracks
    OBVIOUS
  <2>3. s \in [1 .. Len(v) -> Tracks]
    <3>1. s \in [DOMAIN pl.vec -> {pl.vec[i] : i \in DOMAIN pl.vec}]
      BY DEF Orders, Sorted
    <3>2. QED
      BY <2>1, <2>2, <3>1
  <2>4. s \in Seq(Tracks) /\ Len(s) = Len(v)
    BY <2>2, <2>3, SeqDef
  <2>5. QED
    BY <2>1, <2>4
<1>3. /\ KfyType(k) /\ KfySound(k) /\ k.size = Len(pl.vec)
      /\ Remaining(k) = 0 .. Len(pl.vec) - 1
  BY <1>1, SoundFields, KfyResetSound
<1>4. /\ IsRecord(new)
      /\ new.vec = s /\ new.kfy = k /\ new.index = NoIndex
      /\ new.repeat = pl.repeat /\ new.shuffle = pl.shuffle
  <2>1. IsRecord(pl)
    BY SoundRecord
  <2>2. QED
    BY <1>1, <2>1 DEF IsRecord, Rearranged
<1>5. Sound(new)
  BY <1>2, <1>3, <1>4, SoundFields, SoundParts, IntTypes
<1>6. QED
  BY <1>2, <1>3, <1>4, <1>5

(* playlist_save *)
LEMMA PlaylistSaveSound ==
    ASSUME NEW pl, Sound(pl), NEW file \in Seq(Tracks), Len(file) <= MaxSize,
           NEW new \in PlaylistSave(pl, file)
    PROVE  new \in Seq(Tracks) /\ Len(new) <= MaxSize
<1>1. CASE new = file
  BY <1>1
<1>2. ASSUME NEW n \in 0 .. Len(pl.vec), new = SubSeq(pl.vec, 1, n)
      PROVE  new \in Seq(Tracks) /\ Len(new) <= MaxSize
  <2>1. PICK v \in Seq(Tracks) : v = pl.vec /\ Len(v) <= MaxSize
    BY SoundFields
  <2>2. n \in 0 .. Len(v) /\ new = SubSeq(v, 1, n)
    BY <1>2, <2>1
  <2>3. SubSeq(v, 1, n) \in Seq(Tracks) /\ Len(SubSeq(v, 1, n)) = n
    BY <2>2
  <2>4. QED
    BY <2>1, <2>2, <2>3, CapacityTypes
<1>3. new = file \/ \E n \in 0 .. Len(pl.vec) : new = SubSeq(pl.vec, 1, n)
  BY DEF PlaylistSave, PlaylistSize
<1>4. QED
  BY <1>1, <1>2, <1>3

-----------------------------------------------------------------------------
(* What is left of the tracks v when those with the indices in S are taken *)
(* out: L[i] is what is left of the first i.                               *)
LeftOf(L, v, S, N) ==
    /\ L[0] = <<>>
    /\ \A i \in 1 .. N : L[i] = IF i - 1 \in S THEN L[i - 1] ELSE Append(L[i - 1], v[i])

Leaves(w, v, S, N) == \E L : LeftOf(L, v, S, N) /\ w = L[N]

(* Such an L can be computed from left to right, *)
LEMMA LeftRuns ==
    ASSUME NEW v, NEW S, NEW N \in Nat
    PROVE  LET Left[i \in 0 .. N] ==
                  IF i = 0 THEN <<>>
                  ELSE IF i - 1 \in S THEN Left[i - 1]
                  ELSE Append(Left[i - 1], v[i])
           IN  LeftOf(Left, v, S, N)
<1> DEFINE Step(x, n) == IF n - 1 \in S THEN x ELSE Append(x, v[n])
           Runs(g, m) == g = [n \in 0 .. m |-> IF n = 0 THEN <<>> ELSE Step(g[n - 1], n)]
           T == {m \in 0 .. N : \E g : Runs(g, m)}
           Left[i \in 0 .. N] ==
              IF i = 0 THEN <<>>
              ELSE IF i - 1 \in S THEN Left[i - 1]
              ELSE Append(Left[i - 1], v[i])
<1>1. \E g : Runs(g, 0)
  <2>1. Runs([n \in 0 .. 0 |-> <<>>], 0)
    OBVIOUS
  <2>2. QED
    BY <2>1
<1>2. ASSUME NEW m \in 1 .. N, m - 1 \in T PROVE m \in T
  <2>1. PICK g : Runs(g, m - 1)
    BY <1>2
  <2> DEFINE h == [n \in 0 .. m |-> IF n = m THEN Step(g[m - 1], m) ELSE g[n]]
  <2>2. /\ m \in Nat /\ m > 0
        /\ \A n \in 0 .. m - 1 : h[n] = g[n] /\ n # m
        /\ h[m] = Step(g[m - 1], m)
    BY <1>2
  <2>3. \A n \in 0 .. m : n # 0 => /\ n - 1 \in 0 .. m - 1
                                   /\ n # m => n \in 0 .. m - 1
    BY <2>2
  <2>4. \A n \in 0 .. m : h[n] = IF n = 0 THEN <<>> ELSE Step(h[n - 1], n)
    <3> HIDE DEF Step, h
    <3>1. \A n \in 0 .. m - 1 : g[n] = IF n = 0 THEN <<>> ELSE Step(g[n - 1], n)
      BY <2>1, Zenon
    <3>2. 0 \in 0 .. m - 1
      BY <2>2
    <3>3. QED
      BY <2>2, <2>3, <3>1, <3>2
  <2>5. Runs(h, m)
    <3>1. h = [n \in 0 .. m |-> h[n]]
      BY Zenon
    <3> HIDE DEF Step, h
    <3>2. QED
      BY <2>4, <3>1
  <2>6. QED
    <3> HIDE DEF Runs, h
    <3>1. QED
      BY <1>2, <2>5
<1>3. \E g : Runs(g, N)
  <2> HIDE DEF Runs
  <2>1. 0 \in T
    BY <1>1
  <2>2. N \in T
    <3> HIDE DEF T
    <3>1. \A n \in 0 .. N : n \in T
      BY <1>2, <2>1, UpTo
    <3>2. QED
      BY <3>1
  <2>3. QED
    BY <2>2
<1>4. Runs(Left, N)
  BY <1>3, Zenon
<1>5. /\ Left[0] = <<>>
      /\ \A n \in 1 .. N : Left[n] = Step(Left[n - 1], n)
  <2> HIDE DEF Left, Step
  <2>1. QED
    BY <1>4
<1>6. LeftOf(Left, v, S, N)
  <2> HIDE DEF Left
  <2>1. QED
    BY <1>5 DEF LeftOf
<1>7. QED
  BY <1>6

(* and there is only one. *)
LEMMA LeftIsOne ==
    ASSUME NEW v, NEW S, NEW N \in Nat, NEW L, NEW M,
           LeftOf(L, v, S, N), LeftOf(M, v, S, N)
    PROVE  L[N] = M[N]
<1> DEFINE T == {i \in 0 .. N : L[i] = M[i]}
<1>1. 0 \in T
  BY DEF LeftOf
<1>2. ASSUME NEW n \in 1 .. N, n - 1 \in T PROVE n \in T
  BY <1>2 DEF LeftOf
<1> HIDE DEF T
<1>3. N \in T
  <2>1. \A n \in 0 .. N : n \in T
    BY <1>1, <1>2, UpTo
  <2>2. QED
    BY <2>1
<1>4. QED
  BY <1>3 DEF T

LEMMA LeftType ==
    ASSUME NEW N \in Nat, NEW v \in Seq(Tracks), Len(v) = N, NEW S, NEW L,
           LeftOf(L, v, S, N)
    PROVE  \A i \in 0 .. N : L[i] \in Seq(Tracks)
<1> DEFINE T == {i \in 0 .. N : L[i] \in Seq(Tracks)}
<1>1. 0 \in T
  <2>1. L[0] = <<>>
    BY DEF LeftOf
  <2>2. <<>> \in Seq(Tracks)
    OBVIOUS
  <2>3. 0 \in 0 .. N
    OBVIOUS
  <2>4. QED
    BY <2>1, <2>2, <2>3, Zenon
<1>2. ASSUME NEW n \in 1 .. N, n - 1 \in T PROVE n \in T
  <2>1. v[n] \in Tracks
    OBVIOUS
  <2>2. L[n] = L[n - 1] \/ L[n] = Append(L[n - 1], v[n])
    BY DEF LeftOf
  <2>3. L[n - 1] \in Seq(Tracks)
    BY <1>2
  <2>4. PICK w \in Seq(Tracks) : w = L[n - 1]
    BY <2>3
  <2>5. Append(w, v[n]) \in Seq(Tracks)
    BY <2>1
  <2>6. L[n] \in Seq(Tracks)
    BY <2>2, <2>4, <2>5
  <2>7. QED
    BY <1>2, <2>6
<1> HIDE DEF T
<1>3. \A n \in 0 .. N : n \in T
  BY <1>1, <1>2, UpTo
<1>4. QED
  BY <1>3 DEF T

(* Nothing is taken out of the first x tracks: all of them are left. *)
LEMMA LeftBelow ==
    ASSUME NEW N \in Nat, NEW v \in Seq(Tracks), Len(v) = N, NEW S, NEW L,
           LeftOf(L, v, S, N), NEW x \in 0 .. N, \A y \in 0 .. x - 1 : y \notin S
    PROVE  /\ Len(L[x]) = x
           /\ \A j \in 1 .. x : L[x][j] = v[j]
<1> DEFINE T == {i \in 0 .. x : Len(L[i]) = i /\ \A j \in 1 .. i : L[i][j] = v[j]}
<1>1. 0 \in T
  BY DEF LeftOf
<1>2. ASSUME NEW n \in 1 .. x, n - 1 \in T PROVE n \in T
  <2>1. n \in 1 .. N /\ n - 1 \in 0 .. x - 1 /\ n - 1 \in 0 .. N
    OBVIOUS
  <2>2. L[n] = Append(L[n - 1], v[n])
    BY <2>1 DEF LeftOf
  <2>3. PICK w \in Seq(Tracks) : w = L[n - 1]
    BY <2>1, LeftType
  <2>4. v[n] \in Tracks
    BY <2>1
  <2>5. Len(w) = n - 1 /\ \A j \in 1 .. n - 1 : w[j] = v[j]
    BY <1>2, <2>3
  <2>6. /\ Len(Append(w, v[n])) = n
        /\ \A j \in 1 .. n : Append(w, v[n])[j] = v[j]
    BY <2>1, <2>4, <2>5
  <2>7. QED
    BY <2>2, <2>3, <2>6
<1> HIDE DEF T
<1>3. x \in T
  <2>1. x \in Nat
    OBVIOUS
  <2>2. \A n \in 0 .. x : n \in T
    BY <1>1, <1>2, <2>1, UpTo
  <2>3. QED
    BY <2>1, <2>2
<1>4. QED
  BY <1>3 DEF T

(* Taking out one more track, x, before all of those in S: what is left of *)
(* the first i is shorter by one track, the one at x.                      *)
Cuts(m, l, x) ==
    /\ Len(l) >= x + 1
    /\ Len(m) = Len(l) - 1
    /\ \A j \in 1 .. Len(m) : m[j] = l[IF j <= x THEN j ELSE j + 1]

LEMMA CutLast ==
    ASSUME NEW w \in Seq(Tracks), NEW e \in Tracks
    PROVE  Cuts(w, Append(w, e), Len(w))
  BY DEF Cuts

LEMMA CutGrows ==
    ASSUME NEW m \in Seq(Tracks), NEW l \in Seq(Tracks), NEW e \in Tracks,
           NEW x \in Nat, Cuts(m, l, x)
    PROVE  Cuts(Append(m, e), Append(l, e), x)
<1> DEFINE p == Append(m, e)
           q == Append(l, e)
<1>1. /\ Len(l) >= x + 1 /\ Len(m) = Len(l) - 1 /\ Len(m) \in Nat /\ Len(l) \in Nat
      /\ \A j \in 1 .. Len(m) : m[j] = l[IF j <= x THEN j ELSE j + 1]
  BY DEF Cuts
<1>2. /\ Len(p) = Len(m) + 1 /\ Len(q) = Len(l) + 1
      /\ \A j \in 1 .. Len(m) : p[j] = m[j]
      /\ \A j \in 1 .. Len(l) : q[j] = l[j]
      /\ p[Len(m) + 1] = e /\ q[Len(l) + 1] = e
  OBVIOUS
<1> HIDE DEF p, q
<1>3. ASSUME NEW j \in 1 .. Len(p) PROVE p[j] = q[IF j <= x THEN j ELSE j + 1]
  <2>1. CASE j = Len(p)
    BY <1>1, <1>2, <2>1
  <2>2. CASE j # Len(p)
    <3>1. j \in 1 .. Len(m) /\ (IF j <= x THEN j ELSE j + 1) \in 1 .. Len(l)
      BY <1>1, <1>2, <2>2
    <3>2. QED
      BY <1>1, <1>2, <3>1
  <2>3. QED
    BY <2>1, <2>2
<1>4. Cuts(p, q, x)
  BY <1>1, <1>2, <1>3 DEF Cuts
<1>5. QED
  BY <1>4 DEF p, q

LEMMA LeftCuts ==
    ASSUME NEW N \in Nat, NEW v \in Seq(Tracks), Len(v) = N, NEW S, NEW L, NEW M,
           NEW x \in 0 .. N - 1, \A y \in 0 .. x : y \notin S,
           LeftOf(L, v, S, N), LeftOf(M, v, S \cup {x}, N)
    PROVE  Cuts(M[N], L[N], x)
<1>1. /\ x \in 0 .. N /\ x \in Nat /\ x + 1 \in 1 .. N /\ x + 1 - 1 = x
      /\ v[x + 1] \in Tracks
      /\ \A i \in 0 .. N : L[i] \in Seq(Tracks) /\ M[i] \in Seq(Tracks)
  BY LeftType
<1>2. /\ Len(L[x]) = x /\ \A j \in 1 .. x : L[x][j] = v[j]
  BY <1>1, LeftBelow
<1>3. /\ Len(M[x]) = x /\ \A j \in 1 .. x : M[x][j] = v[j]
  <2>1. \A y \in 0 .. x - 1 : y \notin S \cup {x}
    OBVIOUS
  <2>2. QED
    BY <1>1, <2>1, LeftBelow
<1>4. M[x] = L[x]
  <2>1. PICK l \in Seq(Tracks), m \in Seq(Tracks) : l = L[x] /\ m = M[x]
    BY <1>1
  <2>2. Len(l) = Len(m) /\ \A j \in 1 .. Len(l) : l[j] = m[j]
    BY <1>2, <1>3, <2>1
  <2>3. l = m
    BY <2>2, SeqEqual
  <2>4. QED
    BY <2>1, <2>3
<1>5. Cuts(M[x + 1], L[x + 1], x)
  <2>1. L[x + 1] = Append(L[x], v[x + 1]) /\ M[x + 1] = M[x]
    <3>1. x \notin S /\ x \in S \cup {x}
      BY <1>1
    <3> DEFINE i == x + 1
    <3>2. i \in 1 .. N /\ i - 1 = x
      BY <1>1
    <3> HIDE DEF i
    <3>3. L[i] = Append(L[x], v[i]) /\ M[i] = M[x]
      BY <3>1, <3>2 DEF LeftOf
    <3>4. QED
      BY <3>3 DEF i
  <2>2. PICK w \in Seq(Tracks) : w = L[x]
    BY <1>1
  <2>3. Cuts(w, Append(w, v[x + 1]), x)
    BY <1>1, <1>2, <2>2, CutLast
  <2>4. QED
    BY <1>4, <2>1, <2>2, <2>3
<1> DEFINE K == N - 1 - x
           T == {n \in 0 .. K : Cuts(M[x + 1 + n], L[x + 1 + n], x)}
<1>6. K \in Nat /\ x + 1 + 0 = x + 1 /\ x + 1 + K = N
  OBVIOUS
<1>7. 0 \in T
  BY <1>5, <1>6
<1>8. ASSUME NEW n \in 1 .. K, n - 1 \in T PROVE n \in T
  <2> DEFINE i == x + 1 + n
  <2>1. /\ i \in 1 .. N /\ i - 1 \in 0 .. N /\ i - 1 # x /\ i - 1 = x + 1 + (n - 1)
        /\ n \in 0 .. K
    OBVIOUS
  <2>2. v[i] \in Tracks
    BY <2>1
  <2> HIDE DEF i
  <2>3. Cuts(M[i - 1], L[i - 1], x)
    BY <1>8, <2>1
  <2>4. CASE i - 1 \in S
    <3>1. L[i] = L[i - 1] /\ M[i] = M[i - 1]
      BY <2>1, <2>4 DEF LeftOf
    <3>2. QED
      BY <2>1, <2>3, <3>1 DEF i
  <2>5. CASE i - 1 \notin S
    <3>1. L[i] = Append(L[i - 1], v[i]) /\ M[i] = Append(M[i - 1], v[i])
      BY <2>1, <2>5 DEF LeftOf
    <3>2. Cuts(M[i], L[i], x)
      BY <1>1, <2>1, <2>2, <2>3, <3>1, CutGrows
    <3>3. QED
      BY <2>1, <3>2 DEF i
  <2>6. QED
    BY <2>4, <2>5
<1> HIDE DEF T, K
<1>9. K \in T
  <2>1. \A n \in 0 .. K : n \in T
    BY <1>6, <1>7, <1>8, UpTo
  <2>2. QED
    BY <1>6, <2>1
<1>10. QED
  BY <1>6, <1>9 DEF T

LEMMA LeftOfAll ==
    ASSUME NEW N \in Nat, NEW v \in Seq(Tracks), Len(v) = N
    PROVE  Leaves(v, v, {}, N)
<1>1. PICK L : LeftOf(L, v, {}, N)
  BY LeftRuns
<1>2. PICK w \in Seq(Tracks) : w = L[N]
  BY <1>1, LeftType
<1>3. Len(w) = N /\ \A j \in 1 .. N : w[j] = v[j]
  <2>1. N \in 0 .. N /\ \A y \in 0 .. N - 1 : y \notin {}
    OBVIOUS
  <2>2. Len(L[N]) = N /\ \A j \in 1 .. N : L[N][j] = v[j]
    BY <1>1, <2>1, LeftBelow
  <2>3. QED
    BY <1>2, <2>2
<1>4. w = v
  BY <1>3, SeqEqual
<1>5. QED
  BY <1>1, <1>2, <1>4 DEF Leaves

(* Removing a track that comes before all removed so far. *)
LEMMA RemoveLeaves ==
    ASSUME NEW N \in Nat, NEW v \in Seq(Tracks), Len(v) = N,
           NEW S, NEW x \in 0 .. N - 1, \A y \in 0 .. x : y \notin S,
           NEW pl, Sound(pl), Leaves(pl.vec, v, S, N)
    PROVE  Leaves(PlaylistRemove(pl, x).vec, v, S \cup {x}, N)
<1> DEFINE new == PlaylistRemove(pl, x)
<1>1. PICK L : LeftOf(L, v, S, N) /\ pl.vec = L[N]
  BY DEF Leaves
<1>2. PICK M : LeftOf(M, v, S \cup {x}, N)
  BY LeftRuns
<1>3. Cuts(M[N], pl.vec, x)
  BY <1>1, <1>2, LeftCuts
<1>4. PICK m \in Seq(Tracks) : m = M[N]
  BY <1>2, LeftType
<1>5. /\ Sound(new)
      /\ Len(new.vec) = Len(pl.vec) - 1
      /\ \A j \in 1 .. Len(new.vec) : new.vec[j] = pl.vec[IF j <= x THEN j ELSE j + 1]
  <2>1. x \in Int /\ x >= 0 /\ Len(pl.vec) \in Nat
    BY SoundFields
  <2>2. EnsurePositivIndex(pl, x) = x
    BY <2>1, PositiveIndex
  <2>3. x < Len(pl.vec)
    BY <1>3, <2>1 DEF Cuts
  <2>4. QED
    BY <2>1, <2>2, <2>3, PlaylistRemoveSound
<1> HIDE DEF new
<1>6. PICK w \in Seq(Tracks) : w = new.vec
  BY <1>5, SoundFields
<1>7. w = m
  <2>1. Len(w) = Len(m) /\ \A j \in 1 .. Len(w) : w[j] = m[j]
    BY <1>3, <1>4, <1>5, <1>6 DEF Cuts
  <2>2. QED
    BY <2>1, SeqEqual
<1>8. QED
  BY <1>2, <1>4, <1>6, <1>7 DEF new, Leaves

(* A descending order of the indices: each one is named by it, and what is *)
(* not a repetition is smaller than all before.                            *)
Descends(s, positive) ==
    /\ s \in [DOMAIN positive -> {positive[i] : i \in DOMAIN positive}]
    /\ \A i, j \in DOMAIN positive : i < j => ~ (s[j] > s[i])
    /\ \A i \in DOMAIN positive :
          Cardinality({j \in DOMAIN positive : s[j] = positive[i]}) =
             Cardinality({j \in DOMAIN positive : positive[j] = positive[i]})

Names(s, N) == {s[i] : i \in 1 .. N}

LEMMA OrderNamesAll ==
    ASSUME NEW N \in Nat, NEW positive \in [1 .. N -> Int], NEW s, Descends(s, positive)
    PROVE  Names(s, N) = Names(positive, N)
<1>1. \A i \in 1 .. N : \E j \in 1 .. N : s[i] = positive[j]
  BY DEF Descends
<1>2. ASSUME NEW i \in 1 .. N PROVE \E j \in 1 .. N : s[j] = positive[i]
  <2> DEFINE A == {j \in 1 .. N : s[j] = positive[i]}
             B == {j \in 1 .. N : positive[j] = positive[i]}
  <2>1. Cardinality(A) = Cardinality(B)
    BY DEF Descends
  <2>2. IsFiniteSet(B)
    <3>1. IsFiniteSet(1 .. N)
      BY FS_Interval
    <3>2. QED
      BY <3>1, FS_Subset
  <2>3. B # {}
    OBVIOUS
  <2>4. Cardinality(B) # 0
    BY <2>2, <2>3, FS_EmptySet
  <2>5. Cardinality({}) = 0
    BY FS_EmptySet
  <2>6. A # {}
    BY <2>1, <2>4, <2>5
  <2>7. QED
    BY <2>6
<1>3. Names(s, N) \subseteq Names(positive, N)
  BY <1>1, Zenon DEF Names
<1>4. Names(positive, N) \subseteq Names(s, N)
  BY <1>2, Zenon DEF Names
<1>5. QED
  BY <1>3, <1>4

(* The loop of playlist_remove_array. *)
LEMMA RemoveEachLeaves ==
    ASSUME NEW pl, Sound(pl), NEW size, size = Len(pl.vec),
           NEW s \in Seq(Int), NEW N \in Nat, N = Len(s),
           \A i \in 1 .. N : s[i] \in 0 .. size - 1,
           \A i, j \in 1 .. N : i < j => ~ (s[j] > s[i]),
           NEW skip, skip = {n \in 2 .. N : s[n - 1] = s[n]}
    PROVE  Leaves(RemoveEach(pl, s, skip).vec, pl.vec, Names(s, N), size)
<1>1. pl.vec \in Seq(Tracks) /\ size \in Nat
  BY SoundFields
<1>2. PICK g : Removals(g, pl, s, N, skip)
  BY RemoveEachRuns
<1> DEFINE S(n) == Names(s, n)
           T == {n \in 0 .. N : Sound(g[n]) /\ Leaves(g[n].vec, pl.vec, S(n), size)}
<1>3. 0 \in T
  <2>1. S(0) = {}
    BY DEF Names
  <2>2. Leaves(pl.vec, pl.vec, {}, size)
    BY <1>1, LeftOfAll
  <2>3. g[0] = pl /\ 0 \in 0 .. N
    BY <1>2 DEF Removals
  <2> HIDE DEF S
  <2>4. Leaves(g[0].vec, pl.vec, S(0), size)
    BY <2>1, <2>2, <2>3
  <2>5. QED
    BY <2>3, <2>4
<1>4. ASSUME NEW n \in 1 .. N, n - 1 \in T PROVE n \in T
  <2>1. Sound(g[n - 1]) /\ Leaves(g[n - 1].vec, pl.vec, S(n - 1), size)
    BY <1>4
  <2>2. S(n) = S(n - 1) \cup {s[n]}
    BY DEF Names
  <2>3. s[n] \in 0 .. size - 1 /\ s[n] \in Int
    OBVIOUS
  <2> HIDE DEF T
  <2>4. CASE n \in skip
    <3>1. n - 1 \in 1 .. n - 1 /\ s[n] = s[n - 1]
      BY <2>4
    <3>2. S(n) = S(n - 1)
      BY <2>2, <3>1 DEF Names
    <3> HIDE DEF S
    <3>3. g[n] = g[n - 1]
      BY <1>2, <2>4 DEF Removals
    <3>4. QED
      BY <2>1, <3>2, <3>3 DEF T
  <2>5. CASE n \notin skip
    <3>1. \A i \in 1 .. n - 1 : s[n] < s[i]
      <4>1. SUFFICES ASSUME NEW i \in 1 .. n - 1 PROVE s[n] < s[i]
        OBVIOUS
      <4>2. n - 1 \in 1 .. N /\ n - 1 < n /\ i \in 1 .. N /\ n \in 2 .. N
        OBVIOUS
      <4>6. s[i] \in Int /\ s[n - 1] \in Int
        BY <4>2
      <4>3. s[n] < s[n - 1]
        <5>1. s[n - 1] # s[n]
          BY <2>5, <4>2
        <5>2. ~ (s[n] > s[n - 1])
          BY <4>2
        <5>3. QED
          BY <2>3, <4>6, <5>1, <5>2
      <4>4. s[n - 1] <= s[i]
        <5>1. CASE i = n - 1
          BY <4>6, <5>1
        <5>2. CASE i < n - 1
          <6>1. ~ (s[n - 1] > s[i])
            BY <4>2, <5>2
          <6>2. QED
            BY <4>6, <6>1
        <5>3. QED
          BY <4>2, <5>1, <5>2
      <4>5. QED
        BY <2>3, <4>6, <4>3, <4>4
    <3>2. \A y \in 0 .. s[n] : y \notin S(n - 1)
      BY <2>3, <3>1 DEF Names
    <3> HIDE DEF S
    <3>3. g[n] = PlaylistRemove(g[n - 1], s[n])
      BY <1>2, <2>5 DEF Removals
    <3>4. Leaves(g[n].vec, pl.vec, S(n - 1) \cup {s[n]}, size)
      BY <1>1, <2>1, <2>3, <3>2, <3>3, RemoveLeaves
    <3>5. Sound(g[n])
      BY <2>1, <2>3, <3>3, PlaylistRemoveSound
    <3>6. Leaves(g[n].vec, pl.vec, S(n), size)
      BY <2>2, <3>4
    <3>7. n \in 0 .. N
      OBVIOUS
    <3>8. QED
      BY <3>5, <3>6, <3>7 DEF T
  <2>6. QED
    BY <2>4, <2>5
<1> HIDE DEF T
<1>5. N \in T
  <2>1. \A n \in 0 .. N : n \in T
    BY <1>3, <1>4, UpTo
  <2>2. QED
    BY <2>1
<1>6. RemoveEach(pl, s, skip) = g[N]
  BY <1>2 DEF Removals
<1>7. QED
  BY <1>5, <1>6 DEF T

LEMMA InRangeStays ==
    ASSUME NEW u \in Nat, NEW n \in Nat, n <= IntMax, u < n
    PROVE  ToInt(u) = u
  BY IntTypes DEF ToInt

Positives(pl, indices) ==
    [n \in DOMAIN indices |-> ToInt(EnsurePositivIndex(pl, indices[n]))]

Repeats(s) == {n \in 2 .. Len(s) : s[n - 1] = s[n]}

LEMMA RemoveArrayCases ==
    ASSUME NEW pl, NEW indices, NEW new \in PlaylistRemoveArray(pl, indices)
    PROVE  \/ new = pl /\ (indices = <<>> \/ pl.vec = <<>>)
           \/ \E s : Descends(s, Positives(pl, indices)) /\ new = RemoveEach(pl, s, Repeats(s))
<1>1. \/ new = pl /\ (indices = <<>> \/ pl.vec = <<>>)
      \/ \E s \in Sorted(Positives(pl, indices), LAMBDA x, y : x > y) :
            new = RemoveEach(pl, s, Repeats(s))
  BY Zenon DEF PlaylistRemoveArray, Positives, Repeats
<1>2. ASSUME NEW s \in Sorted(Positives(pl, indices), LAMBDA x, y : x > y)
      PROVE  Descends(s, Positives(pl, indices))
  BY DEF Sorted, Descends
<1>3. QED
  BY <1>1, <1>2, Zenon

(* playlist_remove_array, of indices that name tracks: the playlist is     *)
(* left without the tracks they named before the first was removed.        *)
LEMMA PlaylistRemoveArrayLeaves ==
    ASSUME NEW pl, Sound(pl), NEW indices \in Seq(Int),
           NEW new \in PlaylistRemoveArray(pl, indices),
           NEW named, named = {EnsurePositivIndex(pl, indices[n]) : n \in DOMAIN indices},
           named \subseteq 0 .. Len(pl.vec) - 1
    PROVE  Leaves(new.vec, pl.vec, named, Len(pl.vec))
<1>1. PICK N \in Nat : N = Len(indices) /\ DOMAIN indices = 1 .. N
  OBVIOUS
<1>2. pl.vec \in Seq(Tracks) /\ Len(pl.vec) \in Nat /\ Len(pl.vec) <= IntMax
  <2>1. pl.vec \in Seq(Tracks) /\ Len(pl.vec) \in Nat /\ Len(pl.vec) <= MaxSize
    BY SoundFields
  <2>2. PICK n \in Nat : n = Len(pl.vec)
    BY <2>1
  <2>3. n <= IntMax
    BY <2>1, <2>2, IntTypes
  <2>4. QED
    BY <2>1, <2>2, <2>3
<1> DEFINE positive == Positives(pl, indices)
<1>3. /\ positive = [n \in 1 .. N |-> positive[n]]
      /\ \A n \in 1 .. N : positive[n] = EnsurePositivIndex(pl, indices[n])
  <2>1. /\ positive = [n \in 1 .. N |-> positive[n]]
        /\ \A n \in 1 .. N : positive[n] = ToInt(EnsurePositivIndex(pl, indices[n]))
    BY <1>1 DEF Positives
  <2>2. ASSUME NEW n \in 1 .. N
        PROVE  ToInt(EnsurePositivIndex(pl, indices[n])) = EnsurePositivIndex(pl, indices[n])
    <3>1. PICK u : u = EnsurePositivIndex(pl, indices[n])
      OBVIOUS
    <3>2. u \in named
      BY <1>1, <3>1
    <3>3. u \in 0 .. Len(pl.vec) - 1
      BY <3>2
    <3>4. u \in Nat /\ u < Len(pl.vec)
      BY <1>2, <3>3
    <3>5. QED
      BY <1>2, <3>1, <3>4, InRangeStays
  <2>3. QED
    BY <2>1, <2>2
<1> HIDE DEF positive
<1>4. named = Names(positive, N)
  BY <1>1, <1>3 DEF Names
<1>5. CASE new = pl /\ (indices = <<>> \/ pl.vec = <<>>)
  <2>1. named = {}
    <3>1. CASE indices = <<>>
      BY <3>1
    <3>2. CASE pl.vec = <<>>
      <4>1. Len(pl.vec) = 0
        BY <3>2
      <4>2. QED
        BY <4>1
    <3>3. QED
      BY <1>5, <3>1, <3>2
  <2>2. QED
    BY <1>2, <1>5, <2>1, LeftOfAll
<1>6. ASSUME NEW s, Descends(s, positive), new = RemoveEach(pl, s, Repeats(s))
      PROVE  Leaves(new.vec, pl.vec, named, Len(pl.vec))
  <2>1. positive \in [1 .. N -> Int]
    <3>1. \A n \in 1 .. N : positive[n] \in named
      BY <1>4 DEF Names
    <3>2. \A n \in 1 .. N : positive[n] \in Int
      BY <1>2, <3>1
    <3>3. QED
      BY <1>3, <3>2
  <2>2. Names(s, N) = named
    BY <1>4, <1>6, <2>1, OrderNamesAll
  <2>3. \A i \in 1 .. N : s[i] \in 0 .. Len(pl.vec) - 1
    BY <2>2 DEF Names
  <2>4. /\ s \in [1 .. N -> {positive[i] : i \in 1 .. N}]
        /\ \A i, j \in 1 .. N : i < j => ~ (s[j] > s[i])
    <3>1. DOMAIN positive = 1 .. N
      BY <2>1
    <3>2. QED
      BY <1>6, <3>1 DEF Descends
  <2>5. s \in Seq(Int) /\ Len(s) = N
    <3>1. s \in [1 .. N -> Int]
      BY <1>2, <2>3, <2>4
    <3>2. s \in Seq(Int)
      BY <3>1, SeqDef
    <3>3. QED
      BY <3>1, <3>2
  <2>6. Repeats(s) = {n \in 2 .. N : s[n - 1] = s[n]}
    BY <2>5 DEF Repeats
  <2>7. Leaves(RemoveEach(pl, s, Repeats(s)).vec, pl.vec, Names(s, N), Len(pl.vec))
    BY <2>3, <2>4, <2>5, <2>6, RemoveEachLeaves
  <2>8. QED
    BY <1>6, <2>2, <2>7
<1>7. QED
  BY <1>5, <1>6, RemoveArrayCases DEF positive
=============================================================================
