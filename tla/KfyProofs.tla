------------------------------ MODULE KfyProofs ------------------------------
(***************************************************************************)
(* The shuffler in use is well-formed, plays every track once per cycle,   *)
(* keeps the promises of the asserts in kfy.c and implements the abstract  *)
(* shuffler, for every minimal capacity and every number of tracks.        *)
(***************************************************************************)
EXTENDS Kfy, PlaylistOpsProofs

(* Both are needed at once: that a track drawn twice in a cycle would be   *)
(* wrong follows from CycleIsPermutation only while the bag is well-formed.*)
IInv == TypeOK /\ CycleIsPermutation

LEMMA InitIInv == Init => IInv
<1>1. SUFFICES ASSUME Init PROVE IInv
  OBVIOUS
<1>2. /\ KfyType(kfy) /\ KfySound(kfy)
      /\ kfy.size = 0 /\ Remaining(kfy) = 0 .. kfy.size - 1
  BY <1>1, KfyInitSound, CapacityTypes DEF Init
<1>3. QED
  BY <1>1, <1>2, CapacityTypes DEF Init, IInv, TypeOK, CycleIsPermutation

LEMMA ResetIInv == IInv /\ Reset => IInv'
<1>1. SUFFICES ASSUME IInv, Reset PROVE IInv'
  OBVIOUS
<1>2. /\ KfyType(kfy') /\ KfySound(kfy') /\ kfy'.size = kfy.size
      /\ Remaining(kfy') = 0 .. kfy.size - 1
  BY <1>1, KfyResetSound DEF IInv, TypeOK, Reset
<1>3. QED
  BY <1>1, <1>2 DEF IInv, TypeOK, CycleIsPermutation, Reset

LEMMA ShuffleIInv == IInv /\ Shuffle => IInv'
<1>1. SUFFICES ASSUME IInv, Shuffle PROVE IInv'
  OBVIOUS
<1>2. PICK out \in KfyShuffle(kfy) :
          /\ kfy' = out.kfy
          /\ drawn' = IF KfyCycleDone(kfy) THEN {out.val} ELSE drawn \cup {out.val}
  BY <1>1 DEF Shuffle
<1> DEFINE pool == IF KfyCycleDone(kfy) THEN 0 .. kfy.size - 1 ELSE Remaining(kfy)
<1>3. /\ KfyType(kfy') /\ KfySound(kfy') /\ kfy'.size = kfy.size
      /\ out.val \in pool /\ Remaining(kfy') = pool \ {out.val}
  BY <1>1, <1>2, KfyShuffleSound DEF IInv, TypeOK, Shuffle
<1>4. Remaining(kfy) \subseteq 0 .. kfy.size - 1
  BY <1>1 DEF IInv, TypeOK, KfySound, DistinctBelow, Remaining, Cells
<1>5. 0 .. kfy.size - 1 \subseteq 0 .. MaxSize
  BY <1>1, KfyFields, CapacityTypes DEF IInv, TypeOK
<1>6. TypeOK'
  BY <1>1, <1>2, <1>3, <1>4, <1>5 DEF IInv, TypeOK, Shuffle
<1>7. CycleIsPermutation'
  BY <1>1, <1>2, <1>3 DEF IInv, CycleIsPermutation, Shuffle
<1>8. QED
  BY <1>6, <1>7 DEF IInv

LEMMA AddIInv == ASSUME NEW cnt \in 1 .. MaxSize PROVE IInv /\ Add(cnt) => IInv'
<1>1. SUFFICES ASSUME IInv, Add(cnt) PROVE IInv'
  OBVIOUS
<1>2. PICK out \in KfyAdd(kfy, cnt) : kfy' = out.kfy
  BY <1>1 DEF Add
<1>3. cnt \in Nat /\ kfy.size + cnt <= MaxSize /\ kfy.size \in Nat
  BY <1>1, KfyFields, CapacityTypes DEF IInv, TypeOK, Add
<1>4. /\ KfyType(kfy') /\ KfySound(kfy')
      /\ \/ kfy' = kfy
         \/ /\ kfy'.size = kfy.size + cnt
            /\ Remaining(kfy') = Remaining(kfy) \cup kfy.size .. kfy.size + cnt - 1
  <2>1. KfyType(kfy) /\ KfySound(kfy)
    BY <1>1 DEF IInv, TypeOK
  <2>2. /\ KfyType(out.kfy) /\ KfySound(out.kfy)
        /\ \/ out = [ok |-> FALSE, kfy |-> kfy]
           \/ /\ out.kfy.size = kfy.size + cnt
              /\ Remaining(out.kfy) = Remaining(kfy) \cup kfy.size .. kfy.size + cnt - 1
    BY <1>3, <2>1, KfyAddSound
  <2>3. QED
    BY <1>2, <2>2
<1>5. TypeOK'
  BY <1>1, <1>4 DEF IInv, TypeOK, Add
<1>6. CycleIsPermutation'
  BY <1>1, <1>3, <1>4 DEF IInv, CycleIsPermutation, Add
<1>7. QED
  BY <1>5, <1>6 DEF IInv

LEMMA RemoveIInv == ASSUME NEW cnt \in 1 .. MaxSize PROVE IInv /\ Remove(cnt) => IInv'
<1>1. SUFFICES ASSUME IInv, Remove(cnt) PROVE IInv'
  OBVIOUS
<1> DEFINE end == IF kfy.end >= cnt THEN kfy.end - cnt ELSE 0
<1>2. cnt \in 1 .. kfy.size /\ kfy.size \in Nat /\ kfy.end \in Nat /\ kfy.end <= kfy.size
  BY <1>1, KfyFields, CapacityTypes DEF IInv, TypeOK, KfySound, Remove
<1>3. /\ KfyType(kfy') /\ KfySound(kfy') /\ kfy'.size = kfy.size - cnt
      /\ Remaining(kfy') = 0 .. end - 1
  BY <1>1, <1>2, KfyRemoveSound DEF IInv, TypeOK, Remove
<1>4. TypeOK'
  BY <1>1, <1>3 DEF IInv, TypeOK, Remove
<1>5. CycleIsPermutation'
  <2>1. SUFFICES ASSUME cnt = kfy.size
                 PROVE  Remaining(kfy') = {} /\ 0 .. kfy'.size - 1 = {}
    BY <1>1 DEF CycleIsPermutation, Remove
  <2>2. end = 0 /\ kfy'.size = 0
    BY <1>2, <1>3, <2>1
  <2>3. QED
    BY <1>3, <2>2
<1>6. QED
  BY <1>4, <1>5 DEF IInv

LEMMA NextIInv == IInv /\ [Next]_vars => IInv'
<1>1. SUFFICES ASSUME IInv, [Next]_vars PROVE IInv'
  OBVIOUS
<1>2. CASE Reset
  BY <1>1, <1>2, ResetIInv
<1>3. CASE Shuffle
  BY <1>1, <1>3, ShuffleIInv
<1>4. ASSUME NEW cnt \in 1 .. MaxSize, Add(cnt) PROVE IInv'
  BY <1>1, <1>4, AddIInv
<1>5. ASSUME NEW cnt \in 1 .. MaxSize, Remove(cnt) PROVE IInv'
  BY <1>1, <1>5, RemoveIInv
<1>6. CASE UNCHANGED vars
  BY <1>1, <1>6 DEF vars, IInv, TypeOK, CycleIsPermutation
<1>7. QED
  BY <1>1, <1>2, <1>3, <1>4, <1>5, <1>6 DEF Next

LEMMA Invariance == Spec => []IInv
  BY InitIInv, NextIInv, PTL DEF Spec

(* No function of kfy.c leaves its array malformed, whichever allocations  *)
(* fail.                                                                   *)
THEOREM TypeCorrect == Spec => []TypeOK
<1>1. IInv => TypeOK
  BY DEF IInv
<1>2. QED
  BY <1>1, Invariance, PTL

(* In a cycle from which nothing is removed, every track is heard exactly  *)
(* once.                                                                   *)
THEOREM ShuffleIsFair == Spec => []CycleIsPermutation
<1>1. IInv => CycleIsPermutation
  BY DEF IInv
<1>2. QED
  BY <1>1, Invariance, PTL

(* The asserts of kfy_reset and kfy_add never fire. *)
THEOREM NoAssertFires == Spec => []CapacityAssertsHold
<1>1. ASSUME IInv PROVE CapacityAssertsHold
  <2>1. KfyType(kfy) /\ kfy.size \in Nat
    BY <1>1, KfyFields DEF IInv, TypeOK
  <2>2. WantsShrink(kfy) => NextPow2(kfy.size) < kfy.capacity
    BY <2>1, ShrinkIsSmaller
  <2>3. ASSUME NEW cnt \in 0 .. MaxSize - kfy.size, NeedsGrowth(kfy, cnt)
        PROVE  NextPow2(kfy.size + cnt) > kfy.capacity
    <3>1. cnt \in Nat /\ kfy.size + cnt <= MaxSize
      BY <2>1, CapacityTypes
    <3>2. QED
      BY <2>1, <2>3, <3>1, GrowthIsLarger
  <2>4. QED
    BY <2>2, <2>3 DEF CapacityAssertsHold
<1>2. QED
  BY <1>1, Invariance, PTL

(* The cells of a well-formed bag are as many tracks as end says. *)
LEMMA RemainingCardinality ==
    ASSUME NEW k, KfyType(k), KfySound(k)
    PROVE  Cardinality(Remaining(k)) = k.end
<1> DEFINE f == [i \in 1 .. k.end |-> k.a[i - 1]]
           D == 1 .. k.end
<1>1. k.end \in Nat
  BY KfyFields
<1>2. /\ \A i \in D : i - 1 \in 0 .. k.end - 1 /\ i \in Int
      /\ \A i \in 0 .. k.end - 1 : i + 1 \in D /\ (i + 1) - 1 = i
  BY <1>1
<1>3. \A i, j \in D : f[i] = f[j] => i = j
  <2>1. \A i, j \in D : f[i] = f[j] => i - 1 = j - 1
    BY <1>2 DEF KfySound, DistinctBelow
  <2>2. \A i \in D : i \in Int
    BY <1>2
  <2> HIDE DEF f, D
  <2>3. QED
    BY <2>1, <2>2
<1>4. \A i \in D : f[i] \in Remaining(k)
  BY <1>2 DEF Remaining, Cells
<1>5. \A v \in Remaining(k) : \E i \in D : f[i] = v
  <2>1. SUFFICES ASSUME NEW j \in 0 .. k.end - 1 PROVE \E i \in D : f[i] = k.a[j]
    BY DEF Remaining, Cells
  <2>2. f[j + 1] = k.a[j]
    BY <1>2
  <2>3. QED
    BY <1>2, <2>2
<1>6. f \in Bijection(D, Remaining(k))
  BY <1>3, <1>4, <1>5 DEF Bijection, Injection, Surjection, IsInjective
<1>7. ExistsBijection(D, Remaining(k))
  BY <1>6 DEF ExistsBijection
<1>8. IsFiniteSet(D) /\ Cardinality(D) = k.end
  <2>1. \A b \in Int : /\ IsFiniteSet(1 .. b)
                      /\ Cardinality(1 .. b) = IF 1 > b THEN 0 ELSE b - 1 + 1
    BY FS_Interval
  <2>2. /\ IsFiniteSet(1 .. k.end)
        /\ Cardinality(1 .. k.end) = IF 1 > k.end THEN 0 ELSE k.end - 1 + 1
    BY <1>1, <2>1
  <2>3. (IF 1 > k.end THEN 0 ELSE k.end - 1 + 1) = k.end
    BY <1>1
  <2>4. QED
    BY <2>2, <2>3
<1>9. QED
  BY <1>7, <1>8, FS_Bijection

LEMMA InitRefines == Init => Abstract!Init
<1>1. SUFFICES ASSUME Init PROVE Abstract!Init
  OBVIOUS
<1>2. kfy.size = 0 /\ Remaining(kfy) = 0 .. kfy.size - 1 /\ 0 \in 0 .. MaxSize
  BY <1>1, KfyInitSound, CapacityTypes DEF Init
<1>3. QED
  BY <1>2 DEF Abstract!Init, Abstract!Tracks

LEMMA StepRefines == IInv /\ IInv' /\ [Next]_vars => [Abstract!Next]_(Abstract!vars)
<1>1. SUFFICES ASSUME IInv, IInv', [Next]_vars
               PROVE  [Abstract!Next]_(Abstract!vars)
  OBVIOUS
<1>2. /\ KfyType(kfy) /\ KfySound(kfy) /\ KfyType(kfy') /\ KfySound(kfy')
      /\ kfy.size \in Nat /\ kfy.end \in Nat /\ kfy.end <= kfy.size
      /\ kfy.size <= MaxSize /\ MaxSize \in Nat
  BY <1>1, KfyFields, CapacityTypes DEF IInv, TypeOK, KfySound
<1> DEFINE size == kfy.size  remaining == Remaining(kfy)
<1>3. CASE Reset
  <2>1. kfy'.size = kfy.size /\ Remaining(kfy') = 0 .. kfy.size - 1
    BY <1>2, <1>3, KfyResetSound DEF Reset
  <2>2. QED
    BY <2>1 DEF Abstract!Next, Abstract!Reset, Abstract!Tracks
<1>4. CASE Shuffle
  <2>1. PICK out \in KfyShuffle(kfy) : kfy' = out.kfy
    BY <1>4 DEF Shuffle
  <2> DEFINE pool == IF KfyCycleDone(kfy) THEN 0 .. kfy.size - 1 ELSE Remaining(kfy)
  <2>2. /\ kfy'.size = kfy.size /\ out.val \in pool
        /\ Remaining(kfy') = pool \ {out.val}
    BY <1>2, <1>4, <2>1, KfyShuffleSound DEF Shuffle
  <2>3. KfyCycleDone(kfy) <=> Remaining(kfy) = {}
    <3>1. CASE kfy.end = 0
      BY <3>1 DEF KfyCycleDone, Remaining, Cells
    <3>2. CASE kfy.end # 0
      <4>1. 0 \in 0 .. kfy.end - 1
        BY <1>2, <3>2
      <4>2. QED
        BY <3>2, <4>1 DEF KfyCycleDone, Remaining, Cells
    <3>3. QED
      BY <3>1, <3>2
  <2>4. out.val \in 0 .. MaxSize - 1
    BY <1>2, <2>2 DEF KfySound, DistinctBelow, Remaining, Cells
  <2>5. Abstract!Draw(out.val)
    BY <2>2, <2>3 DEF Abstract!Draw, Abstract!Tracks
  <2>6. QED
    BY <2>4, <2>5 DEF Abstract!Next, Abstract!Tracks
<1>5. ASSUME NEW cnt \in 1 .. MaxSize, Add(cnt)
      PROVE  [Abstract!Next]_(Abstract!vars)
  <2>1. PICK out \in KfyAdd(kfy, cnt) : kfy' = out.kfy
    BY <1>5 DEF Add
  <2>2. cnt \in Nat /\ kfy.size + cnt <= MaxSize
    BY <1>2, <1>5 DEF Add
  <2>3. \/ out = [ok |-> FALSE, kfy |-> kfy]
        \/ /\ out.kfy.size = kfy.size + cnt
           /\ Remaining(out.kfy) = Remaining(kfy) \cup kfy.size .. kfy.size + cnt - 1
    BY <1>2, <2>2, KfyAddSound
  <2>4. kfy' = kfy \/ Abstract!Add(cnt)
    <3>1. CASE out = [ok |-> FALSE, kfy |-> kfy]
      BY <2>1, <3>1
    <3>2. CASE /\ out.kfy.size = kfy.size + cnt
               /\ Remaining(out.kfy) = Remaining(kfy) \cup kfy.size .. kfy.size + cnt - 1
      <4>1. kfy'.size = kfy.size + cnt
        BY <2>1, <3>2
      <4>2. Remaining(kfy') = Remaining(kfy) \cup kfy.size .. kfy.size + cnt - 1
        BY <2>1, <3>2
      <4>3. kfy.size .. kfy.size + cnt - 1 = kfy.size .. kfy'.size - 1
        BY <1>2, <2>2, <4>1
      <4>4. Abstract!Add(cnt)
        BY <4>1, <4>2, <4>3 DEF Abstract!Add
      <4>5. QED
        BY <4>4
    <3>3. QED
      BY <2>3, <3>1, <3>2
  <2>5. QED
    BY <2>4 DEF Abstract!Next, Abstract!vars
<1>6. ASSUME NEW cnt \in 1 .. MaxSize, Remove(cnt)
      PROVE  [Abstract!Next]_(Abstract!vars)
  <2> DEFINE end == IF kfy.end >= cnt THEN kfy.end - cnt ELSE 0
  <2>1. cnt \in 1 .. kfy.size
    BY <1>2, <1>6 DEF Remove
  <2>2. /\ kfy'.size = kfy.size - cnt /\ kfy'.end = end
        /\ Remaining(kfy') = 0 .. end - 1
    BY <1>2, <1>6, <2>1, KfyRemoveSound DEF Remove
  <2>3. Cardinality(Remaining(kfy)) = kfy.end /\ Cardinality(Remaining(kfy')) = end
    BY <1>2, <2>2, RemainingCardinality
  <2>4. 0 .. end - 1 \subseteq 0 .. kfy'.size - 1
    BY <1>2, <2>1, <2>2
  <2>5. \A S : Abstract!Cardinality(S) = Cardinality(S)
    BY DEF Abstract!Cardinality, Cardinality
  <2>6. Abstract!Remove(cnt)
    BY <2>1, <2>2, <2>3, <2>4, <2>5 DEF Abstract!Remove, Abstract!Tracks
  <2>7. QED
    BY <2>6 DEF Abstract!Next
<1>7. CASE UNCHANGED vars
  BY <1>7 DEF vars, Abstract!vars
<1>8. QED
  BY <1>1, <1>3, <1>4, <1>5, <1>6, <1>7 DEF Next

(* kfy.c implements the abstract shuffler. *)
THEOREM KfyImplementsShuffleCycle == Spec => ImplementsShuffleCycle
<1>1. QED
  BY InitRefines, StepRefines, Invariance, PTL
     DEF Spec, ImplementsShuffleCycle, Abstract!Spec
=============================================================================
