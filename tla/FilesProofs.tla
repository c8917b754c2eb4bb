----------------------------- MODULE FilesProofs ------------------------------
(***************************************************************************)
(* What climp reads from and writes to the disk, in three parts.           *)
(*                                                                         *)
(*   Discoverer: directory trees.  For every tree and every PATH_MAX, the  *)
(*      one path buffer of the scan is at every step the path of the       *)
(*      directory it is in, and what a directory or an entry that fails    *)
(*      takes with it is bounded.                                          *)
(*   PlaylistFile: __playlist.m3u.  For all playlists, write failures and  *)
(*      kills, what is loaded is what was saved, up to the damage that     *)
(*      DamageIsBounded allows.                                            *)
(*   Settings: climpd.conf, for all ranges, defaults and arguments.        *)
(*                                                                         *)
(* Names that each of the three has are told apart by their first letters: *)
(* DSpec is of Discoverer, PFSpec of PlaylistFile, Spec of Settings.       *)
(***************************************************************************)
EXTENDS Settings, Discoverer, PlaylistFile, TLAPS, WellFoundedInduction, SequenceTheorems

-----------------------------------------------------------------------------
(* Induction along the steps of a loop, and a function of their number. *)

LEMMA UpTo ==
    ASSUME NEW N \in Nat, NEW T, 0 \in T, \A n \in 1 .. N : n - 1 \in T => n \in T
    PROVE  \A n \in 0 .. N : n \in T
<1> DEFINE C == {n \in 0 .. N : n \notin T}
<1>1. SUFFICES ASSUME C # {} PROVE FALSE
  OBVIOUS
<1>2. C \subseteq Nat
  OBVIOUS
<1>3. PICK x \in C : \A y \in C : ~ (<<y, x>> \in OpToRel(<, Nat))
  <2>1. IsWellFoundedOn(OpToRel(<, Nat), Nat)
    BY NatLessThanWellFounded
  <2> QED BY <1>1, <1>2, <2>1, WFMin
<1>4. x \in 1 .. N
  OBVIOUS
<1>5. x - 1 \notin C
  <2>1. x - 1 \in Nat /\ x \in Nat /\ x - 1 < x
    BY <1>4
  <2>2. <<x - 1, x>> \in OpToRel(<, Nat)
    BY <2>1 DEF OpToRel
  <2> QED BY <1>3, <2>2
<1> QED BY <1>4, <1>5

(* h begins with x and takes each step with F. *)
Steps(h, x, F, N) ==
    /\ h[0] = x
    /\ \A n \in 1 .. N : h[n] = F[h[n - 1]][n]

LEMMA StepsExist ==
    ASSUME NEW N \in Nat, NEW X, NEW x \in X, NEW F \in [X -> [1 .. N -> X]]
    PROVE  \E h \in [0 .. N -> X] : Steps(h, x, F, N)
<1> DEFINE T == {m \in 0 .. N : \E h \in [0 .. m -> X] : Steps(h, x, F, m)}
<1>1. 0 \in T
  <2>1. [n \in 0 .. 0 |-> x] \in [0 .. 0 -> X] /\ Steps([n \in 0 .. 0 |-> x], x, F, 0)
    BY DEF Steps
  <2> QED BY <2>1
<1>2. ASSUME NEW m \in 1 .. N, m - 1 \in T PROVE m \in T
  <2>1. PICK g \in [0 .. m - 1 -> X] : Steps(g, x, F, m - 1)
    BY <1>2
  <2> DEFINE h == [n \in 0 .. m |-> IF n = m THEN F[g[m - 1]][m] ELSE g[n]]
  <2>2. /\ m \in Nat /\ m > 0
        /\ \A n \in 0 .. m - 1 : h[n] = g[n] /\ n # m /\ g[n] \in X
        /\ h[m] = F[g[m - 1]][m] /\ F[g[m - 1]][m] \in X
    BY <1>2, <2>1
  <2>3. h \in [0 .. m -> X]
    BY <2>2
  <2>4. \A n \in 1 .. m : /\ n - 1 \in 0 .. m - 1
                          /\ n # m => n \in 1 .. m - 1 /\ n \in 0 .. m - 1
    BY <2>2
  <2>5. Steps(h, x, F, m)
    <3> HIDE DEF h
    <3>1. 0 \in 0 .. m - 1 BY <2>2
    <3>2. h[0] = x BY <2>1, <2>2, <3>1 DEF Steps
    <3>3. ASSUME NEW n \in 1 .. m PROVE h[n] = F[h[n - 1]][n]
      BY <2>1, <2>2, <2>4 DEF Steps
    <3> QED BY <3>2, <3>3 DEF Steps
  <2> QED
    <3> HIDE DEF h
    <3> QED BY <1>2, <2>3, <2>5
<1> HIDE DEF T
<1>3. \A m \in 0 .. N : m \in T
  BY <1>1, <1>2, UpTo
<1> QED BY <1>3 DEF T

-----------------------------------------------------------------------------
(* Going up the tree of directories comes to an end, so that what holds of *)
(* a node if it holds of its parent holds of all.                          *)
LEMMA TreeInduction ==
    ASSUME NEW T,
           \A n \in Nodes : (n \in DOMAIN Parent => Parent[n] \in T) => n \in T
    PROVE  Nodes \subseteq T
<1> DEFINE S == Nodes \ T
<1>1. SUFFICES ASSUME S # {} PROVE FALSE
  OBVIOUS
<1>2. PICK n \in S : n \in DOMAIN Parent => Parent[n] \notin S
  BY <1>1, DiscovererAssumption DEF ParentsEnd
<1>3. n \in DOMAIN Parent => Parent[n] \in Nodes
  BY DiscovererAssumption DEF Nodes
<1> QED BY <1>2, <1>3

(* The names from an argument, or another node without a parent, to n. *)
IsPath(p, n) ==
    /\ p \in Seq(Nodes) /\ p # <<>>
    /\ p[1] \notin DOMAIN Parent /\ p[Len(p)] = n
    /\ \A k \in 1 .. Len(p) - 1 : p[k + 1] \in DOMAIN Parent /\ Parent[p[k + 1]] = p[k]

LEMMA PathGrows ==
    ASSUME NEW n \in Nodes, n \in DOMAIN Parent, NEW p, IsPath(p, Parent[n])
    PROVE  IsPath(Append(p, n), n)
<1> DEFINE q == Append(p, n)
<1>1. p \in Seq(Nodes) /\ Len(p) \in Nat /\ Len(p) > 0
  BY EmptySeq DEF IsPath
<1>2. /\ q \in Seq(Nodes) /\ Len(q) = Len(p) + 1 /\ q[Len(p) + 1] = n
      /\ \A k \in 1 .. Len(p) : q[k] = p[k]
  BY <1>1
<1> HIDE DEF q
<1>3. q # <<>> /\ q[1] \notin DOMAIN Parent /\ q[Len(q)] = n
  BY <1>1, <1>2 DEF IsPath
<1>4. ASSUME NEW k \in 1 .. Len(q) - 1
      PROVE  q[k + 1] \in DOMAIN Parent /\ Parent[q[k + 1]] = q[k]
  <2>1. CASE k = Len(p)
    BY <1>1, <1>2, <2>1 DEF IsPath
  <2>2. CASE k # Len(p)
    <3>1. k \in 1 .. Len(p) - 1 /\ k + 1 \in 1 .. Len(p) /\ k \in 1 .. Len(p)
      BY <1>1, <1>2, <2>2
    <3> QED BY <1>2, <3>1 DEF IsPath
  <2> QED BY <2>1, <2>2
<1>5. IsPath(q, n)
  BY <1>2, <1>3, <1>4 DEF IsPath
<1> QED BY <1>5 DEF q

LEMMA PathShrinks ==
    ASSUME NEW n \in Nodes, NEW p, IsPath(p, n)
    PROVE  /\ n \notin DOMAIN Parent => p = <<n>>
           /\ n \in DOMAIN Parent => \E q : IsPath(q, Parent[n]) /\ p = Append(q, n)
<1>1. p \in Seq(Nodes) /\ Len(p) \in Nat /\ Len(p) > 0
  BY EmptySeq DEF IsPath
<1>2. ASSUME n \notin DOMAIN Parent PROVE p = <<n>>
  <2>1. Len(p) = 1
    <3>1. ASSUME Len(p) > 1 PROVE FALSE
      <4>1. Len(p) - 1 \in 1 .. Len(p) - 1 /\ Len(p) - 1 + 1 = Len(p)
        BY <1>1, <3>1
      <4>2. p[Len(p)] \in DOMAIN Parent
        BY <4>1 DEF IsPath
      <4> QED BY <1>2, <4>2 DEF IsPath
    <3>2. PICK l \in Nat : l = Len(p) /\ l > 0 BY <1>1
    <3>3. ~ (l > 1) BY <3>1, <3>2
    <3>4. l = 1 BY <3>2, <3>3
    <3> QED BY <3>2, <3>4
  <2> QED BY <1>1, <2>1 DEF IsPath
<1>3. ASSUME n \in DOMAIN Parent PROVE \E q : IsPath(q, Parent[n]) /\ p = Append(q, n)
  <2> DEFINE q == SubSeq(p, 1, Len(p) - 1)
  <2>1. Len(p) > 1
    BY <1>1, <1>3 DEF IsPath
  <2>2. /\ q \in Seq(Nodes) /\ Len(q) = Len(p) - 1 /\ Len(q) > 0
        /\ \A k \in 1 .. Len(p) - 1 : q[k] = p[k]
    BY <1>1, <2>1
  <2>3. p = Append(q, n)
    BY <1>1, <2>1, <2>2 DEF IsPath
  <2> HIDE DEF q
  <2>4. q[Len(q)] = Parent[n]
    <3>1. Len(p) - 1 \in 1 .. Len(p) - 1 /\ Len(p) - 1 + 1 = Len(p)
      BY <1>1, <2>1
    <3>2. Parent[p[Len(p)]] = p[Len(p) - 1]
      BY <3>1 DEF IsPath
    <3> QED BY <2>2, <3>1, <3>2 DEF IsPath
  <2>5. \A k \in 1 .. Len(q) - 1 : q[k + 1] \in DOMAIN Parent /\ Parent[q[k + 1]] = q[k]
    <3>1. \A k \in 1 .. Len(q) - 1 : k \in 1 .. Len(p) - 1 /\ k + 1 \in 1 .. Len(p) - 1
      BY <1>1, <2>2
    <3> QED BY <2>2, <3>1 DEF IsPath
  <2>6. q # <<>> /\ q[1] \notin DOMAIN Parent
    BY <1>1, <2>1, <2>2 DEF IsPath
  <2>7. IsPath(q, Parent[n])
    BY <2>2, <2>4, <2>5, <2>6 DEF IsPath
  <2> QED BY <2>3, <2>7
<1> QED BY <1>2, <1>3

(* Each node has a path, and only one. *)
LEMMA PathExists ==
    \A n \in Nodes : \E p : IsPath(p, n)
<1> DEFINE T == {n \in Nodes : \E p : IsPath(p, n)}
<1>1. ASSUME NEW n \in Nodes, n \in DOMAIN Parent => Parent[n] \in T PROVE n \in T
  <2>1. CASE n \in DOMAIN Parent
    BY <1>1, <2>1, PathGrows
  <2>2. CASE n \notin DOMAIN Parent
    <3>1. IsPath(<<n>>, n)
      BY <2>2 DEF IsPath
    <3> QED BY <3>1
  <2> QED BY <2>1, <2>2
<1> HIDE DEF T
<1>2. Nodes \subseteq T
  BY <1>1, TreeInduction
<1> QED BY <1>2 DEF T

LEMMA PathIsOne ==
    \A n \in Nodes : \A p, q : IsPath(p, n) /\ IsPath(q, n) => p = q
<1> DEFINE T == {n \in Nodes : \A p, q : IsPath(p, n) /\ IsPath(q, n) => p = q}
<1>1. ASSUME NEW n \in Nodes, n \in DOMAIN Parent => Parent[n] \in T PROVE n \in T
  <2>1. ASSUME NEW p, NEW q, IsPath(p, n), IsPath(q, n) PROVE p = q
    <3>1. CASE n \notin DOMAIN Parent
      BY <2>1, <3>1, PathShrinks
    <3>2. CASE n \in DOMAIN Parent
      <4>1. PICK x : IsPath(x, Parent[n]) /\ p = Append(x, n)
        BY <2>1, <3>2, PathShrinks
      <4>2. PICK y : IsPath(y, Parent[n]) /\ q = Append(y, n)
        BY <2>1, <3>2, PathShrinks
      <4>3. x = y
        BY <1>1, <3>2, <4>1, <4>2
      <4> QED BY <4>1, <4>2, <4>3
    <3> QED BY <3>1, <3>2
  <2> QED BY <2>1
<1> HIDE DEF T
<1>2. Nodes \subseteq T
  BY <1>1, TreeInduction
<1> QED BY <1>2 DEF T

(* So that the recursion of PathOf defines it. *)
LEMMA PathOfIs ==
    ASSUME NEW n \in Nodes
    PROVE  /\ IsPath(PathOf[n], n)
           /\ PathOf[n] \in Seq(Nodes)
           /\ n \in DOMAIN Parent =>
                 Parent[n] \in Nodes /\ PathOf[n] = Append(PathOf[Parent[n]], n)
           /\ n \notin DOMAIN Parent => PathOf[n] = <<n>>
<1> DEFINE Is(f) == f = [m \in Nodes |->
                           IF m \in DOMAIN Parent THEN Append(f[Parent[m]], m) ELSE <<m>>]
<1>0. \A m \in DOMAIN Parent : Parent[m] \in Nodes
  BY DiscovererAssumption DEF Nodes
<1>1. PICK h : h = [m \in Nodes |-> h[m]] /\ \A m \in Nodes : IsPath(h[m], m)
  <2> DEFINE g == [m \in Nodes |-> CHOOSE p : IsPath(p, m)]
  <2>1. \A m \in Nodes : g[m] = CHOOSE p : IsPath(p, m)
    OBVIOUS
  <2>2. \A m \in Nodes : IsPath(g[m], m)
    <3> HIDE DEF g
    <3> QED BY <2>1, PathExists, Zenon
  <2>3. g = [m \in Nodes |-> g[m]]
    <3>1. DOMAIN g = Nodes OBVIOUS
    <3> QED BY <3>1
  <2> HIDE DEF g
  <2> QED BY <2>2, <2>3
<1>2. \A m \in Nodes : h[m] = IF m \in DOMAIN Parent THEN Append(h[Parent[m]], m) ELSE <<m>>
  <2>1. ASSUME NEW m \in Nodes, m \in DOMAIN Parent PROVE h[m] = Append(h[Parent[m]], m)
    <3>1. IsPath(Append(h[Parent[m]], m), m)
      BY <1>0, <1>1, <2>1, PathGrows
    <3> QED BY <1>1, <3>1, PathIsOne
  <2>2. ASSUME NEW m \in Nodes, m \notin DOMAIN Parent PROVE h[m] = <<m>>
    BY <1>1, <2>2, PathShrinks
  <2> QED BY <2>1, <2>2
<1>3. Is(h)
  BY <1>1, <1>2, Zenon
<1>4. Is(PathOf)
  <2>1. \E f : Is(f)
    <3> HIDE DEF Is
    <3> QED BY <1>3
  <2> QED BY <2>1, Zenon DEF PathOf
<1>5. \A m \in Nodes : PathOf[m] =
        IF m \in DOMAIN Parent THEN Append(PathOf[Parent[m]], m) ELSE <<m>>
  BY <1>4, Zenon
<1> DEFINE T == {m \in Nodes : IsPath(PathOf[m], m)}
<1>6. ASSUME NEW m \in Nodes, m \in DOMAIN Parent => Parent[m] \in T PROVE m \in T
  <2>1. CASE m \in DOMAIN Parent
    BY <1>5, <1>6, <2>1, PathGrows
  <2>2. CASE m \notin DOMAIN Parent
    <3>1. PathOf[m] = <<m>> BY <1>5, <2>2
    <3>2. IsPath(<<m>>, m)
      BY <2>2 DEF IsPath
    <3> QED BY <3>1, <3>2
  <2> QED BY <2>1, <2>2
<1>7. n \in T
  <2> HIDE DEF T
  <2> QED BY <1>6, TreeInduction
<1> QED BY <1>0, <1>5, <1>7 DEF IsPath

-----------------------------------------------------------------------------
(* The length of a path. *)

Sums(h, p) ==
    /\ h[0] = 0
    /\ \A k \in 1 .. Len(p) : h[k] = h[k - 1] + 1 + Length[p[k]]

LEMMA StrlenRuns ==
    ASSUME NEW p \in Seq(Nodes)
    PROVE  \E h \in [0 .. Len(p) -> Nat] : Sums(h, p) /\ Strlen(p) = h[Len(p)]
<1> DEFINE N == Len(p)
           Sum[k \in 0 .. Len(p)] == IF k = 0 THEN 0 ELSE Sum[k - 1] + 1 + Length[p[k]]
           Is(f) == f = [k \in 0 .. Len(p) |->
                           IF k = 0 THEN 0 ELSE f[k - 1] + 1 + Length[p[k]]]
           F == [x \in Nat |-> [n \in 1 .. N |-> x + 1 + Length[p[n]]]]
<1>1. N \in Nat /\ \A k \in 1 .. N : Length[p[k]] \in Nat
  BY DiscovererAssumption
<1>2. PICK h \in [0 .. N -> Nat] : Steps(h, 0, F, N)
  <2>1. F \in [Nat -> [1 .. N -> Nat]]
    BY <1>1
  <2> HIDE DEF F, N
  <2> QED BY <1>1, <2>1, StepsExist
<1>3. Sums(h, p)
  <2>1. \A x \in Nat : \A n \in 1 .. N : F[x][n] = x + 1 + Length[p[n]]
    OBVIOUS
  <2> HIDE DEF F
  <2>2. \A n \in 1 .. N : n - 1 \in 0 .. N /\ h[n] = F[h[n - 1]][n]
    BY <1>1, <1>2 DEF Steps
  <2>3. \A n \in 1 .. N : h[n - 1] \in Nat
    BY <1>2, <2>2
  <2>4. \A n \in 1 .. N : h[n] = h[n - 1] + 1 + Length[p[n]]
    <3> HIDE DEF N
    <3> QED BY <2>1, <2>2, <2>3
  <2>5. h[0] = 0
    BY <1>2 DEF Steps
  <2> QED BY <2>4, <2>5 DEF Sums
<1>4. \A k \in 0 .. N : h[k] = IF k = 0 THEN 0 ELSE h[k - 1] + 1 + Length[p[k]]
  <2>1. \A k \in 0 .. N : k = 0 \/ k \in 1 .. N
    BY <1>1
  <2> QED BY <1>3, <2>1 DEF Sums
<1>5. Is(h)
  BY <1>2, <1>4
<1>6. Is(Sum)
  <2>1. \E f : Is(f)
    <3> HIDE DEF Is
    <3> QED BY <1>5
  <2> QED BY <2>1, Zenon
<1>7. Strlen(p) = Sum[Len(p)]
  BY DEF Strlen
<1>8. \A k \in 0 .. N : Sum[k] = IF k = 0 THEN 0 ELSE Sum[k - 1] + 1 + Length[p[k]]
  <2> HIDE DEF Sum
  <2> QED BY <1>6
<1> DEFINE T == {k \in 0 .. N : Sum[k] = h[k]}
<1>9. Sum[Len(p)] = h[Len(p)]
  <2> HIDE DEF Sum
  <2>1. 0 \in T
    BY <1>1, <1>4, <1>8
  <2>2. ASSUME NEW k \in 1 .. N, k - 1 \in T PROVE k \in T
    <3>1. k \in 0 .. N /\ k # 0 BY <1>1
    <3> QED BY <1>4, <1>8, <2>2, <3>1
  <2>3. Len(p) \in T
    <3> HIDE DEF T
    <3>1. \A k \in 0 .. N : k \in T
      BY <1>1, <2>1, <2>2, UpTo
    <3> QED BY <1>1, <3>1
  <2> QED BY <2>3
<1> QED
  <2> HIDE DEF Sum
  <2> QED BY <1>2, <1>3, <1>7, <1>9

LEMMA StrlenIs ==
    ASSUME NEW p \in Seq(Nodes)
    PROVE  /\ Strlen(p) \in Nat
           /\ p = <<>> => Strlen(p) = 0
           /\ \A n \in Nodes : Strlen(Append(p, n)) = Strlen(p) + 1 + Length[n]
<1>1. PICK h \in [0 .. Len(p) -> Nat] : Sums(h, p) /\ Strlen(p) = h[Len(p)]
  BY StrlenRuns
<1>2. Len(p) \in Nat
  OBVIOUS
<1>3. ASSUME NEW n \in Nodes PROVE Strlen(Append(p, n)) = Strlen(p) + 1 + Length[n]
  <2> DEFINE q == Append(p, n)
  <2>1. /\ q \in Seq(Nodes) /\ Len(q) = Len(p) + 1 /\ q[Len(p) + 1] = n
        /\ \A k \in 1 .. Len(p) : q[k] = p[k]
    OBVIOUS
  <2> HIDE DEF q
  <2>2. PICK g \in [0 .. Len(q) -> Nat] : Sums(g, q) /\ Strlen(q) = g[Len(q)]
    BY <2>1, StrlenRuns
  <2> DEFINE T == {k \in 0 .. Len(p) : g[k] = h[k]}
  <2>3. 0 \in T
    BY <1>1, <1>2, <2>2 DEF Sums
  <2>4. ASSUME NEW k \in 1 .. Len(p), k - 1 \in T PROVE k \in T
    <3>1. k \in 1 .. Len(q) /\ k \in 0 .. Len(p) BY <1>2, <2>1
    <3>2. g[k] = g[k - 1] + 1 + Length[q[k]] BY <2>2, <3>1 DEF Sums
    <3>3. h[k] = h[k - 1] + 1 + Length[p[k]] BY <1>1 DEF Sums
    <3> QED BY <2>1, <2>4, <3>1, <3>2, <3>3
  <2>5. Len(p) \in T
    <3> HIDE DEF T
    <3>1. \A k \in 0 .. Len(p) : k \in T
      BY <1>2, <2>3, <2>4, UpTo
    <3> QED BY <1>2, <3>1
  <2>6. g[Len(p)] = h[Len(p)]
    BY <2>5
  <2>7. Len(q) \in 1 .. Len(q) /\ Len(q) - 1 = Len(p)
    BY <1>2, <2>1
  <2>8. g[Len(q)] = g[Len(p)] + 1 + Length[n]
    BY <2>1, <2>2, <2>7 DEF Sums
  <2>9. Strlen(q) = Strlen(p) + 1 + Length[n]
    BY <1>1, <2>2, <2>6, <2>8
  <2> QED BY <2>9 DEF q
<1>4. Strlen(p) \in Nat
  BY <1>1, <1>2
<1>5. p = <<>> => Strlen(p) = 0
  BY <1>1 DEF Sums
<1> QED BY <1>3, <1>4, <1>5

(* A longer part of a path is longer as a string, *)
LEMMA StrlenOfParts ==
    ASSUME NEW p \in Seq(Nodes)
    PROVE  \A j \in 0 .. Len(p) : \A i \in 0 .. Len(p) :
              i < j => Strlen(SubSeq(p, 1, i)) < Strlen(SubSeq(p, 1, j))
<1> DEFINE Part(k) == SubSeq(p, 1, k)
           T == {j \in 0 .. Len(p) : \A i \in 0 .. Len(p) :
                    i < j => Strlen(Part(i)) < Strlen(Part(j))}
<1>1. Len(p) \in Nat
  OBVIOUS
<1>2. \A k \in 0 .. Len(p) : Part(k) \in Seq(Nodes)
  OBVIOUS
<1>3. \A k \in 1 .. Len(p) : Part(k) = Append(Part(k - 1), p[k]) /\ p[k] \in Nodes
  OBVIOUS
<1> HIDE DEF Part
<1>4. 0 \in T
  BY <1>1
<1>5. ASSUME NEW j \in 1 .. Len(p), j - 1 \in T PROVE j \in T
  <2>1. j \in Nat /\ j - 1 \in 0 .. Len(p) /\ j \in 0 .. Len(p)
    BY <1>1
  <2>2. Strlen(Part(j)) = Strlen(Part(j - 1)) + 1 + Length[p[j]]
    BY <1>2, <1>3, <2>1, StrlenIs
  <2>3. Length[p[j]] \in Nat
    BY <1>3, DiscovererAssumption
  <2>4. Strlen(Part(j - 1)) \in Nat
    BY <1>2, <2>1, StrlenIs
  <2>5. ASSUME NEW i \in 0 .. Len(p), i < j PROVE Strlen(Part(i)) < Strlen(Part(j))
    <3>1. Strlen(Part(i)) \in Nat
      BY <1>2, StrlenIs
    <3>2. i = j - 1 \/ i < j - 1
      BY <2>1, <2>5
    <3>3. Strlen(Part(i)) <= Strlen(Part(j - 1))
      BY <1>5, <2>4, <3>1, <3>2
    <3> QED BY <2>2, <2>3, <2>4, <3>1, <3>3
  <2> QED BY <2>1, <2>5
<1>6. \A j \in 0 .. Len(p) : j \in T
  <2> HIDE DEF T
  <2> QED BY <1>1, <1>4, <1>5, UpTo
<1> QED BY <1>6 DEF Part

(* so that the buffer is cut where the name of the subdirectory begins. *)
LEMMA CutIs ==
    ASSUME NEW q \in Seq(Nodes), NEW n \in Nodes
    PROVE  Cut(Append(q, n), Strlen(q)) = q
<1> DEFINE p == Append(q, n)
<1>1. /\ p \in Seq(Nodes) /\ Len(p) = Len(q) + 1 /\ Len(q) \in Nat
      /\ SubSeq(p, 1, Len(q)) = q
  OBVIOUS
<1> HIDE DEF p
<1>2. ASSUME NEW k \in 0 .. Len(p), Strlen(SubSeq(p, 1, k)) = Strlen(q) PROVE k = Len(q)
  <2>1. Len(q) \in 0 .. Len(p) /\ k \in Nat
    BY <1>1
  <2>2. Strlen(q) \in Nat
    BY StrlenIs
  <2>3. \A j \in 0 .. Len(p) : \A i \in 0 .. Len(p) :
           i < j => Strlen(SubSeq(p, 1, i)) < Strlen(SubSeq(p, 1, j))
    BY <1>1, StrlenOfParts
  <2>4. Strlen(SubSeq(p, 1, Len(q))) = Strlen(q)
    BY <1>1
  <2>5. ASSUME k < Len(q) PROVE FALSE
    <3>1. Strlen(SubSeq(p, 1, k)) < Strlen(SubSeq(p, 1, Len(q)))
      BY <2>1, <2>3, <2>5
    <3> QED BY <1>2, <2>2, <2>4, <3>1
  <2>6. ASSUME Len(q) < k PROVE FALSE
    <3>1. Strlen(SubSeq(p, 1, Len(q))) < Strlen(SubSeq(p, 1, k))
      BY <2>1, <2>3, <2>6
    <3> QED BY <1>2, <2>2, <2>4, <3>1
  <2>7. PICK l \in Nat : l = Len(q) BY <1>1
  <2>8. ~ (k < l) /\ ~ (l < k) BY <2>5, <2>6, <2>7
  <2>9. k = l BY <2>1, <2>8
  <2> QED BY <2>7, <2>9
<1>3. Prefixes(p) = {SubSeq(p, 1, k) : k \in 0 .. Len(p)}
  BY DEF Prefixes
<1>4. q \in Prefixes(p)
  <2>1. Len(q) \in 0 .. Len(p) BY <1>1
  <2> QED BY <1>1, <1>3, <2>1
<1>5. \A x \in Prefixes(p) : Strlen(x) = Strlen(q) => x = q
  BY <1>1, <1>2, <1>3
<1>6. Cut(p, Strlen(q)) = q
  BY <1>4, <1>5 DEF Cut
<1> QED BY <1>6 DEF p

-----------------------------------------------------------------------------
(* The directories above a node. *)

In(d, n) == d \in ToSet(PathOf[n])

LEMMA InIs ==
    ASSUME NEW n \in Nodes, NEW d
    PROVE  In(d, n) <=> d = n \/ (n \in DOMAIN Parent /\ In(d, Parent[n]))
<1>1. CASE n \in DOMAIN Parent
  <2> DEFINE p == PathOf[Parent[n]]
  <2>1. p \in Seq(Nodes) /\ PathOf[n] = Append(p, n)
    BY <1>1, PathOfIs
  <2> HIDE DEF p
  <2>2. d \in ToSet(Append(p, n)) <=> d = n \/ d \in ToSet(p)
    <3> DEFINE q == Append(p, n)
    <3>1. /\ Len(p) \in Nat /\ DOMAIN p = 1 .. Len(p) /\ DOMAIN q = 1 .. Len(p) + 1
          /\ q[Len(p) + 1] = n /\ \A k \in 1 .. Len(p) : q[k] = p[k]
      BY <2>1
    <3> HIDE DEF q
    <3>2. ASSUME d \in ToSet(q), d # n PROVE d \in ToSet(p)
      <4>1. PICK k \in 1 .. Len(p) + 1 : q[k] = d
        BY <3>1, <3>2 DEF ToSet
      <4>2. k \in 1 .. Len(p)
        BY <3>1, <3>2, <4>1
      <4> QED BY <3>1, <4>1, <4>2 DEF ToSet
    <3>3. ASSUME d \in ToSet(p) PROVE d \in ToSet(q)
      <4>1. PICK k \in 1 .. Len(p) : p[k] = d
        BY <3>1, <3>3 DEF ToSet
      <4>2. k \in 1 .. Len(p) + 1 /\ q[k] = d
        BY <3>1, <4>1
      <4> QED BY <3>1, <4>2 DEF ToSet
    <3>4. n \in ToSet(q)
      <4>1. Len(p) + 1 \in 1 .. Len(p) + 1 BY <3>1
      <4> QED BY <3>1, <4>1 DEF ToSet
    <3>5. d \in ToSet(q) <=> d = n \/ d \in ToSet(p)
      BY <3>2, <3>3, <3>4
    <3> QED BY <3>5 DEF q
  <2> QED BY <1>1, <2>1, <2>2 DEF In, p
<1>2. CASE n \notin DOMAIN Parent
  <2>1. PathOf[n] = <<n>>
    BY <1>2, PathOfIs
  <2>2. d \in ToSet(<<n>>) <=> d = n
    BY DEF ToSet
  <2> QED BY <1>2, <2>1, <2>2 DEF In
<1> QED BY <1>1, <1>2

(* What is below a directory is one of its entries or below one. *)
LEMMA EntryAbove ==
    ASSUME NEW d
    PROVE  \A f \in Nodes : In(d, f) /\ f # d => \E n \in Children(d) : In(n, f)
<1> DEFINE T == {f \in Nodes : In(d, f) /\ f # d => \E n \in Children(d) : In(n, f)}
<1>1. ASSUME NEW f \in Nodes, f \in DOMAIN Parent => Parent[f] \in T PROVE f \in T
  <2>1. ASSUME In(d, f), f # d PROVE \E n \in Children(d) : In(n, f)
    <3>1. f \in DOMAIN Parent /\ In(d, Parent[f])
      BY <2>1, InIs
    <3>2. CASE Parent[f] = d
      <4>1. f \in Children(d) BY <3>1, <3>2 DEF Children
      <4>2. In(f, f) BY InIs
      <4> QED BY <4>1, <4>2
    <3>3. CASE Parent[f] # d
      <4>1. PICK n \in Children(d) : In(n, Parent[f])
        BY <1>1, <3>1, <3>3
      <4>2. In(n, f)
        BY <3>1, <4>1, InIs
      <4> QED BY <4>2
    <3> QED BY <3>2, <3>3
  <2> QED BY <2>1
<1>2. Nodes \subseteq T
  <2> HIDE DEF T
  <2> QED BY <1>1, TreeInduction
<1> QED BY <1>2

LEMMA ParentAbove ==
    ASSUME NEW n \in DOMAIN Parent
    PROVE  \A f \in Nodes : In(n, f) => In(Parent[n], f)
<1> DEFINE T == {f \in Nodes : In(n, f) => In(Parent[n], f)}
<1>0. \A m \in DOMAIN Parent : Parent[m] \in Nodes
  BY DiscovererAssumption DEF Nodes
<1>1. ASSUME NEW f \in Nodes, f \in DOMAIN Parent => Parent[f] \in T PROVE f \in T
  <2>1. ASSUME In(n, f) PROVE In(Parent[n], f)
    <3>1. CASE n = f
      <4>1. In(Parent[f], Parent[f]) BY <1>0, <3>1, InIs
      <4> QED BY <3>1, <4>1, InIs
    <3>2. CASE n # f
      <4>1. f \in DOMAIN Parent /\ In(n, Parent[f]) BY <2>1, <3>2, InIs
      <4>2. In(Parent[n], Parent[f]) BY <1>1, <4>1
      <4> QED BY <4>1, <4>2, InIs
    <3> QED BY <3>1, <3>2
  <2> QED BY <2>1
<1>2. Nodes \subseteq T
  <2> HIDE DEF T
  <2> QED BY <1>1, TreeInduction
<1> QED BY <1>2

LEMMA AboveIsShorter ==
    \A f \in Nodes : \A n : In(n, f) =>
              n \in Nodes /\ Strlen(PathOf[n]) <= Strlen(PathOf[f])
<1> DEFINE T == {f \in Nodes : \A n : In(n, f) =>
                    n \in Nodes /\ Strlen(PathOf[n]) <= Strlen(PathOf[f])}
<1>0. \A m \in Nodes : PathOf[m] \in Seq(Nodes) /\ Strlen(PathOf[m]) \in Nat
  BY PathOfIs, StrlenIs
<1>1. ASSUME NEW f \in Nodes, f \in DOMAIN Parent => Parent[f] \in T PROVE f \in T
  <2>1. ASSUME NEW n, In(n, f)
        PROVE  n \in Nodes /\ Strlen(PathOf[n]) <= Strlen(PathOf[f])
    <3>1. CASE n = f
      BY <1>0, <3>1
    <3>2. CASE n # f
      <4>1. f \in DOMAIN Parent /\ In(n, Parent[f]) BY <2>1, <3>2, InIs
      <4>2. n \in Nodes /\ Strlen(PathOf[n]) <= Strlen(PathOf[Parent[f]])
        BY <1>1, <4>1
      <4>3. /\ Parent[f] \in Nodes
            /\ Strlen(PathOf[f]) = Strlen(PathOf[Parent[f]]) + 1 + Length[f]
        BY <1>0, <4>1, PathOfIs, StrlenIs
      <4>4. Length[f] \in Nat BY DiscovererAssumption
      <4> QED BY <1>0, <4>2, <4>3, <4>4
    <3> QED BY <3>1, <3>2
  <2> QED BY <2>1
<1>2. Nodes \subseteq T
  <2> HIDE DEF T
  <2> QED BY <1>1, TreeInduction
<1> QED BY <1>2

-----------------------------------------------------------------------------
(* The calls of recursive_scan: each is for a directory in that of its     *)
(* caller, the first for the argument, and holds the length of its path.   *)
Frames == [dir : Dirs, len : Nat, todo : SUBSET Nodes]

Framed(s) ==
    /\ s \in Seq(Frames)
    /\ \A k \in 1 .. Len(s) :
          /\ s[k].todo \subseteq Children(s[k].dir)
          /\ s[k].len = Strlen(PathOf[s[k].dir]) /\ s[k].len < PathMax
          /\ k > 1 => s[k].dir \in DOMAIN Parent /\ Parent[s[k].dir] = s[k - 1].dir

FramesInv ==
    /\ DTypeOK
    /\ Framed(stack)
    /\ stack # <<>> =>
          arg <= Len(Args) /\ stack[1].dir = Args[arg] /\ rpath = PathOf[Top.dir]

LEMMA FrameRest ==
    ASSUME NEW f \in Frames, NEW n
    PROVE  [f EXCEPT !.todo = @ \ {n}]
              = [dir |-> f.dir, len |-> f.len, todo |-> f.todo \ {n}]
<1> DEFINE g == [f EXCEPT !.todo = @ \ {n}]
<1>1. DOMAIN f = {"dir", "len", "todo"}
  BY DEF Frames
<1>2. DOMAIN g = {"dir", "len", "todo"}
  BY <1>1
<1>3. g.dir = f.dir /\ g.len = f.len /\ g.todo = f.todo \ {n}
  BY <1>1
<1>4. g \in [{"dir", "len", "todo"} -> {g["dir"], g["len"], g["todo"]}]
  BY <1>1
<1> HIDE DEF g
<1>5. g = [dir |-> g.dir, len |-> g.len, todo |-> g.todo]
  BY <1>4
<1> QED BY <1>3, <1>5 DEF g

RestOf(s, n) == [s EXCEPT ![Len(s)].todo = @ \ {n}]

LEMMA RestFramed ==
    ASSUME NEW s, Framed(s), s # <<>>, NEW n
    PROVE  /\ Framed(RestOf(s, n)) /\ Len(RestOf(s, n)) = Len(s) /\ RestOf(s, n) # <<>>
           /\ \A k \in 1 .. Len(s) :
                 /\ RestOf(s, n)[k].dir = s[k].dir
                 /\ RestOf(s, n)[k].len = s[k].len
                 /\ k # Len(s) => RestOf(s, n)[k].todo = s[k].todo
           /\ RestOf(s, n)[Len(s)].todo = s[Len(s)].todo \ {n}
<1> DEFINE m == Len(s)
           r == RestOf(s, n)
           x == [dir |-> s[m].dir, len |-> s[m].len, todo |-> s[m].todo \ {n}]
<1>1. m \in Nat /\ m > 0 /\ m \in 1 .. m
  BY EmptySeq DEF Framed
<1>2. s \in Seq(Frames) /\ s[m] \in Frames
  BY <1>1 DEF Framed
<1>3. [s[m] EXCEPT !.todo = @ \ {n}] = x
  BY <1>2, FrameRest
<1>4. x \in Frames
  BY <1>2 DEF Frames
<1>5. /\ r \in Seq(Frames) /\ Len(r) = m
      /\ r[m] = x /\ \A k \in 1 .. m : k # m => r[k] = s[k]
  <2>1. r = [s EXCEPT ![m] = [s[m] EXCEPT !.todo = @ \ {n}]]
    BY DEF RestOf
  <2>2. r = [s EXCEPT ![m] = x]
    BY <1>3, <2>1
  <2> HIDE DEF r, x, m
  <2> QED BY <1>1, <1>2, <1>4, <2>2 DEF m
<1>6. x.dir = s[m].dir /\ x.len = s[m].len /\ x.todo = s[m].todo \ {n}
  OBVIOUS
<1> HIDE DEF r, x, m
<1>7. \A k \in 1 .. m : r[k].dir = s[k].dir /\ r[k].len = s[k].len /\ r[k].todo \subseteq s[k].todo
  BY <1>1, <1>5, <1>6
<1>8. Framed(r)
  <2>1. ASSUME NEW k \in 1 .. Len(r)
        PROVE  /\ r[k].todo \subseteq Children(r[k].dir)
               /\ r[k].len = Strlen(PathOf[r[k].dir]) /\ r[k].len < PathMax
               /\ k > 1 => r[k].dir \in DOMAIN Parent /\ Parent[r[k].dir] = r[k - 1].dir
    <3>1. k \in 1 .. m BY <1>5
    <3>2. k > 1 => k - 1 \in 1 .. m BY <1>1, <3>1
    <3>3. k \in 1 .. Len(s) BY <3>1 DEF m
    <3>4. /\ s[k].todo \subseteq Children(s[k].dir)
          /\ s[k].len = Strlen(PathOf[s[k].dir]) /\ s[k].len < PathMax
          /\ k > 1 => s[k].dir \in DOMAIN Parent /\ Parent[s[k].dir] = s[k - 1].dir
      BY <3>3 DEF Framed
    <3> QED BY <1>7, <3>1, <3>2, <3>4
  <2> QED BY <1>5, <2>1 DEF Framed
<1>9. r # <<>>
  <2>1. Len(r) > 0 BY <1>1, <1>5
  <2> QED BY <2>1
<1> QED BY <1>5, <1>6, <1>7, <1>8, <1>9 DEF r, m

LEMMA FrontFramed ==
    ASSUME NEW s, Framed(s), s # <<>>
    PROVE  /\ Framed(Front(s)) /\ Len(Front(s)) = Len(s) - 1
           /\ \A k \in 1 .. Len(s) - 1 : Front(s)[k] = s[k]
<1> DEFINE r == Front(s)
<1>1. Len(s) \in Nat /\ Len(s) > 0
  BY EmptySeq DEF Framed
<1>2. /\ r \in Seq(Frames)
      /\ Len(r) = Len(s) - 1 /\ \A k \in 1 .. Len(s) - 1 : r[k] = s[k]
  <2>1. s \in Seq(Frames) /\ r = SubSeq(s, 1, Len(s) - 1)
    BY DEF Front, Framed
  <2> HIDE DEF r
  <2>2. PICK l \in Nat : l = Len(s) - 1 /\ l + 1 = Len(s)
    <3>1. Len(s) - 1 \in Nat /\ Len(s) - 1 + 1 = Len(s) BY <1>1
    <3> QED BY <3>1
  <2>3. r = SubSeq(s, 1, l)
    BY <2>1, <2>2
  <2>4. r \in Seq(Frames) /\ Len(r) = l /\ \A k \in 1 .. l : r[k] = s[k]
    BY <2>1, <2>2, <2>3
  <2> QED BY <2>2, <2>4
<1> HIDE DEF r
<1>3. Framed(r)
  <2>1. \A k \in 1 .. Len(r) : k \in 1 .. Len(s) /\ k \in 1 .. Len(s) - 1
    BY <1>1, <1>2
  <2>2. \A k \in 1 .. Len(r) : k > 1 => k - 1 \in 1 .. Len(s) - 1
    BY <1>1, <1>2
  <2> QED BY <1>2, <2>1, <2>2 DEF Framed
<1> QED BY <1>2, <1>3 DEF r

LEMMA AppendFramed ==
    ASSUME NEW s, Framed(s), NEW d \in Dirs, NEW l \in Nat,
           l = Strlen(PathOf[d]), l < PathMax,
           s # <<>> => d \in DOMAIN Parent /\ Parent[d] = s[Len(s)].dir
    PROVE  Framed(Append(s, Frame(d, l)))
<1> DEFINE r == Append(s, Frame(d, l))
           x == Frame(d, l)
<1>1. Len(s) \in Nat
  BY DEF Framed
<1>2. x \in Frames
  BY DiscovererAssumption DEF Frames, Frame, Children
<1>3. x.dir = d /\ x.len = l /\ x.todo = Children(d)
  BY DEF Frame
<1>4. /\ r \in Seq(Frames) /\ Len(r) = Len(s) + 1
      /\ r[Len(s) + 1] = x /\ \A k \in 1 .. Len(s) : r[k] = s[k]
  <2> HIDE DEF x
  <2>1. s \in Seq(Frames) /\ r = Append(s, x)
    BY DEF Framed, x
  <2> QED BY <1>2, <2>1
<1> HIDE DEF r, x
<1>5. ASSUME NEW k \in 1 .. Len(r)
      PROVE  /\ r[k].todo \subseteq Children(r[k].dir)
             /\ r[k].len = Strlen(PathOf[r[k].dir]) /\ r[k].len < PathMax
             /\ k > 1 => r[k].dir \in DOMAIN Parent /\ Parent[r[k].dir] = r[k - 1].dir
  <2>1. CASE k = Len(s) + 1
    <3>1. k > 1 => s # <<>> /\ k - 1 = Len(s) /\ k - 1 \in 1 .. Len(s)
      BY <1>1, <2>1
    <3> QED BY <1>3, <1>4, <2>1, <3>1
  <2>2. CASE k # Len(s) + 1
    <3>1. k \in 1 .. Len(s) BY <1>1, <1>4, <2>2
    <3>2. k > 1 => k - 1 \in 1 .. Len(s) BY <1>1, <3>1
    <3> QED BY <1>4, <3>1, <3>2 DEF Framed
  <2> QED BY <2>1, <2>2
<1>6. Framed(r)
  BY <1>4, <1>5 DEF Framed
<1> QED BY <1>6 DEF r

(* The return of a call leaves the buffer to the one that goes on. *)
LEMMA ReturnsKeeps ==
    ASSUME FramesInv, stack # <<>>, Returns
    PROVE  /\ Framed(stack')
           /\ arg' \in 1 .. Len(Args) + 1 /\ rpath' \in Seq(Dirs)
           /\ stack' # <<>> =>
                 /\ arg' <= Len(Args) /\ stack'[1].dir = Args[arg']
                 /\ rpath' = PathOf[stack'[Len(stack')].dir]
<1> DEFINE m == Len(stack)
<1>1. Framed(stack) /\ m \in Nat /\ m > 0
  BY EmptySeq DEF FramesInv, Framed
<1>2. /\ Framed(stack') /\ Len(stack') = m - 1
      /\ \A k \in 1 .. m - 1 : stack'[k] = stack[k]
  BY <1>1, FrontFramed DEF Returns
<1>3. /\ arg \in Nat /\ arg >= 1 /\ arg <= Len(Args) /\ Len(Args) \in Nat
      /\ stack[1].dir = Args[arg]
      /\ rpath \in Seq(Dirs) /\ rpath = PathOf[stack[m].dir]
  BY DiscovererAssumption DEF FramesInv, DTypeOK, Top, Last
<1>4. CASE m = 1
  <2>1. ~ (m > 1)
    BY <1>4
  <2>2. arg' = arg + 1 /\ rpath' = rpath
    BY <2>1 DEF Returns
  <2>3. stack' = <<>>
    <3>1. Len(stack') = 0 BY <1>2, <1>4
    <3> QED BY <1>2, <3>1, EmptySeq DEF Framed
  <2> QED BY <1>2, <1>3, <2>2, <2>3
<1>5. CASE m # 1
  <2>1. m > 1 /\ m - 1 \in 1 .. m /\ m \in 1 .. m /\ m - 1 \in 1 .. m - 1 /\ 1 \in 1 .. m - 1
    <3> HIDE DEF m
    <3> QED BY <1>1, <1>5
  <2>2. arg' = arg /\ rpath' = Cut(rpath, stack[m - 1].len)
    BY <2>1 DEF Returns
  <2> DEFINE d == stack[m - 1].dir
             n == stack[m].dir
  <2>3. /\ n \in DOMAIN Parent /\ Parent[n] = d
        /\ stack[m - 1].len = Strlen(PathOf[d])
    BY <1>1, <2>1 DEF Framed
  <2>4. /\ n \in Nodes /\ d \in Nodes /\ PathOf[d] \in Seq(Nodes)
        /\ rpath = Append(PathOf[d], n)
    <3>1. n \in Nodes
      BY <2>3, DiscovererAssumption
    <3>2. d \in Nodes /\ PathOf[n] = Append(PathOf[d], n)
      BY <2>3, <3>1, PathOfIs
    <3> QED BY <1>3, <3>1, <3>2, PathOfIs
  <2>5. rpath' = PathOf[d]
    BY <2>2, <2>3, <2>4, CutIs
  <2>6. PathOf[d] \in Seq(Dirs)
    <3> DEFINE q == PathOf[d]
    <3>1. q \in Seq(Nodes) /\ Append(q, n) \in Seq(Dirs)
      BY <1>3, <2>4
    <3> HIDE DEF q, n
    <3>2. q = SubSeq(Append(q, n), 1, Len(q)) /\ Len(Append(q, n)) = Len(q) + 1 /\ Len(q) \in Nat
      BY <3>1
    <3>3. \A k \in 1 .. Len(q) : q[k] \in Dirs
      <4>1. ASSUME NEW k \in 1 .. Len(q) PROVE q[k] \in Dirs
        <5>1. k \in 1 .. Len(Append(q, n)) /\ Append(q, n)[k] = q[k]
          BY <3>1, <3>2
        <5> QED BY <3>1, <5>1
      <4> QED BY <4>1
    <3>4. q \in Seq(Dirs)
      BY <3>1, <3>3
    <3> QED BY <3>4 DEF q
  <2>7. stack'[1] = stack[1] /\ stack'[Len(stack')] = stack[m - 1]
    BY <1>2, <2>1
  <2> QED BY <1>2, <1>3, <2>2, <2>5, <2>6, <2>7
<1> QED BY <1>4, <1>5

LEMMA FramedTypes ==
    ASSUME NEW s, Framed(s)
    PROVE  \A k \in DOMAIN s : s[k].dir \in Dirs /\ s[k].len \in Nat /\ s[k].todo \subseteq Nodes
<1>1. \A k \in DOMAIN s : s[k] \in Frames
  BY DEF Framed
<1> QED BY <1>1 DEF Frames

LEMMA FramesInit ==
    ASSUME DInit
    PROVE  FramesInv
<1>1. Framed(<<>>)
  BY DEF Framed
<1>2. 1 \in 1 .. Len(Args) + 1
  BY DiscovererAssumption
<1> QED BY <1>1, <1>2 DEF DInit, FramesInv, DTypeOK

(* The entry n of the directory that is read: its path, which the two      *)
(* tests of the length let into the buffer.                                *)
LEMMA EntryPath ==
    ASSUME FramesInv, stack # <<>>, NEW n \in Top.todo
    PROVE  /\ n \in Nodes /\ n \in DOMAIN Parent /\ Parent[n] = Top.dir
           /\ rpath = PathOf[Parent[n]] /\ Append(rpath, n) = PathOf[n]
           /\ Strlen(PathOf[n]) = Top.len + 1 + Length[n]
           /\ TooLong(n) <=> ~ (Strlen(PathOf[n]) < PathMax)
<1>1. Framed(stack) /\ Len(stack) \in Nat /\ Len(stack) > 0
  BY EmptySeq DEF FramesInv, Framed
<1>2. /\ Top.todo \subseteq Children(Top.dir)
      /\ Top.len = Strlen(PathOf[Top.dir]) /\ Top.len \in Nat
  <2>1. Len(stack) \in 1 .. Len(stack) /\ DOMAIN stack = 1 .. Len(stack)
    BY <1>1 DEF Framed
  <2>2. stack[Len(stack)].len \in Nat
    BY <1>1, <2>1, FramedTypes
  <2> QED BY <1>1, <2>1, <2>2 DEF Framed, Top, Last
<1>3. n \in DOMAIN Parent /\ Parent[n] = Top.dir
  BY <1>2 DEF Children
<1>4. n \in Nodes /\ Parent[n] \in Nodes /\ Length[n] \in Nat
  BY <1>3, DiscovererAssumption DEF Nodes
<1>5. rpath = PathOf[Parent[n]]
  BY <1>3 DEF FramesInv
<1>6. PathOf[n] = Append(rpath, n) /\ rpath \in Seq(Nodes)
  BY <1>3, <1>4, <1>5, PathOfIs
<1>7. Strlen(PathOf[n]) = Top.len + 1 + Length[n]
  BY <1>2, <1>3, <1>4, <1>5, <1>6, StrlenIs
<1>8. TooLong(n) <=> ~ (Strlen(PathOf[n]) < PathMax)
  BY <1>2, <1>4, <1>7, DiscovererAssumption DEF TooLong
<1> QED BY <1>3, <1>4, <1>5, <1>6, <1>7, <1>8

LEMMA LosesTyped ==
    ASSUME DTypeOK, arg \in DOMAIN Args, NEW n \in Nodes,
           NEW why \in {"open", "read", "test"}, Loses(n, why)
    PROVE  lost' \subseteq [arg : DOMAIN Args, node : Nodes, why : {"open", "read", "test"}]
BY DEF DTypeOK, Loses

LEMMA FramesNext ==
    ASSUME FramesInv, [DNext]_dvars
    PROVE  FramesInv'
<1> USE DEF DTypeOK
<1>1. /\ Framed(stack) /\ Len(stack) \in Nat /\ Len(Args) \in Nat /\ DTypeOK
      /\ DOMAIN Args = 1 .. Len(Args) /\ \A a \in DOMAIN Args : Args[a] \in Dirs \ DOMAIN Parent
      /\ Dirs \subseteq Nodes /\ Regular \subseteq Nodes /\ Others \subseteq Nodes
  BY DiscovererAssumption DEF FramesInv, Framed, Nodes
<1>2. ASSUME Scan PROVE FramesInv'
  <2> DEFINE d == Args[arg]
             path == <<d>>
  <2>1. stack = <<>> /\ arg \in DOMAIN Args /\ d \in Dirs /\ d \notin DOMAIN Parent
    BY <1>1, <1>2 DEF Scan, FramesInv
  <2>2. PathOf[d] = path /\ path \in Seq(Dirs)
    BY <1>1, <2>1, PathOfIs
  <2>3. Strlen(path) \in Nat /\ Strlen(path) < PathMax
    <3>1. path \in Seq(Nodes) BY <1>1, <2>1
    <3> QED BY <1>2, <3>1, StrlenIs DEF Scan
  <2>4. Framed(Append(<<>>, Frame(d, Strlen(path))))
    <3> HIDE DEF d, path
    <3> QED BY <1>1, <2>1, <2>2, <2>3, AppendFramed
  <2>5. /\ stack' = <<Frame(d, Strlen(path))>> /\ rpath' = path
        /\ UNCHANGED <<arg, printed, lost>>
    BY <1>2 DEF Scan
  <2>6. Framed(stack') /\ stack' # <<>> /\ Len(stack') = 1 /\ stack'[1].dir = d
    <3>1. Append(<<>>, Frame(d, Strlen(path))) = <<Frame(d, Strlen(path))>>
      OBVIOUS
    <3> QED BY <2>4, <2>5, <3>1 DEF Frame
  <2>7. DTypeOK'
    BY <1>1, <2>2, <2>5, <2>6, FramedTypes DEF FramesInv
  <2>8. /\ arg' <= Len(Args) /\ stack'[1].dir = Args[arg']
        /\ rpath' = PathOf[stack'[Len(stack')].dir]
    BY <1>1, <2>1, <2>2, <2>5, <2>6
  <2> QED BY <2>6, <2>7, <2>8 DEF FramesInv, Top, Last
<1>3. ASSUME ScanFails PROVE FramesInv'
  <2>1. /\ stack = <<>> /\ arg \in DOMAIN Args /\ Args[arg] \in Nodes
        /\ arg' = arg + 1 /\ Loses(Args[arg], "open") /\ UNCHANGED <<stack, rpath, printed>>
    BY <1>1, <1>3 DEF ScanFails, FramesInv
  <2>2. lost' \subseteq [arg : DOMAIN Args, node : Nodes, why : {"open", "read", "test"}]
    BY <1>1, <2>1, LosesTyped
  <2> QED BY <1>1, <2>1, <2>2 DEF FramesInv
<1>4. SUFFICES ASSUME stack # <<>> PROVE FramesInv'
  <2>1. CASE UNCHANGED dvars
    BY <2>1 DEF dvars, FramesInv, Framed, Top, Last
  <2>2. CASE Ended /\ UNCHANGED dvars
    BY <2>2 DEF dvars, FramesInv, Framed, Top, Last
  <2> QED BY <1>2, <1>3, <1>4, <2>1, <2>2 DEF DNext
<1>5. /\ arg \in DOMAIN Args /\ arg <= Len(Args) /\ stack[1].dir = Args[arg]
      /\ rpath = PathOf[Top.dir] /\ Top = stack[Len(stack)]
      /\ Len(stack) > 0
  BY <1>1, <1>4, EmptySeq DEF FramesInv, Top, Last, Framed
<1>6. \A n : /\ Framed(Rest(n)) /\ Rest(n) # <<>> /\ Len(Rest(n)) = Len(stack)
             /\ Rest(n)[1].dir = stack[1].dir
             /\ Rest(n)[Len(stack)].dir = stack[Len(stack)].dir
  <2>1. 1 \in 1 .. Len(stack) /\ Len(stack) \in 1 .. Len(stack)
    BY <1>1, <1>5
  <2>2. \A n : Rest(n) = RestOf(stack, n)
    BY DEF Rest, RestOf
  <2> QED BY <1>1, <1>4, <2>1, <2>2, RestFramed
<1>7. ASSUME NEW n, stack' = Rest(n), rpath' = rpath, arg' = arg,
             printed' \subseteq [arg : DOMAIN Args, uri : Seq(Nodes)],
             lost' \subseteq [arg : DOMAIN Args, node : Nodes, why : {"open", "read", "test"}]
      PROVE  FramesInv'
  <2>1. /\ Framed(stack') /\ stack' # <<>> /\ stack'[1].dir = stack[1].dir
        /\ stack'[Len(stack')].dir = Top.dir
    BY <1>5, <1>6, <1>7
  <2>2. DTypeOK'
    BY <1>1, <1>7, <2>1, FramedTypes DEF FramesInv
  <2> QED BY <1>5, <1>7, <2>1, <2>2 DEF FramesInv, Top, Last
<1>8. ASSUME Returns, printed' = printed,
             lost' \subseteq [arg : DOMAIN Args, node : Nodes, why : {"open", "read", "test"}]
      PROVE  FramesInv'
  <2>1. /\ Framed(stack')
        /\ arg' \in 1 .. Len(Args) + 1 /\ rpath' \in Seq(Dirs)
        /\ stack' # <<>> =>
              /\ arg' <= Len(Args) /\ stack'[1].dir = Args[arg']
              /\ rpath' = PathOf[stack'[Len(stack')].dir]
    BY <1>4, <1>8, ReturnsKeeps
  <2>2. DTypeOK'
    BY <1>1, <1>8, <2>1, FramedTypes DEF FramesInv
  <2> QED BY <2>1, <2>2 DEF FramesInv, Top, Last
<1>9. ASSUME NEW n \in Top.todo, SkipEntry(n) PROVE FramesInv'
  BY <1>1, <1>7, <1>9 DEF SkipEntry
<1>10. ASSUME NEW n \in Top.todo, VisitFile(n) PROVE FramesInv'
  <2>1. n \in Nodes /\ Append(rpath, n) = PathOf[n] /\ PathOf[n] \in Seq(Nodes)
    BY <1>4, EntryPath, PathOfIs
  <2>2. printed' = printed \/ printed' = printed \cup {[arg |-> arg, uri |-> PathOf[n]]}
    BY <1>10, <2>1 DEF VisitFile
  <2>3. printed' \subseteq [arg : DOMAIN Args, uri : Seq(Nodes)]
    BY <1>1, <1>5, <2>1, <2>2
  <2>4. lost' = lost \/ Loses(n, "test")
    BY <1>10 DEF VisitFile
  <2>5. lost' \subseteq [arg : DOMAIN Args, node : Nodes, why : {"open", "read", "test"}]
    BY <1>1, <1>5, <2>1, <2>4, LosesTyped
  <2> QED BY <1>7, <1>10, <2>3, <2>5 DEF VisitFile
<1>11. ASSUME NEW n \in Top.todo, EnterDir(n) PROVE FramesInv'
  <2> DEFINE path == PathOf[n]
             l == Strlen(path)
  <2>1. /\ n \in DOMAIN Parent /\ Parent[n] = Top.dir /\ n \in Nodes
        /\ Append(rpath, n) = path /\ n \in Dirs /\ path \in Seq(Nodes) /\ l < PathMax
    BY <1>4, <1>11, EntryPath, PathOfIs DEF EnterDir
  <2>2. l \in Nat
    BY <2>1, StrlenIs
  <2>3. /\ stack' = Append(Rest(n), Frame(n, l)) /\ rpath' = path
        /\ UNCHANGED <<arg, printed, lost>>
    BY <1>11, <2>1 DEF EnterDir
  <2>4. rpath' \in Seq(Dirs)
    <3>1. rpath \in Seq(Dirs) BY <1>1
    <3>2. Append(rpath, n) \in Seq(Dirs)
      <4>1. \A s \in Seq(Dirs), x \in Dirs : Append(s, x) \in Seq(Dirs)
        OBVIOUS
      <4> QED BY <2>1, <3>1, <4>1, Zenon
    <3> QED BY <2>1, <2>3, <3>2
  <2>5. Parent[n] = Rest(n)[Len(Rest(n))].dir
    BY <1>5, <1>6, <2>1
  <2>6. Framed(stack')
    <3> HIDE DEF path, l
    <3>1. l = Strlen(PathOf[n]) BY DEF path, l
    <3> QED BY <1>6, <2>1, <2>2, <2>3, <2>5, <3>1, AppendFramed
  <2>7. /\ stack' # <<>> /\ stack'[1].dir = stack[1].dir
        /\ stack'[Len(stack')].dir = n
    <3> DEFINE r == Rest(n)
               x == Frame(n, l)
    <3>1. r \in Seq(Frames) /\ Len(r) > 0 /\ x.dir = n
      BY <1>5, <1>6 DEF Framed, Frame
    <3> HIDE DEF r, x
    <3>2. Append(r, x)[1] = r[1] /\ Len(Append(r, x)) = Len(r) + 1 /\ Append(r, x)[Len(r) + 1] = x
          /\ Append(r, x) # <<>>
      BY <3>1
    <3>3. r[1].dir = stack[1].dir /\ stack' = Append(r, x)
      BY <1>6, <2>3 DEF r, x
    <3> QED BY <3>1, <3>2, <3>3
  <2>8. DTypeOK'
    BY <1>1, <2>3, <2>4, <2>6, FramedTypes DEF FramesInv
  <2> QED BY <1>5, <2>3, <2>6, <2>7, <2>8 DEF FramesInv, Top, Last
<1>12. ASSUME NEW n \in Top.todo, EnterFails(n) PROVE FramesInv'
  <2>1. n \in Nodes /\ Loses(n, "open")
    BY <1>4, <1>12, EntryPath DEF EnterFails
  <2>2. lost' \subseteq [arg : DOMAIN Args, node : Nodes, why : {"open", "read", "test"}]
    BY <1>1, <1>5, <2>1, LosesTyped
  <2> QED BY <1>8, <1>12, <2>2 DEF EnterFails
<1>13. ASSUME ReadFails PROVE FramesInv'
  <2>1. Top.dir \in Nodes
    <3>1. Len(stack) \in DOMAIN stack BY <1>1, <1>5 DEF Framed
    <3>2. stack[Len(stack)].dir \in Dirs BY <1>1, <3>1, FramedTypes
    <3> QED BY <1>1, <1>5, <3>2
  <2>2. lost' \subseteq [arg : DOMAIN Args, node : Nodes, why : {"open", "read", "test"}]
    BY <1>1, <1>5, <1>13, <2>1, LosesTyped DEF ReadFails
  <2> QED BY <1>8, <1>13, <2>2 DEF ReadFails
<1>14. ASSUME EndOfDir PROVE FramesInv'
  BY <1>1, <1>8, <1>14 DEF EndOfDir
<1>15. CASE UNCHANGED dvars
  BY <1>15 DEF dvars, FramesInv, Framed, Top, Last
<1> QED
  BY <1>2, <1>3, <1>9, <1>10, <1>11, <1>12, <1>13, <1>14, <1>15 DEF DNext

(* The types of the discoverer's state (Discoverer). *)
THEOREM ScanTypeCorrect == DSpec => []DTypeOK
<1>1. DInit => FramesInv
  BY FramesInit
<1>2. FramesInv /\ [DNext]_dvars => FramesInv'
  BY FramesNext
<1>3. FramesInv => DTypeOK
  BY DEF FramesInv
<1> QED BY <1>1, <1>2, <1>3, PTL DEF DSpec

(* BufferIsTheDirectory (Discoverer): whatever recursive_scan has come back *)
(* from, _rpath holds the path of the directory that is being read.         *)
THEOREM SharedBuffer == DSpec => []BufferIsTheDirectory
<1>1. DInit => FramesInv
  BY FramesInit
<1>2. FramesInv /\ [DNext]_dvars => FramesInv'
  BY FramesNext
<1>3. ASSUME FramesInv PROVE BufferIsTheDirectory
  <2>1. SUFFICES ASSUME stack # <<>>
                 PROVE  /\ rpath = PathOf[Top.dir] /\ Strlen(rpath) = Top.len
                        /\ Strlen(rpath) < PathMax
    BY DEF BufferIsTheDirectory
  <2>2. Len(stack) \in 1 .. Len(stack)
    BY <1>3, <2>1, EmptySeq DEF FramesInv, Framed
  <2> QED BY <1>3, <2>1, <2>2 DEF FramesInv, Framed, Top, Last
<1> QED BY <1>1, <1>2, <1>3, PTL DEF DSpec

-----------------------------------------------------------------------------
(* Each file that can be played and named is accounted for as soon as the  *)
(* scan has come past it: it is printed, or a failure costs it.  Until     *)
(* then it is below an entry that a call of recursive_scan has yet to come *)
(* to.                                                                     *)
Due(a, f) == Below(Args[a], f) /\ Strlen(PathOf[f]) < PathMax

Accounted(a, f) ==
    \/ [arg |-> a, uri |-> PathOf[f]] \in printed
    \/ \E l \in lost : l.arg = a /\ Costs(l, f)

Pending(f) == \E k \in DOMAIN stack : \E n \in stack[k].todo : In(n, f)

AccountsInv ==
    \A a \in DOMAIN Args, f \in Playable : Due(a, f) =>
        /\ a < arg => Accounted(a, f)
        /\ a = arg /\ stack # <<>> => Accounted(a, f) \/ Pending(f)

LEMMA CostsAre ==
    ASSUME NEW l, NEW f
    PROVE  /\ l.why = "test" /\ l.node = f => Costs(l, f)
           /\ l.why = "read" /\ Below(l.node, f) => Costs(l, f)
           /\ l.why = "open" /\ Below(l.node, f) => Costs(l, f)
           /\ l.why = "open" /\ l.node \in DOMAIN Parent /\ Below(Parent[l.node], f) =>
                 Costs(l, f)
<1>1. "test" # "read" /\ "test" # "open" /\ "read" # "open"
  OBVIOUS
<1> QED BY <1>1, Zenon DEF Costs

LEMMA AccountedKept ==
    ASSUME printed \subseteq printed', lost \subseteq lost'
    PROVE  \A a, f : Accounted(a, f) => Accounted(a, f)'
BY Zenon DEF Accounted

(* What is lost accounts for what it costs. *)
LEMMA LostAccounts ==
    ASSUME NEW node, NEW why, Loses(node, why), NEW f, NEW a, a = arg,
           Costs([arg |-> a, node |-> node, why |-> why], f)
    PROVE  Accounted(a, f)'
<1> DEFINE l == [arg |-> a, node |-> node, why |-> why]
<1>1. l \in lost' /\ l.arg = a
  BY DEF Loses
<1>2. Costs(l, f)
  OBVIOUS
<1> HIDE DEF l
<1> QED BY <1>1, <1>2, Zenon DEF Accounted

LEMMA AboveFiles ==
    ASSUME NEW f \in Regular, NEW n, In(n, f)
    PROVE  n = f \/ (n \in Dirs /\ n # f /\ Below(n, f))
<1>1. f \in Nodes /\ f \notin Dirs
  BY DiscovererAssumption DEF Nodes
<1>2. ASSUME n # f PROVE n \in Dirs
  <2>1. PICK c \in Children(n) : In(c, f)
    BY <1>1, <1>2, EntryAbove
  <2> QED BY <2>1, DiscovererAssumption DEF Children
<1> QED BY <1>1, <1>2 DEF In, Below

LEMMA PathsExist ==
    ASSUME NEW n \in Nodes
    PROVE  Exists(PathOf[n])
<1> DEFINE p == PathOf[n]
<1>1. IsPath(p, n)
  BY PathOfIs
<1> HIDE DEF p
<1>2. Exists(p)
  BY <1>1 DEF IsPath, Exists, Children
<1> QED BY <1>2 DEF p

(* An entry has been dealt with. *)
LEMMA EntryAccounted ==
    ASSUME FramesInv, AccountsInv, stack # <<>>,
           NEW n \in Top.todo, stack' = Rest(n), arg' = arg,
           printed \subseteq printed', lost \subseteq lost',
           \A a : \A f \in Playable : a = arg /\ Due(a, f) /\ In(n, f) => Accounted(a, f)'
    PROVE  AccountsInv'
<1>1. /\ Framed(stack) /\ Len(stack) \in Nat /\ stack' # <<>>
      /\ DOMAIN stack = 1 .. Len(stack) /\ DOMAIN stack' = DOMAIN stack
      /\ \A k \in DOMAIN stack : k # Len(stack) => stack'[k].todo = stack[k].todo
      /\ stack'[Len(stack)].todo = stack[Len(stack)].todo \ {n}
  <2>1. Framed(stack) /\ Len(stack) \in Nat /\ DOMAIN stack = 1 .. Len(stack)
    BY DEF FramesInv, Framed
  <2>2. stack' = RestOf(stack, n)
    BY DEF Rest, RestOf
  <2>3. Framed(stack') /\ Len(stack') = Len(stack)
    BY <2>1, <2>2, RestFramed
  <2>4. DOMAIN stack' = 1 .. Len(stack)
    BY <2>3 DEF Framed
  <2> QED BY <2>1, <2>2, <2>4, RestFramed
<1>2. ASSUME NEW a, NEW f \in Playable, a = arg, Due(a, f), Pending(f)
      PROVE  Accounted(a, f)' \/ Pending(f)'
  <2>1. PICK k \in DOMAIN stack : \E n1 \in stack[k].todo : In(n1, f)
    BY <1>2 DEF Pending
  <2> PICK m \in stack[k].todo : In(m, f)
    BY <2>1
  <2>2. CASE k = Len(stack) /\ m = n
    BY <1>2, <2>1, <2>2
  <2>3. CASE ~ (k = Len(stack) /\ m = n)
    <3>1. m \in stack'[k].todo
      <4>1. CASE k = Len(stack)
        <5>1. stack'[Len(stack)].todo = stack[Len(stack)].todo \ {n} BY <1>1
        <5>2. m # n BY <2>3, <4>1
        <5>3. m \in stack'[Len(stack)].todo BY <4>1, <5>1, <5>2
        <5> QED BY <4>1, <5>3
      <4>2. CASE k # Len(stack)
        <5>1. stack'[k].todo = stack[k].todo BY <1>1, <2>1, <4>2
        <5> QED BY <2>1, <5>1
      <4> QED BY <4>1, <4>2
    <3>2. k \in DOMAIN stack'
      BY <1>1, <2>1
    <3> QED BY <2>1, <3>1, <3>2 DEF Pending
  <2> QED BY <2>2, <2>3
<1>3. \A a, f : Accounted(a, f) => Accounted(a, f)'
  BY AccountedKept
<1> QED BY <1>1, <1>2, <1>3, Zenon DEF AccountsInv, Due

(* A call has returned. *)
LEMMA ReturnAccounted ==
    ASSUME FramesInv, AccountsInv, stack # <<>>, Returns,
           printed \subseteq printed', lost \subseteq lost',
           \A n \in Top.todo : \A a : \A f \in Playable :
               a = arg /\ Due(a, f) /\ In(n, f) => Accounted(a, f)'
    PROVE  AccountsInv'
<1>1. Framed(stack) /\ Len(stack) \in Nat /\ Len(stack) > 0 /\ DOMAIN stack = 1 .. Len(stack)
  BY EmptySeq DEF FramesInv, Framed
<1>2. /\ Framed(stack') /\ Len(stack') = Len(stack) - 1
      /\ \A k \in 1 .. Len(stack) - 1 : stack'[k] = stack[k]
  BY <1>1, FrontFramed DEF Returns
<1>3. DOMAIN stack' = 1 .. Len(stack) - 1
  BY <1>2 DEF Framed
<1>4. \A a, f : Accounted(a, f) => Accounted(a, f)'
  BY AccountedKept
<1>5. arg \in Nat /\ DOMAIN Args \subseteq Nat
  BY DiscovererAssumption DEF FramesInv, DTypeOK
<1>6. CASE Len(stack) > 1
  <2>1. arg' = arg
    BY <1>6 DEF Returns
  <2>2. ASSUME NEW a, NEW f \in Playable, a = arg, Due(a, f), Pending(f)
        PROVE  Accounted(a, f)' \/ Pending(f)'
    <3>1. PICK k \in DOMAIN stack : \E n1 \in stack[k].todo : In(n1, f)
      BY <2>2 DEF Pending
    <3> PICK m \in stack[k].todo : In(m, f)
      BY <3>1
    <3>2. CASE k = Len(stack)
      BY <2>2, <3>1, <3>2 DEF Top, Last
    <3>3. CASE k # Len(stack)
      <4>1. k \in DOMAIN stack' /\ stack'[k] = stack[k]
        BY <1>1, <1>2, <1>3, <3>1, <3>3
      <4> QED BY <3>1, <4>1 DEF Pending
    <3> QED BY <3>2, <3>3
  <2> QED BY <1>4, <2>1, <2>2, Zenon DEF AccountsInv, Due
<1>7. CASE ~ (Len(stack) > 1)
  <2>1. arg' = arg + 1
    BY <1>7 DEF Returns
  <2>2. stack' = <<>>
    <3>1. Len(stack') = 0 BY <1>1, <1>2, <1>7
    <3> QED BY <1>2, <3>1, EmptySeq DEF Framed
  <2>3. ASSUME NEW a, NEW f \in Playable, a = arg, Due(a, f), Pending(f) PROVE Accounted(a, f)'
    <3>1. PICK k \in DOMAIN stack : \E n1 \in stack[k].todo : In(n1, f)
      BY <2>3 DEF Pending
    <3> PICK m \in stack[k].todo : In(m, f)
      BY <3>1
    <3>2. k = Len(stack)
      BY <1>1, <1>7, <3>1
    <3> QED BY <2>3, <3>1, <3>2 DEF Top, Last
  <2>4. \A a \in DOMAIN Args : a < arg' => a < arg \/ a = arg
    BY <1>5, <2>1
  <2> QED BY <1>4, <2>2, <2>3, <2>4, Zenon DEF AccountsInv, Due
<1> QED BY <1>6, <1>7

LEMMA AccountsNext ==
    ASSUME FramesInv, AccountsInv, [DNext]_dvars
    PROVE  AccountsInv'
<1>1. /\ Len(Args) \in Nat /\ DOMAIN Args = 1 .. Len(Args) /\ arg \in Nat
      /\ \A a \in DOMAIN Args : Args[a] \in Dirs
      /\ \A f \in Playable : f \in Regular /\ f \in Nodes
      /\ Framed(stack)
  BY DiscovererAssumption DEF FramesInv, DTypeOK, Nodes
<1>2. ASSUME Scan PROVE AccountsInv'
  <2>1. /\ stack = <<>> /\ stack' = <<Frame(Args[arg], Strlen(<<Args[arg]>>))>>
        /\ UNCHANGED <<arg, printed, lost>>
    BY <1>2 DEF Scan
  <2>2. ASSUME NEW a, NEW f \in Playable, a = arg, Due(a, f) PROVE Pending(f)'
    <3>1. In(Args[a], f) /\ f # Args[a]
      BY <2>2 DEF Due, Below, In
    <3>2. PICK c \in Children(Args[a]) : In(c, f)
      BY <1>1, <3>1, EntryAbove
    <3>3. 1 \in DOMAIN stack' /\ stack'[1].todo = Children(Args[arg])
      BY <2>1 DEF Frame
    <3> QED BY <2>2, <3>2, <3>3 DEF Pending
  <2>3. \A a, f : Accounted(a, f) => Accounted(a, f)'
    BY <2>1, AccountedKept
  <2> QED BY <2>1, <2>2, <2>3, Zenon DEF AccountsInv, Due
<1>3. ASSUME ScanFails PROVE AccountsInv'
  <2>1. /\ stack' = <<>> /\ arg' = arg + 1 /\ Loses(Args[arg], "open")
        /\ printed' = printed /\ lost \subseteq lost'
    BY <1>3 DEF ScanFails, Loses
  <2>2. ASSUME NEW a, NEW f \in Playable, a = arg, Due(a, f) PROVE Accounted(a, f)'
    <3> DEFINE l == [arg |-> a, node |-> Args[a], why |-> "open"]
    <3>1. l.why = "open" /\ Below(l.node, f)
      BY <2>2 DEF Due
    <3>2. Costs(l, f)
      <4> HIDE DEF l
      <4> QED BY <3>1, CostsAre
    <3> QED BY <2>1, <2>2, <3>2, LostAccounts
  <2>3. \A a, f : Accounted(a, f) => Accounted(a, f)'
    BY <2>1, AccountedKept
  <2>4. \A a \in DOMAIN Args : a < arg' => a < arg \/ a = arg
    BY <1>1, <2>1
  <2> QED BY <2>1, <2>2, <2>3, <2>4, Zenon DEF AccountsInv, Due
<1>4. ASSUME UNCHANGED dvars PROVE AccountsInv'
  BY <1>4 DEF dvars, AccountsInv, Accounted, Pending
<1>5. SUFFICES ASSUME stack # <<>> PROVE AccountsInv'
  BY <1>2, <1>3, <1>4, <1>5 DEF DNext
<1>6. \A n \in Top.todo : n \in Nodes /\ n \in DOMAIN Parent /\ Parent[n] = Top.dir
  BY <1>5, EntryPath
<1>7. Top.dir \in Dirs
  <2>1. Len(stack) \in DOMAIN stack
    BY <1>5, EmptySeq DEF FramesInv, Framed
  <2> QED BY <1>1, <2>1, FramedTypes DEF Top, Last
(* What is below an entry is below the directory that is read. *)
<1>8. \A n \in Top.todo : \A f \in Playable : In(n, f) => Below(Top.dir, f)
  <2>1. \A f \in Playable : f # Top.dir
    BY <1>1, <1>7, DiscovererAssumption
  <2> QED BY <1>1, <1>6, <2>1, ParentAbove DEF In, Below
<1>9. ASSUME NEW n \in Top.todo, SkipEntry(n) PROVE AccountsInv'
  <2>1. ASSUME NEW a, NEW f \in Playable, Due(a, f), In(n, f) PROVE FALSE
    <3>1. n \in Regular \/ n \in Dirs
      BY <1>1, <2>1, AboveFiles
    <3>2. n \notin Others
      BY <3>1, DiscovererAssumption
    <3>3. ~ (Strlen(PathOf[n]) < PathMax)
      BY <1>5, <1>9, <3>2, EntryPath DEF SkipEntry
    <3>4. Strlen(PathOf[n]) <= Strlen(PathOf[f]) /\ Strlen(PathOf[f]) < PathMax
      BY <1>1, <2>1, AboveIsShorter DEF Due
    <3>5. Strlen(PathOf[n]) \in Nat /\ Strlen(PathOf[f]) \in Nat /\ PathMax \in Nat
      BY <1>1, <1>6, PathOfIs, StrlenIs, DiscovererAssumption
    <3> QED BY <3>3, <3>4, <3>5
  <2>2. /\ stack' = Rest(n) /\ arg' = arg
        /\ printed \subseteq printed' /\ lost \subseteq lost'
    BY <1>9 DEF SkipEntry
  <2> QED BY <1>5, <2>1, <2>2, EntryAccounted
<1>10. ASSUME NEW n \in Top.todo, VisitFile(n) PROVE AccountsInv'
  <2>1. /\ n \in Regular /\ n \in Nodes /\ Append(rpath, n) = PathOf[n]
        /\ Exists(PathOf[n])
    BY <1>5, <1>6, <1>10, EntryPath, PathsExist DEF VisitFile
  <2>2. ASSUME NEW a, NEW f \in Playable, a = arg, In(n, f) PROVE Accounted(a, f)'
    <3>1. n = f
      BY <1>1, <2>1, <2>2, AboveFiles, DiscovererAssumption
    <3>2. CASE printed' = printed \cup {[arg |-> arg, uri |-> PathOf[n]]}
      <4>1. [arg |-> a, uri |-> PathOf[f]] \in printed'
        BY <2>2, <3>1, <3>2
      <4> QED BY <4>1 DEF Accounted
    <3>3. CASE Loses(n, "test")
      <4> DEFINE l == [arg |-> a, node |-> n, why |-> "test"]
      <4>1. l.why = "test" /\ l.node = f
        BY <3>1
      <4>2. Costs(l, f)
        <5> HIDE DEF l
        <5> QED BY <4>1, CostsAre
      <4> QED BY <2>2, <3>3, <4>2, LostAccounts
    <3> QED BY <1>10, <2>1, <3>1, <3>2, <3>3 DEF VisitFile
  <2>3. /\ stack' = Rest(n) /\ arg' = arg
        /\ printed \subseteq printed' /\ lost \subseteq lost'
    BY <1>10 DEF VisitFile, Loses
  <2> QED BY <1>5, <2>2, <2>3, EntryAccounted
<1>11. ASSUME NEW n \in Top.todo, EnterDir(n) PROVE AccountsInv'
  <2> DEFINE r == Rest(n)
             x == Frame(n, Strlen(Append(rpath, n)))
  <2>1. n \in Dirs /\ stack' = Append(r, x) /\ UNCHANGED <<arg, printed, lost>>
    BY <1>11 DEF EnterDir
  <2>2. /\ Framed(stack) /\ Len(stack) \in Nat /\ DOMAIN stack = 1 .. Len(stack)
        /\ Framed(r) /\ Len(r) = Len(stack)
        /\ \A k \in DOMAIN stack : k # Len(stack) => r[k].todo = stack[k].todo
        /\ r[Len(stack)].todo = stack[Len(stack)].todo \ {n}
    <3>1. Framed(stack) /\ Len(stack) \in Nat /\ DOMAIN stack = 1 .. Len(stack)
      BY DEF FramesInv, Framed
    <3>2. r = RestOf(stack, n)
      BY DEF Rest, RestOf
    <3> QED BY <1>5, <3>1, <3>2, RestFramed
  <2>3. x.todo = Children(n)
    BY DEF Frame
  <2> HIDE DEF r, x
  <2>4. /\ DOMAIN stack' = 1 .. Len(stack) + 1 /\ stack'[Len(stack) + 1] = x
        /\ \A k \in DOMAIN stack : k \in DOMAIN stack' /\ stack'[k] = r[k]
    <3>1. r \in Seq(Frames)
      BY <2>2 DEF Framed
    <3> QED BY <2>1, <2>2, <3>1
  <2>5. ASSUME NEW f \in Playable, Pending(f) PROVE Pending(f)'
    <3>1. PICK k \in DOMAIN stack : \E n1 \in stack[k].todo : In(n1, f)
      BY <2>5 DEF Pending
    <3> PICK m \in stack[k].todo : In(m, f)
      BY <3>1
    <3>2. CASE k = Len(stack) /\ m = n
      <4>1. f # n /\ f \in Nodes
        BY <1>1, <2>1, DiscovererAssumption
      <4>2. PICK c \in Children(n) : In(c, f)
        BY <3>2, <4>1, EntryAbove
      <4>3. Len(stack) + 1 \in DOMAIN stack'
        BY <2>2, <2>4
      <4>4. c \in stack'[Len(stack) + 1].todo
        BY <2>3, <2>4, <4>2
      <4> QED BY <4>2, <4>3, <4>4 DEF Pending
    <3>3. CASE ~ (k = Len(stack) /\ m = n)
      <4>1. m \in r[k].todo
        <5>1. CASE k = Len(stack)
          <6>1. r[k].todo = stack[k].todo \ {n} BY <2>2, <5>1
          <6>2. m # n BY <3>3, <5>1
          <6> QED BY <6>1, <6>2
        <5>2. CASE k # Len(stack)
          <6>1. r[k].todo = stack[k].todo BY <2>2, <3>1, <5>2
          <6> QED BY <6>1
        <5> QED BY <5>1, <5>2
      <4>2. k \in DOMAIN stack' /\ m \in stack'[k].todo
        BY <2>4, <3>1, <4>1
      <4> QED BY <4>2 DEF Pending
    <3> QED BY <3>2, <3>3
  <2>6. \A a, f : Accounted(a, f) => Accounted(a, f)'
    BY <2>1, AccountedKept
  <2> QED BY <1>5, <2>1, <2>5, <2>6, Zenon DEF AccountsInv, Due
<1>12. ASSUME NEW n \in Top.todo, EnterFails(n) PROVE AccountsInv'
  <2>1. Loses(n, "open") /\ Returns /\ printed' = printed /\ lost \subseteq lost'
    BY <1>12 DEF EnterFails, Loses
  <2>2. ASSUME NEW m \in Top.todo, NEW a, NEW f \in Playable, a = arg, In(m, f)
        PROVE  Accounted(a, f)'
    <3> DEFINE l == [arg |-> a, node |-> n, why |-> "open"]
    <3>1. l.why = "open" /\ l.node \in DOMAIN Parent /\ Below(Parent[l.node], f)
      BY <1>6, <1>8, <2>2
    <3>2. Costs(l, f)
      <4> HIDE DEF l
      <4> QED BY <3>1, CostsAre
    <3> QED BY <2>1, <2>2, <3>2, LostAccounts
  <2> QED BY <1>5, <2>1, <2>2, ReturnAccounted
<1>13. ASSUME ReadFails PROVE AccountsInv'
  <2>1. Loses(Top.dir, "read") /\ Returns /\ printed' = printed /\ lost \subseteq lost'
    BY <1>13 DEF ReadFails, Loses
  <2>2. ASSUME NEW m \in Top.todo, NEW a, NEW f \in Playable, a = arg, In(m, f)
        PROVE  Accounted(a, f)'
    <3> DEFINE l == [arg |-> a, node |-> Top.dir, why |-> "read"]
    <3>1. l.why = "read" /\ Below(l.node, f)
      BY <1>8, <2>2
    <3>2. Costs(l, f)
      <4> HIDE DEF l
      <4> QED BY <3>1, CostsAre
    <3> QED BY <2>1, <2>2, <3>2, LostAccounts
  <2> QED BY <1>5, <2>1, <2>2, ReturnAccounted
<1>14. ASSUME EndOfDir PROVE AccountsInv'
  <2>1. Top.todo = {} /\ Returns /\ UNCHANGED <<printed, lost>>
    BY <1>14 DEF EndOfDir
  <2> QED BY <1>5, <2>1, ReturnAccounted
<1> QED
  BY <1>2, <1>3, <1>4, <1>9, <1>10, <1>11, <1>12, <1>13, <1>14 DEF DNext

(* FailuresAreLocal (Discoverer): when climp-discoverer has ended, each     *)
(* file below its arguments that can be played and named was printed, but  *)
(* for those that a failure costs: opendir's for a subdirectory what is in *)
(* the directory around it, readdir's the directory, the test's the file.  *)
THEOREM LossesAreBounded == DSpec => []FailuresAreLocal
<1> DEFINE Inv == FramesInv /\ AccountsInv
<1>1. DInit => Inv
  <2>1. ASSUME DInit PROVE AccountsInv
    <3>1. arg = 1 /\ stack = <<>> /\ \A a \in DOMAIN Args : ~ (a < arg)
      BY <2>1, DiscovererAssumption DEF DInit
    <3> QED BY <3>1 DEF AccountsInv
  <2> QED BY <2>1, FramesInit
<1>2. Inv /\ [DNext]_dvars => Inv'
  BY FramesNext, AccountsNext
<1>3. ASSUME Inv PROVE FailuresAreLocal
  <2>1. SUFFICES ASSUME Ended, NEW a \in DOMAIN Args, NEW f \in Playable, Due(a, f),
                        \A l \in lost : l.arg = a => ~ Costs(l, f)
                 PROVE  [arg |-> a, uri |-> PathOf[f]] \in printed
    BY Zenon DEF FailuresAreLocal, Due
  <2>2. a < arg
    <3>1. arg > Len(Args) /\ arg \in Nat
      BY <1>3, <2>1 DEF Ended, FramesInv, DTypeOK
    <3>2. a \in 1 .. Len(Args) /\ Len(Args) \in Nat
      BY <2>1, DiscovererAssumption
    <3> QED BY <3>1, <3>2
  <2> QED BY <1>3, <2>1, <2>2 DEF AccountsInv, Accounted
<1> HIDE DEF Inv
<1> QED BY <1>1, <1>2, <1>3, PTL DEF DSpec

-----------------------------------------------------------------------------
(* Sequences and numbers. *)

LEMMA TextInduction ==
    ASSUME NEW C, NEW T, <<>> \in T, \A t \in Seq(C) : \A u \in C : t \in T => Append(t, u) \in T
    PROVE  Seq(C) \subseteq T
<1>1. SUFFICES ASSUME NEW s \in Seq(C) PROVE s \in T
  OBVIOUS
<1> DEFINE Part(n) == SubSeq(s, 1, n)
           G == {n \in 0 .. Len(s) : Part(n) \in T}
<1>2. Len(s) \in Nat
  OBVIOUS
<1>3. Part(0) = <<>> /\ Part(Len(s)) = s
  OBVIOUS
<1>4. \A n \in 1 .. Len(s) : /\ Part(n - 1) \in Seq(C) /\ s[n] \in C
                             /\ Part(n) = Append(Part(n - 1), s[n])
  OBVIOUS
<1> HIDE DEF Part
<1>5. 0 \in G
  BY <1>2, <1>3
<1>6. ASSUME NEW n \in 1 .. Len(s), n - 1 \in G PROVE n \in G
  <2>1. n \in 0 .. Len(s) BY <1>2
  <2>2. Part(n - 1) \in T BY <1>6
  <2>3. Part(n) \in T BY <1>4, <2>2
  <2> QED BY <2>1, <2>3
<1>7. Len(s) \in G
  <2> HIDE DEF G
  <2>1. \A n \in 0 .. Len(s) : n \in G
    BY <1>2, <1>5, <1>6, UpTo
  <2> QED BY <1>2, <2>1
<1> QED BY <1>3, <1>7

LEMMA MinIs ==
    ASSUME NEW n \in Nat, NEW S \in SUBSET (1 .. n), S # {}
    PROVE  Min(S) \in S /\ \A y \in S : Min(S) <= y
<1>1. S \subseteq Nat
  OBVIOUS
<1>2. PICK x \in S : \A y \in S : ~ (<<y, x>> \in OpToRel(<, Nat))
  <2>1. IsWellFoundedOn(OpToRel(<, Nat), Nat)
    BY NatLessThanWellFounded
  <2> QED BY <1>1, <2>1, WFMin
<1>3. \A y \in S : x <= y
  <2>1. ASSUME NEW y \in S, y < x PROVE FALSE
    <3>1. <<y, x>> \in OpToRel(<, Nat)
      BY <1>1, <2>1 DEF OpToRel
    <3> QED BY <1>2, <3>1
  <2> QED BY <1>1, <2>1
<1> QED BY <1>3 DEF Min

LEMMA MaxIs ==
    ASSUME NEW n \in Nat, NEW S \in SUBSET (1 .. n), S # {}
    PROVE  Max(S) \in S /\ \A y \in S : Max(S) >= y
<1> DEFINE R == {k \in 1 .. n : n + 1 - k \in S}
<1>1. PICK y \in S : TRUE
  OBVIOUS
<1>2. n + 1 - y \in R
  OBVIOUS
<1>3. Min(R) \in R /\ \A z \in R : Min(R) <= z
  <2>1. R # {} /\ R \in SUBSET (1 .. n) BY <1>2
  <2> HIDE DEF R
  <2> QED BY <2>1, MinIs
<1> DEFINE x == n + 1 - Min(R)
<1>4. x \in S
  BY <1>3
<1>5. ASSUME NEW z \in S PROVE x >= z
  <2>1. n + 1 - z \in R
    OBVIOUS
  <2>2. Min(R) <= n + 1 - z /\ Min(R) \in Nat
    BY <1>3, <2>1
  <2> QED BY <2>2
<1> HIDE DEF x
<1> QED BY <1>4, <1>5 DEF Max

-----------------------------------------------------------------------------
(* The lines of a text. *)

LEMMA ExtendedIs ==
    ASSUME NEW C, NEW lines \in Seq(Seq(C)), lines # <<>>, NEW u \in C
    PROVE  /\ Extended(lines, u) \in Seq(Seq(C)) /\ Extended(lines, u) # <<>>
           /\ u = "\n" => Extended(lines, u) = Append(lines, <<>>)
           /\ u # "\n" =>
                 /\ Len(Extended(lines, u)) = Len(lines)
                 /\ Extended(lines, u)[Len(lines)] = Append(lines[Len(lines)], u)
                 /\ \A k \in 1 .. Len(lines) - 1 : Extended(lines, u)[k] = lines[k]
<1> DEFINE N == Len(lines)
           l == Append(lines[N], u)
<1>1. N \in Nat /\ N > 0 /\ N \in 1 .. N
  BY EmptySeq
<1>2. lines[N] \in Seq(C) /\ <<>> \in Seq(C)
  BY <1>1
<1>3. l \in Seq(C)
  BY <1>2
<1>4. CASE u = "\n"
  <2>1. Extended(lines, u) = Append(lines, <<>>)
    BY <1>4 DEF Extended
  <2>2. Append(lines, <<>>) \in Seq(Seq(C)) /\ Append(lines, <<>>) # <<>>
    BY <1>2
  <2> QED BY <1>4, <2>1, <2>2
<1>5. CASE u # "\n"
  <2>1. Extended(lines, u) = [lines EXCEPT ![N] = l]
    BY <1>5 DEF Extended
  <2> HIDE DEF l
  <2>2. /\ [lines EXCEPT ![N] = l] \in Seq(Seq(C)) /\ Len([lines EXCEPT ![N] = l]) = N
        /\ [lines EXCEPT ![N] = l][N] = l
        /\ \A k \in 1 .. N - 1 : [lines EXCEPT ![N] = l][k] = lines[k]
    BY <1>1, <1>3
  <2>3. Extended(lines, u) # <<>>
    <3>1. Len(Extended(lines, u)) = N BY <2>1, <2>2
    <3>2. Len(Extended(lines, u)) # 0
      <4> HIDE DEF N
      <4> QED BY <1>1, <3>1
    <3> QED BY <3>2
  <2> QED BY <1>5, <2>1, <2>2, <2>3 DEF l
<1> QED BY <1>4, <1>5

(* The recursion of Lines defines it. *)
Reads(h, text) ==
    /\ h[0] = << <<>> >>
    /\ \A n \in 1 .. Len(text) : h[n] = Extended(h[n - 1], text[n])

Kept(C) == Seq(Seq(C)) \ {<<>>}

LEMMA LinesRun ==
    ASSUME NEW C, NEW text \in Seq(C)
    PROVE  \E h \in [0 .. Len(text) -> Kept(C)] :
              Reads(h, text) /\ Lines(text) = h[Len(text)]
<1> DEFINE N == Len(text)
           X == Kept(C)
           Read[n \in 0 .. Len(text)] ==
               IF n = 0 THEN << <<>> >> ELSE Extended(Read[n - 1], text[n])
           Is(f) == f = [n \in 0 .. Len(text) |->
                           IF n = 0 THEN << <<>> >> ELSE Extended(f[n - 1], text[n])]
           G == [x \in X |-> [n \in 1 .. N |-> Extended(x, text[n])]]
<1>1. N \in Nat
  OBVIOUS
<1>2. \A n \in 1 .. N : text[n] \in C
  OBVIOUS
<1>3. << <<>> >> \in X
  BY DEF Kept
<1>4. \A x \in X : \A n \in 1 .. N : Extended(x, text[n]) \in X
  BY <1>2, ExtendedIs DEF Kept
<1>5. /\ G \in [X -> [1 .. N -> X]]
      /\ \A x \in X : \A n \in 1 .. N : G[x][n] = Extended(x, text[n])
  <2> HIDE DEF X, N
  <2> QED BY <1>4
<1>6. PICK h \in [0 .. N -> X] : Steps(h, << <<>> >>, G, N)
  <2> HIDE DEF G, N, X
  <2> QED BY <1>1, <1>3, <1>5, StepsExist
<1>7. \A n \in 1 .. N : n - 1 \in 0 .. N /\ n \in 0 .. N /\ n # 0
  BY <1>1
<1>8. Reads(h, text)
  <2> HIDE DEF G, X
  <2> QED BY <1>5, <1>6, <1>7 DEF Steps, Reads
<1>9. \A n \in 0 .. N : n = 0 \/ n \in 1 .. N
  BY <1>1
<1>10. Is(h)
  <2>1. \A n \in 0 .. N : h[n] = IF n = 0 THEN << <<>> >> ELSE Extended(h[n - 1], text[n])
    BY <1>8, <1>9 DEF Reads
  <2>2. h = [n \in 0 .. N |-> h[n]]
    <3> HIDE DEF N, X
    <3> QED BY <1>6
  <2> QED BY <2>1, <2>2, Zenon
<1>11. Is(Read)
  <2>1. \E f : Is(f)
    <3> HIDE DEF Is
    <3> QED BY <1>10
  <2> QED BY <2>1, Zenon
<1>12. Lines(text) = Read[Len(text)]
  BY DEF Lines
<1> HIDE DEF Read
<1>13. \A n \in 0 .. N : Read[n] = IF n = 0 THEN << <<>> >> ELSE Extended(Read[n - 1], text[n])
  BY <1>11, Zenon
<1> DEFINE T == {n \in 0 .. N : Read[n] = h[n]}
<1>14. 0 \in T
  BY <1>1, <1>8, <1>13 DEF Reads
<1>15. ASSUME NEW n \in 1 .. N, n - 1 \in T PROVE n \in T
  <2>1. Read[n] = Extended(Read[n - 1], text[n])
    BY <1>7, <1>13, Zenon
  <2> QED BY <1>7, <1>8, <1>15, <2>1 DEF Reads
<1>16. N \in T
  <2> HIDE DEF T, N
  <2>1. \A n \in 0 .. N : n \in T
    BY <1>1, <1>14, <1>15, UpTo
  <2> QED BY <1>1, <2>1
<1> QED BY <1>6, <1>8, <1>12, <1>16

LEMMA LinesAre ==
    ASSUME NEW C, NEW text \in Seq(C)
    PROVE  /\ Lines(text) \in Seq(Seq(C)) /\ Lines(text) # <<>>
           /\ text = <<>> => Lines(text) = << <<>> >>
           /\ \A u \in C : Lines(Append(text, u)) = Extended(Lines(text), u)
<1>1. PICK h \in [0 .. Len(text) -> Kept(C)] : Reads(h, text) /\ Lines(text) = h[Len(text)]
  BY LinesRun
<1>2. Len(text) \in Nat /\ Len(text) \in 0 .. Len(text)
  OBVIOUS
<1>3. Lines(text) \in Seq(Seq(C)) /\ Lines(text) # <<>>
  BY <1>1, <1>2 DEF Kept
<1>4. text = <<>> => Lines(text) = << <<>> >>
  <2>1. text = <<>> => Len(text) = 0
    OBVIOUS
  <2> QED BY <1>1, <2>1 DEF Reads
<1>5. ASSUME NEW u \in C PROVE Lines(Append(text, u)) = Extended(Lines(text), u)
  <2> DEFINE q == Append(text, u)
  <2>1. /\ q \in Seq(C) /\ Len(q) = Len(text) + 1 /\ q[Len(text) + 1] = u
        /\ \A k \in 1 .. Len(text) : q[k] = text[k]
    OBVIOUS
  <2> HIDE DEF q
  <2>2. PICK g \in [0 .. Len(q) -> Kept(C)] : Reads(g, q) /\ Lines(q) = g[Len(q)]
    BY <2>1, LinesRun
  <2> DEFINE T == {k \in 0 .. Len(text) : g[k] = h[k]}
  <2>3. 0 \in T
    <3>1. g[0] = << <<>> >> BY <2>2 DEF Reads
    <3>2. h[0] = << <<>> >> BY <1>1 DEF Reads
    <3> QED BY <1>2, <3>1, <3>2
  <2>4. ASSUME NEW k \in 1 .. Len(text), k - 1 \in T PROVE k \in T
    <3>1. k \in 1 .. Len(q) /\ k \in 0 .. Len(text) BY <1>2, <2>1
    <3>2. g[k] = Extended(g[k - 1], q[k]) BY <2>2, <3>1 DEF Reads
    <3>3. h[k] = Extended(h[k - 1], text[k]) BY <1>1 DEF Reads
    <3> QED BY <2>1, <2>4, <3>1, <3>2, <3>3
  <2>5. Len(text) \in T
    <3> HIDE DEF T
    <3>1. \A k \in 0 .. Len(text) : k \in T
      BY <1>2, <2>3, <2>4, UpTo
    <3> QED BY <1>2, <3>1
  <2>6. Len(q) \in 1 .. Len(q) /\ Len(q) - 1 = Len(text)
    BY <1>2, <2>1
  <2>7. g[Len(q)] = Extended(g[Len(text)], u)
    BY <2>1, <2>2, <2>6 DEF Reads
  <2> QED BY <1>1, <2>2, <2>5, <2>7 DEF q
<1> QED BY <1>3, <1>4, <1>5

(* Each line is a part of the text, between two line breaks. *)
IsLine(text, l, off, ended) ==
    /\ off \in Nat /\ off + Len(l) <= Len(text)
    /\ \A i \in 1 .. Len(l) : text[off + i] = l[i] /\ l[i] # "\n"
    /\ ended => off + Len(l) + 1 <= Len(text) /\ text[off + Len(l) + 1] = "\n"
    /\ ~ ended => off + Len(l) = Len(text)

LEMMA IsLineKept ==
    ASSUME NEW C, NEW text \in Seq(C), NEW u \in C, NEW l \in Seq(C), NEW off
    PROVE  /\ IsLine(text, l, off, TRUE) => IsLine(Append(text, u), l, off, TRUE)
           /\ IsLine(text, l, off, FALSE) /\ u = "\n" => IsLine(Append(text, u), l, off, TRUE)
           /\ IsLine(text, l, off, FALSE) /\ u # "\n" =>
                 IsLine(Append(text, u), Append(l, u), off, FALSE)
           /\ u = "\n" => IsLine(Append(text, u), <<>>, Len(text) + 1, FALSE)
<1> DEFINE q == Append(text, u)
           m == Append(l, u)
<1>1. /\ Len(q) = Len(text) + 1 /\ q[Len(text) + 1] = u /\ Len(text) \in Nat
      /\ \A k \in 1 .. Len(text) : q[k] = text[k]
  OBVIOUS
<1>2. /\ Len(m) = Len(l) + 1 /\ m[Len(l) + 1] = u /\ Len(l) \in Nat
      /\ \A k \in 1 .. Len(l) : m[k] = l[k]
  OBVIOUS
<1> HIDE DEF q, m
<1>3. PICK t \in Nat : t = Len(text)
  BY <1>1
<1>4. PICK s \in Nat : s = Len(l)
  BY <1>2
<1>5. ASSUME IsLine(text, l, off, TRUE) PROVE IsLine(q, l, off, TRUE)
  <2>1. off \in Nat /\ off + s + 1 <= t /\ text[off + s + 1] = "\n"
    BY <1>3, <1>4, <1>5 DEF IsLine
  <2>2. off + s + 1 \in 1 .. t /\ \A i \in 1 .. s : off + i \in 1 .. t
    BY <2>1
  <2>3. \A i \in 1 .. s : text[off + i] = l[i] /\ l[i] # "\n"
    BY <1>4, <1>5 DEF IsLine
  <2>4. q[off + s + 1] = "\n" /\ \A i \in 1 .. s : q[off + i] = l[i] /\ l[i] # "\n"
    BY <1>1, <1>3, <2>1, <2>2, <2>3
  <2>5. off + s <= t + 1 /\ off + s + 1 <= t + 1
    BY <2>1
  <2> QED BY <1>1, <1>3, <1>4, <2>1, <2>4, <2>5 DEF IsLine
<1>6. ASSUME IsLine(text, l, off, FALSE)
      PROVE  /\ off \in Nat /\ off + s = t
             /\ \A i \in 1 .. s : off + i \in 1 .. t
             /\ \A i \in 1 .. s : q[off + i] = l[i] /\ l[i] # "\n"
  <2>1. off \in Nat /\ off + s = t /\ \A i \in 1 .. s : text[off + i] = l[i] /\ l[i] # "\n"
    BY <1>3, <1>4, <1>6 DEF IsLine
  <2>2. \A i \in 1 .. s : off + i \in 1 .. t
    BY <2>1
  <2> QED BY <1>1, <1>3, <2>1, <2>2
<1>7. ASSUME IsLine(text, l, off, FALSE), u = "\n" PROVE IsLine(q, l, off, TRUE)
  <2>1. q[off + s + 1] = "\n" /\ off + s <= t + 1 /\ off + s + 1 <= t + 1
    BY <1>1, <1>3, <1>6, <1>7
  <2> QED BY <1>1, <1>3, <1>4, <1>6, <1>7, <2>1 DEF IsLine
<1>8. ASSUME IsLine(text, l, off, FALSE), u # "\n" PROVE IsLine(q, m, off, FALSE)
  <2>1. Len(m) = s + 1 /\ Len(q) = t + 1 /\ off + (s + 1) = t + 1
    BY <1>1, <1>2, <1>3, <1>4, <1>6, <1>8
  <2>2. ASSUME NEW i \in 1 .. s + 1 PROVE q[off + i] = m[i] /\ m[i] # "\n"
    <3>1. CASE i = s + 1
      <4>1. off \in Nat /\ off + s = t BY <1>6, <1>8
      <4>2. off + i = t + 1 BY <3>1, <4>1
      <4> QED BY <1>1, <1>2, <1>3, <1>4, <1>8, <3>1, <4>2
    <3>2. CASE i # s + 1
      <4>1. i \in 1 .. s BY <3>2
      <4> QED BY <1>2, <1>4, <1>6, <1>8, <4>1
    <3> QED BY <3>1, <3>2
  <2> QED BY <1>6, <1>8, <2>1, <2>2 DEF IsLine
<1>9. ASSUME u = "\n" PROVE IsLine(q, <<>>, Len(text) + 1, FALSE)
  BY <1>1 DEF IsLine
<1> QED BY <1>5, <1>7, <1>8, <1>9 DEF q, m

LEMMA LinesInText ==
    ASSUME NEW C
    PROVE  \A text \in Seq(C) : \A j \in 1 .. Len(Lines(text)) :
              \E off : IsLine(text, Lines(text)[j], off, j < Len(Lines(text)))
<1> DEFINE T == {text \in Seq(C) : \A j \in 1 .. Len(Lines(text)) :
                    \E off : IsLine(text, Lines(text)[j], off, j < Len(Lines(text)))}
<1>1. <<>> \in T
  <2>1. <<>> \in Seq(C)
    OBVIOUS
  <2>2. Lines(<<>>) = << <<>> >>
    BY <2>1, LinesAre
  <2>3. IsLine(<<>>, <<>>, 0, FALSE)
    BY DEF IsLine
  <2> DEFINE L == Lines(<<>>)
  <2>4. Len(L) = 1 /\ L[1] = <<>>
    BY <2>2
  <2> HIDE DEF L
  <2>5. ASSUME NEW j \in 1 .. Len(L) PROVE \E off : IsLine(<<>>, L[j], off, j < Len(L))
    <3>1. j = 1 /\ (j < Len(L)) = FALSE BY <2>4
    <3> QED BY <2>3, <2>4, <3>1
  <2> QED BY <2>1, <2>5 DEF L
<1>2. ASSUME NEW text \in Seq(C), NEW u \in C, text \in T PROVE Append(text, u) \in T
  <2> DEFINE L == Lines(text)
             M == Lines(Append(text, u))
             N == Len(L)
  <2>1. L \in Seq(Seq(C)) /\ L # <<>> /\ M = Extended(L, u)
    BY LinesAre
  <2>2. Append(text, u) \in Seq(C)
    OBVIOUS
  <2> HIDE DEF M
  <2>3. N \in Nat /\ N > 0 /\ \A j \in 1 .. N : L[j] \in Seq(C)
    BY <2>1, EmptySeq
  <2>4. \A j \in 1 .. N : \E off : IsLine(text, L[j], off, j < N)
    BY <1>2
  <2> HIDE DEF L, N
  <2>5. \A j \in 1 .. N : (j < N) = TRUE \/ (j = N /\ (j < N) = FALSE)
    BY <2>3
  <2>6. ASSUME NEW j \in 1 .. N, j < N PROVE \E off : IsLine(Append(text, u), L[j], off, TRUE)
    <3>1. PICK off : IsLine(text, L[j], off, TRUE) BY <2>4, <2>5, <2>6
    <3>2. IsLine(Append(text, u), L[j], off, TRUE) BY <2>3, <3>1, IsLineKept
    <3> QED BY <3>2
  <2>7. PICK last : IsLine(text, L[N], last, FALSE)
    <3>1. N \in 1 .. N /\ (N < N) = FALSE BY <2>3
    <3>2. \E off : IsLine(text, L[N], off, N < N) BY <2>4, <3>1
    <3> QED BY <3>1, <3>2
  <2>8. N \in 1 .. N /\ L[N] \in Seq(C)
    BY <2>3
  <2>9. CASE u = "\n"
    <3>1. /\ Len(M) = N + 1 /\ M[N + 1] = <<>> /\ \A j \in 1 .. N : M[j] = L[j]
      <4>1. M = Append(L, <<>>) /\ L \in Seq(Seq(C)) /\ Len(L) = N
        BY <2>1, <2>9, ExtendedIs DEF N
      <4> QED BY <4>1
    <3>2. IsLine(Append(text, u), L[N], last, TRUE)
      BY <2>7, <2>8, <2>9, IsLineKept
    <3>3. IsLine(Append(text, u), <<>>, Len(text) + 1, FALSE)
      BY <2>8, <2>9, IsLineKept
    <3>4. ASSUME NEW j \in 1 .. N + 1 PROVE \E off : IsLine(Append(text, u), M[j], off, j < N + 1)
      <4>1. CASE j = N + 1
        <5>1. (j < N + 1) = FALSE BY <2>3, <4>1
        <5> QED BY <3>1, <3>3, <4>1, <5>1
      <4>2. CASE j # N + 1
        <5>1. (j < N + 1) = TRUE /\ j \in 1 .. N /\ (j = N \/ j < N) BY <2>3, <4>2
        <5>2. \E off : IsLine(Append(text, u), L[j], off, TRUE) BY <2>6, <3>2, <5>1
        <5> QED BY <3>1, <5>1, <5>2
      <4> QED BY <4>1, <4>2
    <3> QED BY <2>2, <3>1, <3>4 DEF M
  <2>10. CASE u # "\n"
    <3>1. /\ Len(M) = N /\ M[N] = Append(L[N], u) /\ \A j \in 1 .. N - 1 : M[j] = L[j]
      BY <2>1, <2>10, ExtendedIs DEF N
    <3>2. IsLine(Append(text, u), Append(L[N], u), last, FALSE)
      BY <2>7, <2>8, <2>10, IsLineKept
    <3>3. ASSUME NEW j \in 1 .. N PROVE \E off : IsLine(Append(text, u), M[j], off, j < N)
      <4>1. CASE j = N
        <5>1. (j < N) = FALSE BY <2>3, <4>1
        <5>2. IsLine(Append(text, u), M[j], last, FALSE) BY <3>1, <3>2, <4>1
        <5> QED BY <5>1, <5>2
      <4>2. CASE j # N
        <5>1. j \in 1 .. N - 1 /\ j < N BY <2>3, <4>2
        <5>2. \E off : IsLine(Append(text, u), L[j], off, TRUE) BY <2>6, <5>1
        <5> QED BY <2>5, <3>1, <4>2, <5>1, <5>2
      <4> QED BY <4>1, <4>2
    <3> QED BY <2>2, <3>1, <3>3 DEF M
  <2> QED BY <2>9, <2>10
<1>3. Seq(C) \subseteq T
  <2> HIDE DEF T
  <2> QED BY <1>1, <1>2, TextInduction
<1> QED BY <1>3

LEMMA AppendTo ==
    ASSUME NEW C
    PROVE  \A s, y \in Seq(C) : \A u \in C : s \o Append(y, u) = Append(s \o y, u)
<1>1. ASSUME NEW s \in Seq(C), NEW y \in Seq(C), NEW u \in C
      PROVE  s \o Append(y, u) = Append(s \o y, u)
  OBVIOUS
<1> QED BY <1>1

(* What is written without a line break goes to the last line. *)
LEMMA LinesGrow ==
    ASSUME NEW C, NEW text \in Seq(C)
    PROVE  \A y \in Seq(C) : (\A k \in 1 .. Len(y) : y[k] # "\n") =>
              /\ Len(Lines(text \o y)) = Len(Lines(text))
              /\ \A j \in 1 .. Len(Lines(text)) - 1 : Lines(text \o y)[j] = Lines(text)[j]
              /\ Lines(text \o y)[Len(Lines(text))] = Lines(text)[Len(Lines(text))] \o y
<1> DEFINE L == Lines(text)
           N == Len(L)
           Grown(y) ==
               /\ Len(Lines(text \o y)) = N
               /\ \A j \in 1 .. N - 1 : Lines(text \o y)[j] = L[j]
               /\ Lines(text \o y)[N] = L[N] \o y
           T == {y \in Seq(C) : (\A k \in 1 .. Len(y) : y[k] # "\n") => Grown(y)}
<1>1. L \in Seq(Seq(C)) /\ N \in Nat /\ N > 0 /\ L[N] \in Seq(C)
  <2>1. L \in Seq(Seq(C)) /\ L # <<>>
    BY LinesAre
  <2> HIDE DEF L
  <2> QED BY <2>1, EmptySeq
<1>2. <<>> \in T
  <2>1. text \o <<>> = text
    OBVIOUS
  <2>2. L[N] \o <<>> = L[N]
    <3> HIDE DEF L, N
    <3> QED BY <1>1
  <2>3. Grown(<<>>)
    BY <2>1, <2>2
  <2> HIDE DEF Grown
  <2> QED BY <2>3
<1>3. ASSUME NEW y \in Seq(C), NEW u \in C, y \in T PROVE Append(y, u) \in T
  <2>1. /\ Append(y, u) \in Seq(C) /\ Len(Append(y, u)) = Len(y) + 1 /\ Len(y) \in Nat
        /\ Append(y, u)[Len(y) + 1] = u
        /\ \A k \in 1 .. Len(y) : Append(y, u)[k] = y[k]
    OBVIOUS
  <2>2. SUFFICES ASSUME \A k \in 1 .. Len(Append(y, u)) : Append(y, u)[k] # "\n"
                 PROVE  Grown(Append(y, u))
    BY <2>1
  <2>3. u # "\n" /\ \A k \in 1 .. Len(y) : y[k] # "\n"
    <3>1. Len(y) + 1 \in 1 .. Len(Append(y, u))
      BY <2>1
    <3>2. \A k \in 1 .. Len(y) : k \in 1 .. Len(Append(y, u))
      BY <2>1
    <3> QED BY <2>1, <2>2, <3>1, <3>2
  <2>4. Grown(y)
    BY <1>3, <2>3
  <2> DEFINE K == Lines(text \o y)
  <2>5. text \o y \in Seq(C) /\ text \o Append(y, u) = Append(text \o y, u)
    OBVIOUS
  <2>6. K \in Seq(Seq(C)) /\ K # <<>> /\ Lines(text \o Append(y, u)) = Extended(K, u)
    BY <2>5, LinesAre
  <2>7. Len(K) = N /\ K[N] = L[N] \o y /\ \A j \in 1 .. N - 1 : K[j] = L[j]
    BY <2>4
  <2> HIDE DEF K, L, N
  <2>8. /\ Len(Extended(K, u)) = N /\ Extended(K, u)[N] = Append(K[N], u)
        /\ \A j \in 1 .. N - 1 : Extended(K, u)[j] = K[j]
    BY <2>3, <2>6, <2>7, ExtendedIs
  <2>9. Append(L[N] \o y, u) = L[N] \o Append(y, u)
    <3>1. \A s \in Seq(C) : s \o Append(y, u) = Append(s \o y, u)
      BY AppendTo
    <3> QED BY <1>1, <3>1, Zenon
  <2> QED BY <2>6, <2>7, <2>8, <2>9
<1>4. Seq(C) \subseteq T
  <2> HIDE DEF T
  <2> QED BY <1>2, <1>3, TextInduction
<1> QED BY <1>4

-----------------------------------------------------------------------------
(* What is left of a line. *)

LEMMA TrimIs ==
    ASSUME NEW C, NEW l \in Seq(C)
    PROVE  /\ Trim(l) \in Seq(C)
           /\ \A k \in 1 .. Len(Trim(l)) : \E i \in 1 .. Len(l) : Trim(l)[k] = l[i]
           /\ Trim(l) # <<>> => Trim(l)[1] # " " /\ Trim(l)[Len(Trim(l))] # " "
           /\ l # <<>> /\ l[1] # " " /\ l[Len(l)] # " " => Trim(l) = l
<1> DEFINE text == {k \in DOMAIN l : l[k] # " "}
           i == Min(text)
           j == Max(text)
<1>1. Len(l) \in Nat /\ DOMAIN l = 1 .. Len(l)
  OBVIOUS
<1>2. Trim(l) = IF text = {} THEN <<>> ELSE SubSeq(l, i, j)
  BY DEF Trim
<1>3. CASE text = {}
  <2>1. Trim(l) = <<>>
    BY <1>2, <1>3
  <2>2. l # <<>> => l[1] = " "
    <3>1. l # <<>> => 1 \in DOMAIN l BY <1>1, EmptySeq
    <3> QED BY <1>3, <3>1
  <2>3. <<>> \in Seq(C) /\ Len(<<>>) = 0
    OBVIOUS
  <2>4. \A k \in 1 .. Len(Trim(l)) : FALSE
    BY <2>1, <2>3
  <2> QED BY <2>1, <2>2, <2>3, <2>4
<1>4. CASE text # {}
  <2>1. /\ i \in text /\ j \in text /\ i \in 1 .. Len(l) /\ j \in 1 .. Len(l) /\ i <= j
        /\ \A k \in text : i <= k /\ k <= j
    <3>1. text \in SUBSET (1 .. Len(l))
      BY <1>1
    <3>2. i \in text /\ \A y \in text : i <= y
      <4> HIDE DEF text
      <4> QED BY <1>1, <1>4, <3>1, MinIs
    <3>3. j \in text /\ \A y \in text : j >= y
      <4> HIDE DEF text
      <4> QED BY <1>1, <1>4, <3>1, MaxIs
    <3> QED BY <1>1, <3>1, <3>2, <3>3
  <2>2. Trim(l) = SubSeq(l, i, j) /\ l[i] # " " /\ l[j] # " "
    BY <1>2, <1>4, <2>1
  <2>3. l[1] # " " /\ l[Len(l)] # " " => i = 1 /\ j = Len(l)
    <3>1. 1 \in DOMAIN l /\ Len(l) \in DOMAIN l /\ Len(l) >= 1
      <4> HIDE DEF i, j, text
      <4>1. Len(l) # 0 /\ i \in 1 .. Len(l) BY <1>1, <2>1
      <4>2. PICK m \in Nat : m = Len(l) BY <1>1
      <4>3. m >= 1 BY <4>1, <4>2
      <4> QED BY <1>1, <4>2, <4>3
    <3>2. l[1] # " " => i <= 1
      BY <2>1, <3>1
    <3>3. l[Len(l)] # " " => Len(l) <= j
      BY <2>1, <3>1
    <3> HIDE DEF i, j, text
    <3>4. i <= 1 => i = 1
      BY <2>1
    <3>5. Len(l) <= j => j = Len(l)
      <4>1. PICK m \in Nat : m = Len(l) BY <1>1
      <4>2. PICK w \in Nat : w = j BY <2>1
      <4>3. w <= m BY <2>1, <4>1, <4>2
      <4> QED BY <4>1, <4>2, <4>3
    <3> QED BY <3>2, <3>3, <3>4, <3>5
  <2> DEFINE t == SubSeq(l, i, j)
  <2> HIDE DEF i, j, text
  <2>4. /\ t \in Seq(C) /\ Len(t) = j - i + 1
        /\ \A k \in 1 .. j - i + 1 : t[k] = l[i + k - 1]
    BY <2>1
  <2>5. \A k \in 1 .. j - i + 1 : i + k - 1 \in 1 .. Len(l)
    BY <1>1, <2>1
  <2>6. 1 \in 1 .. j - i + 1 /\ j - i + 1 \in 1 .. j - i + 1 /\ i + 1 - 1 = i
        /\ i + (j - i + 1) - 1 = j
    BY <1>1, <2>1
  <2>7. t[1] = l[i] /\ t[Len(t)] = l[j]
    BY <2>4, <2>6
  <2>8. i = 1 /\ j = Len(l) => t = l
    BY <1>1
  <2> QED BY <2>2, <2>3, <2>4, <2>5, <2>7, <2>8
<1> QED BY <1>3, <1>4

(* The recursion of Tracks defines it. *)
Takes(h, lines) ==
    /\ h[0] = <<>>
    /\ \A n \in 1 .. Len(lines) :
          h[n] = IF Counts(Trim(lines[n])) THEN Append(h[n - 1], Trim(lines[n])) ELSE h[n - 1]

LEMMA TracksRun ==
    ASSUME NEW C, NEW lines \in Seq(Seq(C))
    PROVE  \E h \in [0 .. Len(lines) -> Seq(Seq(C))] :
              Takes(h, lines) /\ Tracks(lines) = h[Len(lines)]
<1> DEFINE N == Len(lines)
           X == Seq(Seq(C))
           Step(x, n) ==
               IF Counts(Trim(lines[n])) THEN Append(x, Trim(lines[n])) ELSE x
           Taken[n \in 0 .. Len(lines)] ==
               IF n = 0 THEN <<>>
               ELSE IF Counts(Trim(lines[n])) THEN Append(Taken[n - 1], Trim(lines[n]))
               ELSE Taken[n - 1]
           Is(f) == f = [n \in 0 .. Len(lines) |->
               IF n = 0 THEN <<>>
               ELSE IF Counts(Trim(lines[n])) THEN Append(f[n - 1], Trim(lines[n]))
               ELSE f[n - 1]]
           G == [x \in X |-> [n \in 1 .. N |-> Step(x, n)]]
<1>1. N \in Nat
  OBVIOUS
<1>2. \A n \in 1 .. N : Trim(lines[n]) \in Seq(C)
  <2>1. \A n \in 1 .. N : lines[n] \in Seq(C)
    OBVIOUS
  <2> QED BY <2>1, TrimIs
<1>3. <<>> \in X
  OBVIOUS
<1>4. \A x \in X : \A n \in 1 .. N : Step(x, n) \in X
  BY <1>2
<1> HIDE DEF Step
<1>5. /\ G \in [X -> [1 .. N -> X]]
      /\ \A x \in X : \A n \in 1 .. N : G[x][n] = Step(x, n)
  <2> HIDE DEF X, N
  <2> QED BY <1>4
<1>6. PICK h \in [0 .. N -> X] : Steps(h, <<>>, G, N)
  <2> HIDE DEF G, N, X
  <2> QED BY <1>1, <1>3, <1>5, StepsExist
<1>7. \A n \in 1 .. N : n - 1 \in 0 .. N /\ n \in 0 .. N /\ n # 0
  BY <1>1
<1>8. h[0] = <<>> /\ \A n \in 1 .. N : h[n] = Step(h[n - 1], n)
  <2> HIDE DEF G, X
  <2> QED BY <1>5, <1>6, <1>7 DEF Steps
<1>9. Takes(h, lines)
  BY <1>8, Zenon DEF Takes, Step
<1>10. \A n \in 0 .. N : n = 0 \/ n \in 1 .. N
  BY <1>1
<1>11. Is(h)
  <2>1. \A n \in 0 .. N : h[n] = IF n = 0 THEN <<>> ELSE Step(h[n - 1], n)
    BY <1>7, <1>8, <1>10
  <2>2. h = [n \in 0 .. N |-> h[n]]
    <3> HIDE DEF N, X
    <3> QED BY <1>6
  <2>3. h = [n \in 0 .. N |-> IF n = 0 THEN <<>> ELSE Step(h[n - 1], n)]
    BY <2>1, <2>2, Zenon
  <2> QED BY <2>3 DEF Step
<1>12. Is(Taken)
  <2>1. \E f : Is(f)
    <3> HIDE DEF Is
    <3> QED BY <1>11
  <2> QED BY <2>1, Zenon
<1>13. Tracks(lines) = Taken[Len(lines)]
  BY DEF Tracks
<1> HIDE DEF Taken
<1>14. \A n \in 0 .. N : Taken[n] = IF n = 0 THEN <<>> ELSE Step(Taken[n - 1], n)
  BY <1>12, Zenon DEF Step
<1> DEFINE T == {n \in 0 .. N : Taken[n] = h[n]}
<1>15. 0 \in T
  BY <1>1, <1>8, <1>14
<1>16. ASSUME NEW n \in 1 .. N, n - 1 \in T PROVE n \in T
  <2>1. Taken[n] = Step(Taken[n - 1], n)
    BY <1>7, <1>14, Zenon
  <2> QED BY <1>7, <1>8, <1>16, <2>1
<1>17. N \in T
  <2> HIDE DEF T, N
  <2>1. \A n \in 0 .. N : n \in T
    BY <1>1, <1>15, <1>16, UpTo
  <2> QED BY <1>1, <2>1
<1> QED BY <1>6, <1>9, <1>13, <1>17

LEMMA TracksAre ==
    ASSUME NEW C, NEW lines \in Seq(Seq(C))
    PROVE  /\ Tracks(lines) \in Seq(Seq(C))
           /\ lines = <<>> => Tracks(lines) = <<>>
           /\ \A l \in Seq(C) : Tracks(Append(lines, l)) =
                 IF Counts(Trim(l)) THEN Append(Tracks(lines), Trim(l)) ELSE Tracks(lines)
<1>1. PICK h \in [0 .. Len(lines) -> Seq(Seq(C))] :
          Takes(h, lines) /\ Tracks(lines) = h[Len(lines)]
  BY TracksRun
<1>2. Len(lines) \in Nat /\ Len(lines) \in 0 .. Len(lines)
  OBVIOUS
<1>3. Tracks(lines) \in Seq(Seq(C))
  <2> DEFINE X == Seq(Seq(C))
  <2> HIDE DEF X
  <2>1. h \in [0 .. Len(lines) -> X] BY DEF X
  <2>2. h[Len(lines)] \in X BY <1>2, <2>1
  <2> QED BY <1>1, <2>2 DEF X
<1>4. lines = <<>> => Tracks(lines) = <<>>
  <2>1. lines = <<>> => Len(lines) = 0
    OBVIOUS
  <2> QED BY <1>1, <2>1 DEF Takes
<1>5. ASSUME NEW l \in Seq(C)
      PROVE  Tracks(Append(lines, l)) =
                IF Counts(Trim(l)) THEN Append(Tracks(lines), Trim(l)) ELSE Tracks(lines)
  <2> DEFINE q == Append(lines, l)
             Step(x, m) == IF Counts(Trim(m)) THEN Append(x, Trim(m)) ELSE x
  <2>1. /\ q \in Seq(Seq(C)) /\ Len(q) = Len(lines) + 1 /\ q[Len(lines) + 1] = l
        /\ \A k \in 1 .. Len(lines) : q[k] = lines[k]
    OBVIOUS
  <2> HIDE DEF q
  <2>2. PICK g \in [0 .. Len(q) -> Seq(Seq(C))] : Takes(g, q) /\ Tracks(q) = g[Len(q)]
    BY <2>1, TracksRun
  <2>3. /\ g[0] = <<>> /\ \A k \in 1 .. Len(q) : g[k] = Step(g[k - 1], q[k])
        /\ h[0] = <<>> /\ \A k \in 1 .. Len(lines) : h[k] = Step(h[k - 1], lines[k])
    BY <1>1, <2>2, Zenon DEF Takes
  <2> HIDE DEF Step
  <2> DEFINE T == {k \in 0 .. Len(lines) : g[k] = h[k]}
  <2>4. 0 \in T
    BY <1>2, <2>3
  <2>5. ASSUME NEW k \in 1 .. Len(lines), k - 1 \in T PROVE k \in T
    <3>1. k \in 1 .. Len(q) /\ k \in 0 .. Len(lines) BY <1>2, <2>1
    <3>2. g[k] = Step(g[k - 1], q[k]) BY <2>3, <3>1
    <3>3. h[k] = Step(h[k - 1], lines[k]) BY <2>3
    <3> QED BY <2>1, <2>5, <3>1, <3>2, <3>3
  <2>6. Len(lines) \in T
    <3> HIDE DEF T
    <3>1. \A k \in 0 .. Len(lines) : k \in T
      BY <1>2, <2>4, <2>5, UpTo
    <3> QED BY <1>2, <3>1
  <2>7. Len(q) \in 1 .. Len(q) /\ Len(q) - 1 = Len(lines)
    BY <1>2, <2>1
  <2>8. g[Len(q)] = Step(g[Len(lines)], l)
    BY <2>1, <2>3, <2>7
  <2>9. Tracks(q) = Step(Tracks(lines), l)
    BY <1>1, <2>2, <2>6, <2>8
  <2> QED BY <2>9 DEF q, Step
<1> QED BY <1>3, <1>4, <1>5

(* The tracks are the lines that count, *)
LEMMA TracksFrom ==
    ASSUME NEW C
    PROVE  \A lines \in Seq(Seq(C)) :
              /\ \A i \in 1 .. Len(Tracks(lines)) :
                    /\ Counts(Tracks(lines)[i])
                    /\ \E k \in 1 .. Len(lines) : Tracks(lines)[i] = Trim(lines[k])
              /\ \A k \in 1 .. Len(lines) : Counts(Trim(lines[k])) =>
                    \E i \in 1 .. Len(Tracks(lines)) : Tracks(lines)[i] = Trim(lines[k])
<1> DEFINE From(t, lines) ==
               /\ \A i \in 1 .. Len(t) :
                     Counts(t[i]) /\ \E k \in 1 .. Len(lines) : t[i] = Trim(lines[k])
               /\ \A k \in 1 .. Len(lines) : Counts(Trim(lines[k])) =>
                     \E i \in 1 .. Len(t) : t[i] = Trim(lines[k])
           T == {lines \in Seq(Seq(C)) : From(Tracks(lines), lines)}
<1>1. <<>> \in T
  <2>1. <<>> \in Seq(Seq(C)) /\ Len(<<>>) = 0
    OBVIOUS
  <2>2. Tracks(<<>>) = <<>>
    BY <2>1, TracksAre
  <2>3. From(<<>>, <<>>)
    BY <2>1
  <2> HIDE DEF From
  <2> QED BY <2>1, <2>2, <2>3
<1>2. ASSUME NEW lines \in Seq(Seq(C)), NEW l \in Seq(C), lines \in T PROVE Append(lines, l) \in T
  <2> DEFINE q == Append(lines, l)
             t == Tracks(lines)
             w == Tracks(q)
             z == Trim(l)
  <2>1. /\ q \in Seq(Seq(C)) /\ Len(q) = Len(lines) + 1 /\ q[Len(lines) + 1] = l
        /\ Len(lines) \in Nat /\ \A k \in 1 .. Len(lines) : q[k] = lines[k]
    OBVIOUS
  <2>2. w = IF Counts(z) THEN Append(t, z) ELSE t
    BY TracksAre
  <2>3. t \in Seq(Seq(C)) /\ Len(t) \in Nat /\ z \in Seq(C)
    <3>1. t \in Seq(Seq(C)) /\ z \in Seq(C)
      BY TracksAre, TrimIs
    <3> HIDE DEF t
    <3> QED BY <3>1
  <2>4. /\ \A i \in 1 .. Len(t) :
              Counts(t[i]) /\ \E k \in 1 .. Len(lines) : t[i] = Trim(lines[k])
        /\ \A k \in 1 .. Len(lines) : Counts(Trim(lines[k])) =>
              \E i \in 1 .. Len(t) : t[i] = Trim(lines[k])
    BY <1>2
  <2>5. z = Trim(q[Len(lines) + 1]) /\ Len(lines) + 1 \in 1 .. Len(q)
    BY <2>1
  <2> HIDE DEF q, w, t, z, T
  <2>6. \A k \in 1 .. Len(lines) : k \in 1 .. Len(q) /\ Trim(q[k]) = Trim(lines[k])
    BY <2>1
  <2>7. \A k \in 1 .. Len(q) : k \in 1 .. Len(lines) \/ (k = Len(lines) + 1 /\ Trim(q[k]) = z)
    BY <2>1, <2>5
  <2>8. CASE ~ Counts(z)
    <3>1. w = t BY <2>2, <2>8
    <3>2. \A i \in 1 .. Len(t) : Counts(t[i]) /\ \E k \in 1 .. Len(q) : t[i] = Trim(q[k])
      BY <2>4, <2>6
    <3>3. \A k \in 1 .. Len(q) : Counts(Trim(q[k])) => \E i \in 1 .. Len(t) : t[i] = Trim(q[k])
      BY <2>4, <2>6, <2>7, <2>8
    <3> QED BY <2>1, <3>1, <3>2, <3>3 DEF T, q, w
  <2>9. CASE Counts(z)
    <3>1. /\ Len(w) = Len(t) + 1 /\ w[Len(t) + 1] = z /\ \A i \in 1 .. Len(t) : w[i] = t[i]
      BY <2>2, <2>3, <2>9
    <3>2. ASSUME NEW i \in 1 .. Len(w)
          PROVE  Counts(w[i]) /\ \E k \in 1 .. Len(q) : w[i] = Trim(q[k])
      <4>1. CASE i = Len(t) + 1
        BY <2>5, <2>9, <3>1, <4>1
      <4>2. CASE i # Len(t) + 1
        <5>1. i \in 1 .. Len(t) BY <2>3, <3>1, <4>2
        <5> QED BY <2>4, <2>6, <3>1, <5>1
      <4> QED BY <4>1, <4>2
    <3>3. ASSUME NEW k \in 1 .. Len(q), Counts(Trim(q[k]))
          PROVE  \E i \in 1 .. Len(w) : w[i] = Trim(q[k])
      <4>1. CASE k \in 1 .. Len(lines)
        <5>1. PICK i \in 1 .. Len(t) : t[i] = Trim(q[k]) BY <2>4, <2>6, <3>3, <4>1
        <5>2. i \in 1 .. Len(w) /\ w[i] = t[i] BY <2>3, <3>1
        <5> QED BY <5>1, <5>2
      <4>2. CASE Trim(q[k]) = z
        <5>1. Len(t) + 1 \in 1 .. Len(w) BY <2>3, <3>1
        <5> QED BY <3>1, <4>2, <5>1
      <4> QED BY <2>7, <4>1, <4>2
    <3> QED BY <2>1, <3>2, <3>3 DEF T, q, w
  <2> QED BY <2>8, <2>9
<1>3. Seq(Seq(C)) \subseteq T
  <2> HIDE DEF T
  <2> QED BY <1>1, <1>2, TextInduction
<1> QED BY <1>3

(* and all of them if none is touched. *)
LEMMA TracksSame ==
    ASSUME NEW C
    PROVE  \A lines \in Seq(Seq(C)) :
              (\A k \in 1 .. Len(lines) : Trim(lines[k]) = lines[k] /\ Counts(lines[k]))
                  => Tracks(lines) = lines
<1> DEFINE Good(lines) ==
               \A k \in 1 .. Len(lines) : Trim(lines[k]) = lines[k] /\ Counts(lines[k])
           T == {lines \in Seq(Seq(C)) : Good(lines) => Tracks(lines) = lines}
<1>1. <<>> \in T
  <2>1. <<>> \in Seq(Seq(C))
    OBVIOUS
  <2> QED BY <2>1, TracksAre
<1>2. ASSUME NEW lines \in Seq(Seq(C)), NEW l \in Seq(C), lines \in T PROVE Append(lines, l) \in T
  <2> DEFINE q == Append(lines, l)
  <2>1. /\ q \in Seq(Seq(C)) /\ Len(q) = Len(lines) + 1 /\ q[Len(lines) + 1] = l
        /\ Len(lines) \in Nat /\ \A k \in 1 .. Len(lines) : q[k] = lines[k]
    OBVIOUS
  <2>2. Tracks(q) =
          IF Counts(Trim(l)) THEN Append(Tracks(lines), Trim(l)) ELSE Tracks(lines)
    BY TracksAre
  <2>3. q = Append(lines, l)
    OBVIOUS
  <2> HIDE DEF q
  <2>4. ASSUME Good(q) PROVE Tracks(q) = q
    <3>1. \A k \in 1 .. Len(lines) : k \in 1 .. Len(q)
      BY <2>1
    <3>2. Good(lines)
      BY <2>1, <2>4, <3>1
    <3>3. Len(lines) + 1 \in 1 .. Len(q)
      BY <2>1
    <3>4. Trim(l) = l /\ Counts(l)
      BY <2>1, <2>4, <3>3
    <3> QED BY <1>2, <2>2, <2>3, <3>2, <3>4
  <2> QED BY <2>1, <2>4 DEF q
<1>3. Seq(Seq(C)) \subseteq T
  <2> HIDE DEF T
  <2> QED BY <1>1, <1>2, TextInduction
<1> QED BY <1>3

-----------------------------------------------------------------------------
(* URIs. *)

LEMMA PlacesAre ==
    ASSUME NEW C, NEW l \in Seq(C), NEW k
    PROVE  /\ k \in Places(FileScheme, l) <=>
                 k \in 1 .. Len(l) - 2 /\ l[k] = "f" /\ l[k + 1] = "ile:/" /\ l[k + 2] = "/"
           /\ k \in Places(Append(FileScheme, "/"), l) <=>
                 /\ k \in 1 .. Len(l) - 3
                 /\ l[k] = "f" /\ l[k + 1] = "ile:/" /\ l[k + 2] = "/" /\ l[k + 3] = "/"
           /\ k \in Places(<<"h", "ttp://">>, l) <=>
                 k \in 1 .. Len(l) - 1 /\ l[k] = "h" /\ l[k + 1] = "ttp://"
<1>1. Len(l) \in Nat
  OBVIOUS
<1>2. ASSUME NEW n \in 1 .. 4, k \in 1 .. Len(l) - n + 1
      PROVE  /\ Len(SubSeq(l, k, k + n - 1)) = n /\ SubSeq(l, k, k + n - 1) \in Seq(C)
             /\ \A i \in 1 .. n : SubSeq(l, k, k + n - 1)[i] = l[k + i - 1]
  <2>1. k \in 1 .. Len(l) /\ k + n - 1 \in k .. Len(l) /\ k \in Nat /\ n \in Nat
    BY <1>1, <1>2
  <2>2. k + n - 1 - k + 1 = n
    BY <2>1
  <2> DEFINE m == k + n - 1
  <2>3. m \in Nat /\ k <= m /\ m <= Len(l) /\ m - k + 1 = n
    BY <1>1, <2>1, <2>2
  <2> HIDE DEF m
  <2>4. /\ SubSeq(l, k, m) \in Seq(C) /\ Len(SubSeq(l, k, m)) = m - k + 1
        /\ \A i \in 1 .. m - k + 1 : SubSeq(l, k, m)[i] = l[k + i - 1]
    BY <1>1, <2>1, <2>3
  <2> QED BY <2>3, <2>4 DEF m
<1>3. k \in Places(FileScheme, l) <=>
          k \in 1 .. Len(l) - 2 /\ l[k] = "f" /\ l[k + 1] = "ile:/" /\ l[k + 2] = "/"
  <2> DEFINE s == SubSeq(l, k, k + 3 - 1)
  <2>1. k \in Places(FileScheme, l) <=> k \in 1 .. Len(l) - 3 + 1 /\ s = <<"f", "ile:/", "/">>
    BY DEF Places, FileScheme
  <2>2. k \in 1 .. Len(l) - 3 + 1 <=> k \in 1 .. Len(l) - 2
    BY <1>1
  <2>3. ASSUME k \in 1 .. Len(l) - 2
        PROVE  s = <<"f", "ile:/", "/">> <=> l[k] = "f" /\ l[k + 1] = "ile:/" /\ l[k + 2] = "/"
    <3>1. /\ Len(s) = 3 /\ s \in Seq(C)
          /\ s[1] = l[k + 1 - 1] /\ s[2] = l[k + 2 - 1] /\ s[3] = l[k + 3 - 1]
      BY <1>2, <2>2, <2>3
    <3>2. k + 1 - 1 = k /\ k + 2 - 1 = k + 1 /\ k + 3 - 1 = k + 2
      BY <2>3
    <3> HIDE DEF s
    <3>3. s = <<s[1], s[2], s[3]>>
      BY <3>1
    <3> QED BY <3>1, <3>2, <3>3
  <2> QED BY <2>1, <2>2, <2>3
<1>4. k \in Places(Append(FileScheme, "/"), l) <=>
          /\ k \in 1 .. Len(l) - 3
          /\ l[k] = "f" /\ l[k + 1] = "ile:/" /\ l[k + 2] = "/" /\ l[k + 3] = "/"
  <2> DEFINE s == SubSeq(l, k, k + 4 - 1)
  <2>1. Append(FileScheme, "/") = <<"f", "ile:/", "/", "/">>
    <3>1. \A a, b, c : Append(<<a, b, c>>, c) = <<a, b, c, c>>
      <4>1. ASSUME NEW a, NEW b, NEW c PROVE Append(<<a, b, c>>, c) = <<a, b, c, c>>
        <5> DEFINE S == {a, b, c}
                   f == <<a, b, c>>
        <5>1. a \in S /\ b \in S /\ c \in S
          OBVIOUS
        <5> HIDE DEF S
        <5>2. f \in Seq(S) /\ Len(f) = 3 /\ f[1] = a /\ f[2] = b /\ f[3] = c
          BY <5>1
        <5> HIDE DEF f
        <5> DEFINE x == Append(f, c)
        <5>3. x \in Seq(S) /\ Len(x) = 4 /\ x[1] = f[1] /\ x[2] = f[2] /\ x[3] = f[3] /\ x[4] = c
          <6>1. /\ x \in Seq(S) /\ Len(x) = Len(f) + 1 /\ x[Len(f) + 1] = c
                /\ \A i \in 1 .. Len(f) : x[i] = f[i]
            <7>1. f \in Seq(S) /\ c \in S BY <5>1, <5>2
            <7> HIDE DEF x
            <7> QED BY <7>1 DEF x
          <6> HIDE DEF x
          <6>2. 1 \in 1 .. 3 /\ 2 \in 1 .. 3 /\ 3 \in 1 .. 3 /\ 3 + 1 = 4
            OBVIOUS
          <6> QED BY <5>2, <6>1, <6>2
        <5> HIDE DEF x
        <5>4. x = <<x[1], x[2], x[3], x[4]>>
          BY <5>3
        <5> QED BY <5>2, <5>3, <5>4 DEF x, f
      <4> QED BY <4>1
    <3> QED BY <3>1, Zenon DEF FileScheme
  <2>2. k \in Places(<<"f", "ile:/", "/", "/">>, l) <=>
            k \in 1 .. Len(l) - 4 + 1 /\ s = <<"f", "ile:/", "/", "/">>
    BY DEF Places
  <2>3. k \in 1 .. Len(l) - 4 + 1 <=> k \in 1 .. Len(l) - 3
    BY <1>1
  <2>4. ASSUME k \in 1 .. Len(l) - 3
        PROVE  s = <<"f", "ile:/", "/", "/">> <=>
                  l[k] = "f" /\ l[k + 1] = "ile:/" /\ l[k + 2] = "/" /\ l[k + 3] = "/"
    <3>1. /\ Len(s) = 4 /\ s \in Seq(C) /\ s[1] = l[k + 1 - 1] /\ s[2] = l[k + 2 - 1]
          /\ s[3] = l[k + 3 - 1] /\ s[4] = l[k + 4 - 1]
      BY <1>2, <2>3, <2>4
    <3>2. k + 1 - 1 = k /\ k + 2 - 1 = k + 1 /\ k + 3 - 1 = k + 2 /\ k + 4 - 1 = k + 3
      BY <2>4
    <3> HIDE DEF s
    <3>3. s = <<s[1], s[2], s[3], s[4]>>
      BY <3>1
    <3> QED BY <3>1, <3>2, <3>3
  <2> QED BY <2>1, <2>2, <2>3, <2>4
<1>5. k \in Places(<<"h", "ttp://">>, l) <=>
          k \in 1 .. Len(l) - 1 /\ l[k] = "h" /\ l[k + 1] = "ttp://"
  <2> DEFINE s == SubSeq(l, k, k + 2 - 1)
  <2>1. k \in Places(<<"h", "ttp://">>, l) <=> k \in 1 .. Len(l) - 2 + 1 /\ s = <<"h", "ttp://">>
    BY DEF Places
  <2>2. k \in 1 .. Len(l) - 2 + 1 <=> k \in 1 .. Len(l) - 1
    BY <1>1
  <2>3. ASSUME k \in 1 .. Len(l) - 1
        PROVE  s = <<"h", "ttp://">> <=> l[k] = "h" /\ l[k + 1] = "ttp://"
    <3>1. /\ Len(s) = 2 /\ s \in Seq(C) /\ s[1] = l[k + 1 - 1] /\ s[2] = l[k + 2 - 1]
      BY <1>2, <2>2, <2>3
    <3>2. k + 1 - 1 = k /\ k + 2 - 1 = k + 1
      BY <2>3
    <3> HIDE DEF s
    <3>3. s = <<s[1], s[2]>>
      BY <3>1
    <3> QED BY <3>1, <3>2, <3>3
  <2> QED BY <2>1, <2>2, <2>3
<1> QED BY <1>3, <1>4, <1>5

LEMMA UriIsFileIs ==
    ASSUME NEW C, NEW l \in Seq(C)
    PROVE  UriIsFile(l) <=>
              \E p \in Places(FileScheme, l) :
                  /\ \A q \in Places(FileScheme, l) : p <= q
                  /\ p + 3 <= Len(l) /\ l[p + 3] = "/"
<1> DEFINE places == Places(FileScheme, l)
           min == Min(places)
           rest == SubSeq(l, min + 3, Len(l))
<1>1. Len(l) \in Nat
  OBVIOUS
<1>2. places \in SUBSET (1 .. Len(l)) /\ \A p \in places : p + 2 \in 1 .. Len(l)
  BY <1>1, PlacesAre
<1>3. UriIsFile(l) <=> places # {} /\ rest # <<>> /\ rest[1] = "/"
  <2>1. Len(FileScheme) = 3
    BY DEF FileScheme
  <2> QED BY <2>1 DEF UriIsFile, PathIsAbsolute
<1>4. CASE places = {}
  BY <1>3, <1>4
<1>5. CASE places # {}
  <2>1. min \in places /\ \A q \in places : min <= q
    <3> HIDE DEF places
    <3> QED BY <1>1, <1>2, <1>5, MinIs
  <2>2. min \in Nat /\ min >= 1 /\ min + 2 <= Len(l)
    BY <1>1, <1>2, <2>1
  <2> HIDE DEF min
  <2>3. CASE min + 3 <= Len(l)
    <3>1. /\ rest \in Seq(C) /\ Len(rest) = Len(l) - (min + 3) + 1
          /\ \A i \in 1 .. Len(l) - (min + 3) + 1 : rest[i] = l[min + 3 + i - 1]
      BY <1>1, <2>2, <2>3
    <3>2. Len(l) - (min + 3) + 1 \in Nat /\ 1 \in 1 .. Len(l) - (min + 3) + 1
      BY <1>1, <2>2, <2>3
    <3>3. rest[1] = l[min + 3 + 1 - 1] /\ Len(rest) # 0
      BY <3>1, <3>2
    <3>4. min + 3 + 1 - 1 = min + 3
      BY <2>2
    <3>5. rest[1] = l[min + 3] /\ rest # <<>>
      <4> HIDE DEF rest
      <4>1. rest # <<>> BY <3>3
      <4> QED BY <3>3, <3>4, <4>1
    <3>6. \A p \in places : (\A q \in places : p <= q) => p = min
      BY <1>2, <2>1, <2>2
    <3> HIDE DEF rest, places
    <3> QED BY <1>3, <1>5, <2>1, <2>3, <3>5, <3>6 DEF places
  <2>4. CASE ~ (min + 3 <= Len(l))
    <3>1. rest = <<>>
      BY <1>1, <2>2, <2>4
    <3>2. \A p \in places : ~ (p + 3 <= Len(l) /\ \A q \in places : p <= q)
      BY <1>1, <1>2, <2>1, <2>2, <2>4
    <3> HIDE DEF rest, places
    <3> QED BY <1>3, <3>1, <3>2 DEF places
  <2> QED BY <2>3, <2>4
<1> QED BY <1>4, <1>5

LEMMA UriIsLong ==
    ASSUME NEW C, NEW l \in Seq(C), UriOk(l)
    PROVE  Len(l) > 1
<1>1. Len(l) \in Nat
  OBVIOUS
<1>2. CASE UriIsFile(l)
  <2>1. PICK p \in Places(FileScheme, l) : TRUE
    BY <1>2 DEF UriIsFile
  <2>2. p \in 1 .. Len(l) - 2
    BY PlacesAre
  <2> QED BY <1>1, <2>2
<1>3. CASE UriIsHttp(l)
  <2>1. PICK p \in Places(<<"h", "ttp://">>, l) : TRUE
    BY <1>3 DEF UriIsHttp
  <2>2. p \in 1 .. Len(l) - 1
    BY PlacesAre
  <2> QED BY <1>1, <2>2
<1> QED BY <1>2, <1>3 DEF UriOk

(* A line that is joined to a URI is a track, if what follows each         *)
(* "file://" is an absolute path.                                          *)
LEMMA JoinedIsUri ==
    ASSUME NEW C, NEW p \in Seq(C), NEW u \in Seq(C), UriOk(u),
           \A i \in Places(FileScheme, p \o u) : i + 3 <= Len(p \o u) /\ (p \o u)[i + 3] = "/"
    PROVE  UriOk(p \o u)
<1> DEFINE l == p \o u
<1>1. /\ l \in Seq(C) /\ Len(l) = Len(p) + Len(u) /\ Len(p) \in Nat /\ Len(u) \in Nat
      /\ \A i \in 1 .. Len(u) : l[Len(p) + i] = u[i]
  OBVIOUS
<1>2. \A i \in Places(FileScheme, l) : i + 3 <= Len(l) /\ l[i + 3] = "/"
  OBVIOUS
<1> HIDE DEF l
<1>3. CASE UriIsHttp(u)
  <2>1. PICK i \in Places(<<"h", "ttp://">>, u) : TRUE
    BY <1>3 DEF UriIsHttp
  <2>2. i \in 1 .. Len(u) - 1 /\ u[i] = "h" /\ u[i + 1] = "ttp://"
    BY PlacesAre
  <2>3. /\ i \in 1 .. Len(u) /\ i + 1 \in 1 .. Len(u)
        /\ Len(p) + i \in 1 .. Len(l) - 1 /\ Len(p) + i + 1 = Len(p) + (i + 1)
    BY <1>1, <2>2
  <2>4. l[Len(p) + i] = "h" /\ l[Len(p) + i + 1] = "ttp://"
    BY <1>1, <2>2, <2>3
  <2>5. Len(p) + i \in Places(<<"h", "ttp://">>, l)
    BY <1>1, <2>3, <2>4, PlacesAre
  <2> QED BY <2>5 DEF UriOk, UriIsHttp, l
<1>4. CASE UriIsFile(u)
  <2>1. PICK i \in Places(FileScheme, u) : TRUE
    BY <1>4 DEF UriIsFile
  <2>2. i \in 1 .. Len(u) - 2 /\ u[i] = "f" /\ u[i + 1] = "ile:/" /\ u[i + 2] = "/"
    BY PlacesAre
  <2>3. /\ i \in 1 .. Len(u) /\ i + 1 \in 1 .. Len(u) /\ i + 2 \in 1 .. Len(u)
        /\ Len(p) + i \in 1 .. Len(l) - 2 /\ Len(p) + i + 1 = Len(p) + (i + 1)
        /\ Len(p) + i + 2 = Len(p) + (i + 2)
    BY <1>1, <2>2
  <2>4. l[Len(p) + i] = "f" /\ l[Len(p) + i + 1] = "ile:/" /\ l[Len(p) + i + 2] = "/"
    BY <1>1, <2>2, <2>3
  <2> DEFINE places == Places(FileScheme, l)
  <2>5. Len(p) + i \in places
    BY <1>1, <2>3, <2>4, PlacesAre
  <2>6. places \in SUBSET (1 .. Len(l)) /\ Len(l) \in Nat
    BY <1>1, PlacesAre
  <2>7. Min(places) \in places /\ \A q \in places : Min(places) <= q
    <3> HIDE DEF places
    <3> QED BY <2>5, <2>6, MinIs
  <2>8. UriIsFile(l)
    BY <1>1, <1>2, <2>7, UriIsFileIs
  <2> QED BY <2>8 DEF UriOk, l
<1> QED BY <1>3, <1>4 DEF UriOk

LEMMA SchemeIs ==
    ASSUME NEW C, {"f", "ile:/", "/"} \subseteq C, NEW l \in Seq(C), PathIsAbsolute(l)
    PROVE  FileScheme \o l \in Seq(C) /\ UriOk(FileScheme \o l)
<1>1. FileScheme \in Seq(C) /\ Len(FileScheme) = 3
      /\ FileScheme[1] = "f" /\ FileScheme[2] = "ile:/" /\ FileScheme[3] = "/"
  BY DEF FileScheme
<1> DEFINE m == FileScheme \o l
<1>2. /\ m \in Seq(C) /\ Len(m) = 3 + Len(l) /\ Len(l) \in Nat
      /\ m[1] = "f" /\ m[2] = "ile:/" /\ m[3] = "/"
      /\ \A i \in 1 .. Len(l) : m[3 + i] = l[i]
  <2> DEFINE s == FileScheme
  <2>1. s \in Seq(C) /\ Len(s) = 3 /\ s[1] = "f" /\ s[2] = "ile:/" /\ s[3] = "/"
    BY <1>1
  <2> HIDE DEF s
  <2>2. /\ s \o l \in Seq(C) /\ Len(s \o l) = Len(s) + Len(l) /\ Len(l) \in Nat
        /\ \A i \in 1 .. Len(s) : (s \o l)[i] = s[i]
        /\ \A i \in 1 .. Len(l) : (s \o l)[Len(s) + i] = l[i]
    <3>1. s \in Seq(C) BY <2>1
    <3> QED BY <3>1
  <2>3. 1 \in 1 .. 3 /\ 2 \in 1 .. 3 /\ 3 \in 1 .. 3
    OBVIOUS
  <2>4. m = s \o l
    BY DEF s
  <2> HIDE DEF m
  <2> QED BY <2>1, <2>2, <2>3, <2>4
<1> HIDE DEF m
<1>3. l # <<>> /\ l[1] = "/"
  BY DEF PathIsAbsolute
<1>4. Len(l) # 0 /\ Len(l) >= 1 /\ 1 \in 1 .. Len(l)
  BY <1>2, <1>3, EmptySeq
<1>5. m[1 + 3] = "/" /\ 1 + 3 <= Len(m) /\ 1 \in 1 .. Len(m) - 2
  BY <1>2, <1>3, <1>4
<1>6. 1 \in Places(FileScheme, m)
  <2>1. m[1 + 1] = "ile:/" /\ m[1 + 2] = "/"
    BY <1>2
  <2> QED BY <1>2, <1>5, <2>1, PlacesAre
<1>7. \A q \in Places(FileScheme, m) : 1 <= q
  BY <1>2, PlacesAre
<1>8. UriIsFile(m)
  BY <1>2, <1>5, <1>6, <1>7, UriIsFileIs
<1> QED BY <1>2, <1>8 DEF UriOk, m

LEMMA UriNewIs ==
    ASSUME NEW l \in Uris, NEW u \in UriNew(l)
    PROVE  u \in Uris /\ UriOk(u)
<1>1. CASE UriOk(l)
  BY <1>1 DEF UriNew
<1>2. CASE ~ UriOk(l)
  <2>1. PICK f \in Paths : u = FileScheme \o f.name
    BY <1>2 DEF UriNew, RealPath
  <2>2. f.name \in Seq(Characters) /\ PathIsAbsolute(f.name)
    BY PathsAssumption
  <2>3. {"f", "ile:/", "/"} \subseteq Characters
    BY DEF Characters
  <2>4. FileScheme \o f.name \in Seq(Characters) /\ UriOk(FileScheme \o f.name)
    BY <2>2, <2>3, SchemeIs
  <2> QED BY <2>1, <2>4 DEF Uris
<1> QED BY <1>1, <1>2

(* In a text in which each "file://" is followed by a slash, it is so in   *)
(* each line that is ended.                                                *)
LEMMA SlashInLine ==
    ASSUME NEW C, NEW text \in Seq(C), NEW l \in Seq(C), NEW off, IsLine(text, l, off, TRUE),
           Places(FileScheme, text) = Places(Append(FileScheme, "/"), text)
    PROVE  \A i \in Places(FileScheme, l) : i + 3 <= Len(l) /\ l[i + 3] = "/"
<1> SUFFICES ASSUME NEW i \in Places(FileScheme, l)
             PROVE  i + 3 <= Len(l) /\ l[i + 3] = "/"
  OBVIOUS
<1>1. /\ off \in Nat /\ Len(l) \in Nat /\ Len(text) \in Nat
      /\ off + Len(l) + 1 <= Len(text) /\ text[off + Len(l) + 1] = "\n"
      /\ \A k \in 1 .. Len(l) : text[off + k] = l[k] /\ l[k] # "\n"
  BY DEF IsLine
<1>2. i \in 1 .. Len(l) - 2 /\ l[i] = "f" /\ l[i + 1] = "ile:/" /\ l[i + 2] = "/"
  BY PlacesAre
<1>3. /\ i \in Nat /\ i \in 1 .. Len(l) /\ i + 1 \in 1 .. Len(l) /\ i + 2 \in 1 .. Len(l)
      /\ off + i \in 1 .. Len(text) - 2
      /\ off + i + 1 = off + (i + 1) /\ off + i + 2 = off + (i + 2)
      /\ off + i + 3 = off + (i + 3)
  BY <1>1, <1>2
<1>4. text[off + i] = "f" /\ text[off + i + 1] = "ile:/" /\ text[off + i + 2] = "/"
  BY <1>1, <1>2, <1>3
<1>5. off + i \in Places(FileScheme, text)
  BY <1>3, <1>4, PlacesAre
<1>6. text[off + (i + 3)] = "/"
  BY <1>3, <1>5, PlacesAre
<1>7. i + 3 # Len(l) + 1
  <2>1. ASSUME i + 3 = Len(l) + 1 PROVE FALSE
    <3>1. off + (i + 3) = off + Len(l) + 1 BY <1>1, <2>1
    <3> QED BY <1>1, <1>6, <3>1
  <2> QED BY <2>1
<1>8. i + 3 <= Len(l) /\ i + 3 \in 1 .. Len(l)
  BY <1>1, <1>2, <1>3, <1>7
<1> QED BY <1>1, <1>6, <1>8

PartsOf(C, s, u) ==
    /\ Len(s) \in Nat /\ <<>> \o s = s /\ SubSeq(s, 1, Len(s)) = s
    /\ Len(Append(s, u)) = Len(s) + 1
    /\ SubSeq(Append(s, u), 1, Len(s) + 1) = Append(s, u)
    /\ \A m \in 0 .. Len(s) :
          /\ SubSeq(Append(s, u), 1, m) = SubSeq(s, 1, m)
          /\ SubSeq(s, 1, m) \in Seq(C) /\ Len(SubSeq(s, 1, m)) = m
          /\ \A i \in 1 .. m : SubSeq(s, 1, m)[i] = s[i]

LEMMA PartsAre ==
    ASSUME NEW C
    PROVE  \A s \in Seq(C) : \A u \in C : PartsOf(C, s, u)
<1> SUFFICES ASSUME NEW s \in Seq(C), NEW u \in C PROVE PartsOf(C, s, u)
  OBVIOUS
<1>1. Len(s) \in Nat /\ <<>> \o s = s
  OBVIOUS
<1>2. SubSeq(s, 1, Len(s)) = s
  OBVIOUS
<1>3. Len(Append(s, u)) = Len(s) + 1
  OBVIOUS
<1>4. SubSeq(Append(s, u), 1, Len(s) + 1) = Append(s, u)
  OBVIOUS
<1>5. ASSUME NEW m \in 0 .. Len(s)
      PROVE  /\ SubSeq(s, 1, m) \in Seq(C) /\ Len(SubSeq(s, 1, m)) = m
             /\ \A i \in 1 .. m : SubSeq(s, 1, m)[i] = s[i]
  OBVIOUS
<1>6. ASSUME NEW m \in 0 .. Len(s) PROVE SubSeq(Append(s, u), 1, m) = SubSeq(s, 1, m)
  OBVIOUS
<1> QED BY <1>1, <1>2, <1>3, <1>4, <1>5, <1>6 DEF PartsOf

LEMMA JoinIn ==
    ASSUME NEW C
    PROVE  \A s, u \in Seq(C) : s \o u \in Seq(C)
OBVIOUS

-----------------------------------------------------------------------------
(* What of goal g is in the text after w writes, of which c were cut:      *)
(* every line that is ended has its track at its end, and is that track if *)
(* neither its write nor the one before was cut; the last line is empty,   *)
(* or begins as a track does.                                              *)

StartsWell(l) == l # <<>> => l[1] \notin {" ", "#"}

EndsIn(l, u) == \E p \in Uris : l = p \o u

Holds(lines, g, w, c) ==
    /\ w \notin c => lines[Len(lines)] = <<>>
    /\ StartsWell(lines[Len(lines)])
    /\ \A j \in 1 .. Len(lines) - 1 :
          StartsWell(lines[j]) /\ \E k \in 1 .. w : EndsIn(lines[j], g[k])
    /\ \A k \in 1 .. w : k \notin c /\ k - 1 \notin c =>
          \E j \in 1 .. Len(lines) - 1 : lines[j] = g[k]
    /\ c = {} => Len(lines) = w + 1 /\ \A j \in 1 .. w : lines[j] = g[j]

Tracked(g) == g \in Seq(Uris) /\ \A k \in DOMAIN g : UriOk(g[k])

FileInv ==
    /\ PFTypeOK
    /\ Tracked(vec) /\ Tracked(goal)
    /\ Plain(goal) => Holds(Lines(m3u), goal, written, cuts)

LEMMA PlainIs ==
    ASSUME NEW u \in Uris, UriOk(u)
    PROVE  /\ u # <<>> /\ Len(u) > 1
           /\ IsPlain(u) <=> /\ \A i \in 1 .. Len(u) : u[i] # "\n"
                             /\ u[1] \notin {" ", "#"} /\ u[Len(u)] # " "
<1>1. Len(u) > 1 /\ Len(u) \in Nat /\ DOMAIN u = 1 .. Len(u)
  BY UriIsLong DEF Uris
<1>2. u # <<>>
  BY <1>1
<1>3. "\n" \notin ToSet(u) <=> \A i \in 1 .. Len(u) : u[i] # "\n"
  BY <1>1 DEF ToSet
<1> QED BY <1>1, <1>2, <1>3 DEF IsPlain, Last

LEMMA HoldsAtFirst ==
    ASSUME NEW g
    PROVE  Holds(Lines(<<>>), g, 0, {})
<1>1. <<>> \in Seq(Characters)
  OBVIOUS
<1>2. Lines(<<>>) = << <<>> >>
  BY <1>1, LinesAre
<1> DEFINE L == Lines(<<>>)
<1>3. Len(L) = 1 /\ L[1] = <<>>
  BY <1>2
<1> HIDE DEF L
<1>4. Holds(L, g, 0, {})
  BY <1>3 DEF Holds, StartsWell
<1> QED BY <1>4 DEF L

(* One dprintf: the first n characters of a line. *)
LEMMA HoldsOn ==
    ASSUME NEW text \in Seq(Characters), NEW g, Tracked(g), Plain(g),
           NEW w \in Nat, w < Len(g), NEW c \in SUBSET (1 .. w),
           Holds(Lines(text), g, w, c),
           NEW n \in 0 .. Len(Append(g[w + 1], "\n"))
    PROVE  Holds(Lines(text \o SubSeq(Append(g[w + 1], "\n"), 1, n)), g, w + 1,
                 IF n < Len(Append(g[w + 1], "\n")) THEN c \cup {w + 1} ELSE c)
<1> DEFINE u == g[w + 1]
           line == Append(u, "\n")
           L == Lines(text)
           N == Len(L)
<1>1. /\ w + 1 \in DOMAIN g /\ u \in Uris /\ UriOk(u) /\ IsPlain(u)
      /\ "\n" \in Characters
  <2>1. g \in Seq(Uris) BY DEF Tracked
  <2>2. w + 1 \in DOMAIN g /\ u \in Uris BY <2>1
  <2>3. UriOk(u) /\ IsPlain(u) BY <2>2 DEF Tracked, Plain
  <2>4. "\n" \in Characters BY DEF Characters
  <2> QED BY <2>2, <2>3, <2>4
<1>2. /\ u \in Seq(Characters) /\ Len(u) \in Nat /\ Len(u) > 1 /\ u # <<>>
      /\ \A i \in 1 .. Len(u) : u[i] # "\n"
      /\ u[1] \notin {" ", "#"}
  <2> HIDE DEF u
  <2>1. u # <<>> /\ Len(u) > 1 /\ (\A i \in 1 .. Len(u) : u[i] # "\n") /\ u[1] \notin {" ", "#"}
    BY <1>1, PlainIs
  <2>2. u \in Seq(Characters)
    BY <1>1 DEF Uris
  <2>3. Len(u) \in Nat
    BY <2>2
  <2> QED BY <2>1, <2>2, <2>3
<1>3. Len(line) = Len(u) + 1 /\ SubSeq(line, 1, Len(u) + 1) = line
      /\ <<>> \o u = u /\ SubSeq(u, 1, Len(u)) = u
  <2> HIDE DEF u
  <2>1. PartsOf(Characters, u, "\n")
    BY <1>1, <1>2, PartsAre, Zenon
  <2> QED BY <2>1 DEF PartsOf
<1>4. \A m \in 0 .. Len(u) :
         /\ SubSeq(line, 1, m) = SubSeq(u, 1, m)
         /\ SubSeq(u, 1, m) \in Seq(Characters) /\ Len(SubSeq(u, 1, m)) = m
         /\ \A i \in 1 .. m : SubSeq(u, 1, m)[i] = u[i]
  <2> HIDE DEF u
  <2>1. PartsOf(Characters, u, "\n")
    BY <1>1, <1>2, PartsAre, Zenon
  <2> QED BY <2>1 DEF PartsOf
<1>5. L \in Seq(Uris) /\ N \in Nat /\ N > 0 /\ \A j \in 1 .. N : L[j] \in Seq(Characters)
  <2>1. L \in Seq(Uris) /\ L # <<>>
    BY LinesAre DEF Uris
  <2> HIDE DEF L
  <2> QED BY <2>1, EmptySeq DEF Uris
<1>6. Holds(L, g, w, c)
  OBVIOUS
<1> HIDE DEF u, line, L, N
(* What a part of the URI makes of the lines. *)
<1>7. ASSUME NEW m \in 0 .. Len(u)
      PROVE  LET M == Lines(text \o SubSeq(u, 1, m))
             IN  /\ Len(M) = N /\ M[N] = L[N] \o SubSeq(u, 1, m) /\ StartsWell(M[N])
                 /\ \A j \in 1 .. N - 1 : M[j] = L[j]
  <2> DEFINE y == SubSeq(u, 1, m)
             M == Lines(text \o y)
  <2>1. /\ y \in Seq(Characters) /\ Len(y) = m /\ m \in Nat /\ m <= Len(u)
        /\ \A i \in 1 .. m : y[i] = u[i]
    <3>1. y \in Seq(Characters) /\ Len(y) = m /\ \A i \in 1 .. m : y[i] = u[i]
      BY <1>4
    <3>2. m \in Nat /\ m <= Len(u)
      <4>1. PICK a \in Nat : a = Len(u) BY <1>2
      <4>2. m \in 0 .. a BY <4>1
      <4>3. m \in Nat /\ m <= a BY <4>2
      <4> QED BY <4>1, <4>3
    <3> QED BY <3>1, <3>2
  <2>2. \A i \in 1 .. Len(y) : y[i] # "\n"
    <3>1. \A i \in 1 .. m : i \in 1 .. Len(u)
      <4>1. PICK a \in Nat : a = Len(u) BY <1>2
      <4> QED BY <2>1, <4>1
    <3> HIDE DEF y
    <3> QED BY <1>2, <2>1, <3>1
  <2> HIDE DEF y
  <2>3. Len(M) = N /\ M[N] = L[N] \o y /\ \A j \in 1 .. N - 1 : M[j] = L[j]
    BY <2>1, <2>2, LinesGrow DEF L, N
  <2>4. StartsWell(L[N] \o y)
    <3>1. L[N] \in Seq(Characters) /\ StartsWell(L[N])
      BY <1>5, <1>6 DEF Holds, N
    <3> DEFINE l == L[N]
    <3> HIDE DEF l
    <3>2. l \in Seq(Characters) /\ StartsWell(l)
      BY <3>1 DEF l
    <3>3. CASE l = <<>>
      <4>1. l \o y = y
        BY <2>1, <3>3
      <4>2. y # <<>> => y[1] = u[1]
        <5>1. y # <<>> => m # 0 BY <2>1, EmptySeq
        <5> QED BY <2>1, <5>1
      <4> QED BY <1>2, <4>1, <4>2 DEF StartsWell, l
    <3>4. CASE l # <<>>
      <4>1. (l \o y)[1] = l[1]
        BY <2>1, <3>2, <3>4, EmptySeq
      <4> QED BY <3>2, <3>4, <4>1 DEF StartsWell, l
    <3> QED BY <3>3, <3>4
  <2> QED BY <2>3, <2>4 DEF y
<1>8. CASE n < Len(line)
  <2> DEFINE M == Lines(text \o SubSeq(u, 1, n))
             d == c \cup {w + 1}
  <2>1. n \in 0 .. Len(u) /\ SubSeq(line, 1, n) = SubSeq(u, 1, n)
    <3>1. n \in Nat BY DEF line, u
    <3>2. PICK m \in Nat : m = Len(u) BY <1>2
    <3>3. n < m + 1 BY <1>3, <1>8, <3>2
    <3>4. n \in 0 .. m BY <3>1, <3>3
    <3> QED BY <1>4, <3>2, <3>4
  <2>2. Len(M) = N /\ StartsWell(M[N]) /\ \A j \in 1 .. N - 1 : M[j] = L[j]
    BY <1>7, <2>1
  <2> HIDE DEF M
  <2>3. \A j \in 1 .. N - 1 :
           StartsWell(L[j]) /\ \E k \in 1 .. w + 1 : EndsIn(L[j], g[k])
    <3>1. \A k \in 1 .. w : k \in 1 .. w + 1 OBVIOUS
    <3> QED BY <1>6, <3>1 DEF Holds, N
  <2>4. ASSUME NEW k \in 1 .. w + 1, k \notin d, k - 1 \notin d
        PROVE  \E j \in 1 .. N - 1 : L[j] = g[k]
    <3>1. k \in 1 .. w /\ k \notin c /\ k - 1 \notin c BY <2>4
    <3> QED BY <1>6, <3>1 DEF Holds, N
  <2>5. w + 1 \in d /\ d # {}
    OBVIOUS
  <2> HIDE DEF d
  <2>6. Holds(M, g, w + 1, d)
    BY <2>2, <2>3, <2>4, <2>5 DEF Holds
  <2> QED BY <1>8, <2>1, <2>6 DEF M, d, line, u
<1>9. CASE ~ (n < Len(line))
  <2> DEFINE K == Lines(text \o SubSeq(u, 1, Len(u)))
             M == Lines(text \o line)
  <2>1. n = Len(u) + 1 /\ SubSeq(line, 1, n) = line
    <3>1. n \in Nat /\ n \in 0 .. Len(line) BY DEF line, u
    <3>2. PICK m \in Nat : m = Len(u) BY <1>2
    <3>3. n \in 0 .. m + 1 /\ ~ (n < m + 1) BY <1>3, <1>9, <3>1, <3>2
    <3>4. n = m + 1 BY <3>1, <3>3
    <3> QED BY <1>3, <3>2, <3>4
  <2>2. Len(u) \in 0 .. Len(u) /\ SubSeq(u, 1, Len(u)) = u
    <3>1. PICK a \in Nat : a = Len(u) BY <1>2
    <3>2. a \in 0 .. a OBVIOUS
    <3> QED BY <1>3, <3>1, <3>2
  <2>3. Len(K) = N /\ K[N] = L[N] \o u /\ StartsWell(K[N]) /\ \A j \in 1 .. N - 1 : K[j] = L[j]
    BY <1>7, <2>2
  <2>4. M = Append(K, <<>>) /\ K \in Seq(Uris)
    <3>1. text \o u \in Seq(Characters) /\ text \o line = Append(text \o u, "\n")
      <4>1. \A s, y \in Seq(Characters) : \A x \in Characters :
               s \o Append(y, x) = Append(s \o y, x)
        BY AppendTo
      <4>2. text \o Append(u, "\n") = Append(text \o u, "\n") BY <1>1, <1>2, <4>1, Zenon
      <4>3. text \o u \in Seq(Characters) BY <1>2, JoinIn, Zenon
      <4> QED BY <4>2, <4>3 DEF line
    <3>2. /\ Lines(text \o u) \in Seq(Uris) /\ Lines(text \o u) # <<>>
          /\ M = Extended(Lines(text \o u), "\n")
      BY <1>1, <3>1, LinesAre DEF Uris
    <3>3. M = Append(Lines(text \o u), <<>>)
      BY <1>1, <3>2, ExtendedIs DEF Uris
    <3> QED BY <2>2, <3>2, <3>3
  <2> HIDE DEF K, M
  <2>5. Len(M) = N + 1 /\ M[N + 1] = <<>> /\ \A j \in 1 .. N : M[j] = K[j]
    BY <2>3, <2>4
  <2>6. StartsWell(<<>>)
    BY DEF StartsWell
  <2>7. ASSUME NEW j \in 1 .. N PROVE StartsWell(M[j]) /\ \E k \in 1 .. w + 1 : EndsIn(M[j], g[k])
    <3>1. CASE j = N
      <4>1. EndsIn(M[j], g[w + 1])
        <5>1. L[N] \in Uris /\ M[j] = L[N] \o g[w + 1]
          BY <1>5, <2>3, <2>5, <3>1 DEF u, Uris
        <5> QED BY <5>1 DEF EndsIn
      <4>2. StartsWell(M[j]) BY <2>3, <2>5, <3>1
      <4>3. w + 1 \in 1 .. w + 1 OBVIOUS
      <4> QED BY <4>1, <4>2, <4>3
    <3>2. CASE j # N
      <4>1. j \in 1 .. N - 1 /\ M[j] = L[j] BY <1>5, <2>3, <2>5, <3>2
      <4>2. \A k \in 1 .. w : k \in 1 .. w + 1 OBVIOUS
      <4> QED BY <1>6, <4>1, <4>2 DEF Holds, N
    <3> QED BY <3>1, <3>2
  <2>8. ASSUME NEW k \in 1 .. w + 1, k \notin c, k - 1 \notin c PROVE \E j \in 1 .. N : M[j] = g[k]
    <3>1. CASE k = w + 1
      <4>1. w \notin c BY <2>8, <3>1
      <4>2. L[N] = <<>> BY <1>6, <4>1 DEF Holds, N
      <4>3. L[N] \o u = u BY <1>3, <4>2
      <4>4. N \in 1 .. N
        <5>1. PICK m \in Nat : m = N BY <1>5
        <5>2. m \in 1 .. m BY <1>5, <5>1
        <5> QED BY <5>1, <5>2
      <4>5. M[N] = K[N] BY <2>5, <4>4
      <4>6. K[N] = u BY <2>3, <4>3
      <4> QED BY <3>1, <4>4, <4>5, <4>6 DEF u
    <3>2. CASE k # w + 1
      <4>1. k \in 1 .. w BY <3>2
      <4>2. PICK j \in 1 .. N - 1 : L[j] = g[k] BY <1>6, <2>8, <4>1 DEF Holds, N
      <4>3. j \in 1 .. N BY <1>5
      <4>4. M[j] = g[k] BY <2>3, <2>5, <4>2, <4>3
      <4> QED BY <4>3, <4>4
    <3> QED BY <3>1, <3>2
  <2>9. ASSUME c = {} PROVE N = w + 1 /\ \A j \in 1 .. w + 1 : M[j] = g[j]
    <3>1. N = w + 1 /\ L[N] = <<>> /\ \A j \in 1 .. w : L[j] = g[j]
      BY <1>6, <2>9 DEF Holds, N
    <3>2. L[N] \o u = u BY <1>3, <3>1
    <3>3. ASSUME NEW j \in 1 .. w + 1 PROVE M[j] = g[j]
      <4>1. CASE j = w + 1
        BY <1>5, <2>3, <2>5, <3>1, <3>2, <4>1 DEF u
      <4>2. CASE j # w + 1
        <5>1. j \in 1 .. w /\ j \in 1 .. N /\ j \in 1 .. N - 1 BY <3>1, <4>2
        <5> QED BY <2>3, <2>5, <3>1, <5>1
      <4> QED BY <4>1, <4>2
    <3> QED BY <3>1, <3>3
  <2>10. Len(M) - 1 = N
    BY <1>5, <2>5
  <2>11. Holds(M, g, w + 1, c)
    BY <2>5, <2>6, <2>7, <2>8, <2>9, <2>10 DEF Holds
  <2> QED BY <1>9, <2>1, <2>11 DEF M, line, u
<1> QED BY <1>8, <1>9

-----------------------------------------------------------------------------
(* What the next daemon makes of a text. *)

LEMMA RangeIsSeq ==
    ASSUME NEW C, NEW n \in Nat, NEW r, r = [k \in 1 .. n |-> r[k]], \A k \in 1 .. n : r[k] \in C
    PROVE  r \in Seq(C) /\ Len(r) = n
<1>1. r \in [1 .. n -> C]
  OBVIOUS
<1>2. r \in Seq(C)
  BY <1>1, SeqDef
<1>3. DOMAIN r = 1 .. n
  BY <1>1
<1> QED BY <1>2, <1>3, LenProperties

LEMMA LoadedIs ==
    ASSUME NEW text \in Seq(Characters), NEW r \in Loaded(text)
    PROVE  LET t == Tracks(Lines(text))
           IN  /\ t \in Seq(Uris) /\ Len(t) \in Nat
               /\ \A k \in 1 .. Len(t) : IsTrack(t[k])
               /\ Len(r) = Len(t) /\ DOMAIN r = 1 .. Len(t)
               /\ \A k \in 1 .. Len(t) : r[k] \in UriNew(t[k])
               /\ Tracked(r)
<1> DEFINE t == Tracks(Lines(text))
<1>1. t \in Seq(Uris)
  BY LinesAre, TracksAre DEF Uris
<1>2. /\ \A k \in DOMAIN t : IsTrack(t[k]) /\ r[k] \in UriNew(t[k])
      /\ r = [k \in DOMAIN t |-> r[k]]
  BY DEF Loaded
<1> HIDE DEF t
<1>3. Len(t) \in Nat /\ DOMAIN t = 1 .. Len(t) /\ \A k \in 1 .. Len(t) : t[k] \in Uris
  BY <1>1
<1>4. PICK n \in Nat : n = Len(t)
  BY <1>3
<1>5. /\ \A k \in 1 .. n : IsTrack(t[k]) /\ t[k] \in Uris
      /\ r = [k \in 1 .. n |-> r[k]]
  BY <1>2, <1>3, <1>4
<1>6. \A k \in 1 .. n : r[k] \in UriNew(t[k])
  BY <1>2, <1>3, <1>4
<1>8. \A k \in 1 .. n : r[k] \in Uris /\ UriOk(r[k])
  BY <1>5, <1>6, UriNewIs
<1>9. r \in Seq(Uris) /\ Len(r) = n
  <2>1. r = [k \in 1 .. n |-> r[k]] BY <1>5
  <2>2. \A k \in 1 .. n : r[k] \in Uris BY <1>6, <1>8
  <2> HIDE DEF Uris
  <2> QED BY <2>1, <2>2, RangeIsSeq
<1>10. Tracked(r)
  BY <1>6, <1>8, <1>9 DEF Tracked
<1> QED BY <1>1, <1>3, <1>4, <1>5, <1>6, <1>9, <1>10 DEF t

-----------------------------------------------------------------------------
(* FileInv is inductive. *)

LEMMA NoneTracked == <<>> \in Seq(Uris) /\ Tracked(<<>>) /\ Len(<<>>) = 0
BY DEF Tracked

LEMMA FileFirst ==
    ASSUME PFInit
    PROVE  FileInv
<1>1. <<>> \in Seq(Characters) /\ 0 \in 0 .. Len(<<>>) /\ {} \subseteq 1 .. 0
  OBVIOUS
<1>2. Holds(Lines(<<>>), goal, 0, {})
  BY HoldsAtFirst
<1> QED BY <1>1, <1>2, NoneTracked DEF PFInit, FileInv, PFTypeOK

LEMMA FileSaved ==
    ASSUME FileInv, NEW state \in {"saving", "leaving"}, PlaylistSave(state)
    PROVE  FileInv'
<1>1. <<>> \in Seq(Characters) /\ {} \subseteq 1 .. 0
  OBVIOUS
<1>2. 0 \in 0 .. Len(vec)
  <2>1. Len(vec) \in Nat
    BY DEF FileInv, Tracked
  <2> QED BY <2>1
<1>3. Holds(Lines(<<>>), vec, 0, {})
  BY HoldsAtFirst
<1>4. /\ vec' = vec /\ goal' = vec /\ m3u' = <<>> /\ written' = 0 /\ cuts' = {}
      /\ daemon' = state
  BY DEF PlaylistSave
<1>5. Tracked(vec) /\ vec \in Seq(Uris)
  BY DEF FileInv, Tracked
<1>6. PFTypeOK'
  BY <1>1, <1>2, <1>4, <1>5 DEF PFTypeOK
<1>7. Tracked(vec') /\ Tracked(goal') /\ Holds(Lines(m3u'), goal', written', cuts')
  BY <1>3, <1>4, <1>5
<1> QED BY <1>6, <1>7 DEF FileInv

LEMMA FileWritten ==
    ASSUME FileInv, WriteLine
    PROVE  FileInv'
<1> DEFINE line == Append(goal[written + 1], "\n")
<1>1. PICK n \in 0 .. Len(line) :
         /\ m3u' = m3u \o SubSeq(line, 1, n)
         /\ cuts' = IF n < Len(line) THEN cuts \cup {written + 1} ELSE cuts
  BY DEF WriteLine, Dprintf
<1>2. /\ written < Len(goal) /\ written' = written + 1
      /\ vec' = vec /\ daemon' = daemon /\ goal' = goal
  BY DEF WriteLine, Dprintf
<1>3. /\ PFTypeOK /\ Tracked(vec) /\ Tracked(goal)
      /\ Plain(goal) => Holds(Lines(m3u), goal, written, cuts)
  BY DEF FileInv
<1>4. /\ Len(goal) \in Nat /\ written \in Nat /\ cuts \in SUBSET (1 .. written)
      /\ m3u \in Seq(Characters) /\ goal \in Seq(Uris) /\ vec \in Seq(Uris)
  BY <1>3 DEF PFTypeOK
<1>5. line \in Seq(Characters)
  <2>1. "\n" \in Characters
    BY DEF Characters
  <2>2. goal[written + 1] \in Seq(Characters)
    BY <1>2, <1>4 DEF Uris
  <2> QED BY <2>1, <2>2
<1> HIDE DEF line
<1>6. m3u' \in Seq(Characters)
  <2>1. SubSeq(line, 1, n) \in Seq(Characters)
    BY <1>5
  <2> QED BY <1>1, <1>4, <2>1, JoinIn, Zenon
<1>7. written' \in 0 .. Len(goal) /\ cuts' \subseteq 1 .. written'
  BY <1>1, <1>2, <1>4
<1>8. PFTypeOK'
  BY <1>2, <1>3, <1>6, <1>7 DEF PFTypeOK
<1>9. ASSUME Plain(goal) PROVE Holds(Lines(m3u'), goal', written', cuts')
  BY <1>1, <1>2, <1>3, <1>4, <1>9, HoldsOn DEF line
<1>10. Plain(goal)' <=> Plain(goal)
  BY <1>2 DEF Plain
<1>11. Tracked(vec)' /\ Tracked(goal)'
  BY <1>2, <1>3
<1> QED BY <1>8, <1>9, <1>10, <1>11 DEF FileInv

LEMMA FileKept ==
    ASSUME FileInv, UNCHANGED <<m3u, goal, written, cuts>>,
           daemon' \in {"running", "saving", "leaving", "gone"}, Tracked(vec')
    PROVE  FileInv'
<1>1. vec' \in Seq(Uris)
  BY DEF Tracked
<1>2. PFTypeOK'
  BY <1>1 DEF FileInv, PFTypeOK
<1> QED BY <1>2 DEF FileInv, Plain

LEMMA FileNext ==
    ASSUME FileInv, [PFNext]_pfvars
    PROVE  FileInv'
<1>1. /\ Tracked(vec) /\ daemon \in {"running", "saving", "leaving", "gone"}
      /\ m3u \in Seq(Characters)
  BY DEF FileInv, PFTypeOK
<1>2. CASE Commands
  <2>1. Tracked(vec')
    BY <1>2, PlaylistsAssumption DEF Commands, Tracked
  <2> QED BY <1>1, <1>2, <2>1, FileKept DEF Commands, fileVars
<1>3. CASE PlaylistSave("saving") \/ PlaylistSave("leaving")
  BY <1>3, FileSaved
<1>4. CASE WriteLine
  BY <1>4, FileWritten
<1>5. CASE Close
  BY <1>1, <1>5, FileKept DEF Close, fileVars
<1>6. CASE Die
  BY <1>1, <1>6, FileKept DEF Die, fileVars
<1>7. CASE NextDaemon
  <2>1. vec' \in Loaded(m3u) \/ vec' = <<>>
    BY <1>7 DEF NextDaemon
  <2>2. Tracked(vec')
    BY <1>1, <2>1, LoadedIs, NoneTracked
  <2> QED BY <1>1, <1>7, <2>2, FileKept DEF NextDaemon, fileVars
<1>8. CASE UNCHANGED pfvars
  BY <1>1, <1>8, FileKept DEF pfvars, fileVars
<1> QED BY <1>2, <1>3, <1>4, <1>5, <1>6, <1>7, <1>8 DEF PFNext
-----------------------------------------------------------------------------
(* What FileInv says of the tracks that are loaded. *)

LEMMA EmptyLine == Trim(<<>>) = <<>> /\ ~ Counts(Trim(<<>>))
<1>1. {k \in DOMAIN <<>> : (<<>>)[k] # " "} = {} /\ Len(<<>>) = 0
  OBVIOUS
<1>2. Trim(<<>>) = <<>>
  BY <1>1 DEF Trim
<1> QED BY <1>1, <1>2 DEF Counts

LEMMA JoinAt ==
    ASSUME NEW C
    PROVE  \A s, u \in Seq(C) :
              /\ Len(s) \in Nat /\ Len(u) \in Nat /\ Len(s \o u) = Len(s) + Len(u)
              /\ \A k \in 1 .. Len(s) : (s \o u)[k] = s[k]
              /\ \A k \in 1 .. Len(u) : (s \o u)[Len(s) + k] = u[k]
OBVIOUS

(* A line that begins as a track does and ends in a plain one. *)
LEMMA WholeLine ==
    ASSUME NEW p \in Uris, NEW u \in Uris, UriOk(u), IsPlain(u), StartsWell(p \o u)
    PROVE  Trim(p \o u) = p \o u /\ Counts(p \o u)
<1> DEFINE l == p \o u
<1>1. Len(u) \in Nat /\ Len(u) > 1 /\ u[Len(u)] # " "
  <2>1. Len(u) > 1 /\ u[Len(u)] # " " BY PlainIs
  <2>2. Len(u) \in Nat BY DEF Uris
  <2> QED BY <2>1, <2>2
<1>2. Len(p) \in Nat /\ l \in Uris /\ Len(l) = Len(p) + Len(u)
  BY DEF Uris
<1>3. l[Len(l)] = u[Len(u)]
  <2>1. \A k \in 1 .. Len(u) : l[Len(p) + k] = u[k]
    BY JoinAt DEF Uris
  <2>2. Len(u) \in 1 .. Len(u)
    <3>1. PICK m \in Nat : m = Len(u) BY <1>1
    <3>2. m > 1 BY <1>1, <3>1
    <3>3. m \in 1 .. m BY <3>2
    <3> QED BY <3>1, <3>3
  <2> QED BY <1>2, <2>1, <2>2
<1>4. StartsWell(l)
  OBVIOUS
<1> HIDE DEF l
<1>5. Len(l) > 1 /\ l # <<>>
  <2>1. PICK m \in Nat : m = Len(u) BY <1>1
  <2>2. PICK n \in Nat : n = Len(p) BY <1>2
  <2>3. Len(l) = n + m /\ m > 1 BY <1>1, <1>2, <2>1, <2>2
  <2>4. Len(l) > 1 /\ Len(l) # 0 BY <2>3
  <2> QED BY <2>4
<1>6. l[1] \notin {" ", "#"}
  BY <1>4, <1>5 DEF StartsWell
<1>7. Trim(l) = l
  BY <1>1, <1>2, <1>3, <1>5, <1>6, TrimIs DEF Uris
<1> QED BY <1>5, <1>6, <1>7 DEF Counts, l

LEMMA PlainLine ==
    ASSUME NEW u \in Uris, UriOk(u), IsPlain(u)
    PROVE  Trim(u) = u /\ Counts(u) /\ UriNew(u) = {u}
<1>1. <<>> \in Uris /\ <<>> \o u = u
  BY DEF Uris
<1>2. StartsWell(u)
  BY PlainIs DEF StartsWell
<1>3. Trim(u) = u /\ Counts(u)
  BY <1>1, <1>2, WholeLine
<1>4. UriNew(u) = {u}
  BY DEF UriNew
<1> QED BY <1>3, <1>4

LEMMA SavedAreLoaded ==
    ASSUME FileInv
    PROVE  SavedIsLoaded
<1> SUFFICES ASSUME cuts = {}, Plain(goal) PROVE Loaded(m3u) = {SubSeq(goal, 1, written)}
  BY DEF SavedIsLoaded
<1> DEFINE L == Lines(m3u)
           s == SubSeq(goal, 1, written)
<1>1. m3u \in Seq(Characters) /\ Tracked(goal) /\ written \in 0 .. Len(goal)
  BY DEF FileInv, PFTypeOK
<1>2. L \in Seq(Uris)
  BY <1>1, LinesAre DEF Uris
<1>3. Holds(L, goal, written, {})
  BY DEF FileInv
<1>4. goal \in Seq(Uris) /\ \A k \in 1 .. Len(goal) : UriOk(goal[k]) /\ IsPlain(goal[k])
  BY <1>1 DEF Tracked, Plain
<1>5. /\ s \in Seq(Uris) /\ Len(s) = written /\ written \in Nat
      /\ \A j \in 1 .. written : s[j] = goal[j] /\ j \in 1 .. Len(goal) /\ goal[j] \in Uris
  <2>1. PartsOf(Uris, goal, <<>>)
    <3>1. <<>> \in Uris BY DEF Uris
    <3> QED BY <1>4, <3>1, PartsAre, Zenon
  <2>2. s \in Seq(Uris) /\ Len(s) = written /\ \A j \in 1 .. written : s[j] = goal[j]
    BY <1>1, <2>1 DEF PartsOf
  <2> HIDE DEF s
  <2>3. PICK m \in Nat : m = Len(goal) BY <1>4
  <2>4. written \in Nat /\ \A j \in 1 .. written : j \in 1 .. m BY <1>1, <2>3
  <2>5. \A j \in 1 .. m : goal[j] \in Uris BY <1>4, <2>3
  <2> QED BY <2>2, <2>3, <2>4, <2>5
<1> HIDE DEF L, s
<1>6. Len(L) = written + 1 /\ L[written + 1] = <<>> /\ \A j \in 1 .. written : L[j] = s[j]
  BY <1>3, <1>5 DEF Holds
<1>7. L = Append(s, <<>>)
  BY <1>2, <1>5, <1>6
<1>8. \A j \in 1 .. written : /\ Trim(s[j]) = s[j] /\ Counts(s[j]) /\ UriNew(s[j]) = {s[j]}
                              /\ IsTrack(s[j])
  BY <1>4, <1>5, PlainLine DEF IsTrack
<1>9. Tracks(s) = s
  BY <1>5, <1>8, TracksSame DEF Uris
<1>10. Tracks(L) = s
  <2>1. \A l \in Uris : Tracks(Append(s, l)) =
           IF Counts(Trim(l)) THEN Append(Tracks(s), Trim(l)) ELSE Tracks(s)
    BY <1>5, TracksAre DEF Uris
  <2>2. <<>> \in Uris
    BY DEF Uris
  <2>3. Tracks(Append(s, <<>>)) = Tracks(s)
    BY <2>1, <2>2, EmptyLine
  <2> QED BY <1>7, <1>9, <2>3
<1>11. DOMAIN s = 1 .. written /\ s = [j \in 1 .. written |-> s[j]]
  BY <1>5
<1>12. ASSUME NEW r \in Loaded(m3u) PROVE r = s
  <2>1. /\ r = [j \in 1 .. written |-> r[j]]
        /\ \A j \in 1 .. written : r[j] \in UriNew(s[j])
    BY <1>10, <1>11 DEF Loaded, L
  <2>2. \A j \in 1 .. written : r[j] = s[j]
    BY <1>8, <2>1
  <2> QED BY <1>11, <2>1, <2>2
<1>13. s \in Loaded(m3u)
  <2>1. s \in [1 .. written -> UNION {UriNew(s[k]) : k \in 1 .. written}]
    BY <1>8, <1>11
  <2> QED BY <1>8, <1>10, <1>11, <2>1 DEF Loaded, L
<1> QED BY <1>12, <1>13 DEF s

LEMMA DamageBounded ==
    ASSUME FileInv
    PROVE  DamageIsBounded
<1> SUFFICES ASSUME Plain(goal) PROVE DamageIsBounded
  BY DEF DamageIsBounded
<1> DEFINE L == Lines(m3u)
           N == Len(L)
           t == Tracks(L)
<1>1. m3u \in Seq(Characters) /\ Tracked(goal) /\ written \in 0 .. Len(goal)
  BY DEF FileInv, PFTypeOK
<1>2. L \in Seq(Uris) /\ N \in Nat /\ \A j \in 1 .. N : L[j] \in Uris
  <2>1. L \in Seq(Uris) BY <1>1, LinesAre DEF Uris
  <2> HIDE DEF L
  <2> QED BY <2>1
<1>3. Holds(L, goal, written, cuts)
  BY DEF FileInv
<1>4. \A k \in 1 .. written : goal[k] \in Uris /\ UriOk(goal[k]) /\ IsPlain(goal[k])
  <2>1. PICK m \in Nat : m = Len(goal) BY <1>1 DEF Tracked
  <2>2. \A k \in 1 .. m : goal[k] \in Uris /\ UriOk(goal[k]) /\ IsPlain(goal[k])
    BY <1>1, <2>1 DEF Tracked, Plain
  <2>3. \A k \in 1 .. written : k \in 1 .. m BY <1>1, <2>1
  <2> QED BY <2>2, <2>3
<1>5. /\ t \in Seq(Uris)
      /\ \A i \in 1 .. Len(t) : Counts(t[i]) /\ \E j \in 1 .. N : t[i] = Trim(L[j])
      /\ \A j \in 1 .. N : Counts(Trim(L[j])) => \E i \in 1 .. Len(t) : t[i] = Trim(L[j])
  BY <1>2, TracksAre, TracksFrom DEF Uris
<1>6. \A j \in 1 .. N : \E off : IsLine(m3u, L[j], off, j < N)
  BY <1>1, LinesInText
<1> HIDE DEF L, t
<1>7. DOMAIN t = 1 .. Len(t)
  BY <1>5
(* The playlist is readable, *)
<1>8. ASSUME Loaded(m3u) = {}, written \notin cuts,
             Places(FileScheme, m3u) = Places(Append(FileScheme, "/"), m3u)
      PROVE  FALSE
  <2>1. PICK i \in 1 .. Len(t) : ~ UriOk(t[i])
    <3>1. ASSUME \A i \in 1 .. Len(t) : UriOk(t[i])
          PROVE  t \in Loaded(m3u)
      <4>1. \A i \in DOMAIN t : IsTrack(t[i]) /\ UriNew(t[i]) = {t[i]}
        BY <1>7, <3>1 DEF IsTrack, UriNew
      <4>2. t = [i \in DOMAIN t |-> t[i]]
        BY <1>5
      <4>3. t \in [DOMAIN t -> UNION {UriNew(t[k]) : k \in DOMAIN t}]
        BY <4>1, <4>2
      <4> QED BY <4>1, <4>3 DEF Loaded, t, L
    <3> QED BY <1>8, <3>1
  <2>2. PICK j \in 1 .. N : Counts(t[i]) /\ t[i] = Trim(L[j])
    BY <1>5
  <2>3. L[N] = <<>>
    BY <1>3, <1>8 DEF Holds, N
  <2>4. j # N /\ j < N /\ j \in 1 .. N - 1
    <3>1. j # N BY <2>2, <2>3, EmptyLine
    <3> HIDE DEF N
    <3> QED BY <1>2, <3>1
  <2>5. StartsWell(L[j]) /\ \E k \in 1 .. written : EndsIn(L[j], goal[k])
    BY <1>3, <2>4 DEF Holds, N
  <2>6. PICK k \in 1 .. written : EndsIn(L[j], goal[k])
    BY <2>5
  <2>7. PICK p \in Uris : L[j] = p \o goal[k]
    BY <2>6 DEF EndsIn
  <2>8. goal[k] \in Uris /\ UriOk(goal[k]) /\ IsPlain(goal[k])
    BY <1>4
  <2>9. t[i] = L[j]
    BY <2>2, <2>5, <2>7, <2>8, WholeLine
  <2>10. \E off : IsLine(m3u, L[j], off, TRUE)
    <3>1. PICK off : IsLine(m3u, L[j], off, j < N) BY <1>6
    <3>2. (j < N) = TRUE BY <2>4
    <3> QED BY <3>1, <3>2
  <2>11. L[j] \in Seq(Characters) /\ p \in Seq(Characters) /\ goal[k] \in Seq(Characters)
    BY <1>2, <2>8 DEF Uris
  <2>12. \A q \in Places(FileScheme, L[j]) : q + 3 <= Len(L[j]) /\ L[j][q + 3] = "/"
    BY <1>1, <1>8, <2>10, <2>11, SlashInLine
  <2>13. UriOk(L[j])
    BY <2>7, <2>8, <2>11, <2>12, JoinedIsUri
  <2> QED BY <2>1, <2>9, <2>13
(* and a track is in it if its write and the one before were whole. *)
<1>9. ASSUME NEW r \in Loaded(m3u), NEW k \in 1 .. written, k \notin cuts, k - 1 \notin cuts
      PROVE  goal[k] \in ToSet(r)
  <2>1. PICK j \in 1 .. N - 1 : L[j] = goal[k]
    BY <1>3, <1>9 DEF Holds, N
  <2>2. Trim(L[j]) = goal[k] /\ Counts(goal[k]) /\ UriNew(goal[k]) = {goal[k]}
    BY <1>4, <2>1, PlainLine
  <2>3. j \in 1 .. N
    <3> HIDE DEF N
    <3> QED BY <1>2
  <2>4. PICK i \in 1 .. Len(t) : t[i] = goal[k]
    BY <1>5, <2>2, <2>3
  <2>5. DOMAIN r = 1 .. Len(t) /\ r[i] \in UriNew(t[i])
    BY <1>1, LoadedIs DEF t, L
  <2> QED BY <2>2, <2>4, <2>5 DEF ToSet
<1> QED BY <1>8, <1>9 DEF DamageIsBounded

LEMMA TrimFrom ==
    ASSUME NEW C
    PROVE  \A l \in Seq(C) : \A k \in 1 .. Len(Trim(l)) : \E i \in 1 .. Len(l) : Trim(l)[k] = l[i]
<1> TAKE l \in Seq(C)
<1>1. /\ Trim(l) \in Seq(C)
      /\ \A k \in 1 .. Len(Trim(l)) : \E i \in 1 .. Len(l) : Trim(l)[k] = l[i]
      /\ Trim(l) # <<>> => Trim(l)[1] # " " /\ Trim(l)[Len(Trim(l))] # " "
      /\ l # <<>> /\ l[1] # " " /\ l[Len(l)] # " " => Trim(l) = l
  BY TrimIs, Zenon
<1> QED BY <1>1, Zenon

(* The URI of a file is plain if its path is. *)
LEMMA PlainPath ==
    ASSUME NEW l \in Seq(Characters), PathIsAbsolute(l), IsPlain(l)
    PROVE  IsPlain(FileScheme \o l)
<1> DEFINE x == FileScheme \o l
<1>11. {"f", "ile:/", "/"} \subseteq Characters
  BY DEF Characters
<1>2. /\ FileScheme \in Seq(Characters) /\ Len(FileScheme) = 3
      /\ FileScheme[1] = "f" /\ FileScheme[2] = "ile:/" /\ FileScheme[3] = "/"
  BY <1>11 DEF FileScheme
<1>3. l # <<>> /\ Len(l) \in Nat /\ Len(l) >= 1
  <2>1. l # <<>> BY DEF PathIsAbsolute
  <2>2. Len(l) \in Nat /\ Len(l) # 0 BY <2>1, EmptySeq
  <2> QED BY <2>2
<1>1. l[Len(l)] # " " /\ \A k \in 1 .. Len(l) : l[k] # "\n"
  <2>1. DOMAIN l = 1 .. Len(l) OBVIOUS
  <2>2. \A k \in 1 .. Len(l) : l[k] \in ToSet(l) BY <2>1 DEF ToSet
  <2> QED BY <2>2 DEF IsPlain, Last
<1>4. Len(x) = 3 + Len(l) /\ \A k \in 1 .. Len(x) : x[k] = IF k <= 3 THEN FileScheme[k] ELSE l[k - 3]
  <2> DEFINE f == FileScheme
  <2>1. /\ Len(f \o l) = Len(f) + Len(l)
        /\ \A k \in 1 .. Len(f) : (f \o l)[k] = f[k]
        /\ \A k \in 1 .. Len(l) : (f \o l)[Len(f) + k] = l[k]
    <3>1. f \in Seq(Characters) BY <1>2
    <3> HIDE DEF f
    <3> QED BY <3>1, JoinAt
  <2> HIDE DEF f
  <2>2. Len(f) = 3 BY <1>2 DEF f
  <2>3. PICK m \in Nat : m = Len(l) BY <1>3
  <2>4. ASSUME NEW k \in 1 .. m + 3 PROVE (f \o l)[k] = IF k <= 3 THEN f[k] ELSE l[k - 3]
    <3>1. CASE k <= 3
      <4>1. k \in 1 .. 3 BY <3>1
      <4> QED BY <2>1, <2>2, <3>1, <4>1
    <3>2. CASE ~ (k <= 3)
      <4>1. k - 3 \in 1 .. m /\ 3 + (k - 3) = k BY <3>2
      <4> QED BY <2>1, <2>2, <2>3, <3>2, <4>1
    <3> QED BY <3>1, <3>2
  <2>5. Len(f \o l) = m + 3 BY <2>1, <2>2, <2>3
  <2> QED BY <2>3, <2>4, <2>5 DEF f
<1> HIDE DEF x
<1>5. x[1] = "f" /\ x[Len(x)] = l[Len(l)]
  <2>1. PICK m \in Nat : m = Len(l) BY <1>3
  <2>2. x[1] = "f" BY <1>2, <1>4, <2>1
  <2>3. x[m + 3] = l[m] BY <1>3, <1>4, <2>1
  <2> QED BY <1>4, <2>1, <2>2, <2>3
<1>6. \A k \in 1 .. Len(x) : x[k] # "\n"
  <2>1. PICK m \in Nat : m = Len(l) BY <1>3
  <2>2. ASSUME NEW k \in 1 .. m + 3 PROVE x[k] # "\n"
    <3>1. CASE k <= 3
      <4>1. x[k] = FileScheme[k] /\ (k = 1 \/ k = 2 \/ k = 3) BY <1>4, <2>1, <3>1
      <4> QED BY <1>2, <4>1
    <3>2. CASE ~ (k <= 3)
      <4>1. x[k] = l[k - 3] /\ k - 3 \in 1 .. m BY <1>4, <2>1, <3>2
      <4> QED BY <1>1, <2>1, <4>1
    <3> QED BY <3>1, <3>2
  <2>3. Len(x) = m + 3 BY <1>4, <2>1
  <2> QED BY <2>2, <2>3
<1>7. Len(x) = Len(l) + 3 /\ Len(x) \in Nat /\ DOMAIN x = 1 .. Len(x)
  <2>1. PICK m \in Nat : m = Len(l) BY <1>3
  <2>2. x \in Seq(Characters) BY <1>2 DEF x
  <2>3. Len(x) = m + 3 BY <1>4, <2>1
  <2> QED BY <2>1, <2>2, <2>3
<1>8. "\n" \notin ToSet(x)
  BY <1>6, <1>7 DEF ToSet
<1>9. x[1] \notin {" ", "#"} /\ x[Len(x)] # " "
  BY <1>1, <1>5
<1> QED BY <1>8, <1>9 DEF IsPlain, Last, x

LEMMA LoadedPlain ==
    ASSUME FileInv
    PROVE  LoadedIsPlain
<1> SUFFICES ASSUME NEW r \in Loaded(m3u), NEW i \in DOMAIN r, ~ IsPlain(r[i])
             PROVE  \E f \in Paths : ~ IsPlain(f.name) /\ r[i] = FileScheme \o f.name
  BY DEF LoadedIsPlain
<1> DEFINE L == Lines(m3u)
           t == Tracks(L)
           l == t[i]
<1>1. m3u \in Seq(Characters)
  BY DEF FileInv, PFTypeOK
<1>2. /\ t \in Seq(Uris) /\ i \in 1 .. Len(t) /\ r[i] \in UriNew(l) /\ IsTrack(l)
      /\ Tracked(r)
  BY <1>1, LoadedIs
<1>3. L \in Seq(Uris)
  BY <1>1, LinesAre DEF Uris
<1>4. Counts(l) /\ \E j \in 1 .. Len(L) : l = Trim(L[j])
  BY <1>2, <1>3, TracksFrom DEF Uris
<1>5. PICK j \in 1 .. Len(L) : l = Trim(L[j])
  BY <1>4
<1>6. PICK off : IsLine(m3u, L[j], off, j < Len(L))
  BY <1>1, LinesInText
<1> HIDE DEF t, L
<1>7. l \in Uris /\ L[j] \in Uris
  BY <1>2, <1>3
<1>8. \A k \in 1 .. Len(L[j]) : L[j][k] # "\n"
  BY <1>6 DEF IsLine
<1> HIDE DEF l
<1>9. \A k \in 1 .. Len(l) : l[k] # "\n"
  <2>1. \A k \in 1 .. Len(l) : \E h \in 1 .. Len(L[j]) : l[k] = L[j][h]
    <3>1. \A y \in Uris : \A k \in 1 .. Len(Trim(y)) :
             \E h \in 1 .. Len(y) : Trim(y)[k] = y[h]
      BY TrimFrom DEF Uris
    <3> QED BY <1>5, <1>7, <3>1, Zenon
  <2> QED BY <1>8, <2>1
<1>10. Len(l) > 1 /\ l[1] # "#" /\ Len(l) \in Nat /\ l # <<>>
  <2>1. Len(l) > 1 /\ l[1] # "#" BY <1>4 DEF Counts
  <2> QED BY <1>7, <2>1 DEF Uris
<1>11. l[1] # " " /\ l[Len(l)] # " "
  BY <1>5, <1>7, <1>10, TrimIs DEF Uris
<1>12. r[i] \in Uris /\ UriOk(r[i])
  BY <1>2 DEF Tracked
<1>13. CASE UriOk(l)
  <2>1. r[i] = l BY <1>2, <1>13 DEF UriNew
  <2> QED BY <1>9, <1>10, <1>11, <1>12, <2>1, PlainIs
<1>14. CASE ~ UriOk(l)
  <2>1. PICK f \in Paths : r[i] = FileScheme \o f.name
    BY <1>2, <1>14 DEF UriNew, RealPath
  <2>2. f.name \in Seq(Characters) /\ PathIsAbsolute(f.name)
    BY PathsAssumption
  <2>3. ~ IsPlain(f.name)
    BY <2>1, <2>2, PlainPath
  <2> QED BY <2>1, <2>3
<1> QED BY <1>13, <1>14

LEMMA FileAlways == PFSpec => []FileInv
<1>1. PFInit => FileInv
  BY FileFirst
<1>2. FileInv /\ [PFNext]_pfvars => FileInv'
  BY FileNext
<1> QED BY <1>1, <1>2, PTL DEF PFSpec

(* __playlist.m3u is text and a save has written no more than there was to *)
(* write: whatever is saved, cut, killed and loaded.                       *)
THEOREM FileTypeCorrect == PFSpec => []PFTypeOK
<1>1. FileInv => PFTypeOK
  BY DEF FileInv
<1> QED BY <1>1, FileAlways, PTL

(* playlist_save and playlist_load_file: wherever the daemon was killed,   *)
(* the next one finds the tracks that were written, in their order and as  *)
(* they were, provided that no write has failed and that the URIs are      *)
(* plain.                                                                  *)
THEOREM SavedPlaylistIsLoaded == PFSpec => []SavedIsLoaded
<1>1. FileInv => SavedIsLoaded
  BY SavedAreLoaded
<1> QED BY <1>1, FileAlways, PTL

(* A dprintf of playlist_save that fails costs its own track and the next  *)
(* one; the load as a whole fails only after a cut behind "file://" or in  *)
(* the last line.                                                          *)
THEOREM DamageStaysLocal == PFSpec => []DamageIsBounded
<1>1. FileInv => DamageIsBounded
  BY DamageBounded
<1> QED BY <1>1, FileAlways, PTL

(* What playlist_load_file has made of any text is plain, so that the next *)
(* save and load change nothing: but for the lines that were paths and led *)
(* to files whose names are not plain, whatever files there are.           *)
THEOREM LoadedPlaylistIsPlain == PFSpec => []LoadedIsPlain
<1>1. FileInv => LoadedIsPlain
  BY LoadedPlain
<1> QED BY <1>1, FileAlways, PTL


-----------------------------------------------------------------------------
(* Settings: for all ranges, defaults, files and arguments, the            *)
(* configuration is of its types, a running player does what it says, and  *)
(* what has been saved comes back as it was heard, but for what "%.2f"     *)
(* rounds.  IInv is inductive.                                             *)

ConfType(c) ==
    /\ c = [k \in Keys |-> c[k]]
    /\ \A k \in Keys : c[k] \in Value(k)
    /\ c["volume"] \in 0 .. UIntRange - 1

FileType ==
    /\ DOMAIN file \subseteq Keys
    /\ \A k \in DOMAIN file : file[k] \in Value(k)

PlayerType(p) ==
    /\ p = [volume |-> p.volume, pitch |-> p.pitch, speed |-> p.speed,
            repeat |-> p.repeat, shuffle |-> p.shuffle, mute |-> p.mute]
    /\ p.volume \in 0 .. MaxVolume
    /\ \A k \in Floats : p[k] \in Low[k] .. High[k]
    /\ p.repeat \in BOOLEAN /\ p.shuffle \in BOOLEAN /\ p.mute \in BOOLEAN

(* The number that a kept pitch or speed was made of is the one that the   *)
(* file has, but for the rounding.                                         *)
WasRounded(k, r, p) ==
    \E x \in Int : p = SetFloat(k, x) /\ RoundedAlike(r, x)

FileIsKept ==
    /\ DOMAIN file = Keys
    /\ file["volume"] >= 0
    /\ kept.volume = SetVolume(file["volume"])
    /\ \A k \in Floats : WasRounded(k, file[k], kept[k])
    /\ \A k \in Switches : kept[k] = file[k]

IInv ==
    /\ running \in BOOLEAN
    /\ FileType
    /\ ConfType(conf)
    /\ PlayerType(player)
    /\ PlayerMatchesConfig
    /\ kept # Nothing => FileIsKept

-----------------------------------------------------------------------------
(* The smaller and the larger of two numbers, and the clamps made of them. *)

LEMMA SmallerIs ==
    ASSUME NEW a \in Int, NEW b \in Int
    PROVE  Smaller(a, b) = IF a <= b THEN a ELSE b
BY DEF Smaller, Min

LEMMA LargerIs ==
    ASSUME NEW a \in Int, NEW b \in Int
    PROVE  Larger(a, b) = IF a <= b THEN b ELSE a
BY DEF Larger, Max

(* A volume that an unsigned int holds becomes one that the engine takes. *)
LEMMA Volume ==
    ASSUME NEW v \in Int, v >= 0
    PROVE  /\ SetVolume(v) \in 0 .. MaxVolume
           /\ SetVolume(v) = IF v <= MaxVolume THEN v ELSE MaxVolume
<1>1. MaxVolume \in Nat BY SettingsAssumption
<1> QED BY <1>1, SmallerIs DEF SetVolume

LEMMA RangeOfFloat ==
    ASSUME NEW k \in Floats
    PROVE  Low[k] \in Nat /\ High[k] \in Nat /\ Low[k] <= High[k]
BY SettingsAssumption

(* A pitch or a speed becomes one that the engine takes. *)
LEMMA Float ==
    ASSUME NEW k \in Floats, NEW x \in Int
    PROVE  /\ SetFloat(k, x) \in Low[k] .. High[k]
           /\ SetFloat(k, x) = IF x <= Low[k] THEN Low[k]
                               ELSE IF High[k] <= x THEN High[k] ELSE x
<1>0. Low[k] \in Nat /\ High[k] \in Nat /\ Low[k] <= High[k]
  BY RangeOfFloat
<1>1. PICK lo \in Nat, hi \in Nat : lo = Low[k] /\ hi = High[k] /\ lo <= hi
  BY <1>0
<1>2. Larger(x, lo) = (IF x <= lo THEN lo ELSE x) /\ Larger(x, lo) \in Int
  BY LargerIs
<1>3. PICK y \in Int : y = Larger(x, lo) /\ y = IF x <= lo THEN lo ELSE x
  BY <1>2
<1>4. Smaller(y, hi) = IF y <= hi THEN y ELSE hi
  BY SmallerIs
<1>5. SetFloat(k, x) = Smaller(y, hi)
  BY <1>1, <1>3 DEF SetFloat
<1> QED BY <1>1, <1>3, <1>4, <1>5

-----------------------------------------------------------------------------
(* What the file says of a setting. *)

LEMMA Unsigned ==
    ASSUME NEW v \in Int
    PROVE  ToUInt(v) \in 0 .. UIntRange - 1
<1>1. IntMax \in Nat BY SettingsAssumption
<1> QED BY <1>1 DEF ToUInt, UIntRange

LEMMA Signed ==
    ASSUME NEW u \in 0 .. UIntRange - 1
    PROVE  /\ ToInt(u) \in Int
           /\ u <= IntMax => ToInt(u) = u
<1>1. IntMax \in Nat BY SettingsAssumption
<1> QED BY <1>1 DEF ToInt, UIntRange

(* A number that an int holds is not changed by the cut. *)
LEMMA Uncut ==
    ASSUME NEW v \in Int, v >= 0, v <= IntMax
    PROVE  ToInt(ToUInt(v)) = v
<1>1. IntMax \in Nat BY SettingsAssumption
<1>2. ToUInt(v) = v BY <1>1 DEF ToUInt, UIntRange
<1> QED BY <1>1, <1>2 DEF ToInt

LEMMA KeysAre ==
    /\ Keys = {"volume", "keep", "pitch", "speed", "repeat", "shuffle"}
    /\ Value("volume") = Int /\ Value("keep") = BOOLEAN
    /\ \A k \in Floats : k \in Keys /\ Value(k) = Int
    /\ \A k \in Switches : k \in Keys /\ Value(k) = BOOLEAN
BY DEF Keys, Floats, Switches, Value

LEMMA ParsedVolume ==
    ASSUME NEW v \in Int
    PROVE  /\ Parsed("volume", v) \in 0 .. MaxVolume
           /\ v >= 0 /\ v <= IntMax => Parsed("volume", v) = SetVolume(v)
<1>1. MaxVolume \in Nat /\ IntMax \in Nat BY SettingsAssumption
<1>2. ToInt(ToUInt(v)) \in Int BY Unsigned, Signed
<1>3. PICK i \in Int : i = ToInt(ToUInt(v)) BY <1>2
<1>4. Parsed("volume", v) = Larger(Smaller(i, MaxVolume), 0)
  BY <1>3, Zenon DEF Parsed, Floats
<1>5. PICK j \in Int : j = Smaller(i, MaxVolume) /\ j = IF i <= MaxVolume THEN i ELSE MaxVolume
  BY <1>1, SmallerIs
<1>6. Larger(j, 0) = IF j <= 0 THEN 0 ELSE j
  BY LargerIs
<1>7. Parsed("volume", v) = IF j <= 0 THEN 0 ELSE j
  BY <1>4, <1>5, <1>6
<1>8. Parsed("volume", v) \in 0 .. MaxVolume
  BY <1>1, <1>5, <1>7
<1>9. ASSUME v >= 0, v <= IntMax PROVE Parsed("volume", v) = SetVolume(v)
  <2>1. i = v BY <1>3, <1>9, Uncut
  <2> QED BY <1>1, <1>5, <1>7, <1>9, <2>1, Volume
<1> QED BY <1>8, <1>9

LEMMA ParsedFloat ==
    ASSUME NEW k \in Floats, NEW x \in Int
    PROVE  Parsed(k, x) = SetFloat(k, x)
<1>1. PICK lo \in Nat, hi \in Nat : lo = Low[k] /\ hi = High[k] /\ lo <= hi
  BY RangeOfFloat
<1>2. PICK y \in Int : y = Smaller(x, hi) /\ y = IF x <= hi THEN x ELSE hi
  BY SmallerIs
<1>3. Larger(y, lo) = IF y <= lo THEN lo ELSE y
  BY LargerIs
<1>4. Parsed(k, x) = Larger(y, lo)
  <2>1. k # "volume" BY DEF Floats
  <2>2. Parsed(k, x) = Larger(Smaller(x, High[k]), Low[k])
    BY <2>1, Zenon DEF Parsed
  <2> QED BY <1>1, <1>2, <2>2
<1> QED BY <1>1, <1>2, <1>3, <1>4, Float

LEMMA ParsedSwitch ==
    ASSUME NEW k \in Switches \cup {"keep"}, NEW b \in BOOLEAN
    PROVE  Parsed(k, b) = b
<1>1. k # "volume" /\ k \notin Floats BY DEF Floats, Switches
<1> QED BY <1>1, Zenon DEF Parsed

-----------------------------------------------------------------------------
(* Loading and applying a configuration. *)

LEMMA LoadedConf ==
    ASSUME NEW c, ConfType(c), FileType
    PROVE  ConfType(ConfigLoad(c))
<1> DEFINE l == ConfigLoad(c)
<1>1. l = [k \in Keys |-> l[k]]
  BY DEF ConfigLoad
<1>2. \A k \in Keys : l[k] = IF k \in DOMAIN file THEN Parsed(k, file[k]) ELSE c[k]
  BY DEF ConfigLoad
<1>3. l["volume"] \in 0 .. UIntRange - 1
  <2>1. 0 .. MaxVolume \subseteq 0 .. UIntRange - 1
    BY SettingsAssumption DEF UIntRange
  <2>2. CASE "volume" \in DOMAIN file
    <3>1. file["volume"] \in Int BY <2>2, KeysAre DEF FileType
    <3> QED BY <1>2, <2>1, <2>2, <3>1, KeysAre, ParsedVolume
  <2>3. CASE "volume" \notin DOMAIN file
    BY <1>2, <2>3, KeysAre DEF ConfType
  <2> QED BY <2>2, <2>3
<1>4. ASSUME NEW k \in Keys PROVE l[k] \in Value(k)
  <2>1. CASE k = "volume"
    <3>1. IntMax \in Nat BY SettingsAssumption
    <3> QED BY <1>3, <2>1, <3>1, KeysAre DEF UIntRange
  <2>2. CASE k \notin DOMAIN file
    BY <1>2, <2>2 DEF ConfType
  <2>3. CASE k \in DOMAIN file /\ k \in Floats
    <3>1. file[k] \in Int BY <2>3, KeysAre DEF FileType
    <3>2. SetFloat(k, file[k]) \in Low[k] .. High[k] BY <2>3, <3>1, Float
    <3>3. SetFloat(k, file[k]) \in Int BY <2>3, <3>2, RangeOfFloat
    <3> QED BY <1>2, <2>3, <3>1, <3>3, KeysAre, ParsedFloat
  <2>4. CASE k \in DOMAIN file /\ k \in Switches \cup {"keep"}
    <3>1. file[k] \in BOOLEAN BY <2>4, KeysAre DEF FileType
    <3>2. l[k] = file[k] BY <1>2, <2>4, <3>1, ParsedSwitch
    <3> QED BY <2>4, <3>1, <3>2, KeysAre
  <2> QED BY <2>1, <2>2, <2>3, <2>4, KeysAre DEF Floats, Switches
<1> QED BY <1>1, <1>3, <1>4 DEF ConfType

LEMMA AppliedIs ==
    ASSUME NEW c, ConfType(c), NEW m \in BOOLEAN
    PROVE  /\ PlayerType(Applied(c, m))
           /\ Applied(c, m).volume = SetVolume(c["volume"])
           /\ \A k \in Floats : Applied(c, m)[k] = SetFloat(k, c[k])
           /\ \A k \in Switches : Applied(c, m)[k] = c[k]
           /\ Applied(c, m).mute = m
<1> DEFINE p == Applied(c, m)
<1>1. p = [volume |-> p.volume, pitch |-> p.pitch, speed |-> p.speed,
           repeat |-> p.repeat, shuffle |-> p.shuffle, mute |-> p.mute]
  BY DEF Applied
<1>2. p.volume = SetVolume(c["volume"]) /\ p.mute = m
  BY DEF Applied
<1>3. \A k \in Floats : p[k] = SetFloat(k, c[k])
  BY DEF Applied, Floats
<1>4. \A k \in Switches : p[k] = c[k]
  BY DEF Applied, Switches
<1>5. c["volume"] \in Int /\ c["volume"] >= 0
  BY SettingsAssumption DEF ConfType, UIntRange
<1>6. p.volume \in 0 .. MaxVolume
  BY <1>2, <1>5, Volume
<1>7. \A k \in Floats : c[k] \in Int
  BY KeysAre DEF ConfType
<1>8. \A k \in Floats : p[k] \in Low[k] .. High[k]
  BY <1>3, <1>7, Float
<1>9. p.repeat \in BOOLEAN /\ p.shuffle \in BOOLEAN
  <2>1. c["repeat"] \in BOOLEAN /\ c["shuffle"] \in BOOLEAN
    BY KeysAre DEF ConfType, Switches
  <2> QED BY <2>1 DEF Applied
<1>10. PlayerType(p)
  BY <1>1, <1>2, <1>6, <1>8, <1>9 DEF PlayerType
<1> QED BY <1>2, <1>3, <1>4, <1>10

(* A player that agrees with the configuration in every setting is what    *)
(* applying the configuration makes.                                       *)
LEMMA Agrees ==
    ASSUME NEW c, ConfType(c), NEW p, PlayerType(p),
           p.volume = SetVolume(c["volume"]),
           \A k \in Floats : p[k] = SetFloat(k, c[k]),
           \A k \in Switches : p[k] = c[k]
    PROVE  p = Applied(c, p.mute)
<1>1. p.pitch = SetFloat("pitch", c["pitch"]) /\ p.speed = SetFloat("speed", c["speed"])
  BY DEF Floats
<1>2. p.repeat = c["repeat"] /\ p.shuffle = c["shuffle"]
  BY DEF Switches
<1> QED BY <1>1, <1>2 DEF Applied, PlayerType

-----------------------------------------------------------------------------
(* The steps. *)

LEMMA InitSound ==
    Init => IInv
<1> SUFFICES ASSUME Init PROVE IInv
  OBVIOUS
<1>1. FileType
  BY SettingsAssumption DEF Init, FileType
<1>2. ConfType(conf)
  <2>1. 0 .. MaxVolume \subseteq 0 .. UIntRange - 1
    BY SettingsAssumption DEF UIntRange
  <2> QED BY <2>1, SettingsAssumption DEF Init, ConfType
<1>3. PlayerType(player)
  BY <1>2, AppliedIs DEF Init
<1>4. kept = Nothing /\ running = FALSE
  BY DEF Init
<1> QED BY <1>1, <1>2, <1>3, <1>4 DEF IInv, PlayerMatchesConfig

(* One setting is changed in both places. *)
LEMMA ChangesSound ==
    ASSUME IInv, NEW k \in Keys \ {"keep"}, NEW cv \in Value(k), NEW pv,
           Changes(k, cv, pv),
           k = "volume" => cv \in 0 .. UIntRange - 1 /\ pv = SetVolume(cv),
           k \in Floats => pv = SetFloat(k, cv),
           k \in Switches => pv = cv
    PROVE  IInv'
<1>0. /\ running = TRUE /\ running' = TRUE
      /\ conf' = [conf EXCEPT ![k] = cv]
      /\ player' = [player EXCEPT ![k] = pv]
      /\ UNCHANGED <<file, kept>>
  BY DEF Changes, IInv
<1>1. ConfType(conf')
  <2>1. conf' = [q \in Keys |-> conf'[q]]
    BY <1>0 DEF IInv, ConfType
  <2>2. \A q \in Keys : conf'[q] = IF q = k THEN cv ELSE conf[q]
    BY <1>0 DEF IInv, ConfType
  <2>3. \A q \in Keys : conf'[q] \in Value(q)
    BY <2>2 DEF IInv, ConfType
  <2>4. conf'["volume"] \in 0 .. UIntRange - 1
    BY <2>2, KeysAre DEF IInv, ConfType
  <2> QED BY <2>1, <2>3, <2>4 DEF ConfType
<1>2. player = Applied(conf, player.mute) /\ player.mute \in BOOLEAN
  BY <1>0 DEF IInv, PlayerMatchesConfig, PlayerType
<1>3. /\ player.volume = SetVolume(conf["volume"])
      /\ \A q \in Floats : player[q] = SetFloat(q, conf[q])
      /\ \A q \in Switches : player[q] = conf[q]
  BY <1>2, AppliedIs DEF IInv
<1>4. /\ player' = [volume |-> player'.volume, pitch |-> player'.pitch, speed |-> player'.speed,
                    repeat |-> player'.repeat, shuffle |-> player'.shuffle, mute |-> player'.mute]
      /\ \A q \in (Keys \ {"keep"}) \cup {"mute"} : player'[q] = IF q = k THEN pv ELSE player[q]
  BY <1>0, KeysAre DEF IInv, PlayerType
<1>5. \A q \in Keys : conf'[q] = IF q = k THEN cv ELSE conf[q]
  BY <1>0 DEF IInv, ConfType
<1>6. /\ player'.volume = SetVolume(conf'["volume"])
      /\ \A q \in Floats : player'[q] = SetFloat(q, conf'[q])
      /\ \A q \in Switches : player'[q] = conf'[q]
  <2>1. player'.volume = SetVolume(conf'["volume"])
    BY <1>3, <1>4, <1>5, KeysAre
  <2>2. \A q \in Floats : player'[q] = SetFloat(q, conf'[q])
    BY <1>3, <1>4, <1>5, KeysAre DEF Floats
  <2>3. \A q \in Switches : player'[q] = conf'[q]
    BY <1>3, <1>4, <1>5, KeysAre DEF Switches
  <2> QED BY <2>1, <2>2, <2>3
<1>7. PlayerType(player') /\ player' = Applied(conf', player'.mute)
  <2>1. player'.mute \in BOOLEAN
    BY <1>2, <1>4, KeysAre
  <2>2. PICK a : /\ PlayerType(a)
                 /\ a.volume = SetVolume(conf'["volume"])
                 /\ \A q \in Floats : a[q] = SetFloat(q, conf'[q])
                 /\ \A q \in Switches : a[q] = conf'[q]
    BY <1>1, <2>1, AppliedIs
  <2>3. PlayerType(player')
    BY <1>4, <1>6, <2>1, <2>2 DEF PlayerType, Floats, Switches
  <2> QED BY <1>1, <1>6, <2>3, Agrees
<1>8. FileType' /\ (kept' # Nothing => FileIsKept')
  BY <1>0 DEF IInv, FileType, FileIsKept
<1> QED BY <1>0, <1>1, <1>7, <1>8 DEF IInv, PlayerMatchesConfig

LEMMA HandlersSound ==
    ASSUME IInv,
           \/ \E val \in Volumes : HandleVolume(val)
           \/ \E k \in Floats, val \in Numbers : HandleFloat(k, val)
           \/ \E k \in Switches, b \in BOOLEAN : HandleSwitch(k, b)
    PROVE  IInv'
<1>1. ASSUME NEW val \in Volumes, HandleVolume(val) PROVE IInv'
  <2>1. val \in Int BY SettingsAssumption
  <2>2. ToUInt(val) \in 0 .. UIntRange - 1 BY <2>1, Unsigned
  <2>3. ToUInt(val) \in Value("volume")
    <3>1. IntMax \in Nat BY SettingsAssumption
    <3> QED BY <2>2, <3>1, KeysAre DEF UIntRange
  <2>4. "volume" \in Keys \ {"keep"} /\ "volume" \notin Floats /\ "volume" \notin Switches
    BY KeysAre DEF Floats, Switches
  <2>5. Changes("volume", ToUInt(val), SetVolume(ToUInt(val)))
    BY <1>1 DEF HandleVolume
  <2> QED BY <2>2, <2>3, <2>4, <2>5, ChangesSound
<1>2. ASSUME NEW k \in Floats, NEW val \in Numbers, HandleFloat(k, val) PROVE IInv'
  <2>1. val \in Value(k) BY SettingsAssumption, KeysAre
  <2>2. k \in Keys \ {"keep"} /\ k # "volume" /\ k \notin Switches
    BY KeysAre DEF Floats, Switches
  <2>3. Changes(k, val, SetFloat(k, val)) BY <1>2 DEF HandleFloat
  <2> QED BY <2>1, <2>2, <2>3, ChangesSound
<1>3. ASSUME NEW k \in Switches, NEW b \in BOOLEAN, HandleSwitch(k, b) PROVE IInv'
  <2>1. b \in Value(k) BY KeysAre
  <2>2. k \in Keys \ {"keep"} /\ k # "volume" /\ k \notin Floats
    BY KeysAre DEF Floats, Switches
  <2>3. Changes(k, b, b) BY <1>3 DEF HandleSwitch
  <2> QED BY <2>1, <2>2, <2>3, ChangesSound
<1> QED BY <1>1, <1>2, <1>3

LEMMA HandleMuteSound ==
    ASSUME IInv, HandleMute
    PROVE  IInv'
<1>1. PICK b \in BOOLEAN : player' = [player EXCEPT !.mute = b]
  BY DEF HandleMute
<1>2. running = TRUE /\ UNCHANGED <<file, conf, running, kept>>
  BY DEF HandleMute, IInv
<1>3. player = Applied(conf, player.mute)
  BY <1>2 DEF IInv, PlayerMatchesConfig
<1>4. player' = Applied(conf, b) /\ player'.mute = b
  BY <1>1, <1>3 DEF Applied
<1>5. PlayerType(player')
  BY <1>4, AppliedIs DEF IInv
<1>6. FileType' /\ ConfType(conf') /\ (kept' # Nothing => FileIsKept')
  BY <1>2 DEF IInv, FileType, FileIsKept
<1>7. player' = Applied(conf', player'.mute)
  BY <1>2, <1>4
<1> QED BY <1>2, <1>5, <1>6, <1>7 DEF IInv, PlayerMatchesConfig

(* A start and --config load the file and set the player to what they find. *)
LEMMA LoadSound ==
    ASSUME IInv, NEW c, ConfType(c), NEW m \in BOOLEAN,
           conf' = ConfigLoad(c), player' = Applied(conf', m), running' = TRUE,
           UNCHANGED <<file, kept>>
    PROVE  IInv'
<1>1. ConfType(conf')
  BY LoadedConf DEF IInv
<1>2. PlayerType(player') /\ player'.mute = m
  BY <1>1, AppliedIs
<1>3. FileType' /\ (kept' # Nothing => FileIsKept')
  BY DEF IInv, FileType, FileIsKept
<1> QED BY <1>1, <1>2, <1>3 DEF IInv, PlayerMatchesConfig

LEMMA DefaultsType ==
    ConfType(Defaults)
<1>1. 0 .. MaxVolume \subseteq 0 .. UIntRange - 1
  BY SettingsAssumption DEF UIntRange
<1> QED BY <1>1, SettingsAssumption DEF ConfType

(* A number is written as one that is at most half a grain away. *)
LEMMA RoundedIs ==
    ASSUME NEW x \in Int, NEW r \in Rounded(x)
    PROVE  r \in Int /\ RoundedAlike(r, x)
<1>1. PICK g \in Nat \ {0} : g = Grain
  BY SettingsAssumption
<1>2. PICK d \in Int : d = x % g
  BY <1>1
<1>3. r \in {x - d, x - d + g} /\ 2 * (x - r) \in -g .. g
  BY <1>1, <1>2 DEF Rounded
<1>4. r \in Int
  BY <1>1, <1>2, <1>3
<1>5. 2 * (r - x) \in -g .. g
  BY <1>1, <1>3, <1>4
<1> QED BY <1>1, <1>4, <1>5 DEF RoundedAlike

LEMMA WrittenIs ==
    ASSUME IInv, running = TRUE, file' \in Written(conf), kept' = player
    PROVE  FileType' /\ FileIsKept'
<1>1. PICK p \in Rounded(conf["pitch"]), r \in Rounded(conf["speed"]) :
        file' = [conf EXCEPT !["pitch"] = p, !["speed"] = r]
  BY DEF Written
<1>2. conf["pitch"] \in Int /\ conf["speed"] \in Int
  BY KeysAre DEF IInv, ConfType, Floats
<1>3. /\ p \in Int /\ RoundedAlike(p, conf["pitch"])
      /\ r \in Int /\ RoundedAlike(r, conf["speed"])
  BY <1>1, <1>2, RoundedIs
<1>4. /\ DOMAIN file' = Keys
      /\ file'["pitch"] = p /\ file'["speed"] = r
      /\ \A k \in Keys \ Floats : file'[k] = conf[k]
  BY <1>1, KeysAre DEF IInv, ConfType, Floats
<1>5. FileType'
  <2>1. ASSUME NEW k \in Keys PROVE file'[k] \in Value(k)
    <3>1. CASE k \in Floats
      BY <1>3, <1>4, <3>1, KeysAre DEF Floats
    <3>2. CASE k \notin Floats
      BY <1>4, <3>2 DEF IInv, ConfType
    <3> QED BY <3>1, <3>2
  <2> QED BY <1>4, <2>1 DEF FileType
<1>6. player = Applied(conf, player.mute) /\ player.mute \in BOOLEAN
  BY DEF IInv, PlayerMatchesConfig, PlayerType
<1>7. /\ player.volume = SetVolume(conf["volume"])
      /\ \A k \in Floats : player[k] = SetFloat(k, conf[k])
      /\ \A k \in Switches : player[k] = conf[k]
  BY <1>6, AppliedIs DEF IInv
<1>8. file'["volume"] = conf["volume"] /\ conf["volume"] >= 0
  <2>1. "volume" \in Keys \ Floats BY KeysAre DEF Floats
  <2>2. IntMax \in Nat BY SettingsAssumption
  <2>3. conf["volume"] \in 0 .. UIntRange - 1 BY DEF IInv, ConfType
  <2>4. conf["volume"] >= 0 BY <2>2, <2>3 DEF UIntRange
  <2> QED BY <1>4, <2>1, <2>4
<1>9. \A k \in Floats : WasRounded(k, file'[k], kept'[k])
  <2>1. WasRounded("pitch", file'["pitch"], kept'["pitch"])
    BY <1>2, <1>3, <1>4, <1>7 DEF WasRounded, Floats
  <2>2. WasRounded("speed", file'["speed"], kept'["speed"])
    BY <1>2, <1>3, <1>4, <1>7 DEF WasRounded, Floats
  <2> QED BY <2>1, <2>2 DEF Floats
<1>10. \A k \in Switches : kept'[k] = file'[k]
  BY <1>4, <1>7, KeysAre DEF Floats, Switches
<1> QED BY <1>4, <1>5, <1>7, <1>8, <1>9, <1>10 DEF FileIsKept

LEMMA QuitSound ==
    ASSUME IInv, Quit
    PROVE  IInv'
<1>1. running = TRUE /\ running' = FALSE /\ UNCHANGED <<conf, player>>
  BY DEF Quit, IInv
<1>2. \/ UNCHANGED <<file, kept>>
      \/ file' \in Written(conf) /\ kept' = player
      \/ file' = [k \in {} |-> 0] /\ kept' = Nothing
  BY DEF Quit, Save
<1>3. FileType' /\ (kept' # Nothing => FileIsKept')
  <2>1. CASE UNCHANGED <<file, kept>>
    BY <2>1 DEF IInv, FileType, FileIsKept
  <2>2. CASE file' \in Written(conf) /\ kept' = player
    BY <1>1, <2>2, WrittenIs
  <2>3. CASE file' = [k \in {} |-> 0] /\ kept' = Nothing
    BY <2>3 DEF FileType
  <2> QED BY <1>2, <2>1, <2>2, <2>3
<1> QED BY <1>1, <1>3 DEF IInv, PlayerMatchesConfig

LEMMA NextSound ==
    IInv /\ [Next]_vars => IInv'
<1> SUFFICES ASSUME IInv, [Next]_vars PROVE IInv'
  OBVIOUS
<1>1. CASE Start
  <2>1. UNCHANGED <<file, kept>> /\ running' = TRUE
        /\ conf' = ConfigLoad(Defaults) /\ player' = Applied(conf', FALSE)
    BY <1>1 DEF Start
  <2> QED BY <2>1, DefaultsType, LoadSound
<1>2. CASE Quit
  BY <1>2, QuitSound
<1>3. CASE Killed
  BY <1>3 DEF Killed, IInv, FileType, FileIsKept, PlayerMatchesConfig
<1>4. CASE Edit
  <2>1. FileType'
    BY <1>4, SettingsAssumption DEF Edit, FileType
  <2> QED BY <1>4, <2>1 DEF Edit, IInv, PlayerMatchesConfig
<1>5. CASE \/ \E val \in Volumes : HandleVolume(val)
           \/ \E k \in Floats, val \in Numbers : HandleFloat(k, val)
           \/ \E k \in Switches, b \in BOOLEAN : HandleSwitch(k, b)
  BY <1>5, HandlersSound
<1>6. CASE HandleMute
  BY <1>6, HandleMuteSound
<1>8. CASE UNCHANGED vars
  BY <1>8 DEF vars, IInv, FileType, FileIsKept, PlayerMatchesConfig
<1>7. CASE HandleConfig
  <2>1. CASE UNCHANGED vars
    BY <1>8, <2>1
  <2>2. CASE ~ UNCHANGED vars
    <3>1. UNCHANGED <<file, kept>> /\ running' = TRUE
          /\ conf' = ConfigLoad(conf) /\ player' = Applied(conf', player.mute)
      BY <1>7, <2>2 DEF HandleConfig, IInv, vars
    <3>2. ConfType(conf) /\ player.mute \in BOOLEAN
      BY DEF IInv, PlayerType
    <3> QED BY <3>1, <3>2, LoadSound
  <2> QED BY <2>1, <2>2
<1> QED BY <1>1, <1>2, <1>3, <1>4, <1>5, <1>6, <1>7, <1>8 DEF Next

-----------------------------------------------------------------------------
(* What the invariant says of the properties. *)

LEMMA InvariantHolds == Spec => []IInv
BY InitSound, NextSound, PTL DEF Spec

LEMMA IInvImpliesTypeOK ==
    IInv => TypeOK
<1> SUFFICES ASSUME IInv PROVE TypeOK
  OBVIOUS
<1>1. DOMAIN file \subseteq Keys /\ DOMAIN conf = Keys
  BY DEF IInv, FileType, ConfType
<1>2. conf["volume"] \in 0 .. UIntRange - 1
  BY DEF IInv, ConfType
<1>3. \A k \in Switches \cup {"keep"} : conf[k] \in BOOLEAN
  BY KeysAre DEF IInv, ConfType
<1> QED BY <1>1, <1>2, <1>3 DEF IInv, PlayerType, TypeOK

(* Clamping does not take two numbers further apart. *)
LEMMA ClampsKeepClose ==
    ASSUME NEW k \in Floats, NEW r \in Int, NEW p, WasRounded(k, r, p)
    PROVE  RoundedAlike(SetFloat(k, r), p)
<1>1. PICK x \in Int : p = SetFloat(k, x) /\ RoundedAlike(r, x)
  BY DEF WasRounded
<1>2. PICK lo \in Nat, hi \in Nat : lo = Low[k] /\ hi = High[k] /\ lo <= hi
  BY RangeOfFloat
<1>3. PICK g \in Nat \ {0} : g = Grain
  BY SettingsAssumption
<1>4. PICK a \in Int : /\ a = SetFloat(k, r)
                       /\ a = IF r <= lo THEN lo ELSE IF hi <= r THEN hi ELSE r
  BY <1>2, Float
<1>5. PICK b \in Int : /\ b = SetFloat(k, x)
                       /\ b = IF x <= lo THEN lo ELSE IF hi <= x THEN hi ELSE x
  BY <1>2, Float
<1>6. 2 * (r - x) \in -g .. g
  BY <1>1, <1>3 DEF RoundedAlike
<1>7. 2 * (a - b) \in -g .. g
  BY <1>2, <1>4, <1>5, <1>6
<1> QED BY <1>1, <1>3, <1>4, <1>5, <1>7 DEF RoundedAlike

(* What a load makes of a file that was saved. *)
LEMMA LoadsWhatWasKept ==
    ASSUME IInv, kept # Nothing, file["volume"] <= IntMax,
           NEW c, ConfType(c), NEW m \in BOOLEAN,
           conf' = ConfigLoad(c), player' = Applied(conf', m)
    PROVE  AsKept
<1>1. FileIsKept /\ FileType
  BY DEF IInv
<1>2. \A k \in Keys : conf'[k] = Parsed(k, file[k])
  BY <1>1 DEF ConfigLoad, FileIsKept
<1>3. ConfType(conf')
  BY <1>1, LoadedConf
<1>4. /\ player'.volume = SetVolume(conf'["volume"])
      /\ \A k \in Floats : player'[k] = SetFloat(k, conf'[k])
      /\ \A k \in Switches : player'[k] = conf'[k]
  BY <1>3, AppliedIs
<1>5. player'.volume = kept.volume
  <2>1. file["volume"] \in Int /\ file["volume"] >= 0
    BY <1>1, KeysAre DEF FileIsKept, FileType
  <2>2. conf'["volume"] = SetVolume(file["volume"])
    BY <1>2, <2>1, KeysAre, ParsedVolume
  <2>3. SetVolume(SetVolume(file["volume"])) = SetVolume(file["volume"])
    <3>1. PICK v \in Nat : v = file["volume"]
      BY <2>1
    <3>2. PICK n \in Nat : n = MaxVolume
      BY SettingsAssumption
    <3>3. PICK w \in Nat : w = SetVolume(v) /\ w <= n
      BY <3>2, Volume
    <3>4. SetVolume(w) = w
      BY <3>2, <3>3, Volume
    <3> QED BY <3>1, <3>3, <3>4
  <2> QED BY <1>1, <1>4, <2>2, <2>3 DEF FileIsKept
<1>6. ASSUME NEW k \in Floats PROVE RoundedAlike(player'[k], kept[k])
  <2>1. file[k] \in Int
    BY <1>1, KeysAre DEF FileIsKept, FileType
  <2>2. conf'[k] = SetFloat(k, file[k])
    BY <1>2, <2>1, KeysAre, ParsedFloat
  <2>3. SetFloat(k, SetFloat(k, file[k])) = SetFloat(k, file[k])
    <3>1. PICK lo \in Nat, hi \in Nat : lo = Low[k] /\ hi = High[k] /\ lo <= hi
      BY RangeOfFloat
    <3>2. PICK a \in Int : a = SetFloat(k, file[k]) /\ lo <= a /\ a <= hi
      BY <2>1, <3>1, Float
    <3>3. SetFloat(k, a) = a
      BY <3>1, <3>2, Float
    <3> QED BY <3>2, <3>3
  <2>4. player'[k] = SetFloat(k, file[k])
    BY <1>4, <2>2, <2>3
  <2>5. WasRounded(k, file[k], kept[k])
    BY <1>1 DEF FileIsKept
  <2> QED BY <2>1, <2>4, <2>5, ClampsKeepClose
<1>7. ASSUME NEW k \in Switches PROVE player'[k] = kept[k]
  <2>1. file[k] \in BOOLEAN
    BY <1>1, KeysAre DEF FileIsKept, FileType
  <2>2. conf'[k] = file[k]
    BY <1>2, <2>1, KeysAre, ParsedSwitch
  <2> QED BY <1>1, <1>4, <2>2 DEF FileIsKept
<1> QED BY <1>5, <1>6, <1>7 DEF AsKept

-----------------------------------------------------------------------------
(* The types: the volume of the configuration is one that an unsigned int  *)
(* holds and the player's settings are within their ranges, whatever the   *)
(* file and the arguments say (climpd-config.c, gst-engine.c).             *)
THEOREM SettingsTypeCorrect == Spec => []TypeOK
BY InvariantHolds, IInvImpliesTypeOK, PTL

(* What is heard is what the configuration, and so the next save, says,    *)
(* whatever was set, loaded and reloaded (handlers of main.c).             *)
THEOREM PlayerFollowsConfig == Spec => []PlayerMatchesConfig
<1>1. IInv => PlayerMatchesConfig
  BY DEF IInv
<1> QED BY <1>1, InvariantHolds, PTL

(* Settings that were saved come back with the next start and with         *)
(* --config, at most half a grain of "%.2f" away, unless the user edits    *)
(* the file, or a volume was given as a negative number (write_config,     *)
(* climpd_config_load).                                                    *)
THEOREM SavedSettingsComeBack == Spec => KeptSettingsSurvive
<1>1. IInv /\ [Next]_vars =>
        [(Start \/ HandleConfig) /\ kept # Nothing /\ file["volume"] <= IntMax => AsKept]_vars
  <2> SUFFICES ASSUME IInv, Start \/ HandleConfig, kept # Nothing, file["volume"] <= IntMax,
                      ~ UNCHANGED vars
               PROVE  AsKept
    OBVIOUS
  <2>1. CASE Start
    <3>1. conf' = ConfigLoad(Defaults) /\ player' = Applied(conf', FALSE)
      BY <2>1 DEF Start
    <3> QED BY <3>1, DefaultsType, LoadsWhatWasKept
  <2>2. CASE HandleConfig
    <3>1. conf' = ConfigLoad(conf) /\ player' = Applied(conf', player.mute)
      BY <2>2 DEF HandleConfig, vars
    <3>2. ConfType(conf) /\ player.mute \in BOOLEAN
      BY DEF IInv, PlayerType
    <3> QED BY <3>1, <3>2, LoadsWhatWasKept
  <2> QED BY <2>1, <2>2
<1> QED BY <1>1, InvariantHolds, PTL DEF Spec, KeptSettingsSurvive
===============================================================================
