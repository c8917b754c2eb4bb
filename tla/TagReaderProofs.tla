---------------------------- MODULE TagReaderProofs ----------------------------
(***************************************************************************)
(* Proofs about TagReader, for any number of tracks and URIs.  A function  *)
(* of the C code passes through states in which the references of the one  *)
(* media it works on are k more than its holders (k may be negative), and  *)
(* the discoverer has not been told yet of the URIs in U.  Sound(s, m, k,  *)
(* U) says that this is all there is; between two calls k is 0 and U empty.*)
(***************************************************************************)
EXTENDS TagReader, TLAPS

HasFields(s) ==
    s = [heap |-> s.heap, vec |-> s.vec, active |-> s.active,
         map |-> s.map, queue |-> s.queue]

Shape(s) ==
    /\ HasFields(s)
    /\ s.heap \in [Addresses -> [uri : Uris, refs : Int, parsed : BOOLEAN]]
    /\ s.vec \in Seq(Addresses)
    /\ IsInjective(s.vec)
    /\ s.active \in Addresses \cup {None}
    /\ DOMAIN s.map \subseteq Uris
    /\ s.map \in [DOMAIN s.map -> Addresses]
    /\ s.queue \in Seq(Uris)

(* The URI of the media is the key, so no media is pending twice. *)
PendingMatches(s) ==
    \A uri \in DOMAIN s.map :
        s.heap[s.map[uri]].uri = uri /\ s.heap[s.map[uri]].parsed = FALSE

(* The media m can be put into the map. *)
AwaitsTags(s, m, uri) ==
    ~ IsPending(s, m) /\ s.heap[m].uri = uri /\ s.heap[m].parsed = FALSE

Queued(s, uri) == \E j \in 1 .. Len(s.queue) : s.queue[j] = uri

AwaitedBut(s, U) == \A uri \in DOMAIN s.map : uri \in U \/ Queued(s, uri)

RefsBut(s, m, k) ==
    \A a \in Addresses : s.heap[a].refs = Holders(s, a) + (IF a = m THEN k ELSE 0)

Sound(s, m, k, U) ==
    Shape(s) /\ PendingMatches(s) /\ AwaitedBut(s, U) /\ RefsBut(s, m, k)

IInv ==
    /\ Sound(st, None, 0, {})
    /\ loading \in 0 .. Len(st.vec) \cup {Idle}
    /\ failed => loading # Idle
    /\ failed \in BOOLEAN
    /\ running \in BOOLEAN

-----------------------------------------------------------------------------
(* The vector. *)
LEMMA AppendVec ==
    ASSUME NEW v \in Seq(Addresses), IsInjective(v), NEW m \in Addresses,
           \A i \in DOMAIN v : v[i] # m
    PROVE  /\ Append(v, m) \in Seq(Addresses)
           /\ IsInjective(Append(v, m))
           /\ \A a : (\E i \in DOMAIN Append(v, m) : Append(v, m)[i] = a)
                        <=> (\E i \in DOMAIN v : v[i] = a) \/ a = m
<1>1. /\ DOMAIN Append(v, m) = 1 .. Len(v) + 1 /\ DOMAIN v = 1 .. Len(v)
      /\ Len(v) \in Nat
      /\ \A i \in 1 .. Len(v) : Append(v, m)[i] = v[i]
      /\ Append(v, m)[Len(v) + 1] = m
  OBVIOUS
<1>2. \A i \in 1 .. Len(v) + 1 : i \in 1 .. Len(v) \/ i = Len(v) + 1
  BY <1>1
<1>3. IsInjective(Append(v, m))
  BY <1>1, <1>2 DEF IsInjective
<1>4. ASSUME NEW a
      PROVE  (\E i \in DOMAIN Append(v, m) : Append(v, m)[i] = a)
                <=> (\E i \in DOMAIN v : v[i] = a) \/ a = m
  BY <1>1, <1>2
<1>5. QED
  BY <1>3, <1>4

LEMMA RemoveFromVec ==
    ASSUME NEW v \in Seq(Addresses), IsInjective(v), NEW i \in 1 .. Len(v)
    PROVE  /\ RemoveAt(v, i) \in Seq(Addresses) /\ Len(RemoveAt(v, i)) = Len(v) - 1
           /\ IsInjective(RemoveAt(v, i))
           /\ \A a : (\E j \in DOMAIN RemoveAt(v, i) : RemoveAt(v, i)[j] = a)
                        <=> (\E j \in DOMAIN v : v[j] = a) /\ a # v[i]
<1> DEFINE r == RemoveAt(v, i)
<1>1. /\ r \in Seq(Addresses) /\ Len(r) = Len(v) - 1
      /\ DOMAIN r = 1 .. Len(v) - 1 /\ DOMAIN v = 1 .. Len(v) /\ Len(v) \in Nat
      /\ \A j \in 1 .. Len(v) - 1 : r[j] = IF j < i THEN v[j] ELSE v[j + 1]
  <2> DEFINE p == SubSeq(v, 1, i - 1)
             q == SubSeq(v, i + 1, Len(v))
  <2>1. /\ p \in Seq(Addresses) /\ Len(p) = i - 1
        /\ \A j \in 1 .. i - 1 : p[j] = v[j]
    OBVIOUS
  <2>2. /\ q \in Seq(Addresses) /\ Len(q) = Len(v) - i
        /\ \A j \in 1 .. Len(v) - i : q[j] = v[j + i]
    OBVIOUS
  <2>3. r = p \o q
    BY DEF RemoveAt
  <2> HIDE DEF r, p, q
  <2>4. /\ r \in Seq(Addresses) /\ Len(r) = Len(v) - 1
        /\ \A j \in 1 .. Len(v) - 1 : r[j] = IF j < i THEN p[j] ELSE q[j - (i - 1)]
    BY <2>1, <2>2, <2>3
  <2>5. ASSUME NEW j \in 1 .. Len(v) - 1
        PROVE  r[j] = IF j < i THEN v[j] ELSE v[j + 1]
    <3>1. CASE j < i
      BY <2>1, <2>4, <3>1
    <3>2. CASE ~ (j < i)
      <4>1. j - (i - 1) \in 1 .. Len(v) - i /\ j - (i - 1) + i = j + 1
        BY <3>2
      <4>2. QED
        BY <2>2, <2>4, <3>2, <4>1
    <3>3. QED
      BY <3>1, <3>2
  <2>6. QED
    BY <2>4, <2>5
<1> HIDE DEF r
<1>2. IsInjective(r)
  <2>1. SUFFICES ASSUME NEW j \in 1 .. Len(v) - 1, NEW l \in 1 .. Len(v) - 1, j # l
                 PROVE  r[j] # r[l]
    BY <1>1 DEF IsInjective
  <2> DEFINE from(x) == IF x < i THEN x ELSE x + 1
  <2>2. from(j) \in DOMAIN v /\ from(l) \in DOMAIN v /\ from(j) # from(l)
    BY <2>1, <1>1
  <2>3. r[j] = v[from(j)] /\ r[l] = v[from(l)]
    BY <1>1
  <2> HIDE DEF from
  <2>4. QED
    BY <2>2, <2>3 DEF IsInjective
<1>3. ASSUME NEW j \in 1 .. Len(v), j # i
      PROVE  \E l \in DOMAIN r : r[l] = v[j]
  <2>1. CASE j < i
    BY <1>1, <2>1
  <2>2. CASE j > i
    <3>1. j - 1 \in 1 .. Len(v) - 1 /\ ~ (j - 1 < i) /\ j - 1 + 1 = j
      BY <2>2, <1>1
    <3>2. r[j - 1] = v[j]
      BY <3>1, <1>1
    <3>3. QED
      BY <3>1, <3>2, <1>1
  <2>3. QED
    BY <2>1, <2>2, <1>3
<1>4. ASSUME NEW l \in DOMAIN r
      PROVE  \E j \in 1 .. Len(v) : v[j] = r[l] /\ j # i
  BY <1>1
<1>5. ASSUME NEW a
      PROVE  (\E j \in DOMAIN r : r[j] = a) <=> (\E j \in DOMAIN v : v[j] = a) /\ a # v[i]
  BY <1>1, <1>3, <1>4 DEF IsInjective
<1>6. QED
  BY <1>1, <1>2, <1>5 DEF r

-----------------------------------------------------------------------------
(* Nobody holds a media while its address is free. *)
LEMMA NumbersOfHolders ==
    ASSUME NEW s, NEW a
    PROVE  /\ Holders(s, a) \in Nat
           /\ Holders(s, a) = 0 => ~ InVec(s, a) /\ s.active # a /\ ~ IsPending(s, a)
BY DEF Holders, One

(* Which media is exempted does not matter when nothing is. *)
LEMMA Settled ==
    ASSUME NEW s, NEW m, NEW n, NEW U, Sound(s, m, 0, U)
    PROVE  Sound(s, n, 0, U)
<1>1. ASSUME NEW a \in Addresses
      PROVE  s.heap[a].refs = Holders(s, a) + 0
  BY Z3 DEF Sound, RefsBut
<1>2. RefsBut(s, n, 0)
  BY <1>1 DEF RefsBut
<1>3. QED
  BY <1>2 DEF Sound

(* What is the same in t as in s, which differ in the count of m. *)
SameBut(s, t, m, d) ==
    /\ t.vec = s.vec /\ t.active = s.active /\ t.map = s.map /\ t.queue = s.queue
    /\ \A a \in Addresses : /\ t.heap[a].uri = s.heap[a].uri
                            /\ t.heap[a].parsed = s.heap[a].parsed
                            /\ t.heap[a].refs = s.heap[a].refs + (IF a = m THEN d ELSE 0)

LEMMA Recounted ==
    ASSUME NEW s, Shape(s), NEW m \in Addresses, NEW d \in Int
    PROVE  /\ Shape([s EXCEPT !.heap[m].refs = @ + d])
           /\ SameBut(s, [s EXCEPT !.heap[m].refs = @ + d], m, d)
<1> DEFINE t == [s EXCEPT !.heap[m].refs = @ + d]
           r == [s.heap[m] EXCEPT !.refs = @ + d]
<1>1. /\ HasFields(t)
      /\ t.vec = s.vec /\ t.active = s.active /\ t.map = s.map /\ t.queue = s.queue
      /\ t.heap = [s.heap EXCEPT ![m].refs = @ + d]
  <2>1. HasFields(s)
    BY DEF Shape
  <2>2. QED
    BY <2>1 DEF HasFields
<1> HIDE DEF t
<1>2. s.heap \in [Addresses -> [uri : Uris, refs : Int, parsed : BOOLEAN]]
  BY DEF Shape
<1>3. /\ r \in [uri : Uris, refs : Int, parsed : BOOLEAN]
      /\ r.uri = s.heap[m].uri /\ r.parsed = s.heap[m].parsed
      /\ r.refs = s.heap[m].refs + d
  BY <1>2
<1>4. t.heap = [s.heap EXCEPT ![m] = r]
  BY <1>1
<1> HIDE DEF r
<1>5. \A a \in Addresses : t.heap[a] = IF a = m THEN r ELSE s.heap[a]
  BY <1>2, <1>4
<1>6. ASSUME NEW a \in Addresses
      PROVE  /\ t.heap[a].uri = s.heap[a].uri
             /\ t.heap[a].parsed = s.heap[a].parsed
             /\ t.heap[a].refs = s.heap[a].refs + (IF a = m THEN d ELSE 0)
  <2>1. CASE a = m
    BY <1>3, <1>5, <2>1
  <2>2. CASE a # m
    <3>1. s.heap[a].refs \in Int
      BY <1>2
    <3>2. QED
      BY <1>5, <2>2, <3>1
  <2>3. QED
    BY <2>1, <2>2
<1>7. t.heap \in [Addresses -> [uri : Uris, refs : Int, parsed : BOOLEAN]]
  BY <1>2, <1>3, <1>4
<1>8. Shape(t)
  BY <1>1, <1>7 DEF Shape
<1>9. QED
  BY <1>1, <1>6, <1>8 DEF SameBut, t

LEMMA SameIsSound ==
    ASSUME NEW s, NEW t, NEW m \in Addresses, NEW k \in Int, NEW d \in Int, NEW U,
           Sound(s, m, k, U), Shape(t), SameBut(s, t, m, d)
    PROVE  Sound(t, m, k + d, U)
<1>1. PendingMatches(t) /\ AwaitedBut(t, U)
  BY DEF Sound, Shape, PendingMatches, AwaitedBut, Queued, SameBut
<1>2. RefsBut(t, m, k + d)
  <2>1. \A a : Holders(t, a) = Holders(s, a)
    BY DEF Holders, InVec, IsPending, SameBut
  <2>2. QED
    BY <2>1, NumbersOfHolders DEF Sound, RefsBut, SameBut
<1>3. QED
  BY <1>1, <1>2 DEF Sound

(* media_ref and media_unref *)
LEMMA RefLemma ==
    ASSUME NEW s, NEW m \in Addresses, NEW k \in Int, NEW U, Sound(s, m, k, U)
    PROVE  Sound(Ref(s, m), m, k + 1, U) /\ SameBut(s, Ref(s, m), m, 1)
BY Recounted, SameIsSound DEF Ref, Sound

LEMMA UnrefShape ==
    ASSUME NEW s, Shape(s), NEW m \in Addresses
    PROVE  Shape(Unref(s, m)) /\ SameBut(s, Unref(s, m), m, -1)
<1>1. Unref(s, m) = [s EXCEPT !.heap[m].refs = @ + (-1)]
  <2>1. s.heap[m].refs \in Int
    BY DEF Shape
  <2>2. QED
    BY <2>1 DEF Unref
<1>2. QED
  BY <1>1, Recounted

LEMMA UnrefLemma ==
    ASSUME NEW s, NEW m \in Addresses, NEW k \in Int, NEW U, Sound(s, m, k, U)
    PROVE  Sound(Unref(s, m), m, k - 1, U) /\ SameBut(s, Unref(s, m), m, -1)
<1>1. Shape(Unref(s, m)) /\ SameBut(s, Unref(s, m), m, -1)
  BY UnrefShape DEF Sound
<1>2. Sound(Unref(s, m), m, k + (-1), U)
  BY <1>1, SameIsSound
<1>3. QED
  BY <1>1, <1>2, k + (-1) = k - 1

(* vector_insert_back: the vector holds a reference more. *)
LEMMA VecGains ==
    ASSUME NEW s, NEW m \in Addresses, NEW k \in Int, NEW U, Sound(s, m, k, U),
           ~ InVec(s, m)
    PROVE  /\ Sound([s EXCEPT !.vec = Append(@, m)], m, k - 1, U)
           /\ [s EXCEPT !.vec = Append(@, m)].vec = Append(s.vec, m)
<1> DEFINE v == Append(s.vec, m)
           t == [s EXCEPT !.vec = v]
<1> HIDE DEF v
<1>1. /\ t.heap = s.heap /\ t.active = s.active /\ t.map = s.map /\ t.queue = s.queue
      /\ t.vec = v
      /\ HasFields(t)
  <2>1. HasFields(s)
    BY DEF Sound, Shape
  <2>2. QED
    BY <2>1 DEF HasFields
<1> HIDE DEF t
<1>2. /\ t.vec \in Seq(Addresses) /\ IsInjective(t.vec)
      /\ \A a : InVec(t, a) <=> InVec(s, a) \/ a = m
  <2>1. s.vec \in Seq(Addresses) /\ IsInjective(s.vec) /\ \A i \in DOMAIN s.vec : s.vec[i] # m
    BY DEF Sound, Shape, InVec
  <2>2. /\ v \in Seq(Addresses) /\ IsInjective(v)
        /\ \A a : (\E i \in DOMAIN v : v[i] = a) <=> (\E i \in DOMAIN s.vec : s.vec[i] = a) \/ a = m
    BY <2>1, AppendVec DEF v
  <2>3. QED
    BY <1>1, <2>2 DEF InVec
<1>3. Shape(t)
  BY <1>1, <1>2 DEF Sound, Shape
<1>4. PendingMatches(t) /\ AwaitedBut(t, U)
  BY <1>1 DEF Sound, PendingMatches, AwaitedBut, Queued
<1>5. RefsBut(t, m, k - 1)
  <2>1. \A a : IsPending(t, a) <=> IsPending(s, a)
    BY <1>1 DEF IsPending
  <2>2. QED
    BY <1>1, <1>2, <2>1 DEF Sound, RefsBut, Holders, One
<1>6. QED
  BY <1>1, <1>3, <1>4, <1>5 DEF Sound, t, v

(* vector_take_at: whoever takes the media holds the reference. *)
LEMMA VecLoses ==
    ASSUME NEW s, NEW i \in 1 .. Len(s.vec), NEW U, Sound(s, None, 0, U)
    PROVE  /\ s.vec[i] \in Addresses
           /\ Sound([s EXCEPT !.vec = RemoveAt(@, i)], s.vec[i], 1, U)
           /\ [s EXCEPT !.vec = RemoveAt(@, i)].vec = RemoveAt(s.vec, i)
<1> DEFINE v == RemoveAt(s.vec, i)
           t == [s EXCEPT !.vec = v]
           m == s.vec[i]
<1> HIDE DEF v
<1>1. /\ t.heap = s.heap /\ t.active = s.active /\ t.map = s.map /\ t.queue = s.queue
      /\ t.vec = v
      /\ HasFields(t)
  <2>1. HasFields(s)
    BY DEF Sound, Shape
  <2>2. QED
    BY <2>1 DEF HasFields
<1>0. m \in Addresses
  BY DEF Sound, Shape
<1> HIDE DEF t
<1>2. /\ t.vec \in Seq(Addresses) /\ IsInjective(t.vec)
      /\ \A a : InVec(t, a) <=> InVec(s, a) /\ a # m
  <2>1. s.vec \in Seq(Addresses) /\ IsInjective(s.vec)
    BY DEF Sound, Shape
  <2>2. /\ v \in Seq(Addresses) /\ IsInjective(v)
        /\ \A a : (\E j \in DOMAIN v : v[j] = a) <=> (\E j \in DOMAIN s.vec : s.vec[j] = a) /\ a # m
    BY <2>1, RemoveFromVec DEF v
  <2>3. QED
    BY <1>1, <2>2 DEF InVec
<1>3. InVec(s, m)
  <2>1. i \in DOMAIN s.vec
    <3>1. s.vec \in Seq(Addresses)
      BY DEF Sound, Shape
    <3>2. QED
      BY <3>1
  <2>2. QED
    BY <2>1 DEF InVec
<1> HIDE DEF m
<1>4. Shape(t)
  BY <1>1, <1>2 DEF Sound, Shape
<1>5. PendingMatches(t) /\ AwaitedBut(t, U)
  BY <1>1 DEF Sound, PendingMatches, AwaitedBut, Queued
<1>6. RefsBut(t, m, 1)
  <2>1. \A a : IsPending(t, a) <=> IsPending(s, a)
    BY <1>1 DEF IsPending
  <2>2. QED
    BY <1>0, <1>1, <1>2, <1>3, <2>1, TagReaderAssumption DEF Sound, RefsBut, Holders, One
<1>7. QED
  BY <1>0, <1>1, <1>4, <1>5, <1>6 DEF Sound, t, m, v

(* map_insert of a key that is not there. *)
LEMMA MapGains ==
    ASSUME NEW s, NEW m \in Addresses, NEW k \in Int, NEW U, Sound(s, m, k, U),
           NEW uri \in Uris, uri \notin DOMAIN s.map, AwaitsTags(s, m, uri)
    PROVE  /\ Sound(MapPut(s, uri, m), m, k - 1, U \cup {uri})
           /\ MapPut(s, uri, m).vec = s.vec
           /\ uri \in DOMAIN MapPut(s, uri, m).map /\ MapPut(s, uri, m).map[uri] = m
<1> DEFINE p == [u \in DOMAIN s.map \cup {uri} |-> IF u = uri THEN m ELSE s.map[u]]
           t == [s EXCEPT !.map = p]
<1>1. /\ DOMAIN p = DOMAIN s.map \cup {uri} /\ p[uri] = m
      /\ \A u \in DOMAIN s.map : p[u] = s.map[u]
      /\ p \in [DOMAIN p -> Addresses]
  BY DEF Sound, Shape
<1> HIDE DEF p
<1>2. /\ t.heap = s.heap /\ t.active = s.active /\ t.vec = s.vec /\ t.queue = s.queue
      /\ t.map = p
      /\ HasFields(t)
  <2>1. HasFields(s)
    BY DEF Sound, Shape
  <2>2. QED
    BY <2>1 DEF HasFields
<1> HIDE DEF t
<1>3. Shape(t)
  BY <1>1, <1>2 DEF Sound, Shape
<1>4. PendingMatches(t) /\ AwaitedBut(t, U \cup {uri})
  BY <1>1, <1>2 DEF Sound, PendingMatches, AwaitedBut, Queued, AwaitsTags
<1>5. RefsBut(t, m, k - 1)
  <2>1. \A a : InVec(t, a) <=> InVec(s, a)
    BY <1>2 DEF InVec
  <2>2. \A a : IsPending(t, a) <=> IsPending(s, a) \/ a = m
    BY <1>1, <1>2 DEF IsPending
  <2>3. QED
    BY <1>2, <2>1, <2>2 DEF Sound, RefsBut, Holders, One, AwaitsTags
<1>6. QED
  BY <1>1, <1>2, <1>3, <1>4, <1>5 DEF Sound, t, p, MapPut

(* map_take *)
LEMMA MapLoses ==
    ASSUME NEW s, NEW uri \in DOMAIN s.map, NEW k \in Int, NEW U,
           Sound(s, s.map[uri], k, U)
    PROVE  /\ s.map[uri] \in Addresses
           /\ Sound(MapTake(s, uri), s.map[uri], k + 1, U \ {uri})
           /\ ~ IsPending(MapTake(s, uri), s.map[uri])
           /\ MapTake(s, uri).vec = s.vec
<1> DEFINE p == Restrict(s.map, DOMAIN s.map \ {uri})
           t == [s EXCEPT !.map = p]
           m == s.map[uri]
<1>1. /\ DOMAIN p = DOMAIN s.map \ {uri}
      /\ \A u \in DOMAIN p : p[u] = s.map[u]
      /\ p \in [DOMAIN p -> Addresses]
      /\ m \in Addresses
  BY DEF Sound, Shape, Restrict
<1> HIDE DEF p
<1>2. /\ t.heap = s.heap /\ t.active = s.active /\ t.vec = s.vec /\ t.queue = s.queue
      /\ t.map = p
      /\ HasFields(t)
  <2>1. HasFields(s)
    BY DEF Sound, Shape
  <2>2. QED
    BY <2>1 DEF HasFields
<1> HIDE DEF t
<1>3. \A u \in DOMAIN s.map : s.map[u] = m => u = uri
  BY DEF Sound, PendingMatches
<1>4. /\ \A a : IsPending(t, a) <=> IsPending(s, a) /\ a # m
      /\ IsPending(s, m)
  BY <1>1, <1>2, <1>3 DEF IsPending
<1> HIDE DEF m
<1>5. Shape(t)
  BY <1>1, <1>2 DEF Sound, Shape
<1>6. PendingMatches(t) /\ AwaitedBut(t, U \ {uri})
  BY <1>1, <1>2 DEF Sound, PendingMatches, AwaitedBut, Queued
<1>7. RefsBut(t, m, k + 1)
  <2>1. \A a : InVec(t, a) <=> InVec(s, a)
    BY <1>2 DEF InVec
  <2>2. RefsBut(s, m, k)
    BY DEF Sound, m
  <2>3. QED
    BY <1>2, <1>4, <2>1, <2>2 DEF RefsBut, Holders, One
<1>8. QED
  BY <1>1, <1>2, <1>4, <1>5, <1>6, <1>7 DEF Sound, t, p, m, MapTake

(* A URI is queued, and so awaited. *)
LEMMA QueueGains ==
    ASSUME NEW s, NEW m, NEW k, NEW U, Sound(s, m, k, U), NEW uri \in Uris
    PROVE  /\ Sound([s EXCEPT !.queue = Append(@, uri)], m, k, U \ {uri})
           /\ [s EXCEPT !.queue = Append(@, uri)].vec = s.vec
<1> DEFINE q == Append(s.queue, uri)
           t == [s EXCEPT !.queue = q]
<1>1. s.queue \in Seq(Uris) /\ Len(s.queue) \in Nat
  BY DEF Sound, Shape
<1>2. /\ q \in Seq(Uris) /\ Len(q) = Len(s.queue) + 1
      /\ \A j \in 1 .. Len(s.queue) : q[j] = s.queue[j]
      /\ q[Len(s.queue) + 1] = uri
  BY <1>1
<1> HIDE DEF q
<1>3. /\ t.heap = s.heap /\ t.active = s.active /\ t.vec = s.vec /\ t.map = s.map
      /\ t.queue = q
      /\ HasFields(t)
  <2>1. HasFields(s)
    BY DEF Sound, Shape
  <2>2. QED
    BY <2>1 DEF HasFields
<1> HIDE DEF t
<1>4. Shape(t)
  BY <1>2, <1>3 DEF Sound, Shape
<1>5. PendingMatches(t)
  BY <1>3 DEF Sound, PendingMatches
<1>6. AwaitedBut(t, U \ {uri})
  <2>1. Queued(t, uri)
    BY <1>1, <1>2, <1>3 DEF Queued
  <2>2. \A u : Queued(s, u) => Queued(t, u)
    BY <1>1, <1>2, <1>3 DEF Queued
  <2>3. QED
    BY <1>3, <2>1, <2>2 DEF Sound, AwaitedBut
<1>7. RefsBut(t, m, k)
  BY <1>3 DEF Sound, RefsBut, Holders, One, InVec, IsPending
<1>8. QED
  BY <1>3, <1>4, <1>5, <1>6, <1>7 DEF Sound, t, q

(* The discoverer has answered for the first of its queue. *)
LEMMA QueueLoses ==
    ASSUME NEW s, NEW m, NEW k, NEW U, Sound(s, m, k, U), s.queue # <<>>
    PROVE  Sound([s EXCEPT !.queue = Tail(@)], m, k, U \cup {Head(s.queue)})
<1> DEFINE q == Tail(s.queue)
           t == [s EXCEPT !.queue = q]
<1>1. s.queue \in Seq(Uris) /\ Len(s.queue) \in Nat /\ Len(s.queue) > 0
  BY DEF Sound, Shape
<1>2. /\ q \in Seq(Uris) /\ Len(q) = Len(s.queue) - 1
      /\ \A j \in 1 .. Len(s.queue) - 1 : q[j] = s.queue[j + 1]
      /\ Head(s.queue) = s.queue[1]
  BY <1>1
<1> HIDE DEF q
<1>3. /\ t.heap = s.heap /\ t.active = s.active /\ t.vec = s.vec /\ t.map = s.map
      /\ t.queue = q
      /\ HasFields(t)
  <2>1. HasFields(s)
    BY DEF Sound, Shape
  <2>2. QED
    BY <2>1 DEF HasFields
<1> HIDE DEF t
<1>4. Shape(t)
  BY <1>2, <1>3 DEF Sound, Shape
<1>5. PendingMatches(t)
  BY <1>3 DEF Sound, PendingMatches
<1>6. AwaitedBut(t, U \cup {Head(s.queue)})
  <2>1. ASSUME NEW j \in 1 .. Len(s.queue), j # 1
        PROVE  j - 1 \in 1 .. Len(q) /\ q[j - 1] = s.queue[j]
    <3>1. j - 1 \in 1 .. Len(s.queue) - 1 /\ j - 1 + 1 = j
      BY <1>1, <2>1
    <3>2. QED
      BY <1>2, <3>1
  <2>2. \A u : Queued(s, u) => Queued(t, u) \/ u = Head(s.queue)
    BY <1>2, <1>3, <2>1 DEF Queued
  <2>3. QED
    BY <1>3, <2>2 DEF Sound, AwaitedBut
<1>7. RefsBut(t, m, k)
  BY <1>3 DEF Sound, RefsBut, Holders, One, InVec, IsPending
<1>8. QED
  BY <1>4, <1>5, <1>6, <1>7 DEF Sound, t, q

(* map_insert of a key that is there: the media that had it is let go. *)
LEMMA MapReplaces ==
    ASSUME NEW s, NEW m \in Addresses, NEW k \in Int, NEW U, Sound(s, m, k, U),
           NEW uri \in DOMAIN s.map, AwaitsTags(s, m, uri)
    PROVE  LET t == MapPut(Unref(s, s.map[uri]), uri, m)
           IN  /\ Sound(t, m, k - 1, U \cup {uri})
               /\ t.vec = s.vec
               /\ uri \in DOMAIN t.map /\ t.map[uri] = m
<1> DEFINE old == s.map[uri]
           r == Unref(s, old)
           p == [u \in DOMAIN r.map \cup {uri} |-> IF u = uri THEN m ELSE r.map[u]]
           t == [r EXCEPT !.map = p]
<1>1. /\ old \in Addresses /\ old # m /\ uri \in Uris
      /\ \A u \in DOMAIN s.map : s.map[u] = old => u = uri
      /\ \A u \in DOMAIN s.map : s.map[u] # m
  BY DEF Sound, Shape, PendingMatches, IsPending, AwaitsTags
<1> HIDE DEF old
<1>2. Shape(r) /\ SameBut(s, r, old, -1)
  BY <1>1, UnrefShape DEF Sound
<1> HIDE DEF r
<1>3. /\ DOMAIN p = DOMAIN s.map /\ p[uri] = m
      /\ \A u \in DOMAIN s.map : u # uri => p[u] = s.map[u]
      /\ p \in [DOMAIN p -> Addresses]
  BY <1>2 DEF Shape, SameBut
<1> HIDE DEF p
<1>4. /\ t.heap = r.heap /\ t.active = r.active /\ t.vec = r.vec /\ t.queue = r.queue
      /\ t.map = p
      /\ HasFields(t)
  <2>1. HasFields(r)
    BY <1>2 DEF Shape
  <2>2. QED
    BY <2>1 DEF HasFields
<1> HIDE DEF t
<1>5. Shape(t)
  BY <1>1, <1>2, <1>3, <1>4 DEF Shape, SameBut
<1>6. PendingMatches(t)
  <2>1. \A u \in DOMAIN s.map : s.map[u] \in Addresses
    BY DEF Sound, Shape
  <2>2. QED
    BY <1>2, <1>3, <1>4, <2>1 DEF Sound, PendingMatches, SameBut, AwaitsTags
<1>7. AwaitedBut(t, U \cup {uri})
  BY <1>2, <1>3, <1>4 DEF Sound, AwaitedBut, Queued, SameBut
<1>8. RefsBut(t, m, k - 1)
  <2>1. \A a : InVec(t, a) <=> InVec(s, a)
    BY <1>2, <1>4 DEF InVec, SameBut
  <2>2. /\ \A a : IsPending(t, a) <=> (IsPending(s, a) /\ a # old) \/ a = m
        /\ IsPending(s, old)
    BY <1>1, <1>3, <1>4 DEF IsPending, old
  <2>3. \A a \in Addresses :
           t.heap[a].refs = s.heap[a].refs + (IF a = old THEN -1 ELSE 0)
    BY <1>2, <1>4 DEF SameBut
  <2>4. QED
    BY <1>1, <1>2, <1>4, <2>1, <2>2, <2>3 DEF Sound, RefsBut, Holders, One, SameBut, AwaitsTags
<1>9. t.vec = s.vec /\ uri \in DOMAIN t.map /\ t.map[uri] = m
  BY <1>2, <1>3, <1>4 DEF SameBut
<1>10. QED
  BY <1>5, <1>6, <1>7, <1>8, <1>9 DEF Sound, t, p, r, old, MapPut

(* The player takes over a reference on m, which may be None, and lets its *)
(* track go.                                                               *)
LEMMA ActiveChanges ==
    ASSUME NEW s, NEW m \in Addresses \cup {None}, NEW k \in Int, NEW U, Sound(s, m, k, U)
    PROVE  Sound(Activate(s, m), m, k - 1, U)
<1> DEFINE r == IF s.active = None THEN s ELSE Unref(s, s.active)
           t == [r EXCEPT !.active = m]
<1>1. /\ Shape(r)
      /\ s.active # None => s.active \in Addresses /\ SameBut(s, r, s.active, -1)
      /\ s.active = None => r = s
  BY UnrefShape DEF Sound, Shape
<1>2. /\ r.vec = s.vec /\ r.map = s.map /\ r.queue = s.queue
      /\ \A a \in Addresses :
            /\ r.heap[a].uri = s.heap[a].uri
            /\ r.heap[a].parsed = s.heap[a].parsed
            /\ r.heap[a].refs = s.heap[a].refs - One(s.active = a)
  <2>1. \A a \in Addresses : s.heap[a].refs \in Int
    BY DEF Sound, Shape
  <2>2. QED
    BY <1>1, <2>1, TagReaderAssumption DEF SameBut, One
<1> HIDE DEF r
<1>3. /\ t.heap = r.heap /\ t.active = m /\ t.vec = r.vec /\ t.queue = r.queue
      /\ t.map = r.map
      /\ HasFields(t)
  <2>1. HasFields(r)
    BY <1>1 DEF Shape
  <2>2. QED
    BY <2>1 DEF HasFields
<1> HIDE DEF t
<1>4. Shape(t)
  BY <1>1, <1>3 DEF Shape
<1>5. PendingMatches(t) /\ AwaitedBut(t, U)
  BY <1>2, <1>3 DEF Sound, Shape, PendingMatches, AwaitedBut, Queued
<1>6. RefsBut(t, m, k - 1)
  <2>1. \A a : (InVec(t, a) <=> InVec(s, a)) /\ (IsPending(t, a) <=> IsPending(s, a))
    BY <1>2, <1>3 DEF InVec, IsPending
  <2>2. QED
    BY <1>2, <1>3, <2>1 DEF Sound, RefsBut, Holders, One
<1>7. QED
  BY <1>4, <1>5, <1>6 DEF Sound, t, r, Activate

(* The tags of a media that is not pending any more. *)
LEMMA TagsAreSet ==
    ASSUME NEW s, NEW m \in Addresses, NEW k \in Int, NEW U, Sound(s, m, k, U),
           ~ IsPending(s, m), NEW b \in BOOLEAN
    PROVE  Sound([s EXCEPT !.heap[m].parsed = @ \/ b], m, k, U)
<1> DEFINE x == s.heap[m].parsed \/ b
           r == [s.heap[m] EXCEPT !.parsed = x]
           h == [s.heap EXCEPT ![m] = r]
           t == [s EXCEPT !.heap = h]
<1>1. x \in BOOLEAN
  OBVIOUS
<1> HIDE DEF x
<1>2. s.heap \in [Addresses -> [uri : Uris, refs : Int, parsed : BOOLEAN]]
  BY DEF Sound, Shape
<1>3. r \in [uri : Uris, refs : Int, parsed : BOOLEAN] /\ r.refs = s.heap[m].refs
  BY <1>1, <1>2
<1> HIDE DEF r
<1>4. /\ h \in [Addresses -> [uri : Uris, refs : Int, parsed : BOOLEAN]]
      /\ \A a \in Addresses : a # m => h[a] = s.heap[a]
      /\ \A a \in Addresses : h[a].refs = s.heap[a].refs
  BY <1>2, <1>3
<1> HIDE DEF h
<1>5. /\ t.heap = h /\ t.active = s.active /\ t.vec = s.vec /\ t.map = s.map
      /\ t.queue = s.queue
      /\ HasFields(t)
  <2>1. HasFields(s)
    BY DEF Sound, Shape
  <2>2. QED
    BY <2>1 DEF HasFields
<1> HIDE DEF t
<1>6. Shape(t)
  BY <1>4, <1>5 DEF Sound, Shape
<1>7. PendingMatches(t) /\ AwaitedBut(t, U)
  BY <1>4, <1>5 DEF Sound, Shape, PendingMatches, AwaitedBut, Queued, IsPending
<1>8. RefsBut(t, m, k)
  <2>1. \A a : Holders(t, a) = Holders(s, a)
    BY <1>5 DEF Holders, InVec, IsPending
  <2>2. QED
    BY <1>4, <1>5, <2>1 DEF Sound, RefsBut
<1>9. QED
  BY <1>6, <1>7, <1>8 DEF Sound, t, h, r, x

(* media_new at a free address: the caller has the only reference. *)
LEMMA MediaIsNew ==
    ASSUME NEW s, NEW m \in Addresses, NEW uri \in Uris, NEW U, Sound(s, None, 0, U),
           s.heap[m].refs = 0
    PROVE  /\ Sound(MediaNew(s, m, uri), m, 1, U)
           /\ ~ InVec(MediaNew(s, m, uri), m) /\ ~ IsPending(MediaNew(s, m, uri), m)
           /\ MediaNew(s, m, uri).vec = s.vec
<1> DEFINE x == uri \in Radio
           r == [uri |-> uri, refs |-> 1, parsed |-> x]
           h == [s.heap EXCEPT ![m] = r]
           t == [s EXCEPT !.heap = h]
<1>1. x \in BOOLEAN
  OBVIOUS
<1> HIDE DEF x
<1>2. s.heap \in [Addresses -> [uri : Uris, refs : Int, parsed : BOOLEAN]]
  BY DEF Sound, Shape
<1>3. r \in [uri : Uris, refs : Int, parsed : BOOLEAN] /\ r.refs = 1
  BY <1>1
<1> HIDE DEF r
<1>4. /\ h \in [Addresses -> [uri : Uris, refs : Int, parsed : BOOLEAN]]
      /\ \A a \in Addresses : a # m => h[a] = s.heap[a]
      /\ h[m].refs = 1
  BY <1>2, <1>3
<1> HIDE DEF h
<1>5. /\ t.heap = h /\ t.active = s.active /\ t.vec = s.vec /\ t.map = s.map
      /\ t.queue = s.queue
      /\ HasFields(t)
  <2>1. HasFields(s)
    BY DEF Sound, Shape
  <2>2. QED
    BY <2>1 DEF HasFields
<1> HIDE DEF t
<1>6. Shape(t)
  BY <1>4, <1>5 DEF Sound, Shape
<1>7. Holders(s, m) = 0
  <2>1. Holders(s, m) \in Nat
    BY NumbersOfHolders
  <2>2. QED
    BY <2>1, TagReaderAssumption DEF Sound, RefsBut
<1>8. \A a : /\ Holders(t, a) = Holders(s, a)
             /\ InVec(t, a) <=> InVec(s, a)
             /\ IsPending(t, a) <=> IsPending(s, a)
  BY <1>5 DEF Holders, InVec, IsPending
<1>9. ~ InVec(s, m) /\ ~ IsPending(s, m)
  BY <1>7, NumbersOfHolders
<1>10. PendingMatches(t) /\ AwaitedBut(t, U)
  BY <1>4, <1>5, <1>9 DEF Sound, Shape, PendingMatches, AwaitedBut, Queued, IsPending
<1>11. RefsBut(t, m, 1)
  <2>1. \A a \in Addresses : a # m => s.heap[a].refs = Holders(s, a) + 0
    BY TagReaderAssumption DEF Sound, RefsBut
  <2>2. QED
    BY <1>4, <1>5, <1>7, <1>8, <2>1 DEF RefsBut
<1>12. QED
  BY <1>5, <1>6, <1>8, <1>9, <1>10, <1>11 DEF Sound, t, h, r, x, MediaNew

(* data_delete of all there is in the vector or the map. *)
LEMMA AllCounted ==
    ASSUME NEW s, Shape(s), NEW ms
    PROVE  /\ Shape(UnrefAll(s, ms))
           /\ LET t == UnrefAll(s, ms)
              IN  /\ t.vec = s.vec /\ t.active = s.active /\ t.map = s.map /\ t.queue = s.queue
                  /\ \A a \in Addresses :
                        /\ t.heap[a].uri = s.heap[a].uri
                        /\ t.heap[a].parsed = s.heap[a].parsed
                        /\ t.heap[a].refs = s.heap[a].refs - (IF a \in ms THEN 1 ELSE 0)
<1> DEFINE h == [m \in Addresses |-> IF m \in ms THEN [s.heap[m] EXCEPT !.refs = @ - 1]
                                     ELSE s.heap[m]]
           t == [s EXCEPT !.heap = h]
<1>1. s.heap \in [Addresses -> [uri : Uris, refs : Int, parsed : BOOLEAN]]
  BY DEF Shape
<1>2. ASSUME NEW a \in Addresses
      PROVE  /\ h[a] \in [uri : Uris, refs : Int, parsed : BOOLEAN]
             /\ h[a].uri = s.heap[a].uri
             /\ h[a].parsed = s.heap[a].parsed
             /\ h[a].refs = s.heap[a].refs - (IF a \in ms THEN 1 ELSE 0)
  <2>1. s.heap[a] \in [uri : Uris, refs : Int, parsed : BOOLEAN]
    BY <1>1
  <2>2. CASE a \in ms
    <3>1. h[a] = [s.heap[a] EXCEPT !.refs = @ - 1]
      BY <2>2
    <3>2. QED
      BY <2>1, <2>2, <3>1
  <2>3. CASE a \notin ms
    BY <2>1, <2>3
  <2>4. QED
    BY <2>2, <2>3
<1>3. h \in [Addresses -> [uri : Uris, refs : Int, parsed : BOOLEAN]]
  BY <1>2
<1> HIDE DEF h
<1>4. /\ t.heap = h /\ t.active = s.active /\ t.vec = s.vec /\ t.map = s.map
      /\ t.queue = s.queue
      /\ HasFields(t)
  <2>1. HasFields(s)
    BY DEF Shape
  <2>2. QED
    BY <2>1 DEF HasFields
<1> HIDE DEF t
<1>5. Shape(t)
  BY <1>3, <1>4 DEF Shape
<1>6. t = UnrefAll(s, ms)
  BY DEF t, h, UnrefAll
<1>7. QED
  BY <1>2, <1>4, <1>5, <1>6

LEMMA ClearIsSound ==
    ASSUME NEW s, NEW U, Sound(s, None, 0, U)
    PROVE  Sound(PlaylistClear(s), None, 0, U)
<1> DEFINE r == UnrefAll(s, Range(s.vec))
           t == [r EXCEPT !.vec = <<>>]
<1>1. /\ Shape(r)
      /\ r.active = s.active /\ r.map = s.map /\ r.queue = s.queue
      /\ \A a \in Addresses :
            /\ r.heap[a].uri = s.heap[a].uri
            /\ r.heap[a].parsed = s.heap[a].parsed
            /\ r.heap[a].refs = s.heap[a].refs - (IF a \in Range(s.vec) THEN 1 ELSE 0)
  BY AllCounted DEF Sound
<1>2. \A a : a \in Range(s.vec) <=> InVec(s, a)
  BY DEF Range, InVec
<1> HIDE DEF r
<1>3. /\ t.heap = r.heap /\ t.active = r.active /\ t.vec = <<>> /\ t.map = r.map
      /\ t.queue = r.queue
      /\ HasFields(t)
  <2>1. HasFields(r)
    BY <1>1 DEF Shape
  <2>2. QED
    BY <2>1 DEF HasFields
<1> HIDE DEF t
<1>4. /\ <<>> \in Seq(Addresses) /\ IsInjective(<<>>)
      /\ \A a : ~ InVec(t, a)
  BY <1>3 DEF IsInjective, InVec
<1>5. Shape(t)
  BY <1>1, <1>3, <1>4 DEF Shape
<1>6. PendingMatches(t) /\ AwaitedBut(t, U)
  BY <1>1, <1>3 DEF Sound, Shape, PendingMatches, AwaitedBut, Queued
<1>7. RefsBut(t, None, 0)
  <2>1. \A a : IsPending(t, a) <=> IsPending(s, a)
    BY <1>1, <1>3 DEF IsPending
  <2>2. QED
    BY <1>1, <1>2, <1>3, <1>4, <2>1, TagReaderAssumption DEF Sound, RefsBut, Holders, One
<1>8. QED
  BY <1>5, <1>6, <1>7 DEF Sound, t, r, PlaylistClear

LEMMA TagReaderIsDestroyed ==
    ASSUME NEW s, NEW U, Sound(s, None, 0, U)
    PROVE  Sound([UnrefAll(s, Range(s.map)) EXCEPT !.map = <<>>, !.queue = <<>>], None, 0, U)
<1> DEFINE r == UnrefAll(s, Range(s.map))
           e == <<>>
           t == [r EXCEPT !.map = e, !.queue = e]
<1>1. /\ Shape(r)
      /\ r.active = s.active /\ r.vec = s.vec
      /\ \A a \in Addresses :
            /\ r.heap[a].uri = s.heap[a].uri
            /\ r.heap[a].parsed = s.heap[a].parsed
            /\ r.heap[a].refs = s.heap[a].refs - (IF a \in Range(s.map) THEN 1 ELSE 0)
  BY AllCounted DEF Sound
<1>2. \A a : a \in Range(s.map) <=> IsPending(s, a)
  BY DEF Range, IsPending
<1> HIDE DEF r, e
<1>3. /\ t.heap = r.heap /\ t.active = r.active /\ t.vec = r.vec /\ t.map = e
      /\ t.queue = e
      /\ HasFields(t)
  <2> DEFINE u == [r EXCEPT !.map = e]
  <2>1. HasFields(r)
    BY <1>1 DEF Shape
  <2>2. /\ HasFields(u) /\ u.heap = r.heap /\ u.active = r.active /\ u.vec = r.vec
        /\ u.map = e /\ u.queue = r.queue
    BY <2>1 DEF HasFields
  <2>3. t = [u EXCEPT !.queue = e]
    BY <2>1 DEF HasFields
  <2> HIDE DEF u, t
  <2>4. QED
    BY <2>2, <2>3 DEF HasFields
<1> HIDE DEF t
<1>4. /\ DOMAIN t.map = {} /\ t.map \in [DOMAIN t.map -> Addresses]
      /\ \A a : ~ IsPending(t, a)
  BY <1>3 DEF IsPending, e
<1>5. Shape(t)
  <2>1. e \in Seq(Uris)
    BY DEF e
  <2>2. QED
    BY <1>1, <1>3, <1>4, <2>1 DEF Shape
<1>6. PendingMatches(t) /\ AwaitedBut(t, U)
  BY <1>4 DEF PendingMatches, AwaitedBut
<1>7. RefsBut(t, None, 0)
  <2>1. \A a : InVec(t, a) <=> InVec(s, a)
    BY <1>1, <1>3 DEF InVec
  <2>2. QED
    BY <1>1, <1>2, <1>3, <1>4, <2>1, TagReaderAssumption DEF Sound, RefsBut, Holders, One
<1>8. QED
  BY <1>5, <1>6, <1>7 DEF Sound, t, r, e

-----------------------------------------------------------------------------
(* tag_reader_read_async leaves the caller the reference it had, whatever  *)
(* fails.                                                                  *)
LEMMA ReadAsyncIsSound ==
    ASSUME NEW s, NEW m \in Addresses, NEW k \in Int, Sound(s, m, k, {}), ~ IsPending(s, m),
           NEW out \in ReadAsync(s, m)
    PROVE  Sound(out, m, k, {}) /\ out.vec = s.vec
<1> DEFINE uri == s.heap[m].uri
           r == Ref(s, m)
<1>1. CASE s.heap[m].parsed
  BY <1>1 DEF ReadAsync
<1>2. CASE ~ s.heap[m].parsed
  <2>1. uri \in Uris /\ s.heap[m].parsed = FALSE
    BY <1>2 DEF Sound, Shape
  <2>2. Sound(r, m, k + 1, {}) /\ SameBut(s, r, m, 1)
    BY RefLemma
  <2>3. r.vec = s.vec /\ AwaitsTags(r, m, uri)
    BY <2>1, <2>2 DEF SameBut, IsPending, AwaitsTags
  <2>4. PICK put \in MapInsert(r, uri, m) :
           out \in IF put.ok THEN DiscoverAsync(put.s, uri, m) ELSE {Unref(put.s, m)}
    BY <1>2 DEF ReadAsync
  <2> HIDE DEF uri, r
  <2>5. ASSUME NEW t, Sound(t, m, k + 1, {}), t.vec = s.vec
        PROVE  Sound(Unref(t, m), m, k, {}) /\ Unref(t, m).vec = s.vec
    <3>1. Sound(Unref(t, m), m, (k + 1) - 1, {}) /\ SameBut(t, Unref(t, m), m, -1)
      BY <2>5, UnrefLemma, k + 1 \in Int
    <3>2. QED
      BY <2>5, <3>1, (k + 1) - 1 = k DEF SameBut
  <2>6. CASE ~ put.ok
    <3>1. put.s = r /\ out = Unref(r, m)
      BY <2>4, <2>6 DEF MapInsert
    <3>2. QED
      BY <2>2, <2>3, <2>5, <3>1
  <2>7. CASE put.ok
    <3> DEFINE t == put.s
    <3>1. t = MapPut(IF uri \in DOMAIN r.map THEN Unref(r, r.map[uri]) ELSE r, uri, m)
      BY <2>7 DEF MapInsert
    <3>2. /\ Sound(t, m, (k + 1) - 1, {} \cup {uri}) /\ t.vec = s.vec
          /\ uri \in DOMAIN t.map /\ t.map[uri] = m
      <4> HIDE DEF t
      <4>1. k + 1 \in Int
        OBVIOUS
      <4>2. CASE uri \in DOMAIN r.map
        <5> DEFINE p == MapPut(Unref(r, r.map[uri]), uri, m)
        <5>1. m \in Addresses /\ Sound(r, m, k + 1, {}) /\ AwaitsTags(r, m, uri)
          BY <2>2, <2>3
        <5>2. /\ Sound(p, m, (k + 1) - 1, {} \cup {uri}) /\ p.vec = r.vec
              /\ uri \in DOMAIN p.map /\ p.map[uri] = m
          BY ONLY <5>1, <4>1, <4>2, MapReplaces
        <5>3. t = p
          BY <3>1, <4>2
        <5> HIDE DEF p
        <5>4. QED
          BY ONLY <2>3, <5>2, <5>3
      <4>3. CASE uri \notin DOMAIN r.map
        <5>1. m \in Addresses /\ uri \in Uris /\ Sound(r, m, k + 1, {}) /\ AwaitsTags(r, m, uri)
          BY <2>1, <2>2, <2>3
        <5>2. /\ Sound(MapPut(r, uri, m), m, (k + 1) - 1, {} \cup {uri})
              /\ MapPut(r, uri, m).vec = r.vec
              /\ uri \in DOMAIN MapPut(r, uri, m).map /\ MapPut(r, uri, m).map[uri] = m
          BY ONLY <5>1, <4>1, <4>3, MapGains
        <5>3. t = MapPut(r, uri, m)
          BY <3>1, <4>3
        <5>4. QED
          BY ONLY <2>3, <5>2, <5>3
      <4>4. QED
        BY <4>2, <4>3
    <3>3. out \in {[t EXCEPT !.queue = Append(@, uri)], Unref(MapTake(t, uri), m)}
      BY <2>4, <2>7 DEF DiscoverAsync
    <3> HIDE DEF t
    <3>4. Sound(t, m, k, {uri})
      BY <3>2, (k + 1) - 1 = k, {} \cup {uri} = {uri}
    <3>5. /\ Sound([t EXCEPT !.queue = Append(@, uri)], m, k, {uri} \ {uri})
          /\ [t EXCEPT !.queue = Append(@, uri)].vec = t.vec
      BY <2>1, <3>4, QueueGains DEF uri
    <3>6. /\ Sound(MapTake(t, uri), m, k + 1, {uri} \ {uri})
          /\ MapTake(t, uri).vec = t.vec
      BY <3>2, <3>4, MapLoses
    <3>7. CASE out = [t EXCEPT !.queue = Append(@, uri)]
      BY <3>2, <3>5, <3>7, {uri} \ {uri} = {}
    <3>8. CASE out = Unref(MapTake(t, uri), m)
      <4>1. Sound(MapTake(t, uri), m, k + 1, {}) /\ MapTake(t, uri).vec = s.vec
        BY <3>2, <3>6, {uri} \ {uri} = {}
      <4>2. QED
        BY <2>5, <3>8, <4>1
    <3>9. QED
      BY <3>3, <3>7, <3>8
  <2>8. QED
    BY <2>6, <2>7
<1>3. QED
  BY <1>1, <1>2

LEMMA PlaylistAddMediaIsSound ==
    ASSUME NEW s, NEW m \in Addresses, NEW k \in Int, Sound(s, m, k, {}),
           ~ IsPending(s, m), ~ InVec(s, m),
           NEW out \in PlaylistAddMedia(s, m)
    PROVE  Sound(out.s, m, k, {}) /\ out.s.vec \in {s.vec, Append(s.vec, m)}
<1>1. PICK read \in ReadAsync(s, m) :
         \/ out.s = [Ref(read, m) EXCEPT !.vec = Append(@, m)]
         \/ out.s = Unref(Ref(read, m), m)
  BY DEF PlaylistAddMedia
<1> DEFINE r == Ref(read, m)
<1>2. Sound(read, m, k, {}) /\ read.vec = s.vec
  BY ReadAsyncIsSound
<1>3. Sound(r, m, k + 1, {}) /\ r.vec = s.vec
  BY <1>2, RefLemma DEF SameBut
<1> HIDE DEF r
<1>4. ~ InVec(r, m)
  BY <1>3 DEF InVec
<1>5. /\ Sound([r EXCEPT !.vec = Append(@, m)], m, (k + 1) - 1, {})
      /\ [r EXCEPT !.vec = Append(@, m)].vec = Append(s.vec, m)
  BY <1>3, <1>4, k + 1 \in Int, VecGains
<1>6. Sound(Unref(r, m), m, (k + 1) - 1, {}) /\ Unref(r, m).vec = s.vec
  BY <1>3, k + 1 \in Int, UnrefLemma DEF SameBut
<1>7. QED
  BY <1>1, <1>5, <1>6, (k + 1) - 1 = k DEF r

LEMMA PlaylistAddIsSound ==
    ASSUME NEW s, Sound(s, None, 0, {}), NEW uri \in Uris, NEW out \in PlaylistAdd(s, uri)
    PROVE  Sound(out.s, None, 0, {}) /\ Len(out.s.vec) >= Len(s.vec)
<1>0. s.vec \in Seq(Addresses)
  BY DEF Sound, Shape
<1>1. CASE out = [ok |-> FALSE, s |-> s]
  BY <1>0, <1>1
<1>2. CASE out # [ok |-> FALSE, s |-> s]
  <2>1. PICK m \in Free(s) : \E add \in PlaylistAddMedia(MediaNew(s, m, uri), m) :
           out = [add EXCEPT !.s = Unref(@, m)]
    BY <1>2 DEF PlaylistAdd
  <2>2. PICK add \in PlaylistAddMedia(MediaNew(s, m, uri), m) :
           out = [add EXCEPT !.s = Unref(@, m)]
    BY <2>1
  <2>3. m \in Addresses /\ s.heap[m].refs = 0
    BY DEF Free
  <2>4. /\ Sound(MediaNew(s, m, uri), m, 1, {})
        /\ ~ InVec(MediaNew(s, m, uri), m) /\ ~ IsPending(MediaNew(s, m, uri), m)
        /\ MediaNew(s, m, uri).vec = s.vec
    BY <2>3, MediaIsNew
  <2>5. Sound(add.s, m, 1, {}) /\ add.s.vec \in {s.vec, Append(s.vec, m)}
    BY <2>3, <2>4, PlaylistAddMediaIsSound
  <2>6. PICK read \in ReadAsync(MediaNew(s, m, uri), m) :
           \/ add = [ok |-> TRUE,  s |-> [Ref(read, m) EXCEPT !.vec = Append(@, m)]]
           \/ add = [ok |-> FALSE, s |-> Unref(Ref(read, m), m)]
    BY DEF PlaylistAddMedia
  <2>7. out.s = Unref(add.s, m)
    <3> DEFINE x == [Ref(read, m) EXCEPT !.vec = Append(@, m)]
               y == Unref(Ref(read, m), m)
    <3> HIDE DEF x, y
    <3>1. CASE add = [ok |-> TRUE, s |-> x]
      BY <2>2, <3>1
    <3>2. CASE add = [ok |-> FALSE, s |-> y]
      BY <2>2, <3>2
    <3>3. QED
      BY <2>6, <3>1, <3>2 DEF x, y
  <2>8. Sound(out.s, m, 1 - 1, {}) /\ out.s.vec = add.s.vec
    BY <2>3, <2>5, <2>7, UnrefLemma DEF SameBut
  <2>9. Len(out.s.vec) >= Len(s.vec)
    BY <1>0, <2>3, <2>5, <2>8
  <2>10. QED
    BY <2>8, <2>9, Settled, 1 - 1 = 0
<1>3. QED
  BY <1>1, <1>2

LEMMA PlaylistRemoveIsSound ==
    ASSUME NEW s, Sound(s, None, 0, {}), NEW i \in 1 .. Len(s.vec)
    PROVE  Sound(PlaylistRemove(s, i), None, 0, {}) /\ Len(PlaylistRemove(s, i).vec) = Len(s.vec) - 1
<1> DEFINE m == s.vec[i]
           t == [s EXCEPT !.vec = RemoveAt(@, i)]
<1>1. m \in Addresses /\ Sound(t, m, 1, {}) /\ t.vec = RemoveAt(s.vec, i)
  BY VecLoses
<1>2. Sound(Unref(t, m), m, 1 - 1, {}) /\ Unref(t, m).vec = t.vec
  <2> HIDE DEF m, t
  <2>1. QED
    BY <1>1, UnrefLemma DEF SameBut
<1>3. Len(RemoveAt(s.vec, i)) = Len(s.vec) - 1
  BY RemoveFromVec DEF Sound, Shape
<1>4. QED
  BY <1>1, <1>2, <1>3, Settled, 1 - 1 = 0 DEF PlaylistRemove

LEMMA PlayTrackIsSound ==
    ASSUME NEW s, Sound(s, None, 0, {}), NEW m \in Addresses
    PROVE  /\ Sound(Activate(Ref(s, m), m), None, 0, {})
           /\ Sound(Unref(Ref(s, m), m), None, 0, {})
<1>1. Sound(s, m, 0, {})
  BY Settled
<1>2. Sound(Ref(s, m), m, 0 + 1, {})
  BY <1>1, RefLemma
<1>3. Sound(Activate(Ref(s, m), m), m, 1 - 1, {})
  BY <1>2, ActiveChanges, 0 + 1 = 1
<1>4. Sound(Unref(Ref(s, m), m), m, 1 - 1, {})
  BY <1>2, UnrefLemma, 0 + 1 = 1
<1>5. QED
  BY <1>3, <1>4, Settled, 1 - 1 = 0

LEMMA AnsweredIsSound ==
    ASSUME NEW s, NEW uri, Sound(s, None, 0, {uri}), NEW ok \in BOOLEAN
    PROVE  Sound(Answered(s, uri, ok), None, 0, {})
<1>1. CASE uri \notin DOMAIN s.map
  <2>1. AwaitedBut(s, {})
    BY <1>1 DEF Sound, AwaitedBut
  <2>2. QED
    BY <1>1, <2>1 DEF Answered, Sound
<1>2. CASE uri \in DOMAIN s.map
  <2> DEFINE m == s.map[uri]
             t == MapTake(s, uri)
             r == [t EXCEPT !.heap[m].parsed = @ \/ ok]
  <2>1. Sound(s, m, 0, {uri})
    BY Settled
  <2>2. m \in Addresses /\ Sound(t, m, 0 + 1, {uri} \ {uri}) /\ ~ IsPending(t, m)
    BY <1>2, <2>1, MapLoses
  <2>3. Answered(s, uri, ok) = Unref(r, m)
    BY <1>2 DEF Answered
  <2> HIDE DEF m, t
  <2>4. Sound(r, m, 1, {})
    BY <2>2, TagsAreSet, 0 + 1 = 1, {uri} \ {uri} = {}
  <2> HIDE DEF r
  <2>5. Sound(Unref(r, m), m, 1 - 1, {})
    BY <2>2, <2>4, UnrefLemma
  <2>6. QED
    BY <2>3, <2>5, Settled, 1 - 1 = 0
<1>3. QED
  BY <1>1, <1>2

LEMMA DestroyedIsSound ==
    ASSUME NEW s, Sound(s, None, 0, {})
    PROVE  Sound(Destroyed(s), None, 0, {})
<1> DEFINE t == Activate(s, None)
           r == [UnrefAll(t, Range(t.map)) EXCEPT !.map = <<>>, !.queue = <<>>]
<1>1. Sound(t, None, 0 - 1, {})
  BY ActiveChanges
<1>2. Sound(t, None, 0, {})
  BY <1>1, TagReaderAssumption DEF Sound, RefsBut
<1> HIDE DEF t
<1>3. Sound(r, None, 0, {})
  BY <1>2, TagReaderIsDestroyed
<1> HIDE DEF r
<1>4. Sound(PlaylistClear(r), None, 0, {})
  BY <1>3, ClearIsSound
<1>5. QED
  BY <1>4 DEF Destroyed, t, r

-----------------------------------------------------------------------------
LEMMA InitIsSound == Init => IInv
<1> SUFFICES ASSUME Init
             PROVE  IInv
  OBVIOUS
<1>1. PICK uri \in Uris :
         st = [heap   |-> [m \in Addresses |-> [uri |-> uri, refs |-> 0, parsed |-> FALSE]],
               vec    |-> <<>>, active |-> None, map |-> <<>>, queue |-> <<>>]
  BY DEF Init
<1> DEFINE e == <<>>
           h == [m \in Addresses |-> [uri |-> uri, refs |-> 0, parsed |-> FALSE]]
<1>2. /\ e \in Seq(Addresses) /\ e \in Seq(Uris) /\ Len(e) = 0
      /\ DOMAIN e = {} /\ e \in [DOMAIN e -> Addresses] /\ IsInjective(e)
  BY DEF IsInjective
<1>3. /\ h \in [Addresses -> [uri : Uris, refs : Int, parsed : BOOLEAN]]
      /\ \A a \in Addresses : h[a].refs = 0
  OBVIOUS
<1>4. st = [heap |-> h, vec |-> e, active |-> None, map |-> e, queue |-> e]
  BY <1>1
<1> HIDE DEF e, h
<1>5. /\ HasFields(st) /\ st.heap = h /\ st.vec = e /\ st.active = None
      /\ st.map = e /\ st.queue = e
  BY <1>4 DEF HasFields
<1>6. Shape(st) /\ PendingMatches(st) /\ AwaitedBut(st, {})
  BY <1>2, <1>3, <1>5 DEF Shape, PendingMatches, AwaitedBut
<1>7. RefsBut(st, None, 0)
  BY <1>2, <1>3, <1>5, TagReaderAssumption DEF RefsBut, Holders, One, InVec, IsPending
<1>8. QED
  BY <1>2, <1>5, <1>6, <1>7, TagReaderAssumption DEF Init, IInv, Sound

LEMMA NextIsSound == IInv /\ [Next]_vars => IInv'
<1> SUFFICES ASSUME IInv, [Next]_vars
             PROVE  IInv'
  OBVIOUS
<1>0. /\ Sound(st, None, 0, {}) /\ Len(st.vec) \in Nat /\ DOMAIN st.vec = 1 .. Len(st.vec)
      /\ \A i \in DOMAIN st.vec : st.vec[i] \in Addresses
      /\ loading \in 0 .. Len(st.vec) \cup {Idle}
      /\ failed \in BOOLEAN /\ running \in BOOLEAN /\ (failed => loading # Idle)
  BY DEF IInv, Sound, Shape
<1> DEFINE KeepsRest == /\ loading' \in 0 .. Len(st'.vec) \cup {Idle}
                        /\ failed' \in BOOLEAN /\ (failed' => loading' # Idle)
                        /\ running' \in BOOLEAN
<1> SUFFICES Sound(st', None, 0, {}) /\ KeepsRest
  BY DEF IInv, Sound, Shape, HasFields, PendingMatches, AwaitedBut, Queued, RefsBut,
         Holders, InVec, IsPending, One
<1>1. ASSUME NEW uri \in Uris, Add(uri)
      PROVE  Sound(st', None, 0, {}) /\ KeepsRest
  <2>1. PICK out \in PlaylistAdd(st, uri) : st' = out.s
    BY <1>1 DEF Add
  <2>2. Sound(st', None, 0, {})
    BY <1>0, <2>1, PlaylistAddIsSound
  <2>3. QED
    BY <1>0, <1>1, <2>2 DEF Add, MainLoop
<1>2. ASSUME NEW uri \in Uris, LoadLine(uri)
      PROVE  Sound(st', None, 0, {}) /\ KeepsRest
  <2>1. PICK out \in PlaylistAdd(st, uri) : st' = out.s /\ failed' = ~ out.ok
    BY <1>2 DEF LoadLine
  <2>2. Sound(st', None, 0, {}) /\ Len(st'.vec) >= Len(st.vec)
    BY <1>0, <2>1, PlaylistAddIsSound
  <2>3. failed' \in BOOLEAN
    BY <2>1
  <2>4. Len(st'.vec) \in Nat
    BY <2>2 DEF Sound, Shape
  <2>5. QED
    BY <1>0, <1>2, <2>2, <2>3, <2>4 DEF LoadLine
<1>3. ASSUME NEW i \in DOMAIN st.vec, RemoveTrack(i)
      PROVE  Sound(st', None, 0, {}) /\ KeepsRest
  <2>1. Sound(st', None, 0, {})
    BY <1>0, <1>3, PlaylistRemoveIsSound DEF RemoveTrack
  <2>2. QED
    BY <1>0, <1>3, <2>1 DEF RemoveTrack, MainLoop
<1>4. ASSUME NEW i \in DOMAIN st.vec, PlayTrack(i)
      PROVE  Sound(st', None, 0, {}) /\ KeepsRest
  <2>1. st' \in {Activate(Ref(st, st.vec[i]), st.vec[i]), Unref(Ref(st, st.vec[i]), st.vec[i])}
    BY <1>4 DEF PlayTrack
  <2>2. Sound(st', None, 0, {})
    BY <1>0, <2>1, PlayTrackIsSound
  <2>3. QED
    BY <1>0, <1>4, <2>2 DEF PlayTrack, MainLoop
<1>5. CASE Clear
  <2>1. Sound(st', None, 0, {})
    BY <1>0, <1>5, ClearIsSound DEF Clear
  <2>2. QED
    BY <1>0, <1>5, <2>1 DEF Clear, MainLoop
<1>6. CASE LoadFile
  <2>1. st' = st /\ loading' = Len(st.vec) /\ failed' = FALSE /\ running' = running
    BY <1>6 DEF LoadFile
  <2>2. Sound(st', None, 0, {})
    BY <1>0, <2>1
  <2>3. Len(st'.vec) \in Nat /\ loading' = Len(st'.vec)
    BY <2>1, <2>2 DEF Sound, Shape
  <2>4. loading' # Idle /\ loading' \in 0 .. Len(st'.vec)
    BY <2>3, TagReaderAssumption
  <2>5. running' \in BOOLEAN
    BY <1>0, <2>1
  <2>6. failed' \in BOOLEAN /\ ~ failed'
    BY <2>1
  <2>7. QED
    BY <2>2, <2>4, <2>5, <2>6
<1>7. CASE BadLine
  BY <1>0, <1>7 DEF BadLine
<1>8. CASE RollBack
  <2>1. /\ loading \in 0 .. Len(st.vec) /\ Len(st.vec) # loading
        /\ st' = PlaylistRemove(st, Len(st.vec))
    BY <1>0, <1>8 DEF RollBack
  <2>2. Len(st.vec) \in 1 .. Len(st.vec) /\ loading \in 0 .. Len(st.vec) - 1
    BY <1>0, <2>1
  <2>3. Sound(st', None, 0, {}) /\ Len(st'.vec) = Len(st.vec) - 1
    BY <1>0, <2>1, <2>2, PlaylistRemoveIsSound
  <2>4. QED
    BY <1>0, <1>8, <2>2, <2>3 DEF RollBack
<1>9. CASE LoadEnds
  BY <1>0, <1>9 DEF LoadEnds
<1>10. CASE Discovered
  <2>1. PICK ok \in BOOLEAN :
           st' = Answered([st EXCEPT !.queue = Tail(@)], Head(st.queue), ok)
    BY <1>10 DEF Discovered
  <2>2. Sound([st EXCEPT !.queue = Tail(@)], None, 0, {} \cup {Head(st.queue)})
    BY <1>0, <1>10, QueueLoses DEF Discovered
  <2>3. Sound([st EXCEPT !.queue = Tail(@)], None, 0, {Head(st.queue)})
    BY <2>2, {} \cup {Head(st.queue)} = {Head(st.queue)}
  <2>4. Sound(st', None, 0, {})
    BY <2>1, <2>3, AnsweredIsSound
  <2>5. QED
    BY <1>0, <1>10, <2>4 DEF Discovered, MainLoop
<1>11. CASE Quit
  <2>1. Sound(st', None, 0, {})
    BY <1>0, <1>11, DestroyedIsSound DEF Quit
  <2>2. QED
    BY <1>0, <1>11, <2>1 DEF Quit, MainLoop
<1>12. CASE UNCHANGED vars
  BY <1>0, <1>12 DEF vars
<1>13. QED
  BY <1>1, <1>2, <1>3, <1>4, <1>5, <1>6, <1>7, <1>8, <1>9, <1>10, <1>11, <1>12 DEF Next

LEMMA SoundAlways == Spec => []IInv
<1>1. QED
  BY InitIsSound, NextIsSound, PTL DEF Spec

-----------------------------------------------------------------------------
LEMMA SoundIsRight ==
    IInv => TypeOK /\ RefsAreHolders /\ PendingIsAwaited
<1> SUFFICES ASSUME IInv
             PROVE  TypeOK /\ RefsAreHolders /\ PendingIsAwaited
  OBVIOUS
<1>1. Shape(st) /\ PendingMatches(st) /\ AwaitedBut(st, {}) /\ RefsBut(st, None, 0)
  BY DEF IInv, Sound
<1>2. RefsAreHolders
  <2>1. ASSUME NEW a \in Addresses
        PROVE  st.heap[a].refs = Holders(st, a)
    BY <1>1, TagReaderAssumption, NumbersOfHolders DEF RefsBut
  <2>2. QED
    BY <2>1 DEF RefsAreHolders
<1>3. TypeOK
  <2>1. ASSUME NEW a \in Addresses
        PROVE  st.heap[a] \in [uri : Uris, refs : Nat, parsed : BOOLEAN]
    <3>1. st.heap[a] \in [uri : Uris, refs : Int, parsed : BOOLEAN]
      BY <1>1 DEF Shape
    <3>2. st.heap[a].refs \in Nat
      BY <1>2, NumbersOfHolders DEF RefsAreHolders
    <3>3. QED
      BY <3>1, <3>2
  <2>2. st.heap \in [Addresses -> [uri : Uris, refs : Nat, parsed : BOOLEAN]]
    BY <1>1, <2>1 DEF Shape
  <2>3. loading \in Nat \cup {Idle} /\ failed \in BOOLEAN /\ running \in BOOLEAN
    BY <1>1 DEF IInv, Shape
  <2>4. QED
    BY <1>1, <2>2, <2>3 DEF TypeOK, Shape
<1>4. PendingIsAwaited
  <2>1. ASSUME NEW uri \in DOMAIN st.map
        PROVE  uri \in Range(st.queue)
    <3>1. uri \in {} \/ Queued(st, uri)
      BY <1>1 DEF AwaitedBut
    <3>2. PICK j \in DOMAIN st.queue : st.queue[j] = uri
      BY <3>1 DEF Queued
    <3>3. QED
      BY <3>2 DEF Range
  <2>2. QED
    BY <1>1, <2>1 DEF PendingIsAwaited, PendingMatches
<1>5. QED
  BY <1>2, <1>3, <1>4

(* No sequence of commands, failures and answers, however many tracks there *)
(* are, takes a count of references below zero.                             *)
THEOREM TypeCorrect == Spec => []TypeOK
BY SoundAlways, SoundIsRight, PTL

(* Nothing is freed that somebody holds, and nothing is left that nobody    *)
(* holds, after any command, any answer and any failure on the way.         *)
THEOREM ReferencesAreCounted == Spec => []RefsAreHolders
BY SoundAlways, SoundIsRight, PTL

(* The tag reader waits only for answers that are still to come, and keeps  *)
(* each media under its own URI.                                            *)
THEOREM TagReaderIsAnswered == Spec => []PendingIsAwaited
BY SoundAlways, SoundIsRight, PTL
=============================================================================
