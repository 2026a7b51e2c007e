---------------------------- MODULE TablesProofs ----------------------------
(***************************************************************************)
(* Theorems about the tables that tasks change while others use them: the  *)
(* capabilities and their hash table, the Lua jobs and their objects, the  *)
(* rules of the dispatcher and their file.  They hold for any tasks, names *)
(* and sizes, and any faults and power losses, unless they say otherwise.  *)
(***************************************************************************)
EXTENDS MCTables, SeqLemmas, FiniteSetTheorems

(***************************************************************************)
(* The hash table of the capabilities.  Dist(a, b) is the number of steps  *)
(* from bucket a on to bucket b; an entry is found if no bucket is unused  *)
(* on its way, from its home bucket to its own.                            *)
(***************************************************************************)
Wrap(x)    == IF x < HtSize THEN x ELSE x - HtSize
Dist(a, b) == IF b >= a THEN b - a ELSE b - a + HtSize
LastBucket       == HtSize - 1
On(x, a, b) == Dist(a, x) <= Dist(a, b)

(* The entries are those of D, each in one bucket.                         *)
Stores(h, D) ==
  /\ h \in [Registry!Buckets -> D \cup {Unset}]
  /\ \A d \in D : \E b \in Registry!Buckets : h[b] = d
  /\ \A b, c \in Registry!Buckets : h[b] = h[c] /\ h[b] # Unset => b = c

Reached(h, name) ==
  \A b, x \in Registry!Buckets : h[b] # Unset /\ On(x, Home[name[h[b]]], b) => h[x] # Unset

LEMMA CapConstants ==
  ASSUME TablesAssumption
  PROVE  /\ HtSize \in Nat \ {0} /\ MaxGroups \in Nat \ {0} /\ MaxDescs \in Nat \ {0} /\ MaxDescs < HtSize
         /\ Home \in [Registry!Caps -> Registry!Buckets] /\ Registry!Buckets = 0..LastBucket /\ Unset \notin Int
BY DEF TablesAssumption, Registry!RegistryAssumption, Registry!Buckets, LastBucket

LEMMA BucketIs ==
  ASSUME TablesAssumption, NEW a \in Registry!Buckets, NEW k \in Registry!Buckets
  PROVE  Registry!Bucket(a + k) = Wrap(a + k) /\ Wrap(a + k) \in Registry!Buckets /\ Dist(a, Wrap(a + k)) = k
<1>1. HtSize \in Nat \ {0} /\ a \in 0..(HtSize - 1) /\ k \in 0..(HtSize - 1)
  BY CapConstants DEF LastBucket
<1>2. \A m \in Nat \ {0} : \A x \in 0..(m - 1) : x % m = x /\ (x + m) % m = x
  OBVIOUS
<1>3. CASE a + k < HtSize
  BY <1>1, <1>2, <1>3 DEF Registry!Bucket, Wrap, Registry!Buckets, Dist
<1>4. CASE a + k >= HtSize
  <2>1. a + k - HtSize \in 0..(HtSize - 1) /\ (a + k - HtSize) + HtSize = a + k
    BY <1>1, <1>4
  <2>2. (a + k) % HtSize = a + k - HtSize
    BY <1>1, <1>2, <2>1
  <2> QED BY <1>1, <1>4, <2>1, <2>2 DEF Registry!Bucket, Wrap, Registry!Buckets, Dist
<1> QED BY <1>1, <1>3, <1>4

LEMMA DistIs ==
  ASSUME TablesAssumption, NEW a \in Registry!Buckets, NEW b \in Registry!Buckets
  PROVE  Dist(a, b) \in Registry!Buckets /\ Wrap(a + Dist(a, b)) = b
<1>1. HtSize \in Nat \ {0} /\ a \in 0..(HtSize - 1) /\ b \in 0..(HtSize - 1)
  BY CapConstants DEF LastBucket
<1> QED BY <1>1 DEF Dist, Wrap, Registry!Buckets

LEMMA ProbeIs ==
  ASSUME TablesAssumption, NEW n \in Registry!Caps, NEW k \in Registry!Buckets
  PROVE  /\ Registry!Probe(n)[k] \in Registry!Buckets /\ Dist(Home[n], Registry!Probe(n)[k]) = k
         /\ Registry!Probe(n)[k] = Wrap(Home[n] + k)
<1>1. Home[n] \in Registry!Buckets
  BY CapConstants
<1>2. Registry!Probe(n)[k] = Registry!Bucket(Home[n] + k)
  BY DEF Registry!Probe, Registry!Buckets
<1> QED BY <1>1, <1>2, BucketIs

(* A table with fewer entries than buckets has an unused one.              *)
LEMMA SomeUnused ==
  ASSUME TablesAssumption, NEW D \in SUBSET (1..MaxDescs), NEW h, Stores(h, D)
  PROVE  \E z \in Registry!Buckets : h[z] = Unset
<1> SUFFICES ASSUME \A z \in Registry!Buckets : h[z] # Unset PROVE FALSE
  OBVIOUS
<1>1. h \in [Registry!Buckets -> 1..MaxDescs]
  BY DEF Stores
<1>2. IsFiniteSet(Registry!Buckets) /\ Cardinality(Registry!Buckets) = HtSize
  BY CapConstants, FS_Interval DEF LastBucket
<1>3. IsFiniteSet(1..MaxDescs) /\ Cardinality(1..MaxDescs) = MaxDescs
  BY CapConstants, FS_Interval
<1>4. \E b, c \in Registry!Buckets : b # c /\ h[b] = h[c]
  <2> DEFINE S == Registry!Buckets
             T == 1..MaxDescs
  <2>1. Cardinality(T) < Cardinality(S)
    BY <1>2, <1>3, CapConstants
  <2>2. IsFiniteSet(S) /\ IsFiniteSet(T) /\ h \in [S -> T]
    BY <1>1, <1>2, <1>3
  <2> HIDE DEF S, T
  <2>3. \E b, c \in S : b # c /\ h[b] = h[c]
    BY <2>1, <2>2, FS_PigeonHole
  <2> QED BY <2>3 DEF S
<1> QED BY <1>4 DEF Stores

(* A set of numbers has its least element.                                 *)
LEMMA LeastIs ==
  ASSUME NEW S \in SUBSET Nat, S # {}
  PROVE  Registry!Least(S) \in S /\ \A y \in S : Registry!Least(S) <= y
BY LeastNat DEF Registry!Least

(* An entry is found, and a name nobody has is not.                        *)
LEMMA FoundBy ==
  ASSUME TablesAssumption, NEW D \in SUBSET (1..MaxDescs), Stores(ht, D), Reached(ht, [d \in D |-> descs[d].cap]),
         \A d \in D : descs[d] # Unset /\ descs[d].cap \in Registry!Caps,
         \A d, e \in D : descs[d].cap = descs[e].cap => d = e
  PROVE  /\ \A d \in D : Registry!Lookup(descs[d].cap) = d
         /\ \A n \in Registry!Caps : (\A d \in D : descs[d].cap # n) => Registry!Lookup(n) = Unset
         /\ \A n \in Registry!Caps : Registry!Lookup(n) # Unset =>
              Registry!Lookup(n) \in D /\ descs[Registry!Lookup(n)].cap = n
<1> DEFINE hits(n) == {k \in 0..(HtSize - 1) :
                         /\ ht[Registry!Probe(n)[k]] # Unset /\ descs[ht[Registry!Probe(n)[k]]] # Unset
                         /\ descs[ht[Registry!Probe(n)[k]]].cap = n
                         /\ \A j \in 0..k : ht[Registry!Probe(n)[j]] # Unset}
<1>1. \A n : Registry!Lookup(n) = IF hits(n) = {} THEN Unset
                                  ELSE ht[Registry!Probe(n)[CHOOSE k \in hits(n) : \A j \in hits(n) : k <= j]]
  BY DEF Registry!Lookup
<1>2. ASSUME NEW n \in Registry!Caps, NEW k \in hits(n)
      PROVE  /\ k \in Registry!Buckets /\ Registry!Probe(n)[k] \in Registry!Buckets
             /\ ht[Registry!Probe(n)[k]] \in D /\ descs[ht[Registry!Probe(n)[k]]].cap = n
  <2>1. k \in Registry!Buckets
    BY DEF Registry!Buckets
  <2> QED BY <2>1, ProbeIs DEF Stores
<1>3. ASSUME NEW d \in D PROVE Registry!Lookup(descs[d].cap) = d
  <2> DEFINE n == descs[d].cap
  <2>0. n \in Registry!Caps /\ Home[n] \in Registry!Buckets
    BY CapConstants
  <2>1. PICK b \in Registry!Buckets : ht[b] = d
    BY DEF Stores
  <2> DEFINE k == Dist(Home[n], b)
  <2>2. k \in Registry!Buckets /\ Registry!Probe(n)[k] = b
    BY <2>0, DistIs, ProbeIs
  <2>3. d # Unset
    BY CapConstants
  <2>4. ASSUME NEW j \in 0..k PROVE ht[Registry!Probe(n)[j]] # Unset
    <3>1. j \in Registry!Buckets
      BY <2>2, CapConstants DEF LastBucket
    <3>2. Registry!Probe(n)[j] \in Registry!Buckets /\ Dist(Home[n], Registry!Probe(n)[j]) = j
      BY <2>0, <3>1, ProbeIs
    <3>3. On(Registry!Probe(n)[j], Home[n], b)
      BY <3>2 DEF On
    <3>4. [e \in D |-> descs[e].cap][ht[b]] = n
      BY <2>1
    <3> QED BY <2>1, <2>3, <3>2, <3>3, <3>4 DEF Reached
  <2> HIDE DEF k, n
  <2>5. k \in hits(n)
    BY <2>1, <2>2, <2>3, <2>4 DEF n, Registry!Buckets
  <2>6. ASSUME NEW j \in hits(n) PROVE j = k
    <3>1. ht[Registry!Probe(n)[j]] = d
      BY <1>2, <2>0 DEF n
    <3>2. Registry!Probe(n)[j] = b
      BY <1>2, <2>0, <2>1, <2>3, <3>1 DEF Stores
    <3>3. j \in Registry!Buckets /\ Dist(Home[n], Registry!Probe(n)[j]) = j
      BY <1>2, <2>0, ProbeIs
    <3> QED BY <3>2, <3>3 DEF k
  <2> HIDE DEF hits
  <2>7. hits(n) = {k} /\ k <= k
    BY <2>2, <2>5, <2>6, CapConstants DEF LastBucket
  <2>8. (CHOOSE i \in hits(n) : \A j \in hits(n) : i <= j) = k
    BY <2>7
  <2>9. Registry!Lookup(n) = ht[Registry!Probe(n)[k]]
    BY <1>1, <2>7, <2>8
  <2> QED BY <2>1, <2>2, <2>9 DEF n
<1>4. ASSUME NEW n \in Registry!Caps
      PROVE  \/ Registry!Lookup(n) = Unset
             \/ Registry!Lookup(n) \in D /\ descs[Registry!Lookup(n)].cap = n
  <2>1. CASE hits(n) = {}
    BY <1>1, <2>1
  <2>2. CASE hits(n) # {}
    <3>1. hits(n) \in SUBSET Nat
      BY CapConstants
    <3> HIDE DEF hits
    <3>2. PICK k \in hits(n) : \A j \in hits(n) : k <= j
      BY <2>2, <3>1, LeastNat
    <3>3. (CHOOSE i \in hits(n) : \A j \in hits(n) : i <= j) \in hits(n)
      BY <3>2
    <3> QED BY <1>1, <1>2, <2>2, <3>3
  <2> QED BY <2>1, <2>2
<1>5. \A d \in D : d # Unset
  BY CapConstants
<1> QED BY <1>3, <1>4, <1>5

(* A new entry comes to the first unused bucket on its way.                *)
LEMMA Inserted ==
  ASSUME TablesAssumption, NEW D \in SUBSET (1..MaxDescs), NEW name, NEW h, Stores(h, D), Reached(h, name),
         NEW d \in (1..MaxDescs) \ D, name[d] \in Registry!Caps, \A e \in D : name[e] \in Registry!Caps
  PROVE  Stores(Registry!Insert(h, name[d], d), D \cup {d}) /\ Reached(Registry!Insert(h, name[d], d), name)
<1> DEFINE n    == name[d]
           free == {k \in 0..(HtSize - 1) : h[Registry!Probe(n)[k]] = Unset}
           k    == CHOOSE k \in free : \A j \in free : k <= j
           B    == Registry!Probe(n)[k]
           g    == [h EXCEPT ![B] = d]
<1>1. Registry!Insert(h, n, d) = g
  BY DEF Registry!Insert
<1>0. n \in Registry!Caps /\ Home[n] \in Registry!Buckets
  BY CapConstants
<1>2. free # {}
  <2>1. PICK z \in Registry!Buckets : h[z] = Unset
    BY SomeUnused
  <2>2. Dist(Home[n], z) \in Registry!Buckets /\ Registry!Probe(n)[Dist(Home[n], z)] = z
    BY <1>0, DistIs, ProbeIs
  <2> QED BY <2>1, <2>2 DEF Registry!Buckets
<1>3. k \in free /\ \A j \in free : k <= j
  <2>1. free \in SUBSET Nat
    BY CapConstants
  <2> HIDE DEF free
  <2>2. \E i \in free : \A j \in free : i <= j
    BY <1>2, <2>1, LeastNat
  <2> QED BY <2>2
<1>4. k \in Registry!Buckets /\ B \in Registry!Buckets /\ h[B] = Unset /\ Dist(Home[n], B) = k
  BY <1>0, <1>3, ProbeIs DEF Registry!Buckets
<1>5. ASSUME NEW x \in Registry!Buckets, Dist(Home[n], x) < k PROVE h[x] # Unset
  <2>1. Dist(Home[n], x) \in Registry!Buckets /\ Registry!Probe(n)[Dist(Home[n], x)] = x
    BY <1>0, DistIs, ProbeIs
  <2>2. Dist(Home[n], x) \notin free
    <3> DEFINE i == Dist(Home[n], x)
    <3>0. k \in free /\ free \subseteq Int
      BY <1>3, CapConstants
    <3> HIDE DEF free, k
    <3>1. i \in Int /\ k \in Int /\ i < k
      <4>1. i \in Registry!Buckets /\ i < k
        BY <1>5, <2>1
      <4> HIDE DEF i
      <4> QED BY <3>0, <4>1, CapConstants
    <3> HIDE DEF i
    <3> QED BY <1>3, <3>1 DEF i
  <2> QED BY <2>1, <2>2 DEF Registry!Buckets
<1> HIDE DEF free, k, B
<1>6. /\ g \in [Registry!Buckets -> D \cup {d} \cup {Unset}] /\ g[B] = d
      /\ \A x \in Registry!Buckets \ {B} : g[x] = h[x]
  BY <1>4 DEF Stores
<1>7. d # Unset /\ d \notin D /\ \A e \in D : e # Unset
  BY CapConstants
<1> HIDE DEF g, n
<1>8. Stores(g, D \cup {d})
  <2>1. ASSUME NEW e \in D PROVE \E b \in Registry!Buckets : g[b] = e
    <3>1. PICK b \in Registry!Buckets : h[b] = e
      BY DEF Stores
    <3>2. b # B
      BY <1>4, <1>7, <3>1
    <3> QED BY <1>6, <3>1, <3>2
  <2>2. ASSUME NEW b \in Registry!Buckets, NEW c \in Registry!Buckets, g[b] = g[c], g[b] # Unset PROVE b = c
    <3>1. \A x \in Registry!Buckets \ {B} : g[x] \in D \cup {Unset}
      BY <1>6 DEF Stores
    <3> QED BY <1>6, <1>7, <2>2, <3>1 DEF Stores
  <2> QED BY <1>4, <1>6, <2>1, <2>2 DEF Stores
<1>9. ASSUME NEW b \in Registry!Buckets, NEW x \in Registry!Buckets, g[b] # Unset, On(x, Home[name[g[b]]], b)
      PROVE  g[x] # Unset
  <2>1. CASE x = B
    BY <1>6, <1>7, <2>1
  <2>2. CASE b = B /\ x # B
    <3>1. Dist(Home[n], x) <= k
      BY <1>4, <1>6, <1>9, <2>2 DEF On, n
    <3>2. Dist(Home[n], x) # k
      <4>1. Wrap(Home[n] + Dist(Home[n], x)) = x /\ Wrap(Home[n] + Dist(Home[n], B)) = B
        BY <1>0, <1>4, DistIs
      <4> QED BY <1>4, <2>2, <4>1
    <3>3. Dist(Home[n], x) < k
      BY <1>0, <1>4, <3>1, <3>2, DistIs, CapConstants DEF LastBucket
    <3> QED BY <1>5, <1>6, <2>2, <3>3
  <2>3. CASE b # B /\ x # B
    BY <1>6, <1>9, <2>3 DEF Reached
  <2> QED BY <2>1, <2>2, <2>3
<1> QED BY <1>1, <1>8, <1>9 DEF Reached, n

(***************************************************************************)
(* Removal.  After k buckets, the hole is the only unused bucket of those  *)
(* passed, and only entries that are still to be looked at miss it on      *)
(* their way; z is a bucket that was unused before.                        *)
(***************************************************************************)
Passed(s, k, pos, D, name, z) ==
  /\ Stores(s.h, D) /\ s.on \in BOOLEAN /\ s.hole \in Registry!Buckets /\ s.h[s.hole] = Unset
  /\ ~s.on => Reached(s.h, name)
  /\ s.on =>
       /\ Dist(pos, s.hole) <= k /\ s.h[z] = Unset /\ z # s.hole
       /\ \A x \in Registry!Buckets : Dist(pos, x) <= k /\ x # s.hole => s.h[x] # Unset
       /\ \A b, x \in Registry!Buckets :
            s.h[b] # Unset /\ On(x, Home[name[s.h[b]]], b) /\ s.h[x] = Unset =>
              x = s.hole /\ Dist(pos, b) > k

Shifted(s, k, pos, name) ==
  LET scan == Registry!Bucket(pos + k)
  IN  IF ~s.on \/ s.h[scan] = Unset THEN [s EXCEPT !.on = FALSE]
      ELSE IF Registry!MayMove(Home[name[s.h[scan]]], s.hole, scan)
      THEN [s EXCEPT !.h = [s.h EXCEPT ![s.hole] = s.h[scan], ![scan] = Unset], !.hole = scan]
      ELSE s

ShiftStates == [h : [Registry!Buckets -> (1..MaxDescs) \cup {Unset}], hole : Registry!Buckets, on : BOOLEAN]

(* The condition in the code says that the hole is on the entry's way.     *)
LEMMA MayMoveIs ==
  ASSUME TablesAssumption, NEW home \in Registry!Buckets, NEW hole \in Registry!Buckets, NEW scan \in Registry!Buckets, hole # scan
  PROVE  Registry!MayMove(home, hole, scan) <=> On(hole, home, scan)
<1>1. HtSize \in Nat \ {0} /\ home \in 0..(HtSize - 1) /\ hole \in 0..(HtSize - 1) /\ scan \in 0..(HtSize - 1)
  BY CapConstants DEF LastBucket
<1> QED BY <1>1 DEF Registry!MayMove, On, Dist

(* What follows a bucket on the way around.                                *)
LEMMA Ways ==
  ASSUME TablesAssumption, NEW a \in Registry!Buckets, NEW p \in Registry!Buckets, NEW x \in Registry!Buckets,
         NEW y \in Registry!Buckets, NEW b \in Registry!Buckets
  PROVE  /\ On(x, a, b) /\ Dist(p, x) <= Dist(p, y) /\ Dist(p, y) <= Dist(p, b) => On(y, a, b)
         /\ On(x, a, b) /\ Dist(p, b) < Dist(p, x) /\ Dist(p, x) <= Dist(p, y) => On(y, a, b)
         /\ On(x, a, b) /\ On(b, a, y) => On(x, a, y)
         /\ On(x, a, b) /\ On(b, a, x) => x = b
         /\ Dist(p, x) = Dist(p, y) => x = y
         /\ On(b, a, b) /\ Dist(p, x) \in Registry!Buckets
<1>1. /\ HtSize \in Nat \ {0} /\ a \in 0..(HtSize - 1) /\ p \in 0..(HtSize - 1) /\ x \in 0..(HtSize - 1)
      /\ y \in 0..(HtSize - 1) /\ b \in 0..(HtSize - 1)
  BY CapConstants DEF LastBucket
<1>2. On(x, a, b) /\ Dist(p, x) <= Dist(p, y) /\ Dist(p, y) <= Dist(p, b) => On(y, a, b)
  BY <1>1 DEF On, Dist
<1>3. On(x, a, b) /\ Dist(p, b) < Dist(p, x) /\ Dist(p, x) <= Dist(p, y) => On(y, a, b)
  BY <1>1 DEF On, Dist
<1>4. On(x, a, b) /\ On(b, a, y) => On(x, a, y)
  BY <1>1 DEF On, Dist
<1>5. (On(x, a, b) /\ On(b, a, x) => x = b) /\ (Dist(p, x) = Dist(p, y) => x = y)
  BY <1>1 DEF On, Dist
<1>6. On(b, a, b) /\ Dist(p, x) \in Registry!Buckets
  BY <1>1 DEF On, Dist, Registry!Buckets
<1> QED BY <1>2, <1>3, <1>4, <1>5, <1>6

LEMMA ShiftStarts ==
  ASSUME TablesAssumption, NEW D \in SUBSET (1..MaxDescs), NEW d \in (1..MaxDescs) \ D, NEW h, Stores(h, D \cup {d}),
         NEW name, Reached(h, name), NEW pos \in Registry!Buckets, h[pos] = d,
         NEW z \in Registry!Buckets, h[z] = Unset,
         NEW s, s = [h |-> [h EXCEPT ![pos] = Unset], hole |-> pos, on |-> TRUE]
  PROVE  s \in ShiftStates /\ Passed(s, 0, pos, D, name, z)
<1>0. d # Unset /\ Unset \notin D
  BY CapConstants
<1>1. /\ s.h \in [Registry!Buckets -> (D \cup {d}) \cup {Unset}] /\ s.h[pos] = Unset /\ s.hole = pos /\ s.on = TRUE
      /\ \A x \in Registry!Buckets \ {pos} : s.h[x] = h[x]
  BY DEF Stores
<1>2. \A x \in Registry!Buckets : s.h[x] \in D \cup {Unset}
  BY <1>0, <1>1 DEF Stores
<1>3. \A e \in D : \E b \in Registry!Buckets : s.h[b] = e
  <2> SUFFICES ASSUME NEW e \in D PROVE \E b \in Registry!Buckets : s.h[b] = e
    OBVIOUS
  <2>1. PICK b \in Registry!Buckets : h[b] = e
    BY DEF Stores
  <2> QED BY <1>1, <2>1
<1>4. \A b, c \in Registry!Buckets : s.h[b] = s.h[c] /\ s.h[b] # Unset => b = c
  BY <1>1 DEF Stores
<1>5. Stores(s.h, D)
  BY <1>1, <1>2, <1>3, <1>4 DEF Stores
<1>6. s \in ShiftStates
  <2>1. [h EXCEPT ![pos] = Unset] \in [Registry!Buckets -> (1..MaxDescs) \cup {Unset}]
    BY DEF Stores
  <2> QED BY <2>1 DEF ShiftStates
<1>7. \A x \in Registry!Buckets : Dist(pos, x) <= 0 => x = pos
  BY CapConstants DEF Dist, LastBucket
<1>8. Dist(pos, pos) <= 0 /\ z # pos
  BY <1>0, CapConstants DEF Dist, LastBucket
<1>9. ASSUME NEW b \in Registry!Buckets, NEW x \in Registry!Buckets, s.h[b] # Unset,
             On(x, Home[name[s.h[b]]], b), s.h[x] = Unset
      PROVE  x = s.hole /\ Dist(pos, b) > 0
  <2>1. b # pos /\ h[b] = s.h[b]
    BY <1>1, <1>9
  <2>2. x = pos
    BY <1>1, <1>9, <2>1 DEF Reached
  <2>3. Dist(pos, b) \in Int
    BY Ways, CapConstants DEF LastBucket
  <2> QED BY <1>1, <1>7, <2>1, <2>2, <2>3
<1> QED BY <1>1, <1>5, <1>6, <1>7, <1>8, <1>9 DEF Passed

LEMMA ShiftMoves ==
  ASSUME TablesAssumption, NEW D \in SUBSET (1..MaxDescs), NEW name, \A e \in D : name[e] \in Registry!Caps,
         NEW pos \in Registry!Buckets, NEW z \in Registry!Buckets,
         NEW k \in 1..LastBucket, NEW s \in ShiftStates, Passed(s, k - 1, pos, D, name, z)
  PROVE  Shifted(s, k, pos, name) \in ShiftStates /\ Passed(Shifted(s, k, pos, name), k, pos, D, name, z)
<1> DEFINE scan == Registry!Bucket(pos + k)
           e    == s.h[scan]
           H    == Home[name[e]]
           t    == Shifted(s, k, pos, name)
<1>k. k \in Registry!Buckets /\ k \in Int /\ k - 1 < k
  BY CapConstants
<1>1. scan \in Registry!Buckets /\ Dist(pos, scan) = k
  BY <1>k, BucketIs
<1>t. /\ s.h \in [Registry!Buckets -> (1..MaxDescs) \cup {Unset}] /\ s.hole \in Registry!Buckets /\ s.on \in BOOLEAN
  BY DEF ShiftStates
<1>u. Unset \notin D
  <2>1. MaxDescs \in Int /\ \A m \in Int : \A x \in 1..m : x \in Int
    BY CapConstants
  <2> QED BY <2>1, CapConstants
<1> HIDE DEF scan
<1>d. \A x \in Registry!Buckets : Dist(pos, x) \in Int
  BY Ways, CapConstants DEF LastBucket
<1>2. CASE ~s.on \/ e = Unset
  <2>1. t = [s EXCEPT !.on = FALSE]
    BY <1>2 DEF Shifted, scan
  <2>2. t \in ShiftStates /\ t.h = s.h /\ t.hole = s.hole /\ t.on = FALSE
    BY <2>1 DEF ShiftStates
  <2>3. Reached(s.h, name)
    <3>1. CASE ~s.on
      BY <3>1 DEF Passed
    <3>2. CASE s.on /\ e = Unset
      <4> SUFFICES ASSUME NEW b \in Registry!Buckets, NEW x \in Registry!Buckets, s.h[b] # Unset,
                          On(x, Home[name[s.h[b]]], b), s.h[x] = Unset
                   PROVE  FALSE
        BY DEF Reached
      <4>1. x = s.hole /\ Dist(pos, b) > k - 1 /\ Dist(pos, x) <= k - 1
        BY <3>2 DEF Passed
      <4>2. b # scan
        BY <3>2
      <4>3. Dist(pos, b) # k
        BY <1>1, <4>2, Ways
      <4>4. Dist(pos, scan) <= Dist(pos, b) /\ Dist(pos, x) <= Dist(pos, scan)
        BY <1>1, <1>d, <1>k, <4>1, <4>3
      <4>5. Home[name[s.h[b]]] \in Registry!Buckets
        <5>1. s.h[b] \in D
          BY DEF Passed, Stores
        <5> QED BY <5>1, CapConstants
      <4>6. On(scan, Home[name[s.h[b]]], b)
        BY <1>1, <4>4, <4>5, Ways
      <4>7. scan = s.hole
        BY <1>1, <3>2, <4>6 DEF Passed
      <4> QED BY <1>1, <1>k, <4>1, <4>7
    <3> QED BY <1>2, <3>1, <3>2
  <2> QED BY <2>2, <2>3 DEF Passed
<1>3. CASE s.on /\ e # Unset
  <2>1. /\ Stores(s.h, D) /\ s.h[s.hole] = Unset /\ Dist(pos, s.hole) <= k - 1 /\ s.h[z] = Unset /\ z # s.hole
        /\ \A x \in Registry!Buckets : Dist(pos, x) <= k - 1 /\ x # s.hole => s.h[x] # Unset
        /\ \A b, x \in Registry!Buckets :
             s.h[b] # Unset /\ On(x, Home[name[s.h[b]]], b) /\ s.h[x] = Unset =>
               x = s.hole /\ Dist(pos, b) > k - 1
    BY <1>3 DEF Passed
  <2>2. scan # s.hole /\ scan # z /\ e \in D
    BY <1>1, <1>3, <2>1 DEF Stores
  <2>3. \A b \in Registry!Buckets : s.h[b] # Unset => s.h[b] \in D /\ Home[name[s.h[b]]] \in Registry!Buckets
    BY <2>1, CapConstants DEF Stores
  <2>4. Registry!MayMove(H, s.hole, scan) <=> On(s.hole, H, scan)
    BY <1>1, <1>3, <1>t, <2>2, <2>3, MayMoveIs
  <2>5. \A x \in Registry!Buckets : Dist(pos, x) <= k => Dist(pos, x) <= k - 1 \/ x = scan
    <3> SUFFICES ASSUME NEW x \in Registry!Buckets, Dist(pos, x) <= k, x # scan PROVE Dist(pos, x) <= k - 1
      OBVIOUS
    <3>1. Dist(pos, x) # k
      BY <1>1, Ways
    <3> QED BY <1>d, <1>k, <3>1
  <2>6. CASE ~On(s.hole, H, scan)
    <3>1. t = s
      BY <1>3, <2>4, <2>6 DEF Shifted, scan
    <3>2. ASSUME NEW b \in Registry!Buckets, NEW x \in Registry!Buckets, s.h[b] # Unset,
                 On(x, Home[name[s.h[b]]], b), s.h[x] = Unset
          PROVE  x = s.hole /\ Dist(pos, b) > k
      <4>1. x = s.hole /\ Dist(pos, b) > k - 1
        BY <2>1, <3>2
      <4>2. b # scan
        BY <2>6, <3>2, <4>1
      <4>3. ~(Dist(pos, b) <= k)
        BY <1>d, <1>k, <2>5, <4>1, <4>2
      <4> QED BY <1>d, <1>k, <4>1, <4>3
    <3>3. \A x \in Registry!Buckets : Dist(pos, x) <= k /\ x # s.hole => s.h[x] # Unset
      BY <1>3, <2>1, <2>5
    <3>4. Dist(pos, s.hole) <= k
      <4>1. Dist(pos, s.hole) \in Int /\ Dist(pos, s.hole) <= k - 1
        BY <1>d, <1>t, <2>1
      <4> QED BY <1>k, <4>1
    <3> QED BY <1>3, <1>t, <2>1, <3>1, <3>2, <3>3, <3>4 DEF Passed
  <2>7. CASE On(s.hole, H, scan)
    <3> DEFINE g == [s.h EXCEPT ![s.hole] = e, ![scan] = Unset]
    <3>1. t = [s EXCEPT !.h = g, !.hole = scan]
      BY <1>3, <2>4, <2>7 DEF Shifted, scan
    <3>2. /\ g \in [Registry!Buckets -> (1..MaxDescs) \cup {Unset}] /\ g[s.hole] = e /\ g[scan] = Unset
          /\ \A x \in Registry!Buckets \ {s.hole, scan} : g[x] = s.h[x]
      BY <1>1, <1>t, <2>2
    <3> HIDE DEF g
    <3>3. t \in ShiftStates /\ t.h = g /\ t.hole = scan /\ t.on = s.on
      BY <1>1, <1>t, <3>1, <3>2 DEF ShiftStates
    <3>4. Stores(g, D)
      <4>1. \A x \in Registry!Buckets : g[x] \in D \cup {Unset}
        BY <2>1, <2>2, <3>2 DEF Stores
      <4>2. ASSUME NEW c \in D PROVE \E b \in Registry!Buckets : g[b] = c
        <5>1. PICK b \in Registry!Buckets : s.h[b] = c
          BY <2>1 DEF Stores
        <5>2. CASE b = scan
          BY <1>t, <3>2, <5>1, <5>2
        <5>3. CASE b # scan
          BY <1>u, <2>1, <3>2, <5>1, <5>3
        <5> QED BY <5>2, <5>3
      <4>3. ASSUME NEW b \in Registry!Buckets, NEW c \in Registry!Buckets, g[b] = g[c], g[b] # Unset PROVE b = c
        <5>1. b # scan /\ c # scan
          BY <3>2, <4>3
        <5>2. CASE b = s.hole /\ c # s.hole
          <6>1. s.h[c] = s.h[scan] /\ s.h[c] # Unset
            BY <3>2, <4>3, <5>1, <5>2
          <6> QED BY <1>1, <2>1, <5>1, <6>1 DEF Stores
        <5>3. CASE c = s.hole /\ b # s.hole
          <6>1. s.h[b] = s.h[scan] /\ s.h[b] # Unset
            BY <3>2, <4>3, <5>1, <5>3
          <6> QED BY <1>1, <2>1, <5>1, <6>1 DEF Stores
        <5>4. CASE b # s.hole /\ c # s.hole
          BY <2>1, <3>2, <4>3, <5>1, <5>4 DEF Stores
        <5> QED BY <5>2, <5>3, <5>4
      <4> QED BY <3>2, <4>1, <4>2, <4>3 DEF Stores
    <3>5. \A x \in Registry!Buckets : Dist(pos, x) <= k /\ x # scan => g[x] # Unset
      BY <1>3, <2>1, <2>5, <3>2
    <3>6. ASSUME NEW b \in Registry!Buckets, NEW x \in Registry!Buckets, g[b] # Unset,
                 On(x, Home[name[g[b]]], b), g[x] = Unset
          PROVE  x = scan /\ Dist(pos, b) > k
      <4>1. b # scan /\ x # s.hole
        BY <1>3, <3>2, <3>6
      <4>2. CASE b = s.hole
        <5>1. H \in Registry!Buckets /\ On(x, H, s.hole)
          BY <1>1, <1>3, <2>3, <3>2, <3>6, <4>2
        <5>2. On(x, H, scan)
          BY <1>1, <1>t, <2>7, <5>1, Ways
        <5>3. x # scan
          BY <1>1, <1>t, <2>2, <2>7, <5>1, Ways
        <5>4. s.h[x] = Unset
          BY <3>2, <3>6, <4>1, <5>3
        <5> QED BY <1>1, <1>3, <2>1, <4>1, <5>2, <5>4
      <4>3. CASE b # s.hole
        <5>1. s.h[b] = g[b] /\ Home[name[s.h[b]]] \in Registry!Buckets
          BY <2>3, <3>2, <3>6, <4>1, <4>3
        <5>2. x = scan
          <6>1. SUFFICES ASSUME x # scan PROVE FALSE
            OBVIOUS
          <6>2. s.h[x] = Unset
            BY <3>2, <3>6, <4>1, <6>1
          <6> QED BY <2>1, <3>6, <4>1, <5>1, <6>2
        <5>3. ~(Dist(pos, b) <= k)
          <6>1. SUFFICES ASSUME Dist(pos, b) <= k PROVE FALSE
            OBVIOUS
          <6>2. Dist(pos, b) < Dist(pos, scan)
            BY <1>1, <1>d, <1>k, <2>5, <4>1, <6>1
          <6>3. ~(Dist(pos, z) <= k)
            BY <2>1, <2>2, <2>5
          <6>4. Dist(pos, scan) <= Dist(pos, z)
            BY <1>1, <1>d, <1>k, <6>3
          <6>5. On(z, Home[name[s.h[b]]], b)
            BY <1>1, <3>6, <5>1, <5>2, <6>2, <6>4, Ways
          <6> QED BY <2>1, <3>6, <5>1, <6>5
        <5> QED BY <1>d, <1>k, <5>2, <5>3
      <4> QED BY <4>2, <4>3
    <3>7. g[z] = Unset /\ Dist(pos, scan) <= k
      BY <1>1, <1>k, <2>1, <2>2, <3>2
    <3> QED BY <1>1, <1>3, <1>t, <2>2, <3>2, <3>3, <3>4, <3>5, <3>6, <3>7 DEF Passed
  <2> QED BY <2>6, <2>7
<1> QED BY <1>2, <1>3, <1>t

LEMMA ShiftStays ==
  ASSUME TablesAssumption, NEW name, NEW pos \in Registry!Buckets, NEW k \in 1..LastBucket, NEW s \in ShiftStates
  PROVE  Shifted(s, k, pos, name) \in ShiftStates
<1> DEFINE scan == Registry!Bucket(pos + k)
<1>1. scan \in Registry!Buckets
  <2>1. k \in Registry!Buckets
    BY CapConstants
  <2> QED BY <2>1, BucketIs
<1>2. s.h \in [Registry!Buckets -> (1..MaxDescs) \cup {Unset}] /\ s.hole \in Registry!Buckets /\ s.on \in BOOLEAN
  BY DEF ShiftStates
<1> HIDE DEF scan
<1>3. [s EXCEPT !.on = FALSE] \in ShiftStates
  BY DEF ShiftStates
<1>4. [s EXCEPT !.h = [s.h EXCEPT ![s.hole] = s.h[scan], ![scan] = Unset], !.hole = scan] \in ShiftStates
  <2> DEFINE g == [s.h EXCEPT ![s.hole] = s.h[scan], ![scan] = Unset]
  <2>1. g \in [Registry!Buckets -> (1..MaxDescs) \cup {Unset}]
    BY <1>1, <1>2
  <2> HIDE DEF g
  <2>2. [s EXCEPT !.h = g, !.hole = scan] \in ShiftStates
    BY <1>1, <2>1 DEF ShiftStates
  <2> QED BY <2>2 DEF g
<1> QED BY <1>3, <1>4 DEF Shifted, scan

(* The states of the pass over the buckets after the hole.                 *)
LEMMA ShiftIs ==
  ASSUME TablesAssumption, NEW name, NEW pos \in Registry!Buckets,
         NEW h \in [Registry!Buckets -> (1..MaxDescs) \cup {Unset}]
  PROVE  \E t : /\ Registry!Shift(h, name, pos) = t[LastBucket].h
                /\ t[0] = [h |-> [h EXCEPT ![pos] = Unset], hole |-> pos, on |-> TRUE]
                /\ \A k \in 1..LastBucket : t[k] = Shifted(t[k - 1], k, pos, name)
<1> DEFINE s0 == [h |-> [h EXCEPT ![pos] = Unset], hole |-> pos, on |-> TRUE]
           F  == [p \in ShiftStates \X (1..LastBucket) |-> Shifted(p[1], p[2], pos, name)]
           Step(f, k) == IF k = 0 THEN s0 ELSE Shifted(f[k - 1], k, pos, name)
<1>1. LastBucket \in Nat
  BY CapConstants DEF LastBucket
<1>2. s0 \in ShiftStates
  <2>1. [h EXCEPT ![pos] = Unset] \in [Registry!Buckets -> (1..MaxDescs) \cup {Unset}]
    OBVIOUS
  <2> QED BY <2>1 DEF ShiftStates
<1>3. \A k \in 1..LastBucket : \A y \in ShiftStates :
        F[<<y, k>>] = Shifted(y, k, pos, name) /\ Shifted(y, k, pos, name) \in ShiftStates
  BY ShiftStays
<1>4. F \in [ShiftStates \X (1..LastBucket) -> ShiftStates]
  BY <1>3
<1> HIDE DEF F, s0
<1>5. PICK f \in [0..LastBucket -> ShiftStates] : f[0] = s0 /\ \A k \in 1..LastBucket : f[k] = F[<<f[k - 1], k>>]
  <2>1. PICK f \in [0..LastBucket -> ShiftStates] : Iterates(f, LastBucket, s0, F)
    BY <1>1, <1>2, <1>4, RecursiveFunction
  <2> QED BY <2>1 DEF Iterates
<1>6. f = [k \in 0..LastBucket |-> Step(f, k)]
  <2>1. \A k \in 1..LastBucket : k - 1 \in 0..LastBucket
    BY <1>1
  <2>2. \A k \in 0..LastBucket : k = 0 \/ k \in 1..LastBucket
    BY <1>1
  <2>3. ASSUME NEW k \in 0..LastBucket PROVE f[k] = Step(f, k)
    <3>1. CASE k = 0
      BY <1>5, <3>1
    <3>2. CASE k # 0
      <4>1. k \in 1..LastBucket /\ f[k - 1] \in ShiftStates
        BY <1>5, <2>1, <2>2, <3>2
      <4>2. f[k] = Shifted(f[k - 1], k, pos, name)
        BY <1>3, <1>5, <4>1
      <4> QED BY <3>2, <4>2
    <3> QED BY <3>1, <3>2
  <2> QED BY <2>3
<1> DEFINE t == CHOOSE g : g = [k \in 0..LastBucket |-> Step(g, k)]
<1>7. t = [k \in 0..LastBucket |-> Step(t, k)]
  BY <1>6
<1>8. Registry!Shift(h, name, pos) = t[LastBucket].h
  BY DEF Registry!Shift, Shifted, LastBucket, s0
<1> HIDE DEF t
<1>9. t[0] = s0 /\ \A k \in 1..LastBucket : t[k] = Shifted(t[k - 1], k, pos, name)
  <2>1. 0 \in 0..LastBucket /\ \A k \in 1..LastBucket : k \in 0..LastBucket /\ k # 0
    BY <1>1
  <2> QED BY <1>7, <2>1
<1> QED BY <1>8, <1>9 DEF s0

(* Removing an entry leaves the others, and each can still be found.       *)
LEMMA Removed ==
  ASSUME TablesAssumption, NEW D \in SUBSET (1..MaxDescs), NEW d \in (1..MaxDescs) \ D, NEW h, Stores(h, D \cup {d}),
         NEW name, Reached(h, name), \A e \in D : name[e] \in Registry!Caps
  PROVE  Stores(Registry!Remove(h, name, d), D) /\ Reached(Registry!Remove(h, name, d), name)
<1> DEFINE at  == {b \in Registry!Buckets : h[b] = d}
           pos == CHOOSE b \in at : TRUE
<1>1. pos \in Registry!Buckets /\ h[pos] = d /\ Registry!Remove(h, name, d) = Registry!Shift(h, name, pos)
  <2>1. at # {}
    BY DEF Stores
  <2> QED BY <2>1 DEF Registry!Remove
<1> HIDE DEF pos
<1>2. D \cup {d} \in SUBSET (1..MaxDescs) /\ h \in [Registry!Buckets -> (1..MaxDescs) \cup {Unset}]
  BY DEF Stores
<1>3. PICK z \in Registry!Buckets : h[z] = Unset
  BY <1>2, SomeUnused
<1>4. PICK t : /\ Registry!Shift(h, name, pos) = t[LastBucket].h
               /\ t[0] = [h |-> [h EXCEPT ![pos] = Unset], hole |-> pos, on |-> TRUE]
               /\ \A k \in 1..LastBucket : t[k] = Shifted(t[k - 1], k, pos, name)
  BY <1>1, <1>2, ShiftIs
<1> DEFINE P == {k \in 0..LastBucket : t[k] \in ShiftStates /\ Passed(t[k], k, pos, D, name, z)}
<1>0. LastBucket \in Nat
  BY CapConstants DEF LastBucket
<1>5. 0 \in P
  <2>1. t[0] \in ShiftStates /\ Passed(t[0], 0, pos, D, name, z)
    BY <1>1, <1>3, <1>4, ShiftStarts
  <2> QED BY <1>0, <2>1
<1>6. ASSUME NEW k \in 1..LastBucket, k - 1 \in P PROVE k \in P
  <2>1. k - 1 \in 0..LastBucket /\ k \in 0..LastBucket
    BY <1>0
  <2>2. t[k - 1] \in ShiftStates /\ Passed(t[k - 1], k - 1, pos, D, name, z)
    BY <1>6
  <2> DEFINE r == t[k - 1]
  <2>3. r \in ShiftStates /\ Passed(r, k - 1, pos, D, name, z)
    BY <2>2
  <2> HIDE DEF r
  <2>4. Shifted(r, k, pos, name) \in ShiftStates /\ Passed(Shifted(r, k, pos, name), k, pos, D, name, z)
    BY <1>1, <2>3, ShiftMoves
  <2> QED BY <1>4, <2>1, <2>4 DEF r
<1> HIDE DEF P
<1>7. LastBucket \in P
  <2>1. \A k \in 0..LastBucket : k \in P
    BY <1>0, <1>5, <1>6, EachStep
  <2> QED BY <1>0, <2>1
<1>8. Passed(t[LastBucket], LastBucket, pos, D, name, z)
  BY <1>7 DEF P
<1>9. \A b \in Registry!Buckets : ~(Dist(pos, b) > LastBucket)
  <2>1. \A b \in Registry!Buckets : Dist(pos, b) \in 0..LastBucket
    BY <1>1, Ways, CapConstants
  <2> QED BY <1>0, <2>1
<1> QED BY <1>1, <1>4, <1>8, <1>9 DEF Passed, Reached

(***************************************************************************)
(* The entries of a group, one after the other.                            *)
(***************************************************************************)
LEMMA InsertStays ==
  ASSUME TablesAssumption, NEW h \in [Registry!Buckets -> (1..MaxDescs) \cup {Unset}], NEW n, NEW d \in 1..MaxDescs
  PROVE  Registry!Insert(h, n, d) \in [Registry!Buckets -> (1..MaxDescs) \cup {Unset}]
BY DEF Registry!Insert

(* The tables that a recursion over the k first entries passes through.    *)
TableSet == [Registry!Buckets -> (1..MaxDescs) \cup {Unset}]

LEMMA InsertAllIs ==
  ASSUME TablesAssumption, ht \in TableSet, NEW g \in Groups, NEW b \in Nat \ {0}, b + Len(CapsOf[g]) - 1 <= MaxDescs
  PROVE  \E t : /\ Registry!InsertAll(g, b) = t[Len(CapsOf[g])] /\ t[0] = ht
                /\ \A k \in 1..Len(CapsOf[g]) : t[k] = Registry!Insert(t[k - 1], CapsOf[g][k], b + k - 1)
<1> DEFINE n == Len(CapsOf[g])
           F == [p \in TableSet \X (1..n) |-> Registry!Insert(p[1], CapsOf[g][p[2]], b + p[2] - 1)]
           Step(f, k) == IF k = 0 THEN ht ELSE Registry!Insert(f[k - 1], CapsOf[g][k], b + k - 1)
<1>1. n \in Nat
  BY DEF TablesAssumption, Registry!RegistryAssumption
<1>2. \A k \in 1..n : b + k - 1 \in 1..MaxDescs
  BY <1>1, CapConstants
<1> HIDE DEF n
<1>3. \A k \in 1..n : \A y \in TableSet :
        /\ F[<<y, k>>] = Registry!Insert(y, CapsOf[g][k], b + k - 1)
        /\ Registry!Insert(y, CapsOf[g][k], b + k - 1) \in TableSet
  <2> SUFFICES ASSUME NEW k \in 1..n, NEW y \in TableSet
               PROVE  /\ F[<<y, k>>] = Registry!Insert(y, CapsOf[g][k], b + k - 1)
                      /\ Registry!Insert(y, CapsOf[g][k], b + k - 1) \in TableSet
    OBVIOUS
  <2>1. Registry!Insert(y, CapsOf[g][k], b + k - 1) \in TableSet
    BY <1>2, InsertStays DEF TableSet
  <2> QED BY <2>1
<1>4. F \in [TableSet \X (1..n) -> TableSet]
  <2>1. \A p \in TableSet \X (1..n) : p[2] \in 1..n /\ p[1] \in TableSet
    OBVIOUS
  <2>2. \A p \in TableSet \X (1..n) : Registry!Insert(p[1], CapsOf[g][p[2]], b + p[2] - 1) \in TableSet
    BY <1>3, <2>1
  <2> QED BY <2>2
<1> HIDE DEF F
<1>5. PICK f \in [0..n -> TableSet] : f[0] = ht /\ \A k \in 1..n : f[k] = F[<<f[k - 1], k>>]
  <2>1. PICK f \in [0..n -> TableSet] : Iterates(f, n, ht, F)
    BY <1>1, <1>4, RecursiveFunction
  <2> QED BY <2>1 DEF Iterates
<1>6. f = [k \in 0..n |-> Step(f, k)]
  <2>1. \A k \in 0..n : k = 0 \/ (k \in 1..n /\ k - 1 \in 0..n)
    BY <1>1
  <2>2. ASSUME NEW k \in 0..n PROVE f[k] = Step(f, k)
    <3>1. CASE k = 0
      BY <1>5, <3>1
    <3>2. CASE k # 0
      <4>1. k \in 1..n /\ f[k - 1] \in TableSet
        BY <1>5, <2>1, <3>2
      <4> QED BY <1>3, <1>5, <3>2, <4>1
    <3> QED BY <3>1, <3>2
  <2> QED BY <2>2
<1> DEFINE t == CHOOSE q : q = [k \in 0..n |-> Step(q, k)]
<1>7. t = [k \in 0..n |-> Step(t, k)]
  BY <1>6
<1>8. Registry!InsertAll(g, b) = t[n]
  BY DEF Registry!InsertAll, n
<1> HIDE DEF t
<1>9. t[0] = ht /\ \A k \in 1..n : t[k] = Registry!Insert(t[k - 1], CapsOf[g][k], b + k - 1)
  <2>1. 0 \in 0..n /\ \A k \in 1..n : k \in 0..n /\ k # 0
    BY <1>1
  <2> QED BY <1>7, <2>1
<1> QED BY <1>8, <1>9 DEF n

LEMMA RemoveStays ==
  ASSUME TablesAssumption, NEW h \in TableSet, NEW name, NEW d
  PROVE  Registry!Remove(h, name, d) \in TableSet
<1> DEFINE at  == {b \in Registry!Buckets : h[b] = d}
           pos == CHOOSE b \in at : TRUE
<1>1. CASE at = {}
  BY <1>1 DEF Registry!Remove
<1>2. CASE at # {}
  <2>1. pos \in Registry!Buckets /\ Registry!Remove(h, name, d) = Registry!Shift(h, name, pos)
    BY <1>2 DEF Registry!Remove
  <2> HIDE DEF pos
  <2>2. PICK t : /\ Registry!Shift(h, name, pos) = t[LastBucket].h
                 /\ t[0] = [h |-> [h EXCEPT ![pos] = Unset], hole |-> pos, on |-> TRUE]
                 /\ \A k \in 1..LastBucket : t[k] = Shifted(t[k - 1], k, pos, name)
    BY <2>1, ShiftIs DEF TableSet
  <2> DEFINE P == {k \in 0..LastBucket : t[k] \in ShiftStates}
  <2>3. LastBucket \in Nat
    BY CapConstants DEF LastBucket
  <2>4. 0 \in P
    <3>1. [h EXCEPT ![pos] = Unset] \in [Registry!Buckets -> (1..MaxDescs) \cup {Unset}]
      BY DEF TableSet
    <3>2. t[0] \in ShiftStates
      BY <2>1, <2>2, <3>1 DEF ShiftStates
    <3> QED BY <2>3, <3>2
  <2>5. ASSUME NEW k \in 1..LastBucket, k - 1 \in P PROVE k \in P
    <3> DEFINE r == t[k - 1]
    <3>1. r \in ShiftStates
      BY <2>5
    <3> HIDE DEF r
    <3>2. Shifted(r, k, pos, name) \in ShiftStates
      BY <2>1, <3>1, ShiftStays
    <3> QED BY <2>2, <2>3, <3>2 DEF r
  <2> HIDE DEF P
  <2>6. LastBucket \in P
    <3>1. \A k \in 0..LastBucket : k \in P
      BY <2>3, <2>4, <2>5, EachStep
    <3> QED BY <2>3, <3>1
  <2>7. t[LastBucket] \in ShiftStates
    BY <2>6 DEF P
  <2> QED BY <2>1, <2>2, <2>7 DEF ShiftStates, TableSet
<1> QED BY <1>1, <1>2

LEMMA RemoveAllIs ==
  ASSUME TablesAssumption, ht \in TableSet, NEW b \in Nat, NEW n \in Nat
  PROVE  \E t : /\ Registry!RemoveAll(b, n) = t[n] /\ t[0] = ht
                /\ \A k \in 1..n : t[k] = Registry!Remove(t[k - 1], [d \in Registry!InUse |-> descs[d].cap], b + k - 1)
<1> DEFINE name == [d \in Registry!InUse |-> descs[d].cap]
           F == [p \in TableSet \X (1..n) |-> Registry!Remove(p[1], name, b + p[2] - 1)]
           Step(f, k) == IF k = 0 THEN ht ELSE Registry!Remove(f[k - 1], name, b + k - 1)
<1>7a. Registry!RemoveAll(b, n) = (CHOOSE q : q = [k \in 0..n |-> Step(q, k)])[n]
  BY DEF Registry!RemoveAll
<1> HIDE DEF name
<1>3. \A k \in 1..n : \A y \in TableSet :
        F[<<y, k>>] = Registry!Remove(y, name, b + k - 1) /\ Registry!Remove(y, name, b + k - 1) \in TableSet
  BY RemoveStays
<1>4. F \in [TableSet \X (1..n) -> TableSet]
  BY RemoveStays
<1> HIDE DEF F
<1>5. PICK f \in [0..n -> TableSet] : f[0] = ht /\ \A k \in 1..n : f[k] = F[<<f[k - 1], k>>]
  <2>1. PICK f \in [0..n -> TableSet] : Iterates(f, n, ht, F)
    BY <1>4, RecursiveFunction
  <2> QED BY <2>1 DEF Iterates
<1>6. f = [k \in 0..n |-> Step(f, k)]
  <2>1. \A k \in 0..n : k = 0 \/ (k \in 1..n /\ k - 1 \in 0..n)
    OBVIOUS
  <2>2. ASSUME NEW k \in 0..n PROVE f[k] = Step(f, k)
    <3>1. CASE k = 0
      BY <1>5, <3>1
    <3>2. CASE k # 0
      <4>1. k \in 1..n /\ f[k - 1] \in TableSet
        BY <1>5, <2>1, <3>2
      <4> QED BY <1>3, <1>5, <3>2, <4>1
    <3> QED BY <3>1, <3>2
  <2> QED BY <2>2
<1> DEFINE t == CHOOSE q : q = [k \in 0..n |-> Step(q, k)]
<1>7. t = [k \in 0..n |-> Step(t, k)]
  BY <1>6
<1>8. Registry!RemoveAll(b, n) = t[n]
  BY <1>7a
<1> HIDE DEF t
<1>9. t[0] = ht /\ \A k \in 1..n : t[k] = Registry!Remove(t[k - 1], name, b + k - 1)
  <2>1. 0 \in 0..n /\ \A k \in 1..n : k \in 0..n /\ k # 0
    OBVIOUS
  <2> QED BY <1>7, <2>1
<1> QED BY <1>8, <1>9 DEF name

NamesNow == [d \in Registry!InUse |-> descs[d].cap]

LEMMA InsertedAll ==
  ASSUME TablesAssumption, Stores(ht, Registry!InUse), Reached(ht, NamesNow),
         \A d \in Registry!InUse : descs[d].cap \in Registry!Caps,
         NEW g \in Groups, NEW b \in Nat \ {0}, b + Len(CapsOf[g]) - 1 <= MaxDescs,
         \A d \in b..(b + Len(CapsOf[g]) - 1) : d \notin Registry!InUse,
         NEW name, \A d \in Registry!InUse : name[d] = descs[d].cap,
         \A d \in b..(b + Len(CapsOf[g]) - 1) : name[d] = CapsOf[g][d - b + 1]
  PROVE  /\ Stores(Registry!InsertAll(g, b), Registry!InUse \cup (b..(b + Len(CapsOf[g]) - 1)))
         /\ Reached(Registry!InsertAll(g, b), name)
<1> DEFINE n    == Len(CapsOf[g])
           D(k) == Registry!InUse \cup (b..(b + k - 1))
<1>1. n \in Nat /\ \A k \in 1..n : CapsOf[g][k] \in Registry!Caps
  BY DEF TablesAssumption, Registry!RegistryAssumption
<1>2. Registry!InUse \in SUBSET (1..MaxDescs) /\ MaxDescs \in Int /\ b \in Int
  BY CapConstants DEF Registry!InUse
<1>3. ht \in TableSet
  BY <1>2 DEF Stores, TableSet
<1>4. PICK t : /\ Registry!InsertAll(g, b) = t[n] /\ t[0] = ht
               /\ \A k \in 1..n : t[k] = Registry!Insert(t[k - 1], CapsOf[g][k], b + k - 1)
  BY <1>3, InsertAllIs
<1> DEFINE P == {k \in 0..n : Stores(t[k], D(k)) /\ Reached(t[k], name)}
<1>5. 0 \in P
  <2>1. D(0) = Registry!InUse
    BY <1>2
  <2>2. Reached(ht, name)
    BY ZenonT(60) DEF Reached, NamesNow, Stores
  <2> HIDE DEF D
  <2> QED BY <1>1, <1>4, <2>1, <2>2
<1>6. ASSUME NEW k \in 1..n, k - 1 \in P PROVE k \in P
  <2> DEFINE E == D(k - 1)
             d == b + k - 1
             h == t[k - 1]
  <2>1. Stores(h, E) /\ Reached(h, name)
    BY <1>6
  <2>2. d \in b..(b + n - 1) /\ d \in 1..MaxDescs
    BY <1>1, <1>2
  <2>3. E \in SUBSET (1..MaxDescs) /\ d \notin E /\ D(k) = E \cup {d}
    BY <1>1, <1>2, <2>2
  <2>4. name[d] = CapsOf[g][k] /\ name[d] \in Registry!Caps
    <3>1. d - b + 1 = k
      BY <1>2
    <3> QED BY <1>1, <2>2, <3>1
  <2>5. \A e \in E : name[e] \in Registry!Caps
    <3> SUFFICES ASSUME NEW e \in E PROVE name[e] \in Registry!Caps
      OBVIOUS
    <3>1. CASE e \in Registry!InUse
      BY <3>1
    <3>2. CASE e \in b..(b + (k - 1) - 1)
      <4>1. e \in b..(b + n - 1) /\ e - b + 1 \in 1..n
        BY <1>1, <1>2, <3>2
      <4> QED BY <1>1, <4>1
    <3> QED BY <3>1, <3>2
  <2>6. t[k] = Registry!Insert(h, name[d], d)
    BY <1>4, <2>4
  <2> HIDE DEF E, d, h, D
  <2>7. Stores(Registry!Insert(h, name[d], d), E \cup {d}) /\ Reached(Registry!Insert(h, name[d], d), name)
    <3>1. d \in (1..MaxDescs) \ E
      BY <2>2, <2>3
    <3> QED BY <2>1, <2>3, <2>4, <2>5, <3>1, Inserted
  <2>8. k \in 0..n
    BY <1>1
  <2> QED BY <2>3, <2>6, <2>7, <2>8
<1> HIDE DEF P
<1>7. n \in P
  <2>1. \A k \in 0..n : k \in P
    BY <1>1, <1>5, <1>6, EachStep
  <2> QED BY <1>1, <2>1
<1> QED BY <1>4, <1>7 DEF P

LEMMA RemovedAll ==
  ASSUME TablesAssumption, Stores(ht, Registry!InUse), Reached(ht, NamesNow),
         \A d \in Registry!InUse : descs[d].cap \in Registry!Caps,
         NEW b \in Nat \ {0}, NEW n \in Nat, b..(b + n - 1) \subseteq Registry!InUse
  PROVE  /\ Stores(Registry!RemoveAll(b, n), Registry!InUse \ (b..(b + n - 1)))
         /\ Reached(Registry!RemoveAll(b, n), NamesNow)
<1> DEFINE D(k) == Registry!InUse \ (b..(b + k - 1))
<1>1. n \in Nat /\ b \in Int
  OBVIOUS
<1>2. Registry!InUse \in SUBSET (1..MaxDescs) /\ MaxDescs \in Int
  BY CapConstants DEF Registry!InUse
<1>3. ht \in TableSet
  BY <1>2 DEF Stores, TableSet
<1>4. PICK t : /\ Registry!RemoveAll(b, n) = t[n] /\ t[0] = ht
               /\ \A k \in 1..n : t[k] = Registry!Remove(t[k - 1], NamesNow, b + k - 1)
  <2>1. b \in Nat
    OBVIOUS
  <2> QED BY <1>3, <2>1, RemoveAllIs DEF NamesNow
<1> DEFINE P == {k \in 0..n : Stores(t[k], D(k)) /\ Reached(t[k], NamesNow)}
<1>5. 0 \in P
  <2>1. D(0) = Registry!InUse
    BY <1>1
  <2> HIDE DEF D
  <2> QED BY <1>1, <1>4, <2>1
<1>6. ASSUME NEW k \in 1..n, k - 1 \in P PROVE k \in P
  <2> DEFINE E == D(k)
             d == b + k - 1
             h == t[k - 1]
  <2>1. Stores(h, D(k - 1)) /\ Reached(h, NamesNow)
    BY <1>6
  <2>2. d \in b..(b + n - 1) /\ d \in Registry!InUse
    BY <1>1
  <2>3. E \in SUBSET (1..MaxDescs) /\ d \notin E /\ D(k - 1) = E \cup {d}
    <3>1. E \in SUBSET (1..MaxDescs) /\ d \notin E
      BY <1>1, <1>2
    <3>2. \A x \in Registry!InUse : x \in b..(b + k - 1) <=> x \in b..(b + (k - 1) - 1) \/ x = d
      BY <1>1, <1>2
    <3> QED BY <2>2, <3>1, <3>2
  <2>5. \A e \in E : NamesNow[e] \in Registry!Caps
    BY DEF NamesNow
  <2> HIDE DEF E, h
  <2>6. t[k] = Registry!Remove(h, NamesNow, d)
    BY <1>4 DEF h
  <2> HIDE DEF d, D
  <2>7. Stores(Registry!Remove(h, NamesNow, d), E) /\ Reached(Registry!Remove(h, NamesNow, d), NamesNow)
    <3>1. d \in (1..MaxDescs) \ E /\ Stores(h, E \cup {d})
      BY <1>2, <2>1, <2>2, <2>3
    <3> QED BY <2>1, <2>3, <2>5, <3>1, Removed
  <2>8. k \in 0..n
    BY <1>1
  <2> QED BY <2>6, <2>7, <2>8 DEF E
<1> HIDE DEF P
<1>7. n \in P
  <2>1. \A k \in 0..n : k \in P
    BY <1>1, <1>5, <1>6, EachStep
  <2> QED BY <1>1, <2>1
<1> QED BY <1>4, <1>7 DEF P

(***************************************************************************)
(* The registry: groups own their slots, and the table holds what is used. *)
(***************************************************************************)
Places     == {"idle", "enable", "starting", "halting", "walk", "drain", "free"}
AdminSteps == [at : Places, slot : 0..MaxGroups, walk : {"no", "start", "stop"}, next : Nat \ {0}]
CallSteps  == [at : {"executing"}, slot : 1..MaxDescs, cap : Registry!Caps]
AdminStep(r) == r \in AdminSteps /\ (r.at \notin {"idle", "walk"} => r.slot # 0)

OpsOK ==
  /\ DOMAIN op = Registry!Tasks
  /\ \A t \in Admins : AdminStep(op[t])
  /\ \A t \in Callers : op[t] = Registry!Idle \/ op[t] \in CallSteps

GroupsOK == groups \in [1..MaxGroups -> Registry!Registered \cup {Unset}]
DescsOK  == descs \in [1..MaxDescs -> Registry!Entries \cup {Unset}]

SlotsOwned ==
  /\ \A i \in 1..MaxGroups : groups[i] # Unset =>
       \A d \in Registry!DescsAt(groups[i]) : d \in 1..MaxDescs /\ descs[d] # Unset /\ descs[d].grp = i
  /\ \A d \in 1..MaxDescs : descs[d] # Unset =>
       groups[descs[d].grp] # Unset /\ d \in Registry!DescsAt(groups[descs[d].grp])
  /\ \A d, e \in 1..MaxDescs : descs[d] # Unset /\ descs[e] # Unset /\ descs[d].cap = descs[e].cap => d = e

HashOK == Stores(ht, Registry!InUse) /\ Reached(ht, NamesNow)

RegistryInv == OpsOK /\ GroupsOK /\ DescsOK /\ SlotsOwned /\ HashOK

(* What a step that neither registers nor frees a group leaves alone.      *)
SlotsKept ==
  /\ \A i \in 1..MaxGroups : /\ (groups'[i] = Unset) <=> (groups[i] = Unset)
                             /\ groups[i] # Unset => groups'[i].base = groups[i].base /\ groups'[i].count = groups[i].count
  /\ \A d \in 1..MaxDescs :  /\ (descs'[d] = Unset) <=> (descs[d] = Unset)
                             /\ descs[d] # Unset => descs'[d].cap = descs[d].cap /\ descs'[d].grp = descs[d].grp
  /\ ht' = ht

LEMMA RegistryKept ==
  ASSUME TablesAssumption, DescsOK, SlotsOwned, HashOK, SlotsKept
  PROVE  SlotsOwned' /\ HashOK'
<1>1. \A d \in 1..MaxDescs : descs[d] # Unset => descs[d].grp \in 1..MaxGroups
  BY DEF DescsOK, Registry!Entries
<1>2. \A i \in 1..MaxGroups : groups[i] # Unset => Registry!DescsAt(groups'[i]) = Registry!DescsAt(groups[i])
  BY DEF SlotsKept, Registry!DescsAt
<1>3. SlotsOwned'
  BY <1>1, <1>2 DEF SlotsKept, SlotsOwned
<1>4. Registry!InUse' = Registry!InUse /\ NamesNow' = NamesNow
  BY DEF SlotsKept, Registry!InUse, NamesNow
<1> QED BY <1>3, <1>4 DEF HashOK, Stores, Reached, SlotsKept, Registry!Buckets

LEMMA FoundNow ==
  ASSUME TablesAssumption, DescsOK, SlotsOwned, HashOK
  PROVE  /\ AllFound
         /\ \A n \in Registry!Caps : (\A d \in Registry!InUse : descs[d].cap # n) => Registry!Lookup(n) = Unset
         /\ \A n \in Registry!Caps : Registry!Lookup(n) # Unset =>
              Registry!Lookup(n) \in Registry!InUse /\ descs[Registry!Lookup(n)].cap = n
<1>1. Registry!InUse \in SUBSET (1..MaxDescs)
  BY DEF Registry!InUse
<1>2. \A d \in Registry!InUse : descs[d] # Unset /\ descs[d].cap \in Registry!Caps
  BY DEF DescsOK, Registry!Entries, Registry!InUse
<1>3. \A d, e \in Registry!InUse : descs[d].cap = descs[e].cap => d = e
  BY DEF SlotsOwned, Registry!InUse
<1>4. Stores(ht, Registry!InUse) /\ Reached(ht, [d \in Registry!InUse |-> descs[d].cap])
  BY DEF HashOK, NamesNow
<1>5. /\ \A d \in Registry!InUse : Registry!Lookup(descs[d].cap) = d
      /\ \A n \in Registry!Caps : (\A d \in Registry!InUse : descs[d].cap # n) => Registry!Lookup(n) = Unset
      /\ \A n \in Registry!Caps : Registry!Lookup(n) # Unset =>
           Registry!Lookup(n) \in Registry!InUse /\ descs[Registry!Lookup(n)].cap = n
  BY <1>1, <1>2, <1>3, <1>4, FoundBy
<1>6. AllFound
  BY <1>4, <1>5 DEF AllFound, Registry!AllFound, Registry!InUse, Stores
<1> QED BY <1>5, <1>6

LEMMA UnsetIs ==
  ASSUME TablesAssumption
  PROVE  Unset \notin Registry!Registered /\ Unset \notin Registry!Entries /\ Admins \cap Callers = {}
BY DEF TablesAssumption, Registry!RegistryAssumption

(* The steps of a task's call.                                             *)
LEMMA AdminGoes ==
  ASSUME TablesAssumption, OpsOK, NEW t \in Admins, NEW r, AdminStep(r), Registry!Goes(t, r)
  PROVE  OpsOK'
BY UnsetIs DEF OpsOK, Registry!Goes, Registry!Tasks, AdminStep

LEMMA AdminStepIs ==
  ASSUME TablesAssumption, NEW r \in AdminSteps, NEW at \in Places, NEW i \in 0..MaxGroups,
         NEW w \in {"no", "start", "stop"}, i # 0 \/ at \in {"idle", "walk"}
  PROVE  /\ AdminStep([r EXCEPT !.at = at, !.slot = i]) /\ AdminStep([r EXCEPT !.at = at, !.slot = i, !.walk = w])
         /\ at \in {"idle", "walk"} => AdminStep([r EXCEPT !.at = at, !.next = @ + 1]) /\ AdminStep([r EXCEPT !.at = at, !.walk = w])
<1>2. r.next + 1 \in Nat \ {0}
  BY DEF AdminSteps
<1>3. AdminStep([r EXCEPT !.at = at, !.slot = i])
  BY DEF AdminStep, AdminSteps
<1>4. AdminStep([r EXCEPT !.at = at, !.slot = i, !.walk = w])
  BY DEF AdminStep, AdminSteps
<1>5. at \in {"idle", "walk"} => AdminStep([r EXCEPT !.at = at, !.next = r.next + 1])
  BY <1>2 DEF AdminStep, AdminSteps
<1>6. at \in {"idle", "walk"} => AdminStep([r EXCEPT !.at = at, !.walk = w])
  BY DEF AdminStep, AdminSteps
<1> QED BY <1>3, <1>4, <1>5, <1>6

LEMMA IdleIs ==
  ASSUME TablesAssumption
  PROVE  Registry!Idle \in AdminSteps /\ AdminStep(Registry!Idle)
<1>1. 0 \in 0..MaxGroups
  BY CapConstants
<1> QED BY <1>1 DEF AdminStep, AdminSteps, Places, Registry!Idle

LEMMA AtIs ==
  ASSUME TablesAssumption, NEW i \in 1..MaxGroups
  PROVE  i # 0 /\ i \in 0..MaxGroups /\ 0 \in 0..MaxGroups
BY CapConstants

LEMMA AdminReturns ==
  ASSUME TablesAssumption, OpsOK, NEW t \in Admins, Registry!Returns(t)
  PROVE  OpsOK'
<1> DEFINE r == IF op[t].walk = "no" THEN Registry!Idle ELSE [op[t] EXCEPT !.at = "walk", !.next = @ + 1]
<1>1. op[t] \in AdminSteps
  BY DEF OpsOK, AdminStep
<1>2. AdminStep([op[t] EXCEPT !.at = "walk", !.next = @ + 1])
  <2>1. 0 \in 0..MaxGroups /\ "no" \in {"no", "start", "stop"} /\ "walk" \in Places
    BY CapConstants DEF Places
  <2> QED BY <1>1, <2>1, AdminStepIs
<1>3. AdminStep(r)
  BY <1>2, IdleIs
<1>4. Registry!Goes(t, r)
  BY DEF Registry!Returns
<1> HIDE DEF r
<1> QED BY <1>3, <1>4, AdminGoes

(* The state of a group changes, and nothing else.                         *)
StateMoves(i) ==
  /\ groups' = groups \/ \E st \in Registry!States : groups' = Registry!SetState(i, st)
  /\ descs' = descs /\ ht' = ht

LEMMA StateMoved ==
  ASSUME TablesAssumption, GroupsOK, NEW i \in 1..MaxGroups, StateMoves(i)
  PROVE  GroupsOK' /\ SlotsKept
<1>1. CASE groups' = groups
  BY <1>1 DEF GroupsOK, SlotsKept, StateMoves
<1>2. CASE groups' # groups
  <2>1. PICK st \in Registry!States : groups' = Registry!SetState(i, st)
    BY <1>2 DEF StateMoves
  <2>2. groups[i] # Unset /\ groups' = [groups EXCEPT ![i].state = st]
    BY <1>2, <2>1 DEF Registry!SetState
  <2>3. groups[i] \in Registry!Registered
    BY <2>2 DEF GroupsOK
  <2> DEFINE g == [groups[i] EXCEPT !.state = st]
  <2>4. g \in Registry!Registered /\ g.base = groups[i].base /\ g.count = groups[i].count
    BY <2>3 DEF Registry!Registered
  <2>5. groups' = [groups EXCEPT ![i] = g]
    BY <2>2
  <2> HIDE DEF g
  <2>6. g # Unset
    BY <2>4, UnsetIs
  <2>7. GroupsOK'
    BY <2>4, <2>5 DEF GroupsOK
  <2>8. groups'[i] = g /\ \A j \in 1..MaxGroups : j # i => groups'[j] = groups[j]
    BY <2>5 DEF GroupsOK
  <2> QED BY <2>2, <2>4, <2>6, <2>7, <2>8 DEF SlotsKept, StateMoves
<1> QED BY <1>1, <1>2

LEMMA StartMoves ==
  ASSUME TablesAssumption, OpsOK, NEW t \in Admins, NEW i \in 1..MaxGroups, Registry!Start(t, i)
  PROVE  OpsOK' /\ (groups' = groups \/ \E st \in Registry!States : groups' = Registry!SetState(i, st))
<1>1. \/ Registry!Returns(t)
      \/ Registry!Goes(t, [op[t] EXCEPT !.at = "starting", !.slot = i])
  BY DEF Registry!Start
<1>2. AdminStep([op[t] EXCEPT !.at = "starting", !.slot = i])
  <2>1. op[t] \in AdminSteps
    BY DEF OpsOK, AdminStep
  <2>2. {"starting", "halting"} \subseteq Places /\ "no" \in {"no", "start", "stop"}
    BY DEF Places
  <2> QED BY <2>1, <2>2, AdminStepIs, AtIs
<1>3. OpsOK'
  BY <1>1, <1>2, AdminReturns, AdminGoes
<1>4. groups' = groups \/ groups' = Registry!SetState(i, "loaded")
  BY DEF Registry!Start
<1> QED BY <1>3, <1>4 DEF Registry!States

LEMMA StopMoves ==
  ASSUME TablesAssumption, OpsOK, NEW t \in Admins, NEW i \in 1..MaxGroups, Registry!Stop(t, i)
  PROVE  OpsOK' /\ (groups' = groups \/ \E st \in Registry!States : groups' = Registry!SetState(i, st))
<1>1. \/ Registry!Returns(t)
      \/ Registry!Goes(t, [op[t] EXCEPT !.at = "halting", !.slot = i])
  BY DEF Registry!Stop
<1>2. AdminStep([op[t] EXCEPT !.at = "halting", !.slot = i])
  <2>1. op[t] \in AdminSteps
    BY DEF OpsOK, AdminStep
  <2>2. {"starting", "halting"} \subseteq Places /\ "no" \in {"no", "start", "stop"}
    BY DEF Places
  <2> QED BY <2>1, <2>2, AdminStepIs, AtIs
<1>3. OpsOK'
  BY <1>1, <1>2, AdminReturns, AdminGoes
<1>4. groups' = groups \/ groups' = Registry!SetState(i, "inactive")
  BY DEF Registry!Stop
<1> QED BY <1>3, <1>4 DEF Registry!States

(* The steps of an administrative call that neither registers nor frees.   *)
Moves == \E i \in 1..MaxGroups : StateMoves(i)

AdminMoves(t) ==
  \/ \E g \in Groups : Registry!EnableGroup(t, g) \/ Registry!DisableGroup(t, g) \/ Registry!Unregister(t, g)
  \/ Registry!EnableCalled(t) \/ Registry!StartingDone(t) \/ Registry!HaltingDone(t)
  \/ Registry!StartAll(t) \/ Registry!StopAll(t) \/ Registry!Walk(t) \/ Registry!WalkEnds(t)
  \/ Registry!Drained(t) \/ Registry!DrainTimeout(t)

LEMMA AdminMoved ==
  ASSUME TablesAssumption, OpsOK, NEW t \in Admins, AdminMoves(t)
  PROVE  OpsOK' /\ Moves
<1>0. 1 \in 1..MaxGroups
  BY CapConstants
<1>s. op[t] \in AdminSteps /\ (op[t].at \notin {"idle", "walk"} => op[t].slot \in 1..MaxGroups)
  BY CapConstants DEF OpsOK, AdminStep, AdminSteps
<1>m. ASSUME groups' = groups, descs' = descs, ht' = ht PROVE Moves
  BY <1>0, <1>m DEF Moves, StateMoves
<1>n. \A g \in Groups : Registry!Named(g) \subseteq 1..MaxGroups
  BY DEF Registry!Named
<1>1. ASSUME NEW g \in Groups, Registry!EnableGroup(t, g) PROVE OpsOK' /\ Moves
  <2>1. PICK i \in 1..MaxGroups : Registry!Start(t, i)
    BY <1>1, <1>n DEF Registry!EnableGroup
  <2> QED BY <1>1, <2>1, StartMoves DEF Registry!EnableGroup, Moves, StateMoves
<1>2. ASSUME NEW g \in Groups, Registry!DisableGroup(t, g) PROVE OpsOK' /\ Moves
  <2>1. PICK i \in 1..MaxGroups : Registry!Stop(t, i)
    BY <1>2, <1>n DEF Registry!DisableGroup
  <2> QED BY <1>2, <2>1, StopMoves DEF Registry!DisableGroup, Moves, StateMoves
<1>3. ASSUME NEW g \in Groups, Registry!Unregister(t, g) PROVE OpsOK' /\ Moves
  <2>1. PICK i \in 1..MaxGroups : groups' = Registry!SetState(i, "stopping") /\ Registry!Goes(t, [Registry!Idle EXCEPT !.at = "drain", !.slot = i])
    BY <1>3, <1>n DEF Registry!Unregister
  <2>2. AdminStep([Registry!Idle EXCEPT !.at = "drain", !.slot = i])
    <3>1. "drain" \in Places /\ "no" \in {"no", "start", "stop"}
      BY DEF Places
    <3> QED BY <3>1, IdleIs, AdminStepIs, AtIs
  <2>3. OpsOK'
    BY <2>1, <2>2, AdminGoes
  <2>4. Moves
    BY <1>3, <2>1 DEF Registry!Unregister, Moves, StateMoves, Registry!States
  <2> QED BY <2>3, <2>4
<1>4. CASE Registry!EnableCalled(t)
  <2>1. op[t].slot \in 1..MaxGroups
    BY <1>4, <1>s DEF Registry!EnableCalled
  <2>2. (Registry!Returns(t) /\ groups' = groups) \/ Registry!Start(t, op[t].slot)
    BY <1>4 DEF Registry!EnableCalled
  <2> QED BY <1>4, <1>m, <2>1, <2>2, AdminReturns, StartMoves DEF Registry!EnableCalled, Moves, StateMoves
<1>5. CASE Registry!StartingDone(t)
  <2>1. op[t].slot \in 1..MaxGroups
    BY <1>5, <1>s DEF Registry!StartingDone
  <2> QED BY <1>5, <2>1, AdminReturns DEF Registry!StartingDone, Moves, StateMoves, Registry!States
<1>6. CASE Registry!HaltingDone(t)
  BY <1>6, <1>m, AdminReturns DEF Registry!HaltingDone
<1>7. CASE Registry!StartAll(t) \/ Registry!StopAll(t)
  <2>1. \A way \in {"start", "stop"} : AdminStep([Registry!Idle EXCEPT !.at = "walk", !.walk = way])
    <3>1. "walk" \in Places /\ 0 \in 0..MaxGroups
      BY CapConstants DEF Places
    <3> QED BY <3>1, IdleIs, AdminStepIs
  <2>2. \E way \in {"start", "stop"} : Registry!Goes(t, [Registry!Idle EXCEPT !.at = "walk", !.walk = way])
    BY <1>7 DEF Registry!StartAll, Registry!StopAll, Registry!Walks
  <2>3. OpsOK'
    BY <2>1, <2>2, AdminGoes
  <2> QED BY <1>7, <1>m, <2>3 DEF Registry!StartAll, Registry!StopAll
<1>8. CASE Registry!Walk(t)
  <2> DEFINE i == op[t].next
  <2>0. descs' = descs /\ ht' = ht
    BY <1>8 DEF Registry!Walk
  <2>1. i \in 1..MaxGroups
    <3>1. i \in Nat \ {0} /\ i <= MaxGroups
      BY <1>8, <1>s DEF Registry!Walk, AdminSteps
    <3> QED BY <3>1, CapConstants
  <2>2. Registry!Start(t, i) \/ Registry!Stop(t, i) \/ (Registry!Returns(t) /\ groups' = groups)
    BY <1>8 DEF Registry!Walk
  <2> HIDE DEF i
  <2> QED BY <1>m, <2>0, <2>1, <2>2, StartMoves, StopMoves, AdminReturns DEF Moves, StateMoves
<1>9. CASE Registry!WalkEnds(t) \/ Registry!DrainTimeout(t)
  BY <1>9, <1>m, AdminGoes, IdleIs DEF Registry!WalkEnds, Registry!DrainTimeout
<1>10. CASE Registry!Drained(t)
  <2>1. op[t].slot \in 1..MaxGroups
    BY <1>10, <1>s DEF Registry!Drained
  <2>2. AdminStep([op[t] EXCEPT !.at = "free"])
    BY <1>10, <1>s, <2>1, AtIs DEF Registry!Drained, AdminStep, AdminSteps, Places
  <2> QED BY <1>10, <2>1, <2>2, AdminGoes DEF Registry!Drained, Moves, StateMoves, Registry!States
<1> QED BY <1>1, <1>2, <1>3, <1>4, <1>5, <1>6, <1>7, <1>8, <1>9, <1>10 DEF AdminMoves

(* Registering a group.                                                    *)
LEMMA Registers ==
  ASSUME TablesAssumption, RegistryInv, NEW t \in Admins, NEW g \in Groups, Registry!RegisterGroup(t, g)
  PROVE  RegistryInv'
<1> DEFINE i == Registry!Least(Registry!FreeGroup)
           n == Len(CapsOf[g])
           b == Registry!Least(Registry!Runs(n))
           R == b..(b + n - 1)
           G == [id |-> g, state |-> "loaded", base |-> b, count |-> n]
           E(d) == [cap |-> CapsOf[g][d - b + 1], grp |-> i, active |-> 0]
<1>0. OpsOK /\ GroupsOK /\ DescsOK /\ SlotsOwned /\ HashOK
  BY DEF RegistryInv
<1>1. i \in 1..MaxGroups /\ groups[i] = Unset
  <2>1. Registry!FreeGroup \in SUBSET Nat /\ Registry!FreeGroup # {}
    BY CapConstants DEF Registry!FreeGroup, Registry!RegisterGroup, Registry!Fits
  <2>2. i \in Registry!FreeGroup
    BY <2>1, LeastIs
  <2> QED BY <2>2 DEF Registry!FreeGroup
<1>2. n \in Nat \ {0} /\ \A k \in 1..n : CapsOf[g][k] \in Registry!Caps
  BY DEF TablesAssumption, Registry!RegistryAssumption
<1>3. b \in 1..(MaxDescs - n + 1) /\ \A d \in R : descs[d] = Unset
  <2>1. Registry!Runs(n) \in SUBSET Nat /\ Registry!Runs(n) # {}
    BY <1>2, CapConstants DEF Registry!Runs, Registry!RegisterGroup, Registry!Fits
  <2>2. b \in Registry!Runs(n)
    BY <2>1, LeastIs
  <2> HIDE DEF n, b
  <2> QED BY <2>2 DEF Registry!Runs
<1>4. /\ b \in Nat \ {0} /\ b + n - 1 <= MaxDescs /\ R \subseteq 1..MaxDescs /\ b \in 1..MaxDescs /\ n \in 1..MaxDescs
      /\ \A d \in R : d - b + 1 \in 1..n
  <2> HIDE DEF n, b
  <2> QED BY <1>2, <1>3, CapConstants
<1>5. /\ groups' = [groups EXCEPT ![i] = G]
      /\ descs' = [d \in 1..MaxDescs |-> IF d \in R THEN E(d) ELSE descs[d]]
      /\ ht' = Registry!InsertAll(g, b)
      /\ Registry!Goes(t, IF started THEN [Registry!Idle EXCEPT !.at = "enable", !.slot = i] ELSE Registry!Idle)
  BY DEF Registry!RegisterGroup
<1>6. /\ \A m \in Registry!CapNames(g) : Registry!Lookup(m) = Unset
      /\ \A j, k \in 1..n : CapsOf[g][j] = CapsOf[g][k] => j = k
  <2>1. DOMAIN CapsOf[g] = 1..n
    BY DEF TablesAssumption, Registry!RegistryAssumption
  <2> QED BY <2>1 DEF Registry!RegisterGroup, Registry!Fits
<1>7. \A k \in 1..n : CapsOf[g][k] \in Registry!CapNames(g)
  <2>1. DOMAIN CapsOf[g] = 1..n
    BY DEF TablesAssumption, Registry!RegistryAssumption
  <2> QED BY <2>1 DEF Registry!CapNames
<1> HIDE DEF i, n, b
<1>8. G \in Registry!Registered /\ G # Unset /\ Registry!DescsAt(G) = R
  <2>1. G \in Registry!Registered
    BY <1>4 DEF Registry!Registered, Registry!States
  <2> QED BY <2>1, UnsetIs DEF Registry!DescsAt
<1>9. \A d \in R : E(d) \in Registry!Entries /\ E(d) # Unset /\ E(d).cap \in Registry!CapNames(g)
  <2>1. \A d \in R : E(d) \in Registry!Entries
    BY <1>1, <1>2, <1>4 DEF Registry!Entries
  <2> QED BY <2>1, <1>4, <1>7, UnsetIs
<1> HIDE DEF G
<1>10. /\ groups'[i] = G /\ (\A j \in 1..MaxGroups : j # i => groups'[j] = groups[j])
       /\ \A d \in 1..MaxDescs : descs'[d] = IF d \in R THEN E(d) ELSE descs[d]
  BY <1>0, <1>1, <1>5 DEF GroupsOK
<1>11. GroupsOK' /\ DescsOK'
  <2>1. GroupsOK'
    BY <1>0, <1>1, <1>5, <1>8 DEF GroupsOK
  <2>2. \A d \in 1..MaxDescs : (IF d \in R THEN E(d) ELSE descs[d]) \in Registry!Entries \cup {Unset}
    BY <1>0, <1>9 DEF DescsOK
  <2>3. DescsOK'
    BY <1>5, <2>2 DEF DescsOK
  <2> QED BY <2>1, <2>3
<1>12. OpsOK'
  <2>1. AdminStep([Registry!Idle EXCEPT !.at = "enable", !.slot = i])
    <3>1. "enable" \in Places /\ "no" \in {"no", "start", "stop"}
      BY DEF Places
    <3> QED BY <1>1, <3>1, IdleIs, AdminStepIs, AtIs
  <2> QED BY <1>0, <1>5, <2>1, IdleIs, AdminGoes
<1>13. \A d \in 1..MaxDescs : descs[d] # Unset =>
         descs[d].grp \in 1..MaxGroups /\ descs[d].grp # i /\ d \notin R
  BY <1>0, <1>1, <1>3 DEF SlotsOwned, DescsOK, Registry!Entries
<1>14. \A d \in R : E(d).grp = i /\ E(d).cap = CapsOf[g][d - b + 1]
  OBVIOUS
<1>15. \A d \in R : \A e \in 1..MaxDescs : descs[e] # Unset => descs[e].cap # CapsOf[g][d - b + 1]
  <2> SUFFICES ASSUME NEW d \in R, NEW e \in 1..MaxDescs, descs[e] # Unset, descs[e].cap = CapsOf[g][d - b + 1] PROVE FALSE
    OBVIOUS
  <2>1. Registry!Lookup(descs[e].cap) = Unset
    BY <1>4, <1>6, <1>7
  <2>2. Registry!Lookup(descs[e].cap) = e
    BY <1>0, FoundNow DEF AllFound, Registry!AllFound
  <2> QED BY <2>1, <2>2, CapConstants
<1> HIDE DEF R, E
<1>16. SlotsOwned'
  <2>1. ASSUME NEW j \in 1..MaxGroups, groups'[j] # Unset, NEW d \in Registry!DescsAt(groups'[j])
        PROVE  d \in 1..MaxDescs /\ descs'[d] # Unset /\ descs'[d].grp = j
    <3>1. CASE j = i
      <4>1. d \in R
        BY <1>8, <1>10, <2>1, <3>1
      <4> QED BY <1>4, <1>9, <1>10, <1>14, <3>1, <4>1
    <3>2. CASE j # i
      <4>1. groups'[j] = groups[j]
        BY <1>10, <3>2
      <4>2. d \in 1..MaxDescs /\ descs[d] # Unset /\ descs[d].grp = j
        BY <1>0, <2>1, <4>1 DEF SlotsOwned
      <4> QED BY <1>10, <1>13, <4>2
    <3> QED BY <3>1, <3>2
  <2>2. ASSUME NEW d \in 1..MaxDescs, descs'[d] # Unset
        PROVE  groups'[descs'[d].grp] # Unset /\ d \in Registry!DescsAt(groups'[descs'[d].grp])
    <3>1. CASE d \in R
      BY <1>8, <1>10, <1>14, <3>1
    <3>2. CASE d \notin R
      <4>1. descs'[d] = descs[d] /\ groups'[descs[d].grp] = groups[descs[d].grp]
        BY <1>10, <1>13, <2>2, <3>2
      <4> QED BY <1>0, <2>2, <4>1 DEF SlotsOwned
    <3> QED BY <3>1, <3>2
  <2>3. ASSUME NEW d \in 1..MaxDescs, NEW e \in 1..MaxDescs, descs'[d] # Unset, descs'[e] # Unset,
               descs'[d].cap = descs'[e].cap
        PROVE  d = e
    <3>1. CASE d \in R /\ e \in R
      <4>1. CapsOf[g][d - b + 1] = CapsOf[g][e - b + 1] /\ d - b + 1 \in 1..n /\ e - b + 1 \in 1..n
        BY <1>4, <1>10, <1>14, <2>3, <3>1
      <4>2. d - b + 1 = e - b + 1
        BY <1>6, <4>1
      <4> QED BY <1>4, <4>2
    <3>2. CASE d \in R /\ e \notin R
      BY <1>10, <1>14, <1>15, <2>3, <3>2
    <3>3. CASE d \notin R /\ e \in R
      BY <1>10, <1>14, <1>15, <2>3, <3>3
    <3>4. CASE d \notin R /\ e \notin R
      BY <1>0, <1>10, <2>3, <3>4 DEF SlotsOwned
    <3> QED BY <3>1, <3>2, <3>3, <3>4
  <2> QED BY <2>1, <2>2, <2>3 DEF SlotsOwned
<1>17. HashOK'
  <2>1. Registry!InUse' = Registry!InUse \cup R
    BY <1>4, <1>9, <1>10 DEF Registry!InUse
  <2>2. /\ \A d \in Registry!InUse : NamesNow'[d] = descs[d].cap /\ descs[d].cap \in Registry!Caps
        /\ \A d \in R : NamesNow'[d] = CapsOf[g][d - b + 1] /\ d \notin Registry!InUse
    <3>1. \A d \in Registry!InUse \cup R : NamesNow'[d] = descs'[d].cap
      BY <2>1 DEF NamesNow
    <3>2. \A d \in Registry!InUse : d \notin R /\ descs'[d] = descs[d]
      BY <1>10, <1>13 DEF Registry!InUse
    <3>3. \A d \in Registry!InUse : descs[d].cap \in Registry!Caps
      BY <1>0 DEF DescsOK, Registry!Entries, Registry!InUse
    <3> QED BY <1>4, <1>10, <1>14, <3>1, <3>2, <3>3
  <2>3. Stores(Registry!InsertAll(g, b), Registry!InUse \cup R) /\ Reached(Registry!InsertAll(g, b), NamesNow')
    <3> DEFINE name == NamesNow'
    <3> HIDE DEF name
    <3>1. /\ \A d \in Registry!InUse : name[d] = descs[d].cap /\ descs[d].cap \in Registry!Caps
          /\ \A d \in b..(b + Len(CapsOf[g]) - 1) : name[d] = CapsOf[g][d - b + 1] /\ d \notin Registry!InUse
          /\ b + Len(CapsOf[g]) - 1 <= MaxDescs
      BY <1>4, <2>2 DEF name, R, n
    <3>2. /\ Stores(Registry!InsertAll(g, b), Registry!InUse \cup (b..(b + Len(CapsOf[g]) - 1)))
          /\ Reached(Registry!InsertAll(g, b), name)
      BY <1>0, <1>4, <3>1, InsertedAll DEF HashOK
    <3> QED BY <3>2 DEF name, R, n
  <2> QED BY <1>5, <2>1, <2>3 DEF HashOK
<1> QED BY <1>11, <1>12, <1>16, <1>17 DEF RegistryInv

(* Freeing a group.                                                        *)
LEMMA Frees ==
  ASSUME TablesAssumption, RegistryInv, NEW t \in Admins, Registry!Free(t)
  PROVE  RegistryInv'
<1> DEFINE i == op[t].slot
           b == groups[i].base
           n == groups[i].count
           R == b..(b + n - 1)
<1>0. OpsOK /\ GroupsOK /\ DescsOK /\ SlotsOwned /\ HashOK
  BY DEF RegistryInv
<1>1. i \in 1..MaxGroups
  BY <1>0, CapConstants DEF OpsOK, AdminStep, AdminSteps, Registry!Free
<1>2. OpsOK'
  BY <1>0, AdminGoes, IdleIs DEF Registry!Free
<1>3. GroupsOK' /\ groups'[i] = Unset /\ \A j \in 1..MaxGroups : j # i => groups'[j] = groups[j]
  BY <1>0, <1>1 DEF GroupsOK, Registry!Free
<1>4. CASE groups[i] = Unset
  <2>1. ht' = ht /\ \A d \in 1..MaxDescs : descs'[d] = descs[d]
    BY <1>4 DEF Registry!Free
  <2>2. descs' = descs
    BY <1>0, <1>4 DEF Registry!Free, DescsOK
  <2>3. SlotsKept
    BY <1>3, <1>4, <2>1, <2>2 DEF SlotsKept
  <2>4. DescsOK'
    BY <1>0, <2>2 DEF DescsOK
  <2> QED BY <1>0, <1>2, <1>3, <2>3, <2>4, RegistryKept DEF RegistryInv
<1>5. CASE groups[i] # Unset
  <2>1. /\ b \in 1..MaxDescs /\ n \in 1..MaxDescs /\ Registry!DescsAt(groups[i]) = R
    BY <1>0, <1>1, <1>5 DEF GroupsOK, Registry!Registered, Registry!DescsAt
  <2>2. /\ ht' = Registry!RemoveAll(b, n)
        /\ descs' = [d \in 1..MaxDescs |-> IF d \in R THEN Unset ELSE descs[d]]
    BY <1>5, <2>1 DEF Registry!Free
  <2>3. R \subseteq Registry!InUse /\ \A d \in R : descs[d].grp = i
    BY <1>0, <1>1, <1>5, <2>1 DEF SlotsOwned, Registry!InUse
  <2>4. \A d \in 1..MaxDescs : descs[d] # Unset /\ d \notin R =>
          descs[d].grp \in 1..MaxGroups /\ descs[d].grp # i
    <3>1. \A d \in 1..MaxDescs : descs[d] # Unset => descs[d].grp \in 1..MaxGroups
      BY <1>0 DEF DescsOK, Registry!Entries
    <3> QED BY <1>0, <2>1, <3>1 DEF SlotsOwned
  <2>5. b \in Nat \ {0} /\ n \in Nat
    BY <2>1, CapConstants
  <2>6. Stores(Registry!RemoveAll(b, n), Registry!InUse \ R) /\ Reached(Registry!RemoveAll(b, n), NamesNow)
    <3>1. \A d \in Registry!InUse : descs[d].cap \in Registry!Caps
      BY <1>0 DEF DescsOK, Registry!Entries, Registry!InUse
    <3> HIDE DEF b, n
    <3> QED BY <1>0, <2>3, <2>5, <3>1, RemovedAll DEF HashOK
  <2> HIDE DEF R, i, b, n
  <2>7. DescsOK' /\ \A d \in 1..MaxDescs : descs'[d] = IF d \in R THEN Unset ELSE descs[d]
    BY <1>0, <2>2 DEF DescsOK
  <2>8. SlotsOwned'
    <3>1. ASSUME NEW j \in 1..MaxGroups, groups'[j] # Unset, NEW d \in Registry!DescsAt(groups'[j])
          PROVE  d \in 1..MaxDescs /\ descs'[d] # Unset /\ descs'[d].grp = j
      <4>1. j # i /\ groups'[j] = groups[j]
        BY <1>3, <3>1
      <4>2. d \in 1..MaxDescs /\ descs[d] # Unset /\ descs[d].grp = j
        BY <1>0, <3>1, <4>1 DEF SlotsOwned
      <4> QED BY <2>3, <2>7, <4>1, <4>2
    <3>2. ASSUME NEW d \in 1..MaxDescs, descs'[d] # Unset
          PROVE  groups'[descs'[d].grp] # Unset /\ d \in Registry!DescsAt(groups'[descs'[d].grp])
      <4>1. d \notin R /\ descs'[d] = descs[d]
        BY <2>7, <3>2
      <4>2. groups'[descs[d].grp] = groups[descs[d].grp]
        BY <1>3, <2>4, <3>2, <4>1
      <4> QED BY <1>0, <3>2, <4>1, <4>2 DEF SlotsOwned
    <3>3. ASSUME NEW d \in 1..MaxDescs, NEW e \in 1..MaxDescs, descs'[d] # Unset, descs'[e] # Unset,
                 descs'[d].cap = descs'[e].cap
          PROVE  d = e
      BY <1>0, <2>7, <3>3 DEF SlotsOwned
    <3> QED BY <3>1, <3>2, <3>3 DEF SlotsOwned
  <2>9. HashOK'
    <3>1. Registry!InUse' = Registry!InUse \ R
      BY <2>7 DEF Registry!InUse
    <3>2. \A d \in Registry!InUse' : NamesNow'[d] = NamesNow[d]
      BY <2>7, <3>1 DEF NamesNow, Registry!InUse
    <3>3. Stores(ht', Registry!InUse') /\ Reached(ht', NamesNow)
      BY <2>2, <2>6, <3>1
    <3>4. Reached(ht', NamesNow')
      <4>1. \A x \in Registry!Buckets : ht'[x] # Unset => ht'[x] \in Registry!InUse'
        BY <3>3 DEF Stores
      <4> QED BY <3>2, <3>3, <4>1 DEF Reached
    <3> QED BY <3>3, <3>4 DEF HashOK
  <2> QED BY <1>2, <1>3, <2>7, <2>8, <2>9 DEF RegistryInv
<1> QED BY <1>4, <1>5

(* A call begins and ends.                                                 *)
LEMMA CallMoved ==
  ASSUME TablesAssumption, RegistryInv, NEW t \in Callers,
         (\E n \in Registry!Caps : Registry!CallBegins(t, n)) \/ Registry!CallEnds(t)
  PROVE  RegistryInv'
<1>0. OpsOK /\ GroupsOK /\ DescsOK /\ SlotsOwned /\ HashOK
  BY DEF RegistryInv
<1>1. /\ groups' = groups /\ ht' = ht
  BY DEF Registry!CallBegins, Registry!CallEnds
<1>2. \/ descs' = descs
      \/ \E d \in 1..MaxDescs, a \in Nat : descs[d] # Unset /\ descs' = [descs EXCEPT ![d].active = a]
  <2>1. ASSUME NEW n \in Registry!Caps, Registry!CallBegins(t, n)
        PROVE  \E d \in 1..MaxDescs, a \in Nat : descs[d] # Unset /\ descs' = [descs EXCEPT ![d].active = a]
    <3> DEFINE d == Registry!Lookup(n)
    <3>1. d # Unset /\ descs' = [descs EXCEPT ![d].active = @ + 1]
      BY <2>1 DEF Registry!CallBegins
    <3>2. d \in 1..MaxDescs /\ descs[d] # Unset
      BY <1>0, <3>1, FoundNow DEF Registry!InUse
    <3>3. descs[d].active + 1 \in Nat
      BY <1>0, <3>2 DEF DescsOK, Registry!Entries
    <3> HIDE DEF d
    <3> QED BY <3>1, <3>2, <3>3
  <2>2. ASSUME Registry!CallEnds(t), descs' # descs
        PROVE  \E d \in 1..MaxDescs, a \in Nat : descs[d] # Unset /\ descs' = [descs EXCEPT ![d].active = a]
    <3> DEFINE d == op[t].slot
    <3>1. descs[d] # Unset /\ descs[d].active > 0 /\ descs' = [descs EXCEPT ![d].active = @ - 1]
      BY <2>2 DEF Registry!CallEnds
    <3>2. d \in 1..MaxDescs
      BY <1>0, <2>2 DEF OpsOK, CallSteps, Registry!CallEnds, Registry!Idle
    <3>3. descs[d].active - 1 \in Nat
      BY <1>0, <3>1, <3>2 DEF DescsOK, Registry!Entries
    <3> HIDE DEF d
    <3> QED BY <3>1, <3>2, <3>3
  <2> QED BY <2>1, <2>2
<1>3. DescsOK' /\ SlotsKept
  <2>1. CASE descs' = descs
    BY <1>0, <1>1, <2>1 DEF DescsOK, SlotsKept
  <2>2. ASSUME NEW d \in 1..MaxDescs, NEW a \in Nat, descs[d] # Unset, descs' = [descs EXCEPT ![d].active = a]
        PROVE  DescsOK' /\ SlotsKept
    <3> DEFINE e == [descs[d] EXCEPT !.active = a]
    <3>1. descs[d] \in Registry!Entries
      BY <1>0, <2>2 DEF DescsOK
    <3>2. e \in Registry!Entries /\ e.cap = descs[d].cap /\ e.grp = descs[d].grp
      BY <3>1 DEF Registry!Entries
    <3>3. descs' = [descs EXCEPT ![d] = e]
      BY <2>2
    <3> HIDE DEF e
    <3>4. e # Unset
      BY <3>2, UnsetIs
    <3>5. DescsOK'
      BY <1>0, <3>2, <3>3 DEF DescsOK
    <3>6. descs'[d] = e /\ \A x \in 1..MaxDescs : x # d => descs'[x] = descs[x]
      BY <1>0, <3>3 DEF DescsOK
    <3> QED BY <1>1, <2>2, <3>2, <3>4, <3>5, <3>6 DEF SlotsKept
  <2> QED BY <1>2, <2>1, <2>2
<1>4. GroupsOK'
  BY <1>0, <1>1 DEF GroupsOK
<1>5. OpsOK'
  <2>1. \E r : Registry!Goes(t, r) /\ (r = Registry!Idle \/ r \in CallSteps)
    <3>1. ASSUME NEW n \in Registry!Caps, Registry!CallBegins(t, n)
          PROVE  Registry!Goes(t, [at |-> "executing", slot |-> Registry!Lookup(n), cap |-> n])
                   /\ [at |-> "executing", slot |-> Registry!Lookup(n), cap |-> n] \in CallSteps
      <4>1. Registry!Lookup(n) \in 1..MaxDescs
        BY <1>0, <3>1, FoundNow DEF Registry!CallBegins, Registry!InUse
      <4> QED BY <3>1, <4>1 DEF Registry!CallBegins, CallSteps
    <3> QED BY <3>1 DEF Registry!CallEnds
  <2> QED BY <1>0, <2>1, UnsetIs DEF OpsOK, Registry!Goes, Registry!Tasks
<1> QED BY <1>0, <1>3, <1>4, <1>5, RegistryKept DEF RegistryInv

LEMMA RegistryStep ==
  ASSUME TablesAssumption, RegistryInv, Registry!Next
  PROVE  RegistryInv'
<1>1. ASSUME NEW t \in Admins, AdminMoves(t) PROVE RegistryInv'
  <2>1. OpsOK' /\ Moves
    BY <1>1, AdminMoved DEF RegistryInv
  <2>2. PICK i \in 1..MaxGroups : StateMoves(i)
    BY <2>1 DEF Moves
  <2>3. GroupsOK' /\ SlotsKept
    BY <2>2, StateMoved DEF RegistryInv
  <2>4. DescsOK'
    BY <2>2 DEF StateMoves, RegistryInv, DescsOK
  <2> QED BY <2>1, <2>3, <2>4, RegistryKept DEF RegistryInv
<1> QED BY <1>1, Registers, Frees, CallMoved DEF Registry!Next, AdminMoves

LEMMA RegistryStarts ==
  ASSUME TablesAssumption, Registry!Init
  PROVE  RegistryInv
<1>1. OpsOK
  BY IdleIs DEF Registry!Init, OpsOK, Registry!Tasks
<1>2. GroupsOK /\ DescsOK /\ SlotsOwned
  BY DEF Registry!Init, GroupsOK, DescsOK, SlotsOwned
<1>3. Registry!InUse = {}
  BY DEF Registry!Init, Registry!InUse
<1>4. HashOK
  BY <1>3 DEF Registry!Init, HashOK, Stores, Reached
<1> QED BY <1>1, <1>2, <1>4 DEF RegistryInv

LEMMA RegistryRests ==
  ASSUME UNCHANGED capvars
  PROVE  (RegistryInv' <=> RegistryInv)
BY DEF capvars, RegistryInv, OpsOK, GroupsOK, DescsOK, SlotsOwned, HashOK, NamesNow, Stores, Reached,
       Registry!InUse, Registry!Tasks, Registry!Buckets

(***************************************************************************)
(* Calls hold their group.                                                 *)
(***************************************************************************)
OneAdmin == \A s, t \in Admins : s = t

(* A group that is about to be freed refuses calls, and none runs.         *)
Leaving ==
  \A t \in Admins :
    /\ op[t].at = "drain" => groups[op[t].slot] # Unset
    /\ op[t].at = "free" =>
         /\ groups[op[t].slot] # Unset /\ groups[op[t].slot].state = "removing"
         /\ \A d \in Registry!DescsAt(groups[op[t].slot]) : descs[d].active = 0

Held ==
  \A t \in Callers : op[t].at = "executing" =>
    descs[op[t].slot] # Unset /\ descs[op[t].slot].cap = op[t].cap /\ groups[descs[op[t].slot].grp] # Unset

Counted == \A d \in 1..MaxDescs : descs[d] # Unset => descs[d].active = Cardinality(Registry!InCall(d))

CallsInv == Leaving /\ Held /\ Counted

LEMMA CallsAreCounted == \A S : Registry!Cardinality(S) = Cardinality(S)
BY DEF Registry!Cardinality, Cardinality

LEMMA HeldIs == CallsHoldGroup <=> Held /\ Counted
BY CallsAreCounted DEF CallsHoldGroup, Registry!CallsHoldGroup, Held, Counted

LEMMA InCallIs ==
  ASSUME TablesAssumption, NEW d
  PROVE  IsFiniteSet(Registry!InCall(d)) /\ Cardinality(Registry!InCall(d)) \in Nat
           /\ (Cardinality(Registry!InCall(d)) = 0 <=> Registry!InCall(d) = {})
<1>1. IsFiniteSet(Callers)
  BY DEF TablesAssumption, Registry!RegistryAssumption, Registry!IsFiniteSet, IsFiniteSet
<1>2. IsFiniteSet(Registry!InCall(d))
  BY <1>1, FS_Subset DEF Registry!InCall
<1> QED BY <1>2, FS_CardinalityType, FS_EmptySet

(* An administrative step leaves the steps of the calls.                   *)
LEMMA CallersKeep ==
  ASSUME TablesAssumption, OpsOK, NEW t \in Admins, NEW r, Registry!Goes(t, r)
  PROVE  /\ \A u \in Callers : op'[u] = op[u]
         /\ \A d : Registry!InCall(d)' = Registry!InCall(d)
         /\ op'[t] = r
<1>1. (\A u \in Callers : op'[u] = op[u]) /\ op'[t] = r
  BY UnsetIs DEF OpsOK, Registry!Goes, Registry!Tasks
<1> QED BY <1>1 DEF Registry!InCall

(* Where an administrative step leads.                                     *)
LEMMA AdminLeads ==
  ASSUME TablesAssumption, OpsOK, NEW t \in Admins, AdminMoves(t)
  PROVE  /\ \E r : Registry!Goes(t, r)
         /\ \/ op'[t].at \notin {"drain", "free"}
            \/ \E g \in Groups : Registry!Unregister(t, g)
            \/ Registry!Drained(t)
<1> DEFINE Elsewhere == \E r : Registry!Goes(t, r) /\ r.at \notin {"drain", "free"}
<1>1. op[t] \in AdminSteps
  BY DEF OpsOK, AdminStep
<1>2. Registry!Returns(t) => Elsewhere
  <2>1. Registry!Idle.at \notin {"drain", "free"} /\ [op[t] EXCEPT !.at = "walk", !.next = @ + 1].at \notin {"drain", "free"}
    BY <1>1 DEF Registry!Idle, AdminSteps
  <2> QED BY <2>1 DEF Registry!Returns
<1>3. \A i : Registry!Start(t, i) => Elsewhere
  <2>1. \A i : [op[t] EXCEPT !.at = "starting", !.slot = i].at \notin {"drain", "free"}
    BY <1>1 DEF AdminSteps
  <2> QED BY <1>2, <2>1 DEF Registry!Start
<1>4. \A i : Registry!Stop(t, i) => Elsewhere
  <2>1. \A i : [op[t] EXCEPT !.at = "halting", !.slot = i].at \notin {"drain", "free"}
    BY <1>1 DEF AdminSteps
  <2> QED BY <1>2, <2>1 DEF Registry!Stop
<1>5. Elsewhere => (\E r : Registry!Goes(t, r)) /\ op'[t].at \notin {"drain", "free"}
  BY CallersKeep
<1>6. ASSUME NEW g \in Groups, Registry!EnableGroup(t, g) \/ Registry!DisableGroup(t, g) PROVE Elsewhere
  BY <1>3, <1>4, <1>6 DEF Registry!EnableGroup, Registry!DisableGroup
<1>7. ASSUME \/ Registry!EnableCalled(t) \/ Registry!StartingDone(t) \/ Registry!HaltingDone(t) \/ Registry!Walk(t)
      PROVE  Elsewhere
  <2>1. \/ Registry!Returns(t) \/ \E i : Registry!Start(t, i) \/ Registry!Stop(t, i)
    BY <1>7 DEF Registry!EnableCalled, Registry!StartingDone, Registry!HaltingDone, Registry!Walk
  <2> QED BY <1>2, <1>3, <1>4, <2>1
<1>8. ASSUME \/ Registry!StartAll(t) \/ Registry!StopAll(t) \/ Registry!WalkEnds(t) \/ Registry!DrainTimeout(t)
      PROVE  Elsewhere
  <2>1. Registry!Idle.at \notin {"drain", "free"} /\ \A w : [Registry!Idle EXCEPT !.at = "walk", !.walk = w].at \notin {"drain", "free"}
    BY DEF Registry!Idle
  <2>2. \/ Registry!Goes(t, Registry!Idle)
        \/ \E w : Registry!Goes(t, [Registry!Idle EXCEPT !.at = "walk", !.walk = w])
    BY <1>8 DEF Registry!StartAll, Registry!StopAll, Registry!WalkEnds, Registry!DrainTimeout, Registry!Walks
  <2> QED BY <2>1, <2>2
<1>9. (\E g \in Groups : Registry!Unregister(t, g)) \/ Registry!Drained(t) => \E r : Registry!Goes(t, r)
  BY DEF Registry!Unregister, Registry!Drained
<1> QED BY <1>5, <1>6, <1>7, <1>8, <1>9 DEF AdminMoves

LEMMA AdminHolds ==
  ASSUME TablesAssumption, OneAdmin, RegistryInv, CallsInv, NEW t \in Admins, AdminMoves(t)
  PROVE  CallsInv'
<1>0. OpsOK /\ GroupsOK /\ DescsOK /\ SlotsOwned /\ Leaving /\ Held /\ Counted
  BY DEF RegistryInv, CallsInv
<1>1. PICK i \in 1..MaxGroups : StateMoves(i)
  BY <1>0, AdminMoved DEF Moves
<1>2. SlotsKept /\ GroupsOK' /\ descs' = descs
  BY <1>0, <1>1, StateMoved DEF StateMoves
<1>3. PICK r : Registry!Goes(t, r)
  BY <1>0, AdminLeads
<1>4. /\ \A u \in Callers : op'[u] = op[u]
      /\ \A d : Registry!InCall(d)' = Registry!InCall(d)
  BY <1>0, <1>3, CallersKeep
<1>5. \A d \in 1..MaxDescs : descs[d] # Unset => descs[d].grp \in 1..MaxGroups
  BY <1>0 DEF DescsOK, Registry!Entries
<1>6. \A u \in Callers : op[u].at = "executing" => op[u].slot \in 1..MaxDescs
  BY <1>0 DEF OpsOK, CallSteps, Registry!Idle
<1>7. Held'
  BY <1>0, <1>2, <1>4, <1>5, <1>6 DEF Held, SlotsKept
<1>8. Counted'
  BY <1>0, <1>2, <1>4 DEF Counted
<1>9. Leaving'
  <2> SUFFICES /\ op'[t].at = "drain" => groups'[op'[t].slot] # Unset
               /\ op'[t].at = "free" =>
                    /\ groups'[op'[t].slot] # Unset /\ groups'[op'[t].slot].state = "removing"
                    /\ \A d \in Registry!DescsAt(groups'[op'[t].slot]) : descs'[d].active = 0
    BY DEF OneAdmin, Leaving, Registry!DescsAt
  <2>1. CASE op'[t].at \notin {"drain", "free"}
    BY <2>1
  <2>2. ASSUME NEW g \in Groups, Registry!Unregister(t, g)
        PROVE  op'[t].at = "drain" /\ groups'[op'[t].slot] # Unset
    <3>1. PICK k \in Registry!Named(g) : Registry!Goes(t, [Registry!Idle EXCEPT !.at = "drain", !.slot = k])
      BY <2>2 DEF Registry!Unregister
    <3>2. k \in 1..MaxGroups /\ groups[k] # Unset
      BY <3>1 DEF Registry!Named
    <3>3. op'[t] = [Registry!Idle EXCEPT !.at = "drain", !.slot = k]
      BY <1>0, <3>1, CallersKeep
    <3>4. op'[t].at = "drain" /\ op'[t].slot = k
      BY <3>3 DEF Registry!Idle
    <3> QED BY <1>2, <3>2, <3>4 DEF SlotsKept
  <2>3. CASE Registry!Drained(t)
    <3> DEFINE k == op[t].slot
    <3>1. op[t].at = "drain" /\ ~Registry!InFlight(k) /\ groups[k] # Unset
      BY <1>0, <2>3 DEF Registry!Drained, Leaving
    <3>2. k \in 1..MaxGroups
      BY <1>0, <3>1, CapConstants DEF OpsOK, AdminStep, AdminSteps
    <3>3. op'[t] = [op[t] EXCEPT !.at = "free"]
      BY <1>0, <2>3, CallersKeep DEF Registry!Drained
    <3>4. op'[t].at = "free" /\ op'[t].slot = k
      BY <1>0, <3>3 DEF OpsOK, AdminStep, AdminSteps
    <3>5. groups' = [groups EXCEPT ![k].state = "removing"]
      BY <2>3, <3>1 DEF Registry!Drained, Registry!SetState
    <3>6. groups'[k] # Unset /\ groups'[k].state = "removing" /\ Registry!DescsAt(groups'[k]) = Registry!DescsAt(groups[k])
      <4>1. groups[k] \in Registry!Registered
        BY <1>0, <3>1, <3>2 DEF GroupsOK
      <4>2. groups'[k].state = "removing"
        BY <1>0, <3>2, <3>5, <4>1 DEF GroupsOK, Registry!Registered
      <4> QED BY <1>2, <3>1, <3>2, <4>2 DEF SlotsKept, Registry!DescsAt
    <3>7. \A d \in Registry!DescsAt(groups[k]) : descs[d].active = 0
      <4> SUFFICES ASSUME NEW d \in Registry!DescsAt(groups[k]) PROVE descs[d].active = 0
        OBVIOUS
      <4>1. d \in 1..MaxDescs /\ descs[d] # Unset
        BY <1>0, <3>1, <3>2 DEF SlotsOwned
      <4>2. descs[d].active \in Nat
        BY <1>0, <4>1 DEF DescsOK, Registry!Entries
      <4>3. ~(descs[d].active > 0)
        BY <3>1, <4>1 DEF Registry!InFlight
      <4> QED BY <4>2, <4>3
    <3> HIDE DEF k
    <3> QED BY <1>2, <3>4, <3>6, <3>7
  <2> QED BY <1>0, <2>1, <2>2, <2>3, AdminLeads
<1> QED BY <1>7, <1>8, <1>9 DEF CallsInv

LEMMA RegisterHolds ==
  ASSUME TablesAssumption, OneAdmin, RegistryInv, RegistryInv', CallsInv,
         NEW t \in Admins, NEW g \in Groups, Registry!RegisterGroup(t, g)
  PROVE  CallsInv'
<1> DEFINE i == Registry!Least(Registry!FreeGroup)
           n == Len(CapsOf[g])
           b == Registry!Least(Registry!Runs(n))
           R == b..(b + n - 1)
           E(d) == [cap |-> CapsOf[g][d - b + 1], grp |-> i, active |-> 0]
           r == IF started THEN [Registry!Idle EXCEPT !.at = "enable", !.slot = i] ELSE Registry!Idle
<1>0. OpsOK /\ DescsOK /\ SlotsOwned /\ Leaving /\ Held /\ Counted /\ DescsOK' /\ SlotsOwned'
  BY DEF RegistryInv, CallsInv
<1>1. \A d \in R : descs[d] = Unset
  <2>1. n \in Nat \ {0}
    BY DEF TablesAssumption, Registry!RegistryAssumption
  <2> HIDE DEF n
  <2>2. Registry!Runs(n) \in SUBSET Nat /\ Registry!Runs(n) # {}
    BY <2>1, CapConstants DEF n, Registry!Runs, Registry!RegisterGroup, Registry!Fits
  <2>3. b \in Registry!Runs(n)
    BY <2>2, LeastIs
  <2> HIDE DEF b
  <2> QED BY <2>3 DEF Registry!Runs
<1>2. /\ descs' = [d \in 1..MaxDescs |-> IF d \in R THEN E(d) ELSE descs[d]]
      /\ Registry!Goes(t, r)
  BY DEF Registry!RegisterGroup
<1>3. r.at \notin {"drain", "free"}
  BY DEF Registry!Idle
<1> HIDE DEF r, R, i, b, n
<1>4. /\ \A u \in Callers : op'[u] = op[u]
      /\ \A d : Registry!InCall(d)' = Registry!InCall(d)
      /\ op'[t].at \notin {"drain", "free"}
  BY <1>0, <1>2, <1>3, CallersKeep
<1>5. Leaving'
  BY <1>4 DEF OneAdmin, Leaving
<1>6. \A u \in Callers : op[u].at = "executing" => op[u].slot \in 1..MaxDescs /\ op[u].slot \notin R
  BY <1>0, <1>1 DEF OpsOK, CallSteps, Registry!Idle, Held
<1>7. Held'
  <2> SUFFICES ASSUME NEW u \in Callers, op[u].at = "executing"
               PROVE  descs'[op[u].slot] # Unset /\ descs'[op[u].slot].cap = op[u].cap /\ groups'[descs'[op[u].slot].grp] # Unset
    BY <1>4 DEF Held
  <2>1. op[u].slot \in 1..MaxDescs /\ descs'[op[u].slot] = descs[op[u].slot]
    BY <1>2, <1>6
  <2> QED BY <1>0, <2>1 DEF Held, SlotsOwned
<1>8. Counted'
  <2> SUFFICES ASSUME NEW d \in 1..MaxDescs, descs'[d] # Unset
               PROVE  descs'[d].active = Cardinality(Registry!InCall(d))
    BY <1>4 DEF Counted
  <2>1. CASE d \in R
    <3>1. Registry!InCall(d) = {}
      BY <1>6, <2>1 DEF Registry!InCall
    <3>2. descs'[d].active = 0
      BY <1>2, <2>1
    <3> QED BY <3>1, <3>2, FS_EmptySet
  <2>2. CASE d \notin R
    BY <1>0, <1>2, <2>2 DEF Counted
  <2> QED BY <2>1, <2>2
<1> QED BY <1>5, <1>7, <1>8 DEF CallsInv

LEMMA FreeHolds ==
  ASSUME TablesAssumption, OneAdmin, RegistryInv, RegistryInv', CallsInv, NEW t \in Admins, Registry!Free(t)
  PROVE  CallsInv'
<1> DEFINE i == op[t].slot
           R == Registry!DescsAt(groups[i])
<1>0. OpsOK /\ DescsOK /\ SlotsOwned /\ Leaving /\ Held /\ Counted /\ DescsOK' /\ SlotsOwned'
  BY DEF RegistryInv, CallsInv
<1>1. groups[i] # Unset /\ \A d \in R : descs[d].active = 0
  BY <1>0 DEF Leaving, Registry!Free
<1>2. i \in 1..MaxGroups
  BY <1>0, CapConstants DEF OpsOK, AdminStep, AdminSteps, Registry!Free
<1>3. /\ descs' = [d \in 1..MaxDescs |-> IF d \in R THEN Unset ELSE descs[d]]
      /\ Registry!Goes(t, Registry!Idle)
  BY <1>1 DEF Registry!Free
<1>4. \A d \in R : Registry!InCall(d) = {}
  <2> SUFFICES ASSUME NEW d \in R PROVE Registry!InCall(d) = {}
    OBVIOUS
  <2>1. d \in 1..MaxDescs /\ descs[d] # Unset
    BY <1>0, <1>1, <1>2 DEF SlotsOwned
  <2>2. Cardinality(Registry!InCall(d)) = 0
    BY <1>0, <1>1, <2>1 DEF Counted
  <2> QED BY <2>2, InCallIs
<1> HIDE DEF R, i
<1>5. /\ \A u \in Callers : op'[u] = op[u]
      /\ \A d : Registry!InCall(d)' = Registry!InCall(d)
      /\ op'[t] = Registry!Idle
  BY <1>0, <1>3, CallersKeep
<1>6. Leaving'
  BY <1>5 DEF OneAdmin, Leaving, Registry!Idle
<1>7. \A u \in Callers : op[u].at = "executing" => op[u].slot \in 1..MaxDescs /\ op[u].slot \notin R
  <2>1. \A u \in Callers : op[u].at = "executing" => u \in Registry!InCall(op[u].slot)
    BY DEF Registry!InCall
  <2>2. \A u \in Callers : op[u].at = "executing" => op[u].slot \in 1..MaxDescs
    BY <1>0 DEF OpsOK, CallSteps, Registry!Idle
  <2> QED BY <1>4, <2>1, <2>2
<1>8. Held'
  <2> SUFFICES ASSUME NEW u \in Callers, op[u].at = "executing"
               PROVE  descs'[op[u].slot] # Unset /\ descs'[op[u].slot].cap = op[u].cap /\ groups'[descs'[op[u].slot].grp] # Unset
    BY <1>5 DEF Held
  <2>1. op[u].slot \in 1..MaxDescs /\ descs'[op[u].slot] = descs[op[u].slot]
    BY <1>3, <1>7
  <2> QED BY <1>0, <2>1 DEF Held, SlotsOwned
<1>9. Counted'
  BY <1>0, <1>3, <1>5 DEF Counted
<1> QED BY <1>6, <1>8, <1>9 DEF CallsInv

LEMMA CallBeginsHolds ==
  ASSUME TablesAssumption, RegistryInv, RegistryInv', CallsInv, NEW t \in Callers, NEW n \in Registry!Caps,
         Registry!CallBegins(t, n)
  PROVE  CallsInv'
<1>d. PICK d : d = Registry!Lookup(n)
  OBVIOUS
<1> DEFINE c == [at |-> "executing", slot |-> d, cap |-> n]
           e == [descs[d] EXCEPT !.active = @ + 1]
<1>0. OpsOK /\ DescsOK /\ SlotsOwned /\ HashOK /\ Leaving /\ Held /\ Counted /\ SlotsOwned'
  BY DEF RegistryInv, CallsInv
<1>1. /\ d # Unset /\ Registry!Ready(d) /\ descs' = [descs EXCEPT ![d].active = @ + 1] /\ Registry!Goes(t, c)
      /\ op[t].at = "idle" /\ groups' = groups
  BY <1>d DEF Registry!CallBegins
<1>2. d \in 1..MaxDescs /\ descs[d] # Unset /\ descs[d].cap = n
  BY <1>0, <1>1, <1>d, FoundNow DEF Registry!InUse
<1>3. descs[d] \in Registry!Entries /\ descs[d].active = Cardinality(Registry!InCall(d))
  BY <1>0, <1>2 DEF DescsOK, Counted
<1>4. /\ e.active = Cardinality(Registry!InCall(d)) + 1 /\ e.cap = n /\ e.grp = descs[d].grp /\ e # Unset
      /\ descs'[d] = e /\ \A x \in 1..MaxDescs : x # d => descs'[x] = descs[x]
  <2>1. e \in Registry!Entries
    BY <1>3 DEF Registry!Entries
  <2>2. descs' = [descs EXCEPT ![d] = e]
    BY <1>1
  <2>3. e.active = Cardinality(Registry!InCall(d)) + 1 /\ e.cap = n /\ e.grp = descs[d].grp
    BY <1>2, <1>3 DEF Registry!Entries
  <2> HIDE DEF e
  <2> QED BY <1>0, <1>2, <2>1, <2>2, <2>3, UnsetIs DEF DescsOK
<1> HIDE DEF e
<1>5. op'[t] = c /\ \A u \in Registry!Tasks : u # t => op'[u] = op[u]
  BY <1>0, <1>1 DEF OpsOK, Registry!Goes, Registry!Tasks
<1>6. t \notin Registry!InCall(d) /\ Registry!InCall(d)' = Registry!InCall(d) \cup {t}
  BY <1>1, <1>5 DEF Registry!InCall, Registry!Tasks
<1>7. \A x : x # d => Registry!InCall(x)' = Registry!InCall(x)
  <2> SUFFICES ASSUME NEW x, x # d PROVE Registry!InCall(x)' = Registry!InCall(x)
    OBVIOUS
  <2>1. \A u \in Callers : (op'[u].at = "executing" /\ op'[u].slot = x) <=> (op[u].at = "executing" /\ op[u].slot = x)
    BY <1>1, <1>5 DEF Registry!Tasks
  <2> QED BY <2>1 DEF Registry!InCall
<1>8. Counted'
  <2> SUFFICES ASSUME NEW x \in 1..MaxDescs, descs'[x] # Unset
               PROVE  descs'[x].active = Cardinality(Registry!InCall(x)')
    BY DEF Counted
  <2>1. CASE x = d
    <3>1. Registry!InCall(x)' = Registry!InCall(d) \cup {t}
      BY <1>6, <2>1 DEF Registry!InCall
    <3>2. IsFiniteSet(Registry!InCall(d))
      BY InCallIs
    <3>3. Cardinality(Registry!InCall(d) \cup {t}) = Cardinality(Registry!InCall(d)) + 1
      BY <1>6, <3>2, FS_AddElement
    <3> QED BY <1>4, <2>1, <3>1, <3>3
  <2>2. CASE x # d
    BY <1>0, <1>4, <1>7, <2>2 DEF Counted
  <2> QED BY <2>1, <2>2
<1>9. Held'
  <2> SUFFICES ASSUME NEW u \in Callers, op'[u].at = "executing"
               PROVE  descs'[op'[u].slot] # Unset /\ descs'[op'[u].slot].cap = op'[u].cap /\ groups'[descs'[op'[u].slot].grp] # Unset
    BY DEF Held
  <2>1. CASE u = t
    BY <1>0, <1>1, <1>2, <1>4, <1>5, <2>1 DEF SlotsOwned
  <2>2. CASE u # t
    <3>1. op'[u] = op[u]
      BY <1>5, <2>2 DEF Registry!Tasks
    <3>2. op[u].slot \in 1..MaxDescs
      BY <1>0, <2>1, <3>1 DEF OpsOK, CallSteps, Registry!Idle
    <3>3. /\ descs[op[u].slot] # Unset /\ descs[op[u].slot].cap = op[u].cap /\ groups[descs[op[u].slot].grp] # Unset
      BY <1>0, <2>1, <3>1 DEF Held
    <3> QED BY <1>1, <1>2, <1>4, <3>1, <3>2, <3>3
  <2> QED BY <2>1, <2>2
<1>10. Leaving'
  <2> SUFFICES ASSUME NEW u \in Admins
               PROVE  /\ op'[u].at = "drain" => groups'[op'[u].slot] # Unset
                      /\ op'[u].at = "free" =>
                           /\ groups'[op'[u].slot] # Unset /\ groups'[op'[u].slot].state = "removing"
                           /\ \A x \in Registry!DescsAt(groups'[op'[u].slot]) : descs'[x].active = 0
    BY DEF Leaving, Registry!DescsAt
  <2>1. op'[u] = op[u]
    BY <1>5, UnsetIs DEF Registry!Tasks
  <2>2. ASSUME op[u].at = "free", NEW x \in Registry!DescsAt(groups[op[u].slot]) PROVE descs'[x].active = 0
    <3>1. op[u].slot \in 1..MaxGroups
      BY <1>0, <2>2, CapConstants DEF OpsOK, AdminStep, AdminSteps
    <3>2. groups[op[u].slot] # Unset /\ groups[op[u].slot].state = "removing" /\ descs[x].active = 0
      BY <1>0, <2>2 DEF Leaving
    <3>3. x \in 1..MaxDescs /\ descs[x].grp = op[u].slot
      BY <1>0, <2>2, <3>1, <3>2 DEF SlotsOwned
    <3>4. x # d
      BY <1>1, <3>2, <3>3 DEF Registry!Ready
    <3> QED BY <1>4, <3>2, <3>3, <3>4
  <2> QED BY <1>0, <1>1, <2>1, <2>2 DEF Leaving
<1> QED BY <1>8, <1>9, <1>10 DEF CallsInv

LEMMA CallEndsHolds ==
  ASSUME TablesAssumption, RegistryInv, RegistryInv', CallsInv, NEW t \in Callers, Registry!CallEnds(t)
  PROVE  CallsInv'
<1>d. PICK d : d = op[t].slot
  OBVIOUS
<1> DEFINE e == [descs[d] EXCEPT !.active = @ - 1]
<1>0. OpsOK /\ DescsOK /\ SlotsOwned /\ Leaving /\ Held /\ Counted /\ SlotsOwned'
  BY DEF RegistryInv, CallsInv
<1>1. op[t].at = "executing" /\ Registry!Goes(t, Registry!Idle) /\ groups' = groups
  BY DEF Registry!CallEnds
<1>2. d \in 1..MaxDescs /\ descs[d] # Unset /\ t \in Registry!InCall(d)
  BY <1>0, <1>1, <1>d DEF OpsOK, CallSteps, Registry!Idle, Held, Registry!InCall
<1>3. descs[d] \in Registry!Entries /\ descs[d].active = Cardinality(Registry!InCall(d))
  BY <1>0, <1>2 DEF DescsOK, Counted
<1>4. descs[d].active \in Nat /\ descs[d].active > 0
  <2>1. Cardinality(Registry!InCall(d)) \in Nat /\ Cardinality(Registry!InCall(d)) # 0
    BY <1>2, InCallIs
  <2> QED BY <1>3, <2>1
<1>5. descs' = [descs EXCEPT ![d].active = @ - 1]
  BY <1>2, <1>4, <1>d DEF Registry!CallEnds
<1>6. /\ e.active = Cardinality(Registry!InCall(d)) - 1 /\ e.cap = descs[d].cap /\ e.grp = descs[d].grp /\ e # Unset
      /\ descs'[d] = e /\ \A x \in 1..MaxDescs : x # d => descs'[x] = descs[x]
  <2>1. e \in Registry!Entries
    BY <1>3, <1>4 DEF Registry!Entries
  <2>2. descs' = [descs EXCEPT ![d] = e]
    BY <1>5
  <2>3. e.active = Cardinality(Registry!InCall(d)) - 1 /\ e.cap = descs[d].cap /\ e.grp = descs[d].grp
    BY <1>3 DEF Registry!Entries
  <2> HIDE DEF e
  <2> QED BY <1>0, <1>2, <2>1, <2>2, <2>3, UnsetIs DEF DescsOK
<1> HIDE DEF e
<1>7. op'[t] = Registry!Idle /\ \A u \in Registry!Tasks : u # t => op'[u] = op[u]
  BY <1>0, <1>1 DEF OpsOK, Registry!Goes, Registry!Tasks
<1>8. Registry!InCall(d)' = Registry!InCall(d) \ {t}
  BY <1>7 DEF Registry!InCall, Registry!Tasks, Registry!Idle
<1>9. \A x : x # d => Registry!InCall(x)' = Registry!InCall(x)
  <2> SUFFICES ASSUME NEW x, x # d PROVE Registry!InCall(x)' = Registry!InCall(x)
    OBVIOUS
  <2>1. \A u \in Callers : (op'[u].at = "executing" /\ op'[u].slot = x) <=> (op[u].at = "executing" /\ op[u].slot = x)
    BY <1>7, <1>d DEF Registry!Tasks, Registry!Idle
  <2> QED BY <2>1 DEF Registry!InCall
<1>10. Counted'
  <2> SUFFICES ASSUME NEW x \in 1..MaxDescs, descs'[x] # Unset
               PROVE  descs'[x].active = Cardinality(Registry!InCall(x)')
    BY DEF Counted
  <2>1. CASE x = d
    <3>1. Registry!InCall(x)' = Registry!InCall(d) \ {t}
      BY <1>8, <2>1 DEF Registry!InCall
    <3>2. IsFiniteSet(Registry!InCall(d))
      BY InCallIs
    <3>3. Cardinality(Registry!InCall(d) \ {t}) = Cardinality(Registry!InCall(d)) - 1
      BY <1>2, <3>2, FS_RemoveElement
    <3> QED BY <1>6, <2>1, <3>1, <3>3
  <2>2. CASE x # d
    BY <1>0, <1>6, <1>9, <2>2 DEF Counted
  <2> QED BY <2>1, <2>2
<1>11. Held'
  <2> SUFFICES ASSUME NEW u \in Callers, op'[u].at = "executing"
               PROVE  descs'[op'[u].slot] # Unset /\ descs'[op'[u].slot].cap = op'[u].cap /\ groups'[descs'[op'[u].slot].grp] # Unset
    BY DEF Held
  <2>1. u # t /\ op'[u] = op[u]
    BY <1>7, <1>d DEF Registry!Tasks, Registry!Idle
  <2>2. op[u].slot \in 1..MaxDescs
    BY <1>0, <2>1 DEF OpsOK, CallSteps, Registry!Idle
  <2>3. /\ descs[op[u].slot] # Unset /\ descs[op[u].slot].cap = op[u].cap /\ groups[descs[op[u].slot].grp] # Unset
    BY <1>0, <2>1 DEF Held
  <2> QED BY <1>1, <1>2, <1>6, <2>1, <2>2, <2>3
<1>12. Leaving'
  <2> SUFFICES ASSUME NEW u \in Admins
               PROVE  /\ op'[u].at = "drain" => groups'[op'[u].slot] # Unset
                      /\ op'[u].at = "free" =>
                           /\ groups'[op'[u].slot] # Unset /\ groups'[op'[u].slot].state = "removing"
                           /\ \A x \in Registry!DescsAt(groups'[op'[u].slot]) : descs'[x].active = 0
    BY DEF Leaving, Registry!DescsAt
  <2>1. op'[u] = op[u]
    BY <1>7, UnsetIs DEF Registry!Tasks
  <2>2. ASSUME op[u].at = "free", NEW x \in Registry!DescsAt(groups[op[u].slot]) PROVE descs'[x].active = 0
    <3>1. op[u].slot \in 1..MaxGroups
      BY <1>0, <2>2, CapConstants DEF OpsOK, AdminStep, AdminSteps
    <3>2. groups[op[u].slot] # Unset /\ descs[x].active = 0
      BY <1>0, <2>2 DEF Leaving
    <3>3. x \in 1..MaxDescs
      BY <1>0, <2>2, <3>1, <3>2 DEF SlotsOwned
    <3>4. x # d
      BY <1>4, <3>2
    <3> QED BY <1>6, <3>2, <3>3, <3>4
  <2> QED BY <1>0, <1>1, <2>1, <2>2 DEF Leaving
<1> QED BY <1>10, <1>11, <1>12 DEF CallsInv

LEMMA CallsStart ==
  ASSUME TablesAssumption, Registry!Init
  PROVE  CallsInv
BY UnsetIs DEF Registry!Init, CallsInv, Leaving, Held, Counted, Registry!Idle, Registry!Tasks

LEMMA CallsRest ==
  ASSUME UNCHANGED capvars
  PROVE  (CallsInv' <=> CallsInv)
BY DEF capvars, CallsInv, Leaving, Held, Counted, Registry!InCall, Registry!DescsAt

LEMMA CallsStep ==
  ASSUME TablesAssumption, OneAdmin, RegistryInv, CallsInv, Registry!Next
  PROVE  CallsInv'
<1>1. RegistryInv'
  BY RegistryStep
<1> QED BY <1>1, AdminHolds, RegisterHolds, FreeHolds, CallBeginsHolds, CallEndsHolds DEF Registry!Next, AdminMoves

(* Whatever is registered and removed, in whatever order and by however    *)
(* many tasks, a capability is found by its name (claw_cap.c, the hash     *)
(* table with removal by shifting back).                                   *)
THEOREM CapabilitiesAreFound == TablesSpec => []AllFound
<1>1. TablesInit => RegistryInv
  BY TablesAssumption, RegistryStarts DEF TablesInit
<1>2. RegistryInv /\ [TablesNext]_allvars => RegistryInv'
  BY TablesAssumption, RegistryStep, RegistryRests DEF TablesNext, ChangesRules, ChangesCaps, ChangesJobs, allvars
<1>3. RegistryInv => AllFound
  BY TablesAssumption, FoundNow DEF RegistryInv
<1> QED BY <1>1, <1>2, <1>3, PTL DEF TablesSpec

(* While a capability executes, its slot is neither freed nor given to     *)
(* another, when one task administers the registry.                        *)
THEOREM CallsHoldTheirGroup == OneAdmin => (TablesSpec => []CallsHoldGroup)
<1> SUFFICES ASSUME OneAdmin PROVE TablesSpec => []CallsHoldGroup
  OBVIOUS
<1> DEFINE Inv == RegistryInv /\ CallsInv
<1>1. TablesInit => Inv
  BY TablesAssumption, RegistryStarts, CallsStart DEF TablesInit
<1>2. Inv /\ [TablesNext]_allvars => Inv'
  BY TablesAssumption, RegistryStep, RegistryRests, CallsStep, CallsRest
     DEF TablesNext, ChangesRules, ChangesCaps, ChangesJobs, allvars
<1>3. Inv => CallsHoldGroup
  BY HeldIs DEF CallsInv
<1> QED BY <1>1, <1>2, <1>3, PTL DEF TablesSpec

-----------------------------------------------------------------------------
(***************************************************************************)
(* Lua jobs.  A run that can still use an object or sweep them is none of  *)
(* "none" and "gone"; what counts calls and places counts runs.            *)
(***************************************************************************)
RunSteps == {"none", "created", "top", "script", "inside", "closing", "give", "release", "sample", "sweep", "gone"}
Objects  == [name : Names, serial : Nat, waiters : Nat, owner : Lua!Runs \cup {NoRun}, scoped : BOOLEAN]
LuaSlots    == [id : Nat, status : {"free", "queued", "running", "ended"}, stop : BOOLEAN, named : BOOLEAN]
Contexts == [caller : {"idle", "waiting", "late", "gone"}, alive : BOOLEAN, abandoned : BOOLEAN, given : BOOLEAN, read : BOOLEAN]

InSet(k)  == {r \in Lua!Runs : run[r].at = "inside" /\ run[r].obj = k}
OpenSteps == {"top", "script", "inside", "closing", "give", "release"}
OpenSyncs == {r \in Syncs : run[r].at \in OpenSteps}

LuaTypeOK ==
  /\ slots \in [1..SlotCount -> LuaSlots] /\ nextId \in Nat \ {0} /\ running \in Nat /\ made \in Nat
  /\ run \in [Lua!Runs -> [at : RunSteps, obj : Nat]]
  /\ exec \in [Syncs -> Contexts]
  /\ objs \subseteq Objects

Busy(s) == slots[s].id # 0 /\ slots[s].status # "ended"
JobsOK ==
  /\ \A j \in Lua!Jobs : j >= nextId => run[j].at = "none"
  /\ \A s \in 1..SlotCount : Busy(s) => /\ slots[s].id \in Lua!Jobs
                                        /\ run[slots[s].id].at \in {"created", "script", "inside"}

PlacesOK == running <= Cardinality(OpenSyncs)

ExecOK ==
  \A r \in Syncs :
    /\ exec[r].read => exec[r].abandoned
    /\ exec[r].abandoned => exec[r].caller = "gone"
    /\ exec[r].given => run[r].at \in {"release", "sample", "sweep", "gone"}
    /\ run[r].at = "none" => exec[r].caller = "idle"
    /\ run[r].at \in {"top", "script", "inside", "closing", "give"} \/ exec[r].caller \in {"waiting", "late"} => exec[r].alive

ObjsOK ==
  /\ \A o \in objs : o.serial <= made /\ o.waiters = Cardinality(InSet(o.serial))
  /\ \A o, p \in objs : o.serial = p.serial => o = p
  /\ \A r \in Lua!Runs : run[r].at = "inside" => \E o \in objs : o.serial = run[r].obj

LuaInv == LuaTypeOK /\ JobsOK /\ PlacesOK /\ ExecOK /\ ObjsOK /\ NothingLeftOver

LEMMA SameFinite == \A S : Lua!IsFiniteSet(S) <=> IsFiniteSet(S)
BY DEF Lua!IsFiniteSet, IsFiniteSet

LEMMA LuaConstants ==
  ASSUME TablesAssumption
  PROVE  /\ MaxJobs \in Nat /\ IsFiniteSet(Syncs) /\ Syncs \cap Nat = {} /\ SlotCount \in Nat
         /\ IsFiniteSet(Lua!Runs) /\ Lua!Jobs \subseteq Nat \ {0} /\ Lua!Jobs \subseteq Lua!Runs /\ Syncs \subseteq Lua!Runs
         /\ Lua!Runs = Lua!Jobs \cup Syncs /\ Lua!Jobs \cap Syncs = {}
<1>1. MaxJobs \in Nat /\ IsFiniteSet(Syncs) /\ Syncs \cap Nat = {} /\ SlotCount \in Nat
  BY SameFinite DEF TablesAssumption, Lua!LuaAssumption
<1>2. IsFiniteSet(1..MaxJobs)
  BY <1>1, FS_Interval
<1>3. IsFiniteSet((1..MaxJobs) \cup Syncs)
  BY <1>1, <1>2, FS_Union
<1> QED BY <1>1, <1>3 DEF Lua!Runs, Lua!Jobs

LEMMA LuaInit == TablesAssumption /\ Lua!Init => LuaInv
<1> SUFFICES ASSUME TablesAssumption, Lua!Init PROVE LuaInv
  OBVIOUS
<1>0. Lua!Jobs \subseteq Nat /\ Syncs \subseteq Lua!Runs
  BY LuaConstants
<1>1. /\ \A r \in Lua!Runs : run[r] = [at |-> "none", obj |-> 0]
      /\ run \in [Lua!Runs -> [at : RunSteps, obj : Nat]]
  BY DEF Lua!Init, RunSteps
<1>2. /\ slots = [s \in 1..SlotCount |-> Lua!FreeSlot]
      /\ exec \in [Syncs -> Contexts]
      /\ \A r \in Syncs : exec[r].caller = "idle" /\ ~exec[r].abandoned /\ ~exec[r].given /\ ~exec[r].read
  BY DEF Lua!Init, Contexts
<1>3. Lua!FreeSlot \in LuaSlots /\ Lua!FreeSlot.id = 0
  BY DEF Lua!FreeSlot, LuaSlots
<1>4. LuaTypeOK
  BY <1>1, <1>2, <1>3 DEF Lua!Init, LuaTypeOK
<1>5. JobsOK /\ ExecOK
  <2>1. \A j \in Lua!Jobs : run[j].at = "none"
    BY <1>1, LuaConstants
  <2>2. \A s \in 1..SlotCount : ~Busy(s)
    BY <1>2, <1>3 DEF Busy
  <2>3. \A r \in Syncs : run[r].at = "none"
    BY <1>0, <1>1
  <2> QED BY <1>2, <2>1, <2>2, <2>3 DEF JobsOK, ExecOK
<1>6. PlacesOK
  <2>1. OpenSyncs = {}
    BY <1>0, <1>1 DEF OpenSyncs, OpenSteps
  <2> QED BY <2>1, FS_EmptySet DEF PlacesOK, Lua!Init
<1>7. ObjsOK /\ NothingLeftOver
  BY <1>1 DEF ObjsOK, NothingLeftOver, Lua!NothingLeftOver, Lua!Init
<1> QED BY <1>4, <1>5, <1>6, <1>7 DEF LuaInv

(* The counts are of finite sets.                                          *)
LEMMA Countable ==
  ASSUME TablesAssumption
  PROVE  /\ \A k : IsFiniteSet(InSet(k)) /\ Cardinality(InSet(k)) \in Nat
         /\ IsFiniteSet(OpenSyncs) /\ Cardinality(OpenSyncs) \in Nat
<1>1. \A k : InSet(k) \in SUBSET Lua!Runs
  BY DEF InSet
<1>2. \A k : IsFiniteSet(InSet(k))
  BY <1>1, LuaConstants, FS_Subset
<1>3. OpenSyncs \in SUBSET Syncs
  BY DEF OpenSyncs
<1>4. IsFiniteSet(OpenSyncs)
  BY <1>3, LuaConstants, FS_Subset
<1> QED BY <1>2, <1>4, FS_CardinalityType

(* A run moves from one step outside every object to another, and may take *)
(* objects away in which no call is.                                       *)
LEMMA MovesOutside ==
  ASSUME TablesAssumption, LuaInv, NEW r \in Lua!Runs, NEW a \in RunSteps \ {"inside"},
         run[r].at # "inside", run' = [run EXCEPT ![r].at = a],
         objs' \subseteq objs, \A o \in objs \ objs' : o.waiters = 0, made' = made
  PROVE  /\ run' \in [Lua!Runs -> [at : RunSteps, obj : Nat]]
         /\ run'[r].at = a /\ \A q \in Lua!Runs \ {r} : run'[q] = run[q]
         /\ ObjsOK'
<1>1. run \in [Lua!Runs -> [at : RunSteps, obj : Nat]]
  BY DEF LuaInv, LuaTypeOK
<1>2. run' \in [Lua!Runs -> [at : RunSteps, obj : Nat]] /\ run'[r].at = a /\ \A q \in Lua!Runs \ {r} : run'[q] = run[q]
  BY <1>1
<1>3. \A k : InSet(k)' = InSet(k)
  BY <1>2 DEF InSet
<1>4. ASSUME NEW q \in Lua!Runs, run'[q].at = "inside" PROVE \E o \in objs' : o.serial = run'[q].obj
  <2>1. run'[q] = run[q] /\ run[q].at = "inside"
    BY <1>2, <1>4
  <2>2. PICK o \in objs : o.serial = run[q].obj
    BY <2>1 DEF LuaInv, ObjsOK
  <2>3. q \in InSet(o.serial)
    BY <2>1, <2>2 DEF InSet
  <2>4. Cardinality(InSet(o.serial)) # 0
    BY <2>3, Countable, FS_EmptySet
  <2>5. o \in objs'
    BY <2>4 DEF LuaInv, ObjsOK
  <2> QED BY <2>1, <2>2, <2>5
<1>5. ASSUME NEW o \in objs' PROVE o.serial <= made' /\ o.waiters = Cardinality(InSet(o.serial)')
  BY <1>3, <1>5 DEF LuaInv, ObjsOK
<1>6. ObjsOK'
  BY <1>4, <1>5 DEF LuaInv, ObjsOK
<1> QED BY <1>2, <1>6

(* The places that are open before and after a step of one synchronous run.*)
LEMMA OpenMoves ==
  ASSUME TablesAssumption, NEW r \in Syncs, \A q \in Syncs \ {r} : run'[q].at = run[q].at
  PROVE  Cardinality(OpenSyncs)' = Cardinality(OpenSyncs)
            + (IF run'[r].at \in OpenSteps THEN 1 ELSE 0) - (IF run[r].at \in OpenSteps THEN 1 ELSE 0)
<1>1. IsFiniteSet(OpenSyncs) /\ Cardinality(OpenSyncs) \in Nat
  BY Countable
<1> DEFINE x == IF run'[r].at \in OpenSteps THEN OpenSyncs \cup {r} ELSE OpenSyncs \ {r}
<1>2. OpenSyncs' = x
  BY DEF OpenSyncs
<1>3. r \in OpenSyncs <=> run[r].at \in OpenSteps
  BY DEF OpenSyncs
<1>4. Cardinality(x) = Cardinality(OpenSyncs)
            + (IF run'[r].at \in OpenSteps THEN 1 ELSE 0) - (IF run[r].at \in OpenSteps THEN 1 ELSE 0)
  <2>1. CASE run'[r].at \in OpenSteps
    <3>1. Cardinality(OpenSyncs \cup {r}) = IF r \in OpenSyncs THEN Cardinality(OpenSyncs) ELSE Cardinality(OpenSyncs) + 1
      BY <1>1, FS_AddElement
    <3> QED BY <1>1, <1>3, <2>1, <3>1
  <2>2. CASE run'[r].at \notin OpenSteps
    <3>1. Cardinality(OpenSyncs \ {r}) = IF r \in OpenSyncs THEN Cardinality(OpenSyncs) - 1 ELSE Cardinality(OpenSyncs)
      BY <1>1, FS_RemoveElement
    <3> QED BY <1>1, <1>3, <2>2, <3>1
  <2> QED BY <2>1, <2>2
<1> QED BY <1>2, <1>4

LEMMA OpenStay ==
  ASSUME \A q \in Syncs : run'[q].at = run[q].at
  PROVE  OpenSyncs' = OpenSyncs
BY DEF OpenSyncs

(***************************************************************************)
(* The job table.                                                          *)
(***************************************************************************)

(* A claim gives a slot to a run that was none, or frees one.              *)
LEMMA ClaimStep ==
  ASSUME TablesAssumption, LuaInv, NEW t \in Launchers, NEW named \in BOOLEAN, Lua!Claim(t, named),
         UNCHANGED <<running, exec, objs, made>>
  PROVE  LuaInv'
<1> DEFINE s == Lua!Reusable
           e == [id |-> nextId, status |-> "queued", stop |-> FALSE, named |-> named]
<1>t. /\ slots \in [1..SlotCount -> LuaSlots] /\ nextId \in Nat \ {0}
      /\ run \in [Lua!Runs -> [at : RunSteps, obj : Nat]]
  BY DEF LuaInv, LuaTypeOK
<1>u. Lua!Jobs \subseteq Nat \ {0} /\ Lua!Jobs \subseteq Lua!Runs /\ Lua!Jobs \cap Syncs = {} /\ Syncs \subseteq Lua!Runs
  BY LuaConstants
<1>1. e \in LuaSlots /\ Lua!FreeSlot \in LuaSlots /\ Lua!FreeSlot.id = 0 /\ e.id = nextId
  BY <1>t DEF LuaSlots, Lua!FreeSlot
<1> HIDE DEF s, e
<1>2. CASE UNCHANGED <<slots, nextId, run>>
  BY <1>2 DEF LuaInv, LuaTypeOK, JobsOK, Busy, PlacesOK, OpenSyncs, ExecOK, ObjsOK, InSet, NothingLeftOver, Lua!NothingLeftOver
<1>3. CASE nextId \in Lua!Jobs /\ nextId' = nextId + 1 /\ slots' = [slots EXCEPT ![s] = e]
           /\ run' = [run EXCEPT ![nextId].at = "created"]
  <2>1. run[nextId].at = "none" /\ nextId \in Lua!Runs
    BY <1>3, <1>t, <1>u DEF LuaInv, JobsOK
  <2>2. /\ run' \in [Lua!Runs -> [at : RunSteps, obj : Nat]]
        /\ run'[nextId].at = "created" /\ \A q \in Lua!Runs \ {nextId} : run'[q] = run[q]
        /\ ObjsOK'
    BY <1>3, <2>1, MovesOutside DEF RunSteps
  <2>3. LuaTypeOK'
    <3>1. slots' \in [1..SlotCount -> LuaSlots]
      BY <1>1, <1>3, <1>t
    <3>2. nextId' \in Nat \ {0}
      BY <1>3, <1>t
    <3> QED BY <1>3, <1>t, <3>1, <3>2, <2>2 DEF LuaInv, LuaTypeOK
  <2>4. JobsOK'
    <3>1. ASSUME NEW j \in Lua!Jobs, j >= nextId' PROVE run'[j].at = "none"
      BY <1>3, <1>t, <1>u, <2>2, <3>1 DEF LuaInv, JobsOK
    <3>2. ASSUME NEW k \in 1..SlotCount, Busy(k)'
          PROVE  slots'[k].id \in Lua!Jobs /\ run'[slots'[k].id].at \in {"created", "script", "inside"}
      <4>1. CASE k = s
        BY <1>1, <1>3, <1>t, <2>2, <4>1
      <4>2. CASE k # s
        BY <1>3, <1>t, <1>u, <2>2, <3>2, <4>2 DEF LuaInv, JobsOK, Busy
      <4> QED BY <4>1, <4>2
    <3> QED BY <3>1, <3>2 DEF JobsOK
  <2>5. \A q \in Syncs : run'[q] = run[q]
    BY <1>3, <1>u, <2>2
  <2>6. PlacesOK' /\ ExecOK'
    BY <2>5, OpenStay DEF LuaInv, PlacesOK, ExecOK
  <2>7. NothingLeftOver'
    BY <2>1, <2>2 DEF NothingLeftOver, Lua!NothingLeftOver
  <2> QED BY <2>2, <2>3, <2>4, <2>6, <2>7 DEF LuaInv
<1>4. CASE nextId \in Lua!Jobs /\ nextId' = nextId + 1 /\ slots' = [slots EXCEPT ![s] = Lua!FreeSlot] /\ UNCHANGED run
  <2>1. LuaTypeOK'
    <3>1. slots' \in [1..SlotCount -> LuaSlots]
      BY <1>1, <1>4, <1>t
    <3>2. nextId' \in Nat \ {0}
      BY <1>4, <1>t
    <3> QED BY <1>4, <1>t, <3>1, <3>2 DEF LuaInv, LuaTypeOK
  <2>2. JobsOK'
    <3>1. \A j \in Lua!Jobs : j >= nextId' => j >= nextId
      BY <1>4, <1>t, <1>u
    <3>2. \A k \in 1..SlotCount : Busy(k)' => Busy(k) /\ slots'[k] = slots[k]
      BY <1>1, <1>4, <1>t DEF Busy
    <3> QED BY <1>4, <3>1, <3>2 DEF LuaInv, JobsOK
  <2> QED BY <1>4, <2>1, <2>2 DEF LuaInv, PlacesOK, OpenSyncs, ExecOK, ObjsOK, InSet, NothingLeftOver, Lua!NothingLeftOver
<1> QED
  <2>1. \/ UNCHANGED <<slots, nextId, run>>
        \/ /\ nextId <= MaxJobs /\ nextId' = nextId + 1
           /\ \/ slots' = [slots EXCEPT ![s] = e] /\ run' = [run EXCEPT ![nextId].at = "created"]
              \/ slots' = [slots EXCEPT ![s] = Lua!FreeSlot] /\ UNCHANGED run
    BY DEF Lua!Claim, Lua!Goes, s, e
  <2>2. nextId <= MaxJobs => nextId \in Lua!Jobs
    BY <1>t, LuaConstants DEF Lua!Jobs
  <2> QED BY <1>2, <1>3, <1>4, <2>1, <2>2

(* Entries that only become less busy.                                     *)
LEMMA SlotsSettle ==
  ASSUME TablesAssumption, LuaInv, slots' \in [1..SlotCount -> LuaSlots],
         \A s \in 1..SlotCount : slots'[s].id = slots[s].id /\ (slots'[s].status # "ended" => slots[s].status # "ended"),
         UNCHANGED <<nextId, running, run, exec, objs, made>>
  PROVE  LuaInv'
<1>1. LuaTypeOK'
  BY DEF LuaInv, LuaTypeOK
<1>2. JobsOK'
  BY DEF LuaInv, JobsOK, Busy
<1> QED BY <1>1, <1>2 DEF LuaInv, PlacesOK, OpenSyncs, ExecOK, ObjsOK, InSet, NothingLeftOver, Lua!NothingLeftOver

LEMMA LaunchStep ==
  ASSUME TablesAssumption, LuaInv, NEW t \in Launchers, NEW named \in BOOLEAN, NEW replace \in BOOLEAN,
         Lua!Launch(t, named, replace) \/ Lua!TakesOver(t)
  PROVE  LuaInv'
<1>t. slots \in [1..SlotCount -> LuaSlots]
  BY DEF LuaInv, LuaTypeOK
<1>1. CASE Lua!Claim(t, named) /\ UNCHANGED <<running, exec, objs, made>>
  BY <1>1, ClaimStep
<1>2. CASE Lua!TakesOver(t)
  BY <1>2, ClaimStep DEF Lua!TakesOver
<1>3. CASE /\ \E s : slots' = [slots EXCEPT ![s].stop = TRUE]
           /\ UNCHANGED <<nextId, running, run, exec, objs, made>>
  <2>1. PICK s : slots' = [slots EXCEPT ![s].stop = TRUE]
    BY <1>3
  <2>2. \A k \in 1..SlotCount : [slots[k] EXCEPT !.stop = TRUE] \in LuaSlots
    BY <1>t DEF LuaSlots
  <2>3. /\ slots' \in [1..SlotCount -> LuaSlots]
        /\ \A k \in 1..SlotCount : slots'[k].id = slots[k].id /\ slots'[k].status = slots[k].status
    BY <1>t, <2>1, <2>2 DEF LuaSlots
  <2> QED BY <1>3, <2>3, SlotsSettle
<1> QED BY <1>1, <1>2, <1>3 DEF Lua!Launch

LEMMA StopStep ==
  ASSUME TablesAssumption, LuaInv, NEW s \in DOMAIN slots, Lua!StopJob(s)
  PROVE  LuaInv'
<1>t. slots \in [1..SlotCount -> LuaSlots]
  BY DEF LuaInv, LuaTypeOK
<1>1. \A k \in 1..SlotCount : [slots[k] EXCEPT !.stop = TRUE] \in LuaSlots
  BY <1>t DEF LuaSlots
<1>2. /\ slots' \in [1..SlotCount -> LuaSlots]
      /\ \A k \in 1..SlotCount : slots'[k].id = slots[k].id /\ slots'[k].status = slots[k].status
  BY <1>t, <1>1 DEF LuaSlots, Lua!StopJob
<1> QED BY <1>2, SlotsSettle DEF Lua!StopJob

(***************************************************************************)
(* The tasks.                                                              *)
(***************************************************************************)
LEMMA JobStep ==
  ASSUME TablesAssumption, LuaInv, NEW j \in Lua!Jobs, Lua!JobStarts(j) \/ Lua!JobEnds(j)
  PROVE  LuaInv'
<1> DEFINE a == IF run[j].at = "created" THEN "script" ELSE "sample"
<1>t. /\ slots \in [1..SlotCount -> LuaSlots] /\ run \in [Lua!Runs -> [at : RunSteps, obj : Nat]]
  BY DEF LuaInv, LuaTypeOK
<1>u. Lua!Jobs \subseteq Nat \ {0} /\ Lua!Jobs \subseteq Lua!Runs /\ Lua!Jobs \cap Syncs = {} /\ Syncs \subseteq Lua!Runs
  BY LuaConstants
<1>1. /\ run[j].at \in {"created", "script"} /\ run' = [run EXCEPT ![j].at = a]
      /\ UNCHANGED <<nextId, running, exec, objs, made>>
  BY DEF Lua!JobStarts, Lua!JobEnds, Lua!Goes
<1>2. /\ run' \in [Lua!Runs -> [at : RunSteps, obj : Nat]]
      /\ run'[j].at = a /\ \A q \in Lua!Runs \ {j} : run'[q] = run[q]
      /\ ObjsOK'
  BY <1>1, <1>u, MovesOutside DEF RunSteps
<1>3. /\ slots' \in [1..SlotCount -> LuaSlots]
      /\ \A s \in 1..SlotCount : /\ slots'[s].id = slots[s].id
                                 /\ slots[s].id # j => slots'[s] = slots[s]
                                 /\ slots[s].id = j /\ a = "sample" => slots'[s].status = "ended"
                                 /\ slots[s].status = "ended" /\ a = "sample" => slots'[s].status = "ended"
  <2>1. \A s \in 1..SlotCount : Lua!AsRunning(slots[s]) \in LuaSlots /\ Lua!AsRunning(slots[s]).id = slots[s].id
    BY <1>t DEF Lua!AsRunning, LuaSlots
  <2>2. \A s \in 1..SlotCount : /\ Lua!AsEnded(slots[s]) \in LuaSlots /\ Lua!AsEnded(slots[s]).id = slots[s].id
                                /\ Lua!AsEnded(slots[s]).status = "ended"
    BY <1>t DEF Lua!AsEnded, Lua!FreeSlot, LuaSlots
  <2>3. \A s \in 1..SlotCount : s \in Lua!SlotOf(j) <=> slots[s].id = j
    BY <1>t DEF Lua!SlotOf
  <2>4. DOMAIN slots = 1..SlotCount
    BY <1>t
  <2>5. CASE Lua!JobStarts(j)
    <3>1. slots' = [s \in 1..SlotCount |-> IF s \in Lua!SlotOf(j) THEN Lua!AsRunning(slots[s]) ELSE slots[s]] /\ a = "script"
      BY <2>4, <2>5 DEF Lua!JobStarts, Lua!SetSlot
    <3> QED BY <1>t, <2>1, <2>3, <3>1
  <2>6. CASE Lua!JobEnds(j)
    <3>1. slots' = [s \in 1..SlotCount |-> IF s \in Lua!SlotOf(j) THEN Lua!AsEnded(slots[s]) ELSE slots[s]] /\ a = "sample"
      BY <2>4, <2>6 DEF Lua!JobEnds, Lua!SetSlot
    <3> QED BY <1>t, <2>2, <2>3, <3>1
  <2> QED BY <2>5, <2>6
<1>0. a \in {"script", "sample"}
  OBVIOUS
<1> HIDE DEF a
<1>4. LuaTypeOK'
  BY <1>1, <1>2, <1>3 DEF LuaInv, LuaTypeOK
<1>5. JobsOK'
  <2>1. ASSUME NEW i \in Lua!Jobs, i >= nextId' PROVE run'[i].at = "none"
    BY <1>1, <1>2, <1>u, <2>1 DEF LuaInv, JobsOK
  <2>2. ASSUME NEW k \in 1..SlotCount, Busy(k)'
        PROVE  slots'[k].id \in Lua!Jobs /\ run'[slots'[k].id].at \in {"created", "script", "inside"}
    <3>1. CASE slots[k].id = j
      <4>1. slots'[k].id = j /\ slots'[k].status # "ended"
        BY <1>3, <2>2, <3>1 DEF Busy
      <4>2. a = "script"
        BY <1>0, <1>3, <3>1, <4>1
      <4> QED BY <1>2, <4>1, <4>2
    <3>2. CASE slots[k].id # j
      <4>1. slots'[k] = slots[k]
        BY <1>3, <3>2
      <4>2. slots[k].id \in Lua!Jobs /\ run[slots[k].id].at \in {"created", "script", "inside"}
        BY <2>2, <4>1 DEF LuaInv, JobsOK, Busy
      <4> QED BY <1>2, <1>u, <3>2, <4>1, <4>2
    <3> QED BY <3>1, <3>2
  <2> QED BY <2>1, <2>2 DEF JobsOK
<1>6. \A q \in Syncs : run'[q] = run[q]
  BY <1>2, <1>u
<1>7. PlacesOK' /\ ExecOK'
  BY <1>1, <1>6, OpenStay DEF LuaInv, PlacesOK, ExecOK
<1>8. NothingLeftOver'
  BY <1>0, <1>2, <1>u DEF NothingLeftOver, Lua!NothingLeftOver
<1> QED BY <1>2, <1>4, <1>5, <1>7, <1>8 DEF LuaInv

(* A synchronous run, or the end of any run, at a step outside objects:    *)
(* the run moves, and takes or gives back at most the place it is open for.*)
StepsTo(r, a) == /\ run[r].at # "inside" /\ run' = [run EXCEPT ![r].at = a]
                 /\ objs' \subseteq objs /\ (\A o \in objs \ objs' : o.waiters = 0)
                 /\ UNCHANGED <<slots, nextId, made>>
Open(at) == IF at \in OpenSteps THEN 1 ELSE 0
PlaceKept(r, a) == running' \in Nat /\ (running' = 0 \/ running' - running <= Open(a) - Open(run[r].at))
ContextKept(r, a) ==
  /\ exec' \in [Syncs -> Contexts] /\ \A q \in Syncs \ {r} : exec'[q] = exec[q]
  /\ exec'[r].read => exec'[r].abandoned
  /\ exec'[r].abandoned => exec'[r].caller = "gone"
  /\ exec'[r].given => a \in {"release", "sample", "sweep", "gone"}
  /\ a \in {"top", "script", "inside", "closing", "give"} \/ exec'[r].caller \in {"waiting", "late"} => exec'[r].alive
Leaves(r, a) == a = "gone" => \/ \E q \in Lua!Runs \ {r} : run[q].at \notin {"none", "gone"}
                              \/ \A o \in objs' : ~o.scoped

LEMMA RunMoves ==
  ASSUME TablesAssumption, LuaInv, NEW r \in Lua!Runs, NEW a \in RunSteps \ {"inside", "none", "created"},
         StepsTo(r, a), Leaves(r, a),
         \/ r \in Syncs /\ PlaceKept(r, a) /\ ContextKept(r, a)
         \/ r \notin Syncs /\ run[r].at \in {"sample", "sweep"} /\ UNCHANGED <<running, exec>>
  PROVE  LuaInv'
<1>t. /\ run \in [Lua!Runs -> [at : RunSteps, obj : Nat]] /\ running \in Nat
  BY DEF LuaInv, LuaTypeOK
<1>u. /\ Lua!Jobs \subseteq Nat \ {0} /\ Lua!Jobs \subseteq Lua!Runs /\ Lua!Jobs \cap Syncs = {} /\ Syncs \subseteq Lua!Runs
      /\ Lua!Runs = Lua!Jobs \cup Syncs
  BY LuaConstants
<1>1. /\ run' \in [Lua!Runs -> [at : RunSteps, obj : Nat]]
      /\ run'[r].at = a /\ \A q \in Lua!Runs \ {r} : run'[q] = run[q]
      /\ ObjsOK'
  BY MovesOutside DEF StepsTo
<1>s. UNCHANGED <<slots, nextId, made>> /\ objs' \subseteq objs
  BY DEF StepsTo
<1>2. LuaTypeOK'
  BY <1>1, <1>s DEF LuaInv, LuaTypeOK, PlaceKept, ContextKept
<1>3. JobsOK'
  <2>1. ASSUME NEW j \in Lua!Jobs, j >= nextId' PROVE run'[j].at = "none"
    <3>1. run[j].at = "none"
      BY <1>s, <2>1 DEF LuaInv, JobsOK
    <3>2. j # r
      BY <1>u, <3>1 DEF StepsTo
    <3> QED BY <1>1, <1>u, <3>1, <3>2
  <2>2. ASSUME NEW k \in 1..SlotCount, Busy(k)'
        PROVE  slots'[k].id \in Lua!Jobs /\ run'[slots'[k].id].at \in {"created", "script", "inside"}
    <3>1. slots[k].id \in Lua!Jobs /\ run[slots[k].id].at \in {"created", "script", "inside"} /\ slots'[k] = slots[k]
      BY <1>s, <2>2 DEF LuaInv, JobsOK, Busy
    <3>2. slots[k].id # r
      BY <1>u, <3>1
    <3> QED BY <1>1, <1>u, <3>1, <3>2
  <2> QED BY <2>1, <2>2 DEF JobsOK
<1>4. PlacesOK'
  <2>1. CASE r \in Syncs
    <3>1. \A q \in Syncs \ {r} : run'[q].at = run[q].at
      BY <1>1, <1>u
    <3>2. Cardinality(OpenSyncs)' = Cardinality(OpenSyncs)
            + (IF run'[r].at \in OpenSteps THEN 1 ELSE 0) - (IF run[r].at \in OpenSteps THEN 1 ELSE 0)
      BY <2>1, <3>1, OpenMoves
    <3>3. Cardinality(OpenSyncs) \in Nat
      BY Countable
    <3> DEFINE c == Cardinality(OpenSyncs)
               x == Open(run'[r].at)
               y == Open(run[r].at)
               d == Cardinality(OpenSyncs)'
    <3>4. x \in Int /\ y \in Int /\ c \in Nat /\ running <= c /\ running \in Nat
      BY <1>t, <3>3 DEF LuaInv, PlacesOK, Open
    <3>5. running' \in Nat /\ (running' = 0 \/ running' - running <= x - y)
      BY <1>1, <2>1 DEF PlaceKept
    <3>6. d = c + x - y
      BY <3>2 DEF Open
    <3>7. d \in Nat
      <4>1. OpenSyncs' \in SUBSET Syncs
        BY DEF OpenSyncs
      <4>2. IsFiniteSet(OpenSyncs')
        BY <4>1, LuaConstants, FS_Subset
      <4> QED BY <4>2, FS_CardinalityType
    <3>8. \A m, n, k, l \in Nat, v, w \in Int : k <= m /\ n = m + v - w /\ (l = 0 \/ l - k <= v - w) => l <= n
      OBVIOUS
    <3> HIDE DEF c, d, x, y
    <3>9. running' <= d
      BY <3>4, <3>5, <3>6, <3>7, <3>8
    <3> QED BY <3>9 DEF PlacesOK, d
  <2>2. CASE r \notin Syncs
    <3>1. \A q \in Syncs : run'[q].at = run[q].at
      BY <1>1, <1>u, <2>2
    <3> QED BY <2>2, <3>1, OpenStay DEF LuaInv, PlacesOK
  <2> QED BY <2>1, <2>2
<1>5. ExecOK'
  <2>1. ASSUME NEW q \in Syncs, q # r
        PROVE  /\ exec'[q] = exec[q] /\ run'[q] = run[q]
    BY <1>1, <1>u, <2>1 DEF ContextKept
  <2> QED BY <1>1, <2>1 DEF LuaInv, ExecOK, ContextKept
<1>6. NothingLeftOver'
  <2> SUFFICES ASSUME \A q \in Lua!Runs : run'[q].at \in {"none", "gone"} PROVE \A o \in objs' : ~o.scoped
    BY <1>s DEF NothingLeftOver, Lua!NothingLeftOver
  <2>1. a = "gone"
    BY <1>1
  <2>2. \A q \in Lua!Runs \ {r} : run[q].at \in {"none", "gone"}
    BY <1>1
  <2> QED BY <2>1, <2>2 DEF Leaves
<1> QED BY <1>1, <1>2, <1>3, <1>4, <1>5, <1>6 DEF LuaInv

(* The steps of a synchronous run and of its caller.                       *)
LEMMA SyncStep ==
  ASSUME TablesAssumption, LuaInv, NEW r \in Syncs,
         Lua!SyncStarts(r) \/ Lua!TopEnds(r) \/ Lua!SyncEnds(r) \/ Lua!Hands(r)
  PROVE  LuaInv'
<1>t. /\ run \in [Lua!Runs -> [at : RunSteps, obj : Nat]] /\ running \in Nat /\ exec \in [Syncs -> Contexts]
  BY DEF LuaInv, LuaTypeOK
<1>u. r \in Lua!Runs
  BY LuaConstants
<1>e. /\ exec[r].read => exec[r].abandoned
      /\ exec[r].abandoned => exec[r].caller = "gone"
      /\ exec[r].given => run[r].at \in {"release", "sample", "sweep", "gone"}
      /\ run[r].at = "none" => exec[r].caller = "idle"
      /\ run[r].at \in {"top", "script", "inside", "closing", "give"} \/ exec[r].caller \in {"waiting", "late"} => exec[r].alive
  BY DEF LuaInv, ExecOK
<1>c. exec[r] \in Contexts
  BY <1>t
<1>1. CASE Lua!SyncStarts(r)
  <2> DEFINE e == [exec[r] EXCEPT !.caller = "waiting", !.alive = TRUE]
  <2>1. /\ run[r].at = "none" /\ running' \in {running, running + 1}
        /\ \/ run' = [run EXCEPT ![r].at = "top"] /\ exec' = [exec EXCEPT ![r] = e]
           \/ run' = [run EXCEPT ![r].at = "release"] /\ exec' = exec
        /\ UNCHANGED <<slots, nextId, objs, made>>
    BY <1>1 DEF Lua!SyncStarts, Lua!Goes
  <2>2. /\ e \in Contexts /\ e.caller = "waiting" /\ e.alive /\ e.given = exec[r].given
        /\ e.read = exec[r].read /\ e.abandoned = exec[r].abandoned
    BY <1>c DEF Contexts
  <2> HIDE DEF e
  <2>3. running' \in Nat /\ running' - running <= 1
    BY <1>t, <2>1
  <2>4. CASE run' = [run EXCEPT ![r].at = "top"] /\ exec' = [exec EXCEPT ![r] = e]
    <3>1. exec' \in [Syncs -> Contexts] /\ exec'[r] = e /\ \A q \in Syncs \ {r} : exec'[q] = exec[q]
      BY <1>t, <2>2, <2>4
    <3>2. "top" \in RunSteps \ {"inside", "none", "created"} /\ "top" \in OpenSteps /\ "none" \notin OpenSteps
      BY DEF RunSteps, OpenSteps
    <3>8. StepsTo(r, "top") /\ Leaves(r, "top")
      BY <1>e, <1>u, <2>1, <2>2, <2>3, <2>4, <3>1, <3>2 DEF StepsTo, Leaves
    <3>9. PlaceKept(r, "top")
      BY <1>e, <1>u, <2>1, <2>2, <2>3, <2>4, <3>1, <3>2 DEF PlaceKept, Open
    <3>10. ContextKept(r, "top")
      BY <1>e, <1>u, <2>1, <2>2, <2>3, <2>4, <3>1, <3>2 DEF ContextKept
    <3> QED BY <1>e, <1>u, <2>1, <2>2, <2>3, <2>4, <3>1, <3>2, <3>8, <3>9, <3>10, RunMoves
  <2>5. CASE run' = [run EXCEPT ![r].at = "release"] /\ exec' = exec
    <3>1. "release" \in RunSteps \ {"inside", "none", "created"} /\ "release" \in OpenSteps /\ "none" \notin OpenSteps
      BY DEF RunSteps, OpenSteps
    <3>8. StepsTo(r, "release") /\ Leaves(r, "release")
      BY <1>e, <1>t, <1>u, <2>1, <2>3, <2>5, <3>1 DEF StepsTo, Leaves
    <3>9. PlaceKept(r, "release")
      BY <1>e, <1>t, <1>u, <2>1, <2>3, <2>5, <3>1 DEF PlaceKept, Open
    <3>10. ContextKept(r, "release")
      BY <1>e, <1>t, <1>u, <2>1, <2>3, <2>5, <3>1 DEF ContextKept
    <3> QED BY <1>e, <1>t, <1>u, <2>1, <2>3, <2>5, <3>1, <3>8, <3>9, <3>10, RunMoves
  <2> QED BY <2>1, <2>4, <2>5
<1>2. CASE Lua!TopEnds(r) \/ Lua!SyncEnds(r)
  <2>1. PICK a \in {"script", "closing"} : run' = [run EXCEPT ![r].at = a]
    BY <1>2 DEF Lua!TopEnds, Lua!SyncEnds, Lua!Goes
  <2>2. /\ run[r].at \in {"top", "script"} /\ UNCHANGED <<slots, nextId, running, objs, made, exec>>
    BY <1>2 DEF Lua!TopEnds, Lua!SyncEnds, Lua!table
  <2>3. a \in RunSteps \ {"inside", "none", "created"} /\ a \in OpenSteps /\ run[r].at \in OpenSteps
    BY <2>2 DEF RunSteps, OpenSteps
  <2>8. StepsTo(r, a) /\ Leaves(r, a)
    BY <1>e, <1>t, <1>u, <2>1, <2>2, <2>3 DEF StepsTo, Leaves
  <2>9. PlaceKept(r, a)
    BY <1>e, <1>t, <1>u, <2>1, <2>2, <2>3 DEF PlaceKept, Open
  <2>10. ContextKept(r, a)
    BY <1>e, <1>t, <1>u, <2>1, <2>2, <2>3 DEF ContextKept
  <2> QED BY <1>e, <1>t, <1>u, <2>1, <2>2, <2>3, <2>8, <2>9, <2>10, RunMoves
<1>3. CASE Lua!ReadsAbandoned(r)
  <2> DEFINE e == [exec[r] EXCEPT !.read = @ \/ exec[r].abandoned]
  <2>1. /\ run[r].at = "closing" /\ run' = [run EXCEPT ![r].at = "give"] /\ exec' = [exec EXCEPT ![r] = e]
        /\ UNCHANGED <<slots, nextId, running, objs, made>>
    BY <1>3 DEF Lua!ReadsAbandoned, Lua!Goes, Lua!table
  <2>2. /\ e \in Contexts /\ e.caller = exec[r].caller /\ e.alive = exec[r].alive /\ e.given = exec[r].given
        /\ e.read <=> exec[r].read \/ exec[r].abandoned
        /\ e.abandoned = exec[r].abandoned
    BY <1>c DEF Contexts
  <2> HIDE DEF e
  <2>3. exec' \in [Syncs -> Contexts] /\ exec'[r] = e /\ \A q \in Syncs \ {r} : exec'[q] = exec[q]
    BY <1>t, <2>1, <2>2
  <2>4. "give" \in RunSteps \ {"inside", "none", "created"} /\ "give" \in OpenSteps /\ "closing" \in OpenSteps
    BY DEF RunSteps, OpenSteps
  <2>8. StepsTo(r, "give") /\ Leaves(r, "give")
    BY <1>e, <1>t, <1>u, <2>1, <2>2, <2>3, <2>4 DEF StepsTo, Leaves
  <2>9. PlaceKept(r, "give")
    BY <1>e, <1>t, <1>u, <2>1, <2>2, <2>3, <2>4 DEF PlaceKept, Open
  <2>10. ContextKept(r, "give")
    BY <1>e, <1>t, <1>u, <2>1, <2>2, <2>3, <2>4 DEF ContextKept
  <2> QED BY <1>e, <1>t, <1>u, <2>1, <2>2, <2>3, <2>4, <2>8, <2>9, <2>10, RunMoves
<1>4. CASE Lua!GivesDone(r)
  <2> DEFINE e == [exec[r] EXCEPT !.given = TRUE, !.alive = @ /\ ~exec[r].read]
  <2>1. /\ run[r].at = "give" /\ run' = [run EXCEPT ![r].at = "release"]
        /\ exec' = [exec EXCEPT ![r].given = TRUE, ![r].alive = @ /\ ~exec[r].read]
        /\ UNCHANGED <<slots, nextId, running, objs, made>>
    BY <1>4 DEF Lua!GivesDone, Lua!Goes, Lua!table
  <2>2. /\ e \in Contexts /\ e.caller = exec[r].caller /\ e.given
        /\ e.alive <=> exec[r].alive /\ ~exec[r].read
        /\ e.read = exec[r].read /\ e.abandoned = exec[r].abandoned
    BY <1>c DEF Contexts
  <2>5. exec' = [exec EXCEPT ![r] = e]
    BY <1>t, <2>1
  <2> HIDE DEF e
  <2>3. exec' \in [Syncs -> Contexts] /\ exec'[r] = e /\ \A q \in Syncs \ {r} : exec'[q] = exec[q]
    BY <1>t, <2>5, <2>2
  <2>4. "release" \in RunSteps \ {"inside", "none", "created"} /\ "release" \in OpenSteps /\ "give" \in OpenSteps
    BY DEF RunSteps, OpenSteps
  <2>8. StepsTo(r, "release") /\ Leaves(r, "release")
    BY <1>e, <1>t, <1>u, <2>1, <2>2, <2>3, <2>4 DEF StepsTo, Leaves
  <2>9. PlaceKept(r, "release")
    BY <1>e, <1>t, <1>u, <2>1, <2>2, <2>3, <2>4 DEF PlaceKept, Open
  <2>10. ContextKept(r, "release")
    BY <1>e, <1>t, <1>u, <2>1, <2>2, <2>3, <2>4 DEF ContextKept
  <2> QED BY <1>e, <1>t, <1>u, <2>1, <2>2, <2>3, <2>4, <2>8, <2>9, <2>10, RunMoves
<1>5. CASE Lua!Release(r)
  <2>1. /\ run[r].at = "release" /\ run' = [run EXCEPT ![r].at = "sample"]
        /\ running' = IF running > 0 THEN running - 1 ELSE 0
        /\ UNCHANGED <<slots, nextId, objs, made, exec>>
    BY <1>5 DEF Lua!Release, Lua!Goes
  <2>2. "sample" \in RunSteps \ {"inside", "none", "created"} /\ "sample" \notin OpenSteps /\ "release" \in OpenSteps
    BY DEF RunSteps, OpenSteps
  <2>8. StepsTo(r, "sample") /\ Leaves(r, "sample")
    BY <1>e, <1>t, <1>u, <2>1, <2>2 DEF StepsTo, Leaves
  <2>9. PlaceKept(r, "sample")
    BY <1>e, <1>t, <1>u, <2>1, <2>2 DEF PlaceKept, Open
  <2>10. ContextKept(r, "sample")
    BY <1>e, <1>t, <1>u, <2>1, <2>2 DEF ContextKept
  <2> QED BY <1>e, <1>t, <1>u, <2>1, <2>2, <2>8, <2>9, <2>10, RunMoves
<1> QED BY <1>1, <1>2, <1>3, <1>4, <1>5 DEF Lua!Hands

LEMMA CallerStep ==
  ASSUME TablesAssumption, LuaInv, NEW r \in Syncs,
         Lua!CallerTakes(r) \/ Lua!CallerLate(r) \/ Lua!CallerAbandons(r)
  PROVE  LuaInv'
<1> DEFINE e == IF Lua!CallerTakes(r) THEN [exec[r] EXCEPT !.caller = "gone", !.alive = FALSE]
                ELSE IF Lua!CallerLate(r) THEN [exec[r] EXCEPT !.caller = "late"]
                ELSE [exec[r] EXCEPT !.caller = "gone", !.abandoned = TRUE]
<1>t. exec \in [Syncs -> Contexts] /\ exec[r] \in Contexts
  BY DEF LuaInv, LuaTypeOK
<1>u. UNCHANGED <<slots, nextId, running, run, objs, made>>
  BY DEF Lua!CallerTakes, Lua!CallerLate, Lua!CallerAbandons, Lua!table
<1>1. exec' = [exec EXCEPT ![r] = e]
  BY <1>t DEF Lua!CallerTakes, Lua!CallerLate, Lua!CallerAbandons
<1>2. e \in Contexts /\ e.read = exec[r].read /\ e.given = exec[r].given
  BY <1>t DEF Contexts
<1>3. /\ e.abandoned => e.caller = "gone"
      /\ exec[r].abandoned => e.abandoned
      /\ run[r].at \in {"top", "script", "inside", "closing", "give"} \/ e.caller \in {"waiting", "late"} => e.alive
      /\ run[r].at # "none"
  <2>1. /\ exec[r].abandoned => exec[r].caller = "gone"
        /\ exec[r].given => run[r].at \in {"release", "sample", "sweep", "gone"}
        /\ run[r].at = "none" => exec[r].caller = "idle"
        /\ run[r].at \in {"top", "script", "inside", "closing", "give"} \/ exec[r].caller \in {"waiting", "late"} => exec[r].alive
    BY DEF LuaInv, ExecOK
  <2>2. CASE Lua!CallerTakes(r)
    BY <1>t, <2>1, <2>2 DEF Contexts, Lua!CallerTakes
  <2>3. CASE ~Lua!CallerTakes(r) /\ Lua!CallerLate(r)
    BY <1>t, <2>1, <2>3 DEF Contexts, Lua!CallerLate
  <2>4. CASE ~Lua!CallerTakes(r) /\ ~Lua!CallerLate(r) /\ Lua!CallerAbandons(r)
    BY <1>t, <2>1, <2>4 DEF Contexts, Lua!CallerAbandons
  <2> QED BY <2>2, <2>3, <2>4
<1> HIDE DEF e
<1>4. exec' \in [Syncs -> Contexts] /\ exec'[r] = e /\ \A q \in Syncs \ {r} : exec'[q] = exec[q]
  BY <1>t, <1>1, <1>2
<1>5. LuaTypeOK'
  BY <1>4, <1>u DEF LuaInv, LuaTypeOK
<1>6. ExecOK'
  <2>1. ASSUME NEW q \in Syncs, q # r PROVE exec'[q] = exec[q] /\ run'[q] = run[q]
    BY <1>4, <1>u, <2>1
  <2> QED BY <1>2, <1>3, <1>4, <1>u, <2>1 DEF LuaInv, ExecOK
<1> QED BY <1>5, <1>6, <1>u DEF LuaInv, JobsOK, Busy, PlacesOK, OpenSyncs, ObjsOK, InSet, NothingLeftOver, Lua!NothingLeftOver

(***************************************************************************)
(* The last look around, and the sweep.                                    *)
(***************************************************************************)

(* When the job world is not idle, another run is on its way.              *)
LEMMA SomebodyLeft ==
  ASSUME TablesAssumption, LuaInv, ~Lua!Idle, NEW r \in Lua!Runs, run[r].at = "sample"
  PROVE  \E q \in Lua!Runs \ {r} : run[q].at \notin {"none", "gone"}
<1>u. Lua!Jobs \subseteq Lua!Runs /\ Syncs \subseteq Lua!Runs
  BY LuaConstants
<1>1. CASE running # 0
  <2>1. OpenSyncs # {}
    <3>1. Cardinality(OpenSyncs) # 0
      BY <1>1, Countable DEF LuaInv, LuaTypeOK, PlacesOK
    <3> QED BY <3>1, FS_EmptySet
  <2>2. PICK q \in Syncs : run[q].at \in OpenSteps
    BY <2>1 DEF OpenSyncs
  <2> QED BY <1>u, <2>2 DEF OpenSteps
<1>2. CASE Lua!Active # {}
  <2>1. PICK s \in 1..SlotCount : Busy(s)
    BY <1>2 DEF Lua!Active, Lua!Ended, Busy, LuaInv, LuaTypeOK
  <2>2. slots[s].id \in Lua!Jobs /\ run[slots[s].id].at \in {"created", "script", "inside"}
    BY <2>1 DEF LuaInv, JobsOK
  <2> QED BY <1>u, <2>2
<1> QED BY <1>1, <1>2 DEF Lua!Idle

LEMMA CloseStep ==
  ASSUME TablesAssumption, LuaInv, NEW r \in Lua!Runs, Lua!Closes(r)
  PROVE  LuaInv'
<1>t. running \in Nat /\ exec \in [Syncs -> Contexts] /\ objs \subseteq Objects
  BY DEF LuaInv, LuaTypeOK
<1>e. r \in Syncs =>
        /\ exec[r].read => exec[r].abandoned
        /\ exec[r].abandoned => exec[r].caller = "gone"
        /\ exec[r].caller \in {"waiting", "late"} => exec[r].alive
  BY DEF LuaInv, ExecOK
<1>1. CASE Lua!Sample(r)
  <2> DEFINE a == IF Lua!Idle THEN "sweep" ELSE "gone"
  <2>1. /\ run[r].at = "sample" /\ run' = [run EXCEPT ![r].at = a]
        /\ UNCHANGED <<slots, nextId, running, exec, objs, made>>
    BY <1>1 DEF Lua!Sample, Lua!Sampled, Lua!Goes, Lua!table
  <2>2. Leaves(r, a)
    BY <2>1, SomebodyLeft DEF Leaves
  <2>3. a \in {"sweep", "gone"}
    OBVIOUS
  <2> HIDE DEF a
  <2>4. a \in RunSteps \ {"inside", "none", "created"} /\ StepsTo(r, a)
    BY <2>1, <2>3 DEF RunSteps, StepsTo
  <2>5. PlaceKept(r, a)
    BY <1>t, <2>1, <2>3 DEF PlaceKept, Open, OpenSteps
  <2>6. r \in Syncs => ContextKept(r, a)
    BY <1>t, <1>e, <2>1, <2>3 DEF ContextKept
  <2> QED BY <2>1, <2>2, <2>4, <2>5, <2>6, RunMoves
<1>2. CASE Lua!Sweep(r)
  <2>1. /\ run[r].at = "sweep" /\ run' = [run EXCEPT ![r].at = "gone"]
        /\ objs' = {o \in objs : ~(o.scoped /\ o.waiters = 0)}
        /\ UNCHANGED <<slots, nextId, running, exec, made>>
    BY <1>2 DEF Lua!Sweep, Lua!Reclaims, Lua!Goes, Lua!table
  <2>2. Leaves(r, "gone")
    <3>1. SUFFICES ASSUME NEW o \in objs', o.scoped
                   PROVE  \E q \in Lua!Runs \ {r} : run[q].at \notin {"none", "gone"}
      BY DEF Leaves
    <3>2. o \in objs /\ o.waiters # 0
      BY <2>1, <3>1
    <3>3. Cardinality(InSet(o.serial)) # 0
      BY <3>2 DEF LuaInv, ObjsOK
    <3>4. InSet(o.serial) # {}
      BY <3>3, FS_EmptySet
    <3>5. PICK q \in Lua!Runs : run[q].at = "inside"
      BY <3>4 DEF InSet
    <3> QED BY <2>1, <3>5
  <2>4. "gone" \in RunSteps \ {"inside", "none", "created"} /\ StepsTo(r, "gone")
    BY <2>1 DEF RunSteps, StepsTo
  <2>5. PlaceKept(r, "gone")
    BY <1>t, <2>1 DEF PlaceKept, Open, OpenSteps
  <2>6. r \in Syncs => ContextKept(r, "gone")
    BY <1>t, <1>e, <2>1 DEF ContextKept
  <2> QED BY <2>1, <2>2, <2>4, <2>5, <2>6, RunMoves
<1> QED BY <1>1, <1>2 DEF Lua!Closes

(***************************************************************************)
(* What a script does with the objects.                                    *)
(***************************************************************************)
LEMMA CreateStep ==
  ASSUME TablesAssumption, LuaInv, NEW r \in Lua!Runs, NEW n \in Names, Lua!Create(r, n)
  PROVE  LuaInv'
<1> DEFINE o == [name |-> n, serial |-> made + 1, waiters |-> 0, owner |-> NoRun, scoped |-> run[r].at = "script"]
<1>1. /\ run[r].at \in {"top", "script"} /\ made' = made + 1 /\ objs' = objs \cup {o}
      /\ UNCHANGED <<slots, nextId, running, run, exec>>
  BY DEF Lua!Create, Lua!InScript, Lua!table
<1>2. o \in Objects /\ o.serial = made + 1 /\ o.waiters = 0 /\ made \in Nat
  BY DEF LuaInv, LuaTypeOK, Objects
<1> HIDE DEF o
<1>3. LuaTypeOK'
  BY <1>1, <1>2 DEF LuaInv, LuaTypeOK
<1>4. \A p \in objs : p.serial \in Nat /\ p.serial <= made
  BY DEF LuaInv, LuaTypeOK, Objects, ObjsOK
<1>5. InSet(made + 1) = {}
  <2>1. ASSUME NEW q \in InSet(made + 1) PROVE FALSE
    <3>1. PICK p \in objs : p.serial = made + 1
      BY <2>1 DEF InSet, LuaInv, ObjsOK
    <3> QED BY <1>2, <1>4, <3>1
  <2> QED BY <2>1
<1>6. \A k : InSet(k)' = InSet(k)
  BY <1>1 DEF InSet
<1>7. ASSUME NEW p \in objs' PROVE p.serial <= made' /\ p.waiters = Cardinality(InSet(p.serial)')
  <2>1. CASE p = o
    BY <1>1, <1>2, <1>5, <1>6, <2>1, FS_EmptySet
  <2>2. CASE p \in objs
    BY <1>1, <1>2, <1>4, <1>6, <2>2 DEF LuaInv, ObjsOK
  <2> QED BY <1>1, <2>1, <2>2
<1>8. ASSUME NEW p \in objs', NEW q \in objs', p.serial = q.serial PROVE p = q
  <2>1. \A x \in objs' : x = o \/ (x \in objs /\ x.serial # made + 1)
    BY <1>1, <1>2, <1>4
  <2> QED BY <1>2, <1>8, <2>1 DEF LuaInv, ObjsOK
<1>9. ObjsOK'
  BY <1>1, <1>7, <1>8 DEF LuaInv, ObjsOK
<1>10. NothingLeftOver'
  BY <1>1 DEF NothingLeftOver, Lua!NothingLeftOver
<1> QED BY <1>1, <1>3, <1>9, <1>10 DEF LuaInv, JobsOK, Busy, PlacesOK, OpenSyncs, ExecOK

LEMMA DeleteStep ==
  ASSUME TablesAssumption, LuaInv, NEW r \in Lua!Runs, NEW n \in Names, Lua!Delete(r, n)
  PROVE  LuaInv'
<1>1. PICK o \in objs : o.waiters = 0 /\ objs' = objs \ {o}
  BY DEF Lua!Delete, Lua!Named
<1>2. UNCHANGED <<slots, nextId, running, run, exec, made>> /\ run[r].at \in {"top", "script"}
  BY DEF Lua!Delete, Lua!InScript, Lua!table
<1>3. LuaTypeOK'
  BY <1>1, <1>2 DEF LuaInv, LuaTypeOK
<1>4. \A k : InSet(k)' = InSet(k)
  BY <1>2 DEF InSet
<1>5. ASSUME NEW q \in Lua!Runs, run[q].at = "inside" PROVE \E p \in objs' : p.serial = run[q].obj
  <2>1. PICK p \in objs : p.serial = run[q].obj
    BY <1>5 DEF LuaInv, ObjsOK
  <2>2. q \in InSet(p.serial)
    BY <1>5, <2>1 DEF InSet
  <2>3. p.waiters # 0
    BY <2>2, Countable, FS_EmptySet DEF LuaInv, ObjsOK
  <2> QED BY <1>1, <2>1, <2>3
<1>6. ASSUME NEW p \in objs' PROVE p.serial <= made' /\ p.waiters = Cardinality(InSet(p.serial)')
  BY <1>1, <1>2, <1>4, <1>6 DEF LuaInv, ObjsOK
<1>7. ObjsOK'
  BY <1>1, <1>2, <1>5, <1>6 DEF LuaInv, ObjsOK
<1>8. NothingLeftOver'
  BY <1>2 DEF NothingLeftOver, Lua!NothingLeftOver
<1> QED BY <1>2, <1>3, <1>7, <1>8 DEF LuaInv, JobsOK, Busy, PlacesOK, OpenSyncs, ExecOK

(* A script that enters an object or leaves one: the object o becomes p,   *)
(* which counts the run if it is inside now.                               *)
LEMMA InsideMoves ==
  ASSUME TablesAssumption, LuaInv, NEW r \in Lua!Runs, NEW x \in [at : {"script", "inside"}, obj : Nat],
         NEW o \in objs, NEW p \in Objects, p.serial = o.serial,
         run' = [run EXCEPT ![r] = x], run[r].at \in {"script", "inside"}, x.at # run[r].at,
         x.at = "inside" => x.obj = o.serial /\ p.waiters = o.waiters + 1,
         x.at = "script" => run[r].obj = o.serial /\ p.waiters = o.waiters - 1,
         objs' = (objs \ {o}) \cup {p}, UNCHANGED <<slots, nextId, running, exec, made>>
  PROVE  LuaInv'
<1>u. Lua!Jobs \subseteq Lua!Runs /\ Syncs \subseteq Lua!Runs
  BY LuaConstants
<1>1. /\ run' \in [Lua!Runs -> [at : RunSteps, obj : Nat]]
      /\ run'[r] = x /\ \A q \in Lua!Runs \ {r} : run'[q] = run[q]
  <2>1. run \in [Lua!Runs -> [at : RunSteps, obj : Nat]] /\ x \in [at : RunSteps, obj : Nat]
    BY DEF LuaInv, LuaTypeOK, RunSteps
  <2> QED BY <2>1
<1>2. LuaTypeOK'
  BY <1>1 DEF LuaInv, LuaTypeOK
<1>3. JobsOK'
  <2>1. ASSUME NEW j \in Lua!Jobs, j >= nextId' PROVE run'[j].at = "none"
    <3>1. run[j].at = "none"
      BY <2>1 DEF LuaInv, JobsOK
    <3> QED BY <1>1, <1>u, <3>1
  <2>2. ASSUME NEW k \in 1..SlotCount, Busy(k)'
        PROVE  slots'[k].id \in Lua!Jobs /\ run'[slots'[k].id].at \in {"created", "script", "inside"}
    <3>1. slots[k].id \in Lua!Jobs /\ run[slots[k].id].at \in {"created", "script", "inside"} /\ slots'[k] = slots[k]
      BY <2>2 DEF LuaInv, JobsOK, Busy
    <3> QED BY <1>1, <1>u, <3>1
  <2> QED BY <2>1, <2>2 DEF JobsOK
<1>4. PlacesOK'
  <2>1. OpenSyncs' = OpenSyncs
    BY <1>1, <1>u DEF OpenSyncs, OpenSteps
  <2> QED BY <2>1 DEF LuaInv, PlacesOK
<1>5. ExecOK'
  <2>1. ASSUME NEW q \in Syncs
        PROVE  \/ run'[q] = run[q]
               \/ run[q].at \in {"script", "inside"} /\ run'[q].at \in {"script", "inside"}
    BY <1>1, <1>u
  <2> QED BY <2>1 DEF LuaInv, ExecOK
<1>6. NothingLeftOver'
  BY <1>1 DEF NothingLeftOver, Lua!NothingLeftOver
<1>7. ASSUME NEW k, k # o.serial PROVE InSet(k)' = InSet(k)
  BY <1>1, <1>7 DEF InSet
<1>8. Cardinality(InSet(o.serial)') = p.waiters
  <2>1. IsFiniteSet(InSet(o.serial)) /\ o.waiters = Cardinality(InSet(o.serial))
    BY Countable DEF LuaInv, ObjsOK
  <2>2. CASE x.at = "inside"
    <3>1. r \notin InSet(o.serial) /\ InSet(o.serial)' = InSet(o.serial) \cup {r}
      BY <1>1, <2>2 DEF InSet
    <3> QED BY <2>1, <2>2, <3>1, FS_AddElement
  <2>3. CASE x.at = "script"
    <3>1. r \in InSet(o.serial) /\ InSet(o.serial)' = InSet(o.serial) \ {r}
      BY <1>1, <2>3 DEF InSet
    <3> QED BY <2>1, <2>3, <3>1, FS_RemoveElement
  <2> QED BY <2>2, <2>3
<1>9. ASSUME NEW b \in objs' PROVE b.serial <= made' /\ b.waiters = Cardinality(InSet(b.serial)')
  <2>1. CASE b = p
    BY <1>8, <2>1 DEF LuaInv, ObjsOK
  <2>2. CASE b \in objs /\ b # o
    <3>1. b.serial # o.serial
      BY <2>2 DEF LuaInv, ObjsOK
    <3> QED BY <1>7, <2>2, <3>1 DEF LuaInv, ObjsOK
  <2> QED BY <2>1, <2>2
<1>10. ASSUME NEW b \in objs', NEW c \in objs', b.serial = c.serial PROVE b = c
  <2>1. \A z \in objs' : z = p \/ (z \in objs /\ z.serial # p.serial)
    BY DEF LuaInv, ObjsOK
  <2> QED BY <1>10, <2>1 DEF LuaInv, ObjsOK
<1>11. ASSUME NEW q \in Lua!Runs, run'[q].at = "inside" PROVE \E b \in objs' : b.serial = run'[q].obj
  <2>1. CASE q = r
    BY <1>1, <1>11, <2>1
  <2>2. CASE q # r
    <3>1. PICK b \in objs : b.serial = run[q].obj /\ run'[q] = run[q]
      BY <1>1, <1>11, <2>2 DEF LuaInv, ObjsOK
    <3> QED BY <3>1
  <2> QED BY <2>1, <2>2
<1> QED BY <1>2, <1>3, <1>4, <1>5, <1>6, <1>9, <1>10, <1>11 DEF LuaInv, ObjsOK

LEMMA EnterStep ==
  ASSUME TablesAssumption, LuaInv, NEW r \in Lua!Runs, NEW n \in Names, Lua!Acquire(r, n)
  PROVE  LuaInv'
<1>1. PICK o \in objs : /\ objs' = (objs \ {o}) \cup {[o EXCEPT !.waiters = @ + 1]}
                        /\ run' = [run EXCEPT ![r] = [at |-> "inside", obj |-> o.serial]]
  BY DEF Lua!Acquire, Lua!Named
<1> DEFINE p == [o EXCEPT !.waiters = @ + 1]
           x == [at |-> "inside", obj |-> o.serial]
<1>2. o \in Objects
  BY DEF LuaInv, LuaTypeOK
<1>3. p \in Objects /\ p.serial = o.serial /\ p.waiters = o.waiters + 1 /\ o.serial \in Nat
  BY <1>2 DEF Objects
<1>4. x \in [at : {"script", "inside"}, obj : Nat] /\ x.at = "inside" /\ x.obj = o.serial
  BY <1>3
<1>5. run' = [run EXCEPT ![r] = x] /\ objs' = (objs \ {o}) \cup {p}
  BY <1>1
<1>6. UNCHANGED <<slots, nextId, running, exec, made>> /\ run[r].at = "script"
  BY DEF Lua!Acquire, Lua!table
<1> HIDE DEF p, x
<1> QED BY <1>3, <1>4, <1>5, <1>6, InsideMoves

LEMMA LeaveStep ==
  ASSUME TablesAssumption, LuaInv, NEW r \in Lua!Runs, Lua!Leave(r)
  PROVE  LuaInv'
<1>1. PICK o \in objs : /\ o.serial = run[r].obj
                        /\ \E w \in Lua!Owners(r, o) : objs' = (objs \ {o}) \cup {[o EXCEPT !.waiters = @ - 1, !.owner = w]}
  BY DEF Lua!Leave
<1>2. PICK w \in Lua!Owners(r, o) : objs' = (objs \ {o}) \cup {[o EXCEPT !.waiters = @ - 1, !.owner = w]}
  BY <1>1
<1> DEFINE p == [o EXCEPT !.waiters = @ - 1, !.owner = w]
           x == [at |-> "script", obj |-> 0]
<1>3. UNCHANGED <<slots, nextId, running, exec, made>> /\ run[r].at = "inside" /\ run' = [run EXCEPT ![r] = x]
  BY DEF Lua!Leave, Lua!table
<1>4. o \in Objects
  BY DEF LuaInv, LuaTypeOK
<1>5. o.waiters - 1 \in Nat
  <2>1. r \in InSet(o.serial)
    BY <1>1, <1>3 DEF InSet
  <2>2. o.waiters # 0 /\ o.waiters \in Nat
    BY <2>1, Countable, FS_EmptySet DEF LuaInv, ObjsOK
  <2> QED BY <2>2
<1>6. w \in Lua!Runs \cup {NoRun}
  BY <1>2, <1>4 DEF Lua!Owners, Objects
<1>7. p \in Objects /\ p.serial = o.serial /\ p.waiters = o.waiters - 1
  BY <1>4, <1>5, <1>6 DEF Objects
<1>8. x \in [at : {"script", "inside"}, obj : Nat] /\ x.at = "script"
  OBVIOUS
<1>9. objs' = (objs \ {o}) \cup {p}
  BY <1>2
<1> HIDE DEF p, x
<1> QED BY <1>1, <1>3, <1>7, <1>8, <1>9, InsideMoves

LEMMA LuaStep == TablesAssumption /\ LuaInv /\ [Lua!Next]_luavars => LuaInv'
<1> SUFFICES ASSUME TablesAssumption, LuaInv, [Lua!Next]_luavars PROVE LuaInv'
  OBVIOUS
<1>1. ASSUME NEW t \in Launchers, Lua!SeesGone(t) \/ Lua!GivesUp(t) PROVE LuaInv'
  <2>1. UNCHANGED <<slots, nextId, running, run, exec, objs, made>>
    BY <1>1 DEF Lua!SeesGone, Lua!GivesUp, Lua!table
  <2> QED BY <2>1 DEF LuaInv, LuaTypeOK, JobsOK, Busy, PlacesOK, OpenSyncs, ExecOK, ObjsOK, InSet,
                      NothingLeftOver, Lua!NothingLeftOver
<1>2. CASE UNCHANGED luavars
  BY <1>2 DEF luavars, LuaInv, LuaTypeOK, JobsOK, Busy, PlacesOK, OpenSyncs, ExecOK, ObjsOK, InSet,
              NothingLeftOver, Lua!NothingLeftOver
<1>3. \A j \in Lua!Jobs : j \in Lua!Runs
  BY LuaConstants
<1> QED
  BY <1>1, <1>2, <1>3, LaunchStep, StopStep, JobStep, SyncStep, CallerStep, CloseStep, CreateStep, DeleteStep, EnterStep, LeaveStep
  DEF Lua!Next, Lua!Script

(* LuaJobs: for any number of launchers, jobs, runs, slots and objects, no *)
(* call is inside a freed object and no freed context is used.             *)
THEOREM LuaUsesNothingFreed == TablesSpec => []NothingFreedIsUsed
<1>1. TablesInit => LuaInv
  BY TablesAssumption, LuaInit DEF TablesInit
<1>2. LuaInv /\ [TablesNext]_allvars => LuaInv'
  <2>1. [TablesNext]_allvars => [Lua!Next]_luavars
    BY DEF TablesNext, allvars, ChangesRules, ChangesCaps, ChangesJobs
  <2> QED BY <2>1, TablesAssumption, LuaStep
<1>3. LuaInv => NothingFreedIsUsed
  BY DEF LuaInv, ObjsOK, ExecOK, NothingFreedIsUsed, Lua!NothingFreedIsUsed
<1> QED BY <1>1, <1>2, <1>3, PTL DEF TablesSpec

(* LuaJobs: whatever ended the runs, none leaves a job-scoped object.      *)
THEOREM LuaLeavesNothing == TablesSpec => []NothingLeftOver
<1>1. TablesInit => LuaInv
  BY TablesAssumption, LuaInit DEF TablesInit
<1>2. LuaInv /\ [TablesNext]_allvars => LuaInv'
  <2>1. [TablesNext]_allvars => [Lua!Next]_luavars
    BY DEF TablesNext, allvars, ChangesRules, ChangesCaps, ChangesJobs
  <2> QED BY <2>1, TablesAssumption, LuaStep
<1>3. LuaInv => NothingLeftOver
  BY DEF LuaInv
<1> QED BY <1>1, <1>2, <1>3, PTL DEF TablesSpec

-----------------------------------------------------------------------------
USE DispatcherAssumption

Slot == [rule : Templates, last : 0..(ClockMod - 1), fired : 0..MaxTime]

(* The parts of the worker's type that change together. *)
TableOK  == rules \in Seq(Slot) /\ Len(rules) <= MaxRules
InboxOK  == inbox \in Seq(Event) /\ Len(inbox) <= InboxLen
ChainOK  == ran \in Seq(Templates) /\ acts \in Seq(Action)
SnapsOK  == DOMAIN snaps \subseteq 1..MaxRules /\ snaps \in [DOMAIN snaps -> Templates]
EventOK  == cur \in Event \cup {None} /\ busy \in BOOLEAN /\ asked \in Nat /\ matched \in 0..MaxRules
CountsOK == time \in 1..MaxTime /\ events \in 0..MaxEvents /\ edits \in 0..MaxEdits

LEMMA TypeParts ==
  TypeOK <=> TableOK /\ InboxOK /\ ChainOK /\ SnapsOK /\ EventOK /\ CountsOK
BY DEF TypeOK, TableOK, InboxOK, ChainOK, SnapsOK, EventOK, CountsOK, Slot

(* What a chain leaves of its actions. *)
LEMMA GoesType ==
  ASSUME ChainOK, acts # <<>>, NEW ok \in BOOLEAN, Goes(ok)
  PROVE  acts' \in Seq(Action)
<1>1. Tail(acts) \in Seq(Action)
  BY TailRange DEF ChainOK
<1>2. <<>> \in Seq(Action)
  OBVIOUS
<1>3. CASE ok \/ ~Head(acts).stop BY <1>1, <1>3 DEF Goes
<1>4. CASE ~(ok \/ ~Head(acts).stop) BY <1>2, <1>4 DEF Goes
<1> QED BY <1>3, <1>4

LEMMA HeadAction ==
  ASSUME ChainOK, acts # <<>>
  PROVE  Head(acts) \in Action
BY TailRange DEF ChainOK

LEMMA EntryType ==
  ASSUME NEW r \in Templates, CountsOK
  PROVE  Entry(r) \in Slot /\ Entry(r).rule = r /\ Entry(r).last = 0 /\ Entry(r).fired = 0
BY DEF Entry, Slot, CountsOK

(* An update in place keeps the table's length, and changes the rules with *)
(* the new rule's id only.                                                 *)
LEMMA ReplacedType ==
  ASSUME TableOK, CountsOK, NEW r \in Templates
  PROVE  /\ Replaced(r) \in Seq(Slot) /\ Len(Replaced(r)) = Len(rules)
         /\ DOMAIN Replaced(r) = DOMAIN rules
         /\ \A i \in DOMAIN rules :
              Replaced(r)[i] = IF rules[i].rule.id = r.id THEN Entry(r) ELSE rules[i]
<1>1. rules \in Seq(Slot) /\ DOMAIN rules = 1..Len(rules) /\ Len(rules) \in Nat
  BY DEF TableOK
<1>2. \A i \in DOMAIN rules : Replaced(r)[i] = IF rules[i].rule.id = r.id THEN Entry(r) ELSE rules[i]
  BY <1>1 DEF Replaced, IndexOf
<1>3. \A i \in DOMAIN rules : rules[i] \in Slot
  BY <1>1
<1>4. Replaced(r) \in [1..Len(rules) -> Slot]
  BY <1>1, <1>2, <1>3, EntryType DEF Replaced
<1>5. Replaced(r) \in Seq(Slot) /\ Len(Replaced(r)) = Len(rules)
  BY <1>1, <1>4
<1> QED BY <1>1, <1>2, <1>4, <1>5

(* The rules that fire are rules of the table that are out of cooldown.    *)
LEMMA FiringType ==
  ASSUME TableOK, NEW failed
  PROVE  /\ Firing(failed) \subseteq Eligible /\ Eligible \subseteq DOMAIN rules
         /\ Firing(failed) \subseteq 1..MaxRules
         /\ IsFiniteSet(Firing(failed))
         /\ Cardinality(Firing(failed)) \in 0..MaxRules
<1>1. Len(rules) \in Nat /\ MaxRules \in Nat /\ DOMAIN rules \subseteq 1..MaxRules
  BY DEF TableOK
<1>2. Firing(failed) \subseteq Eligible /\ Eligible \subseteq DOMAIN rules
  BY DEF Firing, Eligible
<1>3. Firing(failed) \in SUBSET (1..MaxRules)
  BY <1>1, <1>2
<1>4. IsFiniteSet(1..MaxRules) /\ Cardinality(1..MaxRules) <= MaxRules
  <2>1. 1 \in Int /\ MaxRules \in Int
    BY <1>1
  <2>2. IsFiniteSet(1..MaxRules) /\ Cardinality(1..MaxRules) = IF 1 > MaxRules THEN 0 ELSE MaxRules - 1 + 1
    BY <2>1, FS_Interval
  <2> QED BY <1>1, <2>2
<1>5. IsFiniteSet(Firing(failed)) /\ Cardinality(Firing(failed)) <= Cardinality(1..MaxRules)
  BY <1>3, <1>4, FS_Subset
<1>6. Cardinality(Firing(failed)) \in Nat /\ Cardinality(1..MaxRules) \in Nat
  BY <1>4, <1>5, FS_CardinalityType
<1> QED BY <1>1, <1>2, <1>3, <1>4, <1>5, <1>6

(* What matching an event does to the table. *)
LEMMA MatchTable ==
  ASSUME TypeOK, Match
  PROVE  \E failed :
           /\ matched' = Cardinality(Firing(failed))
           /\ ~NoMemory => failed = {}
           /\ snaps' = [i \in Firing(failed) \ failed |-> rules[i].rule]
           /\ DOMAIN rules' = DOMAIN rules /\ Len(rules') = Len(rules) /\ rules' \in Seq(Slot)
           /\ \A i \in DOMAIN rules :
                /\ rules'[i].rule = rules[i].rule
                /\ i \in Firing(failed) => rules'[i].last = time % ClockMod /\ rules'[i].fired = time
                /\ i \notin Firing(failed) => rules'[i] = rules[i]
<1>1. rules \in Seq(Slot) /\ DOMAIN rules = 1..Len(rules) /\ Len(rules) \in Nat /\ \A i \in DOMAIN rules : rules[i] \in Slot
  BY TypeParts DEF TableOK
<1>2. time % ClockMod \in 0..(ClockMod - 1) /\ time \in 0..MaxTime
  BY TypeParts DEF CountsOK
<1>3. PICK failed :
        /\ ~NoMemory => failed = {}
        /\ matched' = Cardinality(Firing(failed))
        /\ snaps' = [i \in Firing(failed) \ failed |-> rules[i].rule]
        /\ rules' = [i \in DOMAIN rules |->
                       IF i \in Firing(failed) THEN [rules[i] EXCEPT !.last = time % ClockMod, !.fired = time]
                       ELSE rules[i]]
  <2>1. CASE NoMemory BY <2>1 DEF Match
  <2>2. CASE ~NoMemory BY <2>2 DEF Match
  <2> QED BY <2>1, <2>2
<1>4. \A i \in DOMAIN rules :
        /\ rules'[i] \in Slot /\ rules'[i].rule = rules[i].rule
        /\ i \in Firing(failed) => rules'[i].last = time % ClockMod /\ rules'[i].fired = time
        /\ i \notin Firing(failed) => rules'[i] = rules[i]
  BY <1>1, <1>2, <1>3 DEF Slot
<1>5. rules' \in [1..Len(rules) -> Slot]
  <2>1. DOMAIN rules' = 1..Len(rules) BY <1>1, <1>3
  <2>2. rules' = [i \in 1..Len(rules) |-> rules'[i]] BY <1>1, <1>3
  <2> QED BY <2>1, <2>2, <1>4, <1>1
<1>6. rules' \in Seq(Slot) /\ Len(rules') = Len(rules) /\ DOMAIN rules' = DOMAIN rules
  BY <1>1, <1>5
<1> QED BY <1>3, <1>4, <1>6

(***************************************************************************)
(* Type correctness.                                                       *)
(***************************************************************************)
LEMMA InitType == Init => TypeOK
<1> SUFFICES ASSUME Init PROVE TypeOK
  OBVIOUS
<1>1. TableOK /\ InboxOK /\ ChainOK BY DEF Init, TableOK, InboxOK, ChainOK
<1>2. SnapsOK BY DEF Init, SnapsOK
<1>3. EventOK
  <2>1. cur = None /\ busy = FALSE /\ asked = 0 /\ matched = 0 BY DEF Init
  <2>2. busy \in BOOLEAN BY <2>1
  <2>3. MaxRules \in Nat OBVIOUS
  <2> QED BY <2>1, <2>2, <2>3 DEF EventOK
<1>4. CountsOK BY DEF Init, CountsOK
<1> QED BY <1>1, <1>2, <1>3, <1>4, TypeParts

LEMMA NextType == TypeOK /\ [Next]_vars => TypeOK'
<1> SUFFICES ASSUME TypeOK, [Next]_vars PROVE TypeOK'
  OBVIOUS
<1>0. TableOK /\ InboxOK /\ ChainOK /\ SnapsOK /\ EventOK /\ CountsOK
  BY TypeParts
<1> DEFINE Good == TableOK' /\ InboxOK' /\ ChainOK' /\ SnapsOK' /\ EventOK' /\ CountsOK'
<1>1. ASSUME NEW k \in Published, Publish(k) PROVE Good
  <2>1. InboxOK'
    <3> DEFINE e == [kind |-> k, depth |-> 0]
    <3>1. e \in Event
      BY DEF Event
    <3>2. CASE Len(inbox) < InboxLen /\ inbox' = Append(inbox, e)
      BY <3>1, <3>2, <1>0, AppendRange DEF InboxOK
    <3>3. CASE inbox' = inbox BY <3>3, <1>0 DEF InboxOK
    <3> QED BY <1>1, <3>2, <3>3 DEF Publish
  <2>2. CountsOK'
    BY <1>0, <1>1 DEF CountsOK, Publish
  <2> QED BY <1>0, <1>1, <2>1, <2>2 DEF Publish, worker, TableOK, ChainOK, SnapsOK, EventOK
<1>2. ASSUME Tick PROVE Good
  <2>1. CountsOK' BY <1>0, <1>2 DEF CountsOK, Tick
  <2> QED BY <1>0, <1>2, <2>1 DEF Tick, worker, TableOK, InboxOK, ChainOK, SnapsOK, EventOK
<1>3. ASSUME NEW r \in Templates, AddRule(r) \/ UpdateRule(r) PROVE Good
  <2>1. TableOK'
    <3>1. CASE rules' = Replaced(r)
      BY <3>1, <1>0, ReplacedType DEF TableOK, Slot
    <3>2. CASE Len(rules) < MaxRules /\ rules' = Append(rules, Entry(r))
      BY <3>2, <1>0, EntryType, AppendRange DEF TableOK, Slot
    <3>3. CASE rules' = rules BY <3>3, <1>0 DEF TableOK, Slot
    <3> QED BY <1>3, <3>1, <3>2, <3>3 DEF Added, AddRule, UpdateRule
  <2>2. CountsOK' BY <1>0, <1>3 DEF CountsOK, AddRule, UpdateRule
  <2> QED BY <1>0, <1>3, <2>1, <2>2 DEF AddRule, UpdateRule, worker, InboxOK, ChainOK, SnapsOK, EventOK
<1>4. ASSUME NEW id \in RuleIds, DeleteRule(id) PROVE Good
  <2>1. PICK i \in DOMAIN rules : rules' = RemoveAt(rules, i)
    BY <1>4 DEF DeleteRule, IndexOf
  <2>2. rules' \in Seq(Slot) /\ Len(rules') = Len(rules) - 1
    BY <2>1, <1>0, RemoveAtElements DEF TableOK
  <2>3. TableOK' BY <2>2, <1>0 DEF TableOK, Slot
  <2>4. CountsOK' BY <1>0, <1>4 DEF CountsOK, DeleteRule
  <2> QED BY <1>0, <1>4, <2>3, <2>4 DEF DeleteRule, worker, InboxOK, ChainOK, SnapsOK, EventOK
<1>5. ASSUME EditFails PROVE Good
  <2>1. CountsOK' BY <1>0, <1>5 DEF CountsOK, EditFails
  <2> QED BY <1>0, <1>5, <2>1 DEF EditFails, worker, TableOK, Slot, InboxOK, ChainOK, SnapsOK, EventOK
<1>6. ASSUME Receive PROVE Good
  <2>1. Head(inbox) \in Event /\ Tail(inbox) \in Seq(Event) /\ Len(Tail(inbox)) = Len(inbox) - 1
    BY <1>0, <1>6, TailRange DEF InboxOK, Receive
  <2>2. InboxOK' BY <2>1, <1>0, <1>6 DEF InboxOK, Receive
  <2>3. EventOK'
    <3>1. cur' = Head(inbox) /\ busy' = FALSE /\ asked' = 0 /\ matched' = 0 BY <1>6 DEF Receive
    <3>2. busy' \in BOOLEAN BY <3>1
    <3>3. MaxRules \in Nat OBVIOUS
    <3> QED BY <2>1, <3>1, <3>2, <3>3 DEF EventOK
  <2>4. ChainOK' BY <1>0, <1>6 DEF ChainOK, Receive
  <2> QED BY <1>0, <1>6, <2>2, <2>3, <2>4 DEF Receive, TableOK, Slot, SnapsOK, CountsOK
<1>7. ASSUME SlashCommand PROVE Good
  BY <1>0, <1>7 DEF SlashCommand, TableOK, Slot, InboxOK, ChainOK, SnapsOK, EventOK, CountsOK
<1>8. ASSUME Match PROVE Good
  <2>1. PICK failed :
          /\ matched' = Cardinality(Firing(failed))
          /\ snaps' = [i \in Firing(failed) \ failed |-> rules[i].rule]
          /\ Len(rules') = Len(rules) /\ rules' \in Seq(Slot)
    BY <1>8, MatchTable
  <2>2. TableOK' BY <2>1, <1>0 DEF TableOK, Slot
  <2>3. SnapsOK'
    <3>1. \A i \in Firing(failed) : i \in 1..MaxRules /\ rules[i].rule \in Templates
      <4> SUFFICES ASSUME NEW i \in Firing(failed) PROVE i \in 1..MaxRules /\ rules[i].rule \in Templates
        OBVIOUS
      <4>1. i \in 1..MaxRules /\ i \in DOMAIN rules BY <1>0, FiringType
      <4>2. rules[i] \in Slot BY <4>1, <1>0 DEF TableOK
      <4> QED BY <4>1, <4>2 DEF Slot
    <3> QED BY <2>1, <3>1 DEF SnapsOK
  <2>4. EventOK' BY <1>0, <1>8, <2>1, FiringType DEF EventOK, Match
  <2> QED BY <1>0, <1>8, <2>2, <2>3, <2>4 DEF Match, InboxOK, ChainOK, CountsOK
<1>9. ASSUME RunRule PROVE Good
  <2>1. PICK i \in DOMAIN snaps :
          /\ snaps' = [j \in DOMAIN snaps \ {i} |-> snaps[j]]
          /\ \/ acts' = snaps[i].actions /\ ran' = Append(ran, snaps[i])
             \/ acts' = acts /\ ran' = ran
    BY <1>9 DEF RunRule
  <2>2. snaps[i] \in Templates BY <1>0 DEF SnapsOK
  <2>3. SnapsOK' BY <2>1, <1>0 DEF SnapsOK
  <2>4. ChainOK'
    <3>1. CASE acts' = snaps[i].actions /\ ran' = Append(ran, snaps[i])
      BY <3>1, <2>2, <1>0, AppendRange DEF ChainOK
    <3>2. CASE acts' = acts /\ ran' = ran BY <3>2, <1>0 DEF ChainOK
    <3> QED BY <2>1, <3>1, <3>2
  <2> QED BY <1>0, <1>9, <2>3, <2>4 DEF RunRule, TableOK, Slot, InboxOK, EventOK, CountsOK
<1>10. ASSUME GuardFails PROVE Good
  <2>1. ChainOK' BY <1>0, <1>10, TailRange DEF ChainOK, GuardFails
  <2> QED BY <1>0, <1>10, <2>1 DEF GuardFails, TableOK, Slot, InboxOK, SnapsOK, EventOK, CountsOK
<1>11. ASSUME AskAgent PROVE Good
  <2>1. ChainOK'
    <3>1. acts' \in Seq(Action) BY <1>0, <1>11, GoesType DEF AskAgent
    <3> QED BY <3>1, <1>0, <1>11 DEF ChainOK, AskAgent
  <2>2. EventOK' BY <1>0, <1>11 DEF EventOK, AskAgent
  <2> QED BY <1>0, <1>11, <2>1, <2>2 DEF AskAgent, TableOK, Slot, InboxOK, SnapsOK, CountsOK
<1>12. ASSUME CallCap PROVE Good
  <2>1. ChainOK'
    <3>1. PICK ok \in BOOLEAN : Goes(ok)
      <4>1. CASE Head(acts).kind = "cap" BY <4>1, <1>12 DEF CallCap
      <4>2. CASE Head(acts).kind # "cap" BY <4>2, <1>12 DEF CallCap
      <4> QED BY <4>1, <4>2
    <3>2. acts' \in Seq(Action) BY <1>0, <1>12, <3>1, GoesType DEF CallCap
    <3> QED BY <3>2, <1>0, <1>12 DEF ChainOK, CallCap
  <2> QED BY <1>0, <1>12, <2>1 DEF CallCap, TableOK, Slot, InboxOK, SnapsOK, EventOK, CountsOK
<1>13. ASSUME Emit PROVE Good
  <2>1. ChainOK'
    <3>1. acts' \in Seq(Action) BY <1>0, <1>13, GoesType DEF Emit
    <3> QED BY <3>1, <1>0, <1>13 DEF ChainOK, Emit
  <2>2. InboxOK'
    <3>1. cur.depth \in Nat /\ MaxDepth \in Nat BY <1>0 DEF EventOK, Event, None
    <3>2. Derived(Head(acts)) \in Event
      BY <3>1, <1>0, <1>13, HeadAction DEF Derived, Event, Action, Emit
    <3> QED BY <3>2, <1>0, <1>13, AppendRange DEF InboxOK, Emit
  <2> QED BY <1>0, <1>13, <2>1, <2>2 DEF Emit, TableOK, Slot, SnapsOK, EventOK, CountsOK
<1>14. ASSUME EmitFails PROVE Good
  <2>1. ChainOK'
    <3>1. acts' \in Seq(Action) BY <1>0, <1>14, GoesType DEF EmitFails
    <3> QED BY <3>1, <1>0, <1>14 DEF ChainOK, EmitFails
  <2> QED BY <1>0, <1>14, <2>1 DEF EmitFails, TableOK, Slot, InboxOK, SnapsOK, EventOK, CountsOK
<1>15. ASSUME Finish PROVE Good
  <2>1. EventOK'
    <3>1. asked' \in Nat BY <1>0, <1>15 DEF EventOK, Finish
    <3>2. cur' = None /\ busy' = FALSE /\ matched' = matched BY <1>15 DEF Finish
    <3>3. busy' \in BOOLEAN BY <3>2
    <3> QED BY <1>0, <3>1, <3>2, <3>3 DEF EventOK
  <2> QED BY <1>0, <1>15, <2>1 DEF Finish, TableOK, Slot, InboxOK, ChainOK, SnapsOK, CountsOK
<1>16. ASSUME UNCHANGED vars PROVE Good
  <2>1. UNCHANGED <<inbox, rules, ran, acts, snaps>> /\ UNCHANGED <<cur, busy, asked, matched>> /\ UNCHANGED <<time, events, edits>>
    BY <1>16 DEF vars, worker
  <2>2. TableOK' /\ InboxOK' BY <2>1, <1>0 DEF TableOK, Slot, InboxOK
  <2>3. ChainOK' /\ SnapsOK' BY <2>1, <1>0 DEF ChainOK, SnapsOK
  <2>4. EventOK' /\ CountsOK' BY <2>1, <1>0 DEF EventOK, CountsOK
  <2> QED BY <2>2, <2>3, <2>4
<1> HIDE DEF Good
<1>17. Good
  <2>1. CASE Router BY <2>1, <1>3, <1>4, <1>5 DEF Router
  <2>2. CASE Worker
    BY <2>2, <1>6, <1>7, <1>8, <1>9, <1>10, <1>11, <1>12, <1>13, <1>14, <1>15 DEF Worker
  <2>3. CASE \E k \in Published : Publish(k) BY <2>3, <1>1
  <2> QED BY <1>2, <1>16, <2>1, <2>2, <2>3 DEF Next
<1> QED
  <2>1. TypeOK' <=> Good
    BY TypeParts DEF Good, TypeOK, TableOK, InboxOK, ChainOK, SnapsOK, EventOK, CountsOK, Slot
  <2> QED BY <1>17, <2>1

(* The dispatcher's state is well typed: the inbox, the rule table and the *)
(* copies taken from it stay within their limits.                          *)
THEOREM DispatcherTypeCorrect == Spec => []TypeOK
<1>1. Init => TypeOK BY InitType
<1>2. TypeOK /\ [Next]_vars => TypeOK' BY NextType
<1> QED BY <1>1, <1>2, PTL DEF Spec

(***************************************************************************)
(* The rule table has no two rules with one id.                            *)
(***************************************************************************)
LEMMA NextUnique == TypeOK /\ RuleIdsUnique /\ [Next]_vars => RuleIdsUnique'
<1> SUFFICES ASSUME TypeOK, RuleIdsUnique, [Next]_vars PROVE RuleIdsUnique'
  OBVIOUS
<1>0. TableOK /\ CountsOK /\ rules \in Seq(Slot) /\ DOMAIN rules = 1..Len(rules) /\ Len(rules) \in Nat
  BY TypeParts DEF TableOK
<1>1. ASSUME NEW r \in Templates, AddRule(r) \/ UpdateRule(r) PROVE RuleIdsUnique'
  <2>1. CASE rules' = Replaced(r)
    <3>1. DOMAIN rules' = DOMAIN rules /\ \A i \in DOMAIN rules : rules'[i].rule.id = rules[i].rule.id
      BY <2>1, <1>0, ReplacedType, EntryType
    <3> QED BY <3>1 DEF RuleIdsUnique
  <2>2. CASE IndexOf(r.id) = {} /\ rules' = Append(rules, Entry(r))
    <3>1. \A i \in DOMAIN rules : rules[i].rule.id # r.id
      BY <2>2 DEF IndexOf
    <3>2. /\ DOMAIN rules' = 1..(Len(rules) + 1) /\ rules'[Len(rules) + 1].rule.id = r.id
          /\ \A i \in DOMAIN rules : rules'[i] = rules[i]
      <4>1. Entry(r) \in Slot /\ Entry(r).rule = r BY <1>0, EntryType
      <4> HIDE DEF Slot
      <4> QED BY <4>1, <2>2, <1>0
    <3> QED BY <3>1, <3>2, <1>0 DEF RuleIdsUnique
  <2>3. CASE rules' = rules BY <2>3 DEF RuleIdsUnique
  <2> QED BY <1>1, <2>1, <2>2, <2>3 DEF Added, AddRule, UpdateRule
<1>2. ASSUME NEW id \in RuleIds, DeleteRule(id) PROVE RuleIdsUnique'
  <2>1. PICK i \in DOMAIN rules : rules' = RemoveAt(rules, i)
    BY <1>2 DEF DeleteRule, IndexOf
  <2> DEFINE up(k) == IF k < i THEN k ELSE k + 1
  <2>2. /\ DOMAIN rules' = 1..(Len(rules) - 1)
        /\ \A k \in 1..(Len(rules) - 1) : rules'[k] = rules[up(k)]
    BY <2>1, <1>0, RemoveAtElements
  <2>3. \A k \in 1..(Len(rules) - 1) : up(k) \in DOMAIN rules
    BY <1>0
  <2>4. \A k, l \in 1..(Len(rules) - 1) : up(k) = up(l) => k = l
    BY <1>0
  <2> HIDE DEF up
  <2> QED BY <2>2, <2>3, <2>4 DEF RuleIdsUnique
<1>3. ASSUME Match PROVE RuleIdsUnique'
  <2>1. DOMAIN rules' = DOMAIN rules /\ \A i \in DOMAIN rules : rules'[i].rule = rules[i].rule
    BY <1>3, MatchTable
  <2> QED BY <2>1 DEF RuleIdsUnique
<1>4. CASE rules' = rules BY <1>4 DEF RuleIdsUnique
<1>5. CASE Worker
  BY <1>5, <1>3, <1>4
     DEF Worker, Receive, SlashCommand, RunRule, GuardFails, AskAgent, CallCap, Emit, EmitFails, Finish
<1>6. CASE Router BY <1>6, <1>1, <1>2, <1>4 DEF Router, EditFails
<1>7. CASE Tick \/ \E k \in Published : Publish(k) BY <1>7, <1>4 DEF Tick, Publish
<1> QED BY <1>4, <1>5, <1>6, <1>7 DEF Next, vars

(* However rules are added, updated and deleted, and whatever cannot be    *)
(* copied, no two rules of the table share an id.                          *)
THEOREM RuleIdsStayUnique == Spec => []RuleIdsUnique
<1>1. Init => TypeOK /\ RuleIdsUnique BY InitType DEF Init, RuleIdsUnique
<1>2. TypeOK /\ RuleIdsUnique /\ [Next]_vars => TypeOK' /\ RuleIdsUnique' BY NextType, NextUnique
<1> QED BY <1>1, <1>2, PTL DEF Spec

(***************************************************************************)
(* A rule that consumes the event is the last to run for it: it is the     *)
(* last of the copies, and no copy is taken but from the start.            *)
(***************************************************************************)
ConsumerInv ==
  /\ busy => cur # None
  /\ ~busy => DOMAIN snaps = {}
  /\ cur # None /\ ~busy => ran = <<>>
  /\ \A i, j \in DOMAIN snaps : i < j => ~snaps[i].consume
  /\ \A k \in DOMAIN ran : ran[k].consume => k = Len(ran) /\ DOMAIN snaps = {}

LEMMA ConsumerSafe == TypeOK /\ ConsumerInv => ConsumerIsLast
<1> SUFFICES ASSUME TypeOK, ConsumerInv, NEW i \in 1..(Len(ran) - 1) PROVE ~ran[i].consume
  BY DEF ConsumerIsLast
<1>1. ran \in Seq(Templates) BY TypeParts DEF ChainOK
<1>2. i \in DOMAIN ran /\ i # Len(ran) BY <1>1
<1> QED BY <1>2 DEF ConsumerInv

LEMMA NextConsumer == TypeOK /\ ConsumerInv /\ [Next]_vars => ConsumerInv'
<1> SUFFICES ASSUME TypeOK, ConsumerInv, [Next]_vars PROVE ConsumerInv'
  OBVIOUS
<1>0. TableOK /\ ran \in Seq(Templates) /\ DOMAIN snaps \subseteq Nat
  BY TypeParts DEF ChainOK, SnapsOK, TableOK
<1>1. ASSUME Receive PROVE ConsumerInv'
  <2>1. ran' = <<>> /\ snaps' = snaps /\ ~busy' BY <1>1 DEF Receive
  <2>2. DOMAIN snaps = {}
    BY <1>1 DEF ConsumerInv, Receive
  <2> QED BY <2>1, <2>2 DEF ConsumerInv
<1>2. ASSUME Match PROVE ConsumerInv'
  <2>1. PICK failed : snaps' = [i \in Firing(failed) \ failed |-> rules[i].rule]
    BY <1>2, MatchTable
  <2>2. busy' /\ cur' # None /\ ran' = ran /\ ran = <<>> BY <1>2 DEF Match, ConsumerInv
  <2>3. ASSUME NEW i \in DOMAIN snaps', NEW j \in DOMAIN snaps', i < j PROVE ~snaps'[i].consume
    <3>1. i \in Eligible /\ j \in Firing(failed) /\ snaps'[i] = rules[i].rule
      BY <2>1, <2>3 DEF Firing
    <3> QED BY <3>1, <2>3 DEF Firing
  <2> QED BY <2>2, <2>3 DEF ConsumerInv
<1>3. ASSUME RunRule PROVE ConsumerInv'
  <2>1. PICK i \in DOMAIN snaps :
          /\ \A j \in DOMAIN snaps : i <= j
          /\ snaps' = [j \in DOMAIN snaps \ {i} |-> snaps[j]]
          /\ ran' = Append(ran, snaps[i]) \/ ran' = ran
    BY <1>3 DEF RunRule
  <2>2. DOMAIN snaps' = DOMAIN snaps \ {i} /\ (\A j \in DOMAIN snaps' : snaps'[j] = snaps[j])
        /\ busy' = busy /\ busy /\ cur' # None
    BY <1>3, <2>1 DEF RunRule, ConsumerInv
  <2>3. \A k \in DOMAIN ran : ~ran[k].consume
    BY <2>1 DEF ConsumerInv
  <2>4. snaps[i].consume => DOMAIN snaps' = {}
    <3>1. ASSUME snaps[i].consume, NEW j \in DOMAIN snaps \ {i} PROVE FALSE
      <4>1. i < j BY <2>1, <1>0, <3>1
      <4> QED BY <4>1, <3>1 DEF ConsumerInv
    <3> QED BY <3>1, <2>2
  <2>5. \A k \in DOMAIN ran' : ran'[k].consume => k = Len(ran') /\ DOMAIN snaps' = {}
    <3>1. CASE ran' = Append(ran, snaps[i])
      <4>1. DOMAIN ran = 1..Len(ran) /\ Len(ran) \in Nat BY <1>0
      <4>2. snaps[i] \in Templates BY TypeParts DEF SnapsOK
      <4>3. /\ DOMAIN ran' = 1..(Len(ran) + 1) /\ Len(ran') = Len(ran) + 1
            /\ ran'[Len(ran) + 1] = snaps[i] /\ \A k \in DOMAIN ran : ran'[k] = ran[k]
        BY <3>1, <4>1, <4>2, <1>0
      <4> QED BY <4>1, <4>3, <2>3, <2>4
    <3>2. CASE ran' = ran BY <3>2, <2>3
    <3> QED BY <2>1, <3>1, <3>2
  <2>6. \A a, b \in DOMAIN snaps' : a < b => ~snaps'[a].consume
    BY <2>2 DEF ConsumerInv
  <2> QED BY <2>2, <2>5, <2>6 DEF ConsumerInv
<1>4. ASSUME Finish PROVE ConsumerInv'
  BY <1>4 DEF Finish, ConsumerInv
<1>5. ASSUME SlashCommand PROVE ConsumerInv'
  BY <1>5 DEF SlashCommand, ConsumerInv
<1>6. CASE UNCHANGED <<cur, busy, ran, snaps>>
  BY <1>6 DEF ConsumerInv
<1>7. CASE Worker
  BY <1>7, <1>1, <1>2, <1>3, <1>4, <1>5, <1>6 DEF Worker, GuardFails, AskAgent, CallCap, Emit, EmitFails
<1>8. CASE Router BY <1>8, <1>6 DEF Router, AddRule, UpdateRule, DeleteRule, EditFails, worker
<1>9. CASE Tick \/ \E k \in Published : Publish(k) BY <1>9, <1>6 DEF Tick, Publish, worker
<1> QED BY <1>6, <1>7, <1>8, <1>9 DEF Next, vars, worker

(* Whatever happens to the table while copies of its rules run, no rule    *)
(* runs for an event after one that consumes it.                           *)
THEOREM ConsumerRunsLast == Spec => []ConsumerIsLast
<1>1. Init => TypeOK /\ ConsumerInv
  <2>1. Init => ConsumerInv BY DEF Init, ConsumerInv
  <2> QED BY <2>1, InitType
<1>2. TypeOK /\ ConsumerInv /\ [Next]_vars => TypeOK' /\ ConsumerInv' BY NextType, NextConsumer
<1>3. TypeOK /\ ConsumerInv => ConsumerIsLast BY ConsumerSafe
<1> QED BY <1>1, <1>2, <1>3, PTL DEF Spec

(***************************************************************************)
(* Without failing allocations, a message that matched no rule reaches the *)
(* agent, and one that did has had a rule run for it.                      *)
(***************************************************************************)
AnswerInv == busy /\ matched > 0 => DOMAIN snaps # {} \/ ran # <<>>

LEMMA NextAnswer == ~NoMemory /\ TypeOK /\ AnswerInv /\ [Next]_vars => AnswerInv'
<1> SUFFICES ASSUME ~NoMemory, TypeOK, AnswerInv, [Next]_vars PROVE AnswerInv'
  OBVIOUS
<1>0. TableOK /\ ran \in Seq(Templates) BY TypeParts DEF ChainOK
<1>1. ASSUME Receive PROVE AnswerInv'
  BY <1>1 DEF Receive, AnswerInv
<1>2. ASSUME Match PROVE AnswerInv'
  <2>1. matched' = Cardinality(Firing({})) /\ snaps' = [i \in Firing({}) \ {} |-> rules[i].rule]
    BY <1>2, MatchTable
  <2>2. CASE Firing({}) = {}
    <3>1. matched' = 0 BY <2>1, <2>2, FS_EmptySet
    <3> QED BY <3>1 DEF AnswerInv
  <2>3. CASE Firing({}) # {}
    <3>1. DOMAIN snaps' # {} BY <2>1, <2>3
    <3> QED BY <3>1 DEF AnswerInv
  <2> QED BY <2>2, <2>3
<1>3. ASSUME RunRule PROVE AnswerInv'
  <2>1. PICK i \in DOMAIN snaps : ran' = Append(ran, snaps[i])
    BY <1>3 DEF RunRule
  <2>2. snaps[i] \in Templates BY TypeParts DEF SnapsOK
  <2>3. ran' # <<>> BY <1>0, <2>1, <2>2
  <2> QED BY <2>3 DEF AnswerInv
<1>4. ASSUME Finish PROVE AnswerInv'
  BY <1>4 DEF Finish, AnswerInv
<1>5. ASSUME UNCHANGED <<busy, ran, snaps, matched>> PROVE AnswerInv'
  BY <1>5 DEF AnswerInv
<1>6. CASE Worker
  BY <1>6, <1>1, <1>2, <1>3, <1>4, <1>5 DEF Worker, SlashCommand, GuardFails, AskAgent, CallCap, Emit, EmitFails
<1>7. CASE Router BY <1>7, <1>5 DEF Router, AddRule, UpdateRule, DeleteRule, EditFails, worker
<1>8. CASE Tick \/ \E k \in Published : Publish(k) BY <1>8, <1>5 DEF Tick, Publish, worker
<1> QED BY <1>5, <1>6, <1>7, <1>8 DEF Next, vars, worker

LEMMA AnswerStep ==
  TypeOK /\ AnswerInv /\ [Next]_vars
    => [cur.kind \in {"wake", "message"} /\ cur' = None => ran' # <<>> \/ asked' > 0]_vars
<1> SUFFICES ASSUME TypeOK, AnswerInv, [Next]_vars, cur.kind \in {"wake", "message"}, cur' = None
             PROVE  ran' # <<>> \/ asked' > 0
  OBVIOUS
<1>0. matched \in Nat /\ asked \in Nat BY TypeParts DEF EventOK
<1>1. cur' # cur BY DEF None
<1>2. Finish \/ SlashCommand
  <2>1. CASE Worker
    <3>1. ~Receive
      BY <1>1 DEF Receive, None
    <3> QED BY <2>1, <3>1, <1>1 DEF Worker, Match, RunRule, GuardFails, AskAgent, CallCap, Emit, EmitFails
  <2>2. CASE Router BY <2>2, <1>1 DEF Router, AddRule, UpdateRule, DeleteRule, EditFails, worker
  <2>3. CASE Tick \/ \E k \in Published : Publish(k) BY <2>3, <1>1 DEF Tick, Publish, worker
  <2> QED BY <2>1, <2>2, <2>3, <1>1 DEF Next, vars, worker
<1>3. Finish BY <1>2 DEF SlashCommand
<1>4. CASE Unclaimed BY <1>0, <1>3, <1>4 DEF Finish
<1>5. CASE ~Unclaimed
  <2>1. matched > 0 BY <1>0, <1>5 DEF Unclaimed
  <2>2. busy /\ DOMAIN snaps = {} /\ ran' = ran BY <1>3 DEF Finish
  <2> QED BY <2>1, <2>2 DEF AnswerInv
<1> QED BY <1>4, <1>5

(* A message is answered when no allocation fails: when the worker is done *)
(* with it, a rule has run for it or the agent was asked.                  *)
THEOREM MessagesAreAnswered ==
  ASSUME ~NoMemory
  PROVE  Spec => MessageAnswered
<1>1. Init => TypeOK /\ AnswerInv
  <2>1. Init => AnswerInv BY DEF Init, AnswerInv
  <2> QED BY <2>1, InitType
<1>2. TypeOK /\ AnswerInv /\ [Next]_vars => TypeOK' /\ AnswerInv' BY NextType, NextAnswer
<1> QED BY <1>1, <1>2, AnswerStep, PTL DEF Spec, MessageAnswered

(***************************************************************************)
(* Before the clock wraps, a rule does not fire within its cooldown.       *)
(***************************************************************************)
CoolInv == \A i \in DOMAIN rules : rules[i].last = rules[i].fired /\ rules[i].fired <= time

(* The remainder of a number below the modulus, and of one just above it.  *)
LEMMA SmallRemainder ==
  ASSUME NEW m \in Nat \ {0}, NEW x \in 0..(m - 1)
  PROVE  x % m = x /\ (x + m) % m = x
OBVIOUS

LEMMA NextCool == MaxTime < ClockMod /\ TypeOK /\ CoolInv /\ [Next]_vars => CoolInv'
<1> SUFFICES ASSUME MaxTime < ClockMod, TypeOK, CoolInv, [Next]_vars PROVE CoolInv'
  OBVIOUS
<1>0. /\ TableOK /\ CountsOK /\ rules \in Seq(Slot) /\ DOMAIN rules = 1..Len(rules) /\ Len(rules) \in Nat
      /\ time \in 1..MaxTime
  BY TypeParts DEF TableOK, CountsOK
<1>1. ASSUME NEW r \in Templates, AddRule(r) \/ UpdateRule(r) PROVE CoolInv'
  <2>0. time' = time BY <1>1 DEF AddRule, UpdateRule
  <2>1. CASE rules' = Replaced(r)
    <3>1. Entry(r).last = 0 /\ Entry(r).fired = 0 BY <1>0, EntryType
    <3>2. /\ DOMAIN rules' = DOMAIN rules
          /\ \A i \in DOMAIN rules : rules'[i] = Entry(r) \/ rules'[i] = rules[i]
      BY <2>1, <1>0, ReplacedType
    <3>3. 0 <= time' BY <2>0, <1>0
    <3> QED BY <2>0, <3>1, <3>2, <3>3 DEF CoolInv
  <2>2. CASE rules' = Append(rules, Entry(r))
    <3>1. Entry(r) \in Slot /\ Entry(r).last = 0 /\ Entry(r).fired = 0 BY <1>0, EntryType
    <3>2. /\ DOMAIN rules' = 1..(Len(rules) + 1) /\ rules'[Len(rules) + 1] = Entry(r)
          /\ \A i \in DOMAIN rules : rules'[i] = rules[i]
      <4> HIDE DEF Slot
      <4> QED BY <3>1, <2>2, <1>0
    <3> QED BY <2>0, <3>1, <3>2, <1>0 DEF CoolInv
  <2>3. CASE rules' = rules BY <2>0, <2>3 DEF CoolInv
  <2> QED BY <1>1, <2>1, <2>2, <2>3 DEF Added, AddRule, UpdateRule
<1>2. ASSUME NEW id \in RuleIds, DeleteRule(id) PROVE CoolInv'
  <2>1. PICK i \in DOMAIN rules : rules' = RemoveAt(rules, i)
    BY <1>2 DEF DeleteRule, IndexOf
  <2> DEFINE up(k) == IF k < i THEN k ELSE k + 1
  <2>2. /\ DOMAIN rules' = 1..(Len(rules) - 1)
        /\ \A k \in 1..(Len(rules) - 1) : rules'[k] = rules[up(k)]
    BY <2>1, <1>0, RemoveAtElements
  <2>3. \A k \in 1..(Len(rules) - 1) : up(k) \in DOMAIN rules
    BY <1>0
  <2>4. time' = time BY <1>2 DEF DeleteRule
  <2> HIDE DEF up
  <2> QED BY <2>2, <2>3, <2>4 DEF CoolInv
<1>3. ASSUME Match PROVE CoolInv'
  <2>1. PICK failed :
          /\ DOMAIN rules' = DOMAIN rules
          /\ \A i \in DOMAIN rules :
               /\ i \in Firing(failed) => rules'[i].last = time % ClockMod /\ rules'[i].fired = time
               /\ i \notin Firing(failed) => rules'[i] = rules[i]
    BY <1>3, MatchTable
  <2>2. time % ClockMod = time BY <1>0, SmallRemainder
  <2>3. time' = time BY <1>3 DEF Match
  <2> QED BY <1>0, <2>1, <2>2, <2>3 DEF CoolInv
<1>4. ASSUME Tick PROVE CoolInv'
  <2>1. rules' = rules /\ time' = time + 1 BY <1>4 DEF Tick
  <2>2. \A i \in DOMAIN rules : rules[i].fired \in Int
    <3>1. \A i \in DOMAIN rules : rules[i] \in Slot BY <1>0
    <3> QED BY <3>1, <1>0 DEF Slot
  <2> QED BY <1>0, <2>1, <2>2 DEF CoolInv
<1>5. ASSUME rules' = rules, time' = time PROVE CoolInv' BY <1>5 DEF CoolInv
<1>6. CASE Worker
  BY <1>6, <1>3, <1>5
     DEF Worker, Receive, SlashCommand, RunRule, GuardFails, AskAgent, CallCap, Emit, EmitFails, Finish
<1>7. CASE Router BY <1>7, <1>1, <1>2, <1>5 DEF Router, EditFails
<1>8. CASE \E k \in Published : Publish(k) BY <1>8, <1>5 DEF Publish
<1> QED BY <1>4, <1>5, <1>6, <1>7, <1>8 DEF Next, vars

LEMMA CoolStep ==
  ASSUME MaxTime < ClockMod, TypeOK, CoolInv, Match, NEW i \in DOMAIN rules,
         rules'[i].fired # rules[i].fired, rules[i].fired # 0
  PROVE  time - rules[i].fired >= rules[i].rule.cooldown
<1>1. i \in Eligible
  BY MatchTable, TypeParts, FiringType
<1>2. rules[i] \in Slot /\ time \in 1..MaxTime
  BY TypeParts DEF TableOK, CountsOK
<1>3. /\ rules[i].fired \in 0..time /\ rules[i].last = rules[i].fired
      /\ rules[i].rule.cooldown \in Nat
  BY <1>2 DEF Slot, CoolInv
<1>4. ~Cooling(rules[i]) BY <1>1 DEF Eligible
<1>5. Since(rules[i]) = time - rules[i].fired
  <2>1. time % ClockMod = time BY <1>2, SmallRemainder
  <2>2. time + (ClockMod - rules[i].last) = (time - rules[i].fired) + ClockMod BY <1>2, <1>3
  <2>3. time - rules[i].fired \in 0..(ClockMod - 1) BY <1>2, <1>3
  <2> QED BY <2>1, <2>2, <2>3, SmallRemainder DEF Since
<1> QED BY <1>2, <1>3, <1>4, <1>5 DEF Cooling

(* As long as the 32-bit clock has not wrapped, a rule does not fire twice *)
(* within its cooldown, whatever is published, edited or cannot be copied. *)
THEOREM CooldownHolds ==
  ASSUME MaxTime < ClockMod
  PROVE  Spec => CooldownKept
<1>1. Init => TypeOK /\ CoolInv
  <2>1. Init => CoolInv BY DEF Init, CoolInv
  <2> QED BY <2>1, InitType
<1>2. TypeOK /\ CoolInv /\ [Next]_vars => TypeOK' /\ CoolInv' BY NextType, NextCool
<1>3. TypeOK /\ CoolInv /\ [Next]_vars
        => [Match => \A i \in DOMAIN rules :
              rules'[i].fired # rules[i].fired /\ rules[i].fired # 0 =>
                time - rules[i].fired >= rules[i].rule.cooldown]_vars
  BY CoolStep
<1> QED BY <1>1, <1>2, <1>3, PTL DEF Spec, CooldownKept

-----------------------------------------------------------------------------
USE RouterAssumption

(* Rules no two of which share an id; two sets with the same rules but for *)
(* some ids.                                                               *)
Unique(s)      == \A i, j \in DOMAIN s : s[i].id = s[j].id => i = j
Agree(S, T, U) == \A r \in Templates : r.id \notin U => (r \in S <=> r \in T)

(***************************************************************************)
(* What the calls do to the file's array and to the table.                 *)
(***************************************************************************)
LEMMA UniqueInjective ==
  ASSUME NEW s, Unique(s)
  PROVE  IsInjective(s)
BY DEF Unique, IsInjective

LEMMA WithoutRule ==
  ASSUME NEW s \in Seq(Templates), Unique(s), NEW id
  PROVE  /\ Without(s, id) \in Seq(Templates) /\ Unique(Without(s, id))
         /\ \A r : r \in Range(Without(s, id)) <=> r \in Range(s) /\ r.id # id
<1>1. CASE ~HasId(s, id)
  BY <1>1 DEF HasId, Without, Range
<1>2. CASE HasId(s, id)
  <2>1. PICK i \in DOMAIN s : s[i].id = id
    BY <1>2 DEF HasId
  <2>2. {k \in DOMAIN s : s[k].id = id} = {i}
    BY <2>1 DEF Unique
  <2>3. i \in Nat /\ DOMAIN s = 1..Len(s) /\ Len(s) \in Nat
    OBVIOUS
  <2>4. Min({i}) = i
    BY <2>3 DEF Min
  <2>5. Without(s, id) = RemoveAt(s, i)
    BY <1>2, <2>2, <2>4 DEF Without
  <2> DEFINE t == RemoveAt(s, i)
             up(k) == IF k < i THEN k ELSE k + 1
  <2>6. /\ t \in Seq(Templates) /\ DOMAIN t = 1..(Len(s) - 1)
        /\ \A k \in 1..(Len(s) - 1) : t[k] = s[up(k)]
    BY RemoveAtElements
  <2>7. Range(t) = Range(s) \ {s[i]}
    BY RemoveAtRange, UniqueInjective
  <2> HIDE DEF t
  <2>8. Unique(t)
    <3>1. \A k \in 1..(Len(s) - 1) : up(k) \in DOMAIN s
      BY <2>3
    <3>2. \A k, l \in 1..(Len(s) - 1) : up(k) = up(l) => k = l
      BY <2>3
    <3> HIDE DEF up
    <3> SUFFICES ASSUME NEW k \in 1..(Len(s) - 1), NEW l \in 1..(Len(s) - 1), t[k].id = t[l].id PROVE k = l
      BY <2>6 DEF Unique
    <3>3. s[up(k)].id = s[up(l)].id BY <2>6
    <3>4. up(k) = up(l) BY <3>1, <3>3 DEF Unique
    <3> QED BY <3>2, <3>4
  <2>9. ASSUME NEW r \in Range(s), r.id = id PROVE r = s[i]
    BY <2>9, <2>2 DEF Range
  <2> QED BY <2>1, <2>5, <2>6, <2>7, <2>8, <2>9 DEF t
<1> QED BY <1>1, <1>2

(* The array after the edit: the rule with the id is gone or is the new    *)
(* one.                                                                    *)
NewOK == \/ call.new = <<>>
         \/ \E r \in Templates : call.new = <<r>> /\ r.id = call.id

LEMMA EditedRules ==
  ASSUME NEW arr \in Seq(Templates), Unique(arr), NewOK
  PROVE  /\ Edited(arr) \in Seq(Templates) /\ Unique(Edited(arr))
         /\ \A r : r \in Range(Edited(arr)) <=> (r \in Range(arr) /\ r.id # call.id) \/ r \in Range(call.new)
<1> DEFINE t == Without(arr, call.id)
<1>1. t \in Seq(Templates) /\ Unique(t) /\ \A r : r \in Range(t) <=> r \in Range(arr) /\ r.id # call.id
  BY WithoutRule
<1> HIDE DEF t
<1>2. CASE call.new = <<>>
  <2>1. Edited(arr) = t BY <1>1, <1>2 DEF Edited, t
  <2>2. Range(call.new) = {} BY <1>2 DEF Range
  <2> QED BY <1>1, <2>1, <2>2
<1>3. ASSUME NEW r \in Templates, call.new = <<r>>, r.id = call.id
      PROVE  /\ Edited(arr) \in Seq(Templates) /\ Unique(Edited(arr))
             /\ \A q : q \in Range(Edited(arr)) <=> (q \in Range(arr) /\ q.id # call.id) \/ q \in Range(call.new)
  <2>1. Edited(arr) = Append(t, r)
    BY <1>1, <1>3 DEF Edited, t
  <2>2. Edited(arr) \in Seq(Templates) /\ Range(Edited(arr)) = Range(t) \cup {r}
    BY <2>1, <1>1, AppendRange
  <2>3. Range(call.new) = {r} BY <1>3 DEF Range
  <2>4. \A k \in DOMAIN t : t[k].id # r.id
    BY <1>1, <1>3 DEF Range
  <2>5. /\ DOMAIN Append(t, r) = 1..(Len(t) + 1) /\ DOMAIN t = 1..Len(t) /\ Len(t) \in Nat
        /\ Append(t, r)[Len(t) + 1] = r
        /\ \A k \in DOMAIN t : Append(t, r)[k] = t[k]
    BY <1>1
  <2>6. Unique(Append(t, r))
    BY SMTT(40), <2>4, <2>5, <1>1 DEF Unique
  <2> QED BY <2>1, <2>2, <2>3, <2>6, <1>1
<1> QED BY <1>2, <1>3 DEF NewOK

LEMMA LiveType ==
  ASSUME TableOK
  PROVE  Live \subseteq Templates
<1>1. \A i \in DOMAIN rules : rules[i] \in Slot BY DEF TableOK
<1> QED BY <1>1 DEF Live, Slot

(* A rule put into the table takes the place of the one with its id.       *)
LEMMA PutInTable ==
  ASSUME TableOK, CountsOK, RuleIdsUnique, NEW r \in Templates,
         rules' = Added(r) \/ (IndexOf(r.id) # {} /\ rules' = Replaced(r))
  PROVE  /\ TableOK' /\ RuleIdsUnique'
         /\ Accepts(r) => \A q : q \in Live' <=> (q \in Live /\ q.id # r.id) \/ q = r
         /\ ~Accepts(r) => rules' = rules
<1>0. rules \in Seq(Slot) /\ DOMAIN rules = 1..Len(rules) /\ Len(rules) \in Nat /\ Len(rules) <= MaxRules
  BY DEF TableOK
<1>1. CASE IndexOf(r.id) # {} /\ rules' = Replaced(r)
  <2>1. /\ rules' \in Seq(Slot) /\ Len(rules') = Len(rules) /\ DOMAIN rules' = DOMAIN rules
        /\ \A i \in DOMAIN rules : rules'[i] = IF rules[i].rule.id = r.id THEN Entry(r) ELSE rules[i]
    BY <1>1, ReplacedType
  <2>2. Entry(r).rule = r BY EntryType
  <2>3. TableOK' BY <2>1, <1>0 DEF TableOK, Slot
  <2>4. \A i \in DOMAIN rules : rules'[i].rule = IF rules[i].rule.id = r.id THEN r ELSE rules[i].rule
    BY <2>1, <2>2
  <2>5. RuleIdsUnique'
    <3>1. \A i \in DOMAIN rules : rules'[i].rule.id = rules[i].rule.id BY <2>4
    <3> QED BY <3>1, <2>1 DEF RuleIdsUnique
  <2>6. PICK k \in DOMAIN rules : rules[k].rule.id = r.id
    BY <1>1 DEF IndexOf
  <2>7. \A q : q \in Live' <=> (q \in Live /\ q.id # r.id) \/ q = r
    BY <2>1, <2>4, <2>6 DEF Live
  <2> QED BY <1>1, <2>3, <2>5, <2>7 DEF Accepts
<1>2. CASE IndexOf(r.id) = {} /\ Len(rules) < MaxRules /\ rules' = Append(rules, Entry(r))
  <2>1. \A i \in DOMAIN rules : rules[i].rule.id # r.id
    BY <1>2 DEF IndexOf
  <2>2. Entry(r) \in Slot /\ Entry(r).rule = r BY EntryType
  <2>3. /\ rules' \in Seq(Slot) /\ Len(rules') = Len(rules) + 1
        /\ DOMAIN rules' = 1..(Len(rules) + 1) /\ rules'[Len(rules) + 1] = Entry(r)
        /\ \A i \in DOMAIN rules : rules'[i] = rules[i]
    <3> HIDE DEF Slot
    <3> QED BY <1>0, <1>2, <2>2
  <2>4. TableOK'
    <3>0. MaxRules \in Nat OBVIOUS
    <3>1. Len(rules') <= MaxRules BY <3>0, <2>3, <1>0, <1>2
    <3> QED BY <3>1, <2>3 DEF TableOK, Slot
  <2>5. RuleIdsUnique' BY SMTT(40), <2>1, <2>2, <2>3, <1>0 DEF RuleIdsUnique
  <2>6. \A q : q \in Live' <=> (q \in Live /\ q.id # r.id) \/ q = r
    BY SMTT(40), <2>1, <2>2, <2>3, <1>0 DEF Live
  <2> QED BY <1>2, <2>4, <2>5, <2>6 DEF Accepts
<1>3. CASE IndexOf(r.id) = {} /\ ~(Len(rules) < MaxRules) /\ rules' = rules
  BY <1>3, <1>0 DEF TableOK, Slot, RuleIdsUnique, Accepts
<1> QED BY <1>1, <1>2, <1>3 DEF Added

LEMMA DeletedFromTable ==
  ASSUME TableOK, RuleIdsUnique, NEW id, DeleteRule(id)
  PROVE  \A q : q \in Live' <=> q \in Live /\ q.id # id
<1>0. rules \in Seq(Slot) /\ DOMAIN rules = 1..Len(rules) /\ Len(rules) \in Nat
  BY DEF TableOK
<1>1. PICK i \in DOMAIN rules : rules[i].rule.id = id /\ rules' = RemoveAt(rules, i)
  BY DEF DeleteRule, IndexOf
<1> DEFINE up(k) == IF k < i THEN k ELSE k + 1
<1>2. /\ DOMAIN rules' = 1..(Len(rules) - 1)
      /\ \A k \in 1..(Len(rules) - 1) : rules'[k] = rules[up(k)]
  BY <1>0, <1>1, RemoveAtElements
<1>3. \A k \in 1..(Len(rules) - 1) : up(k) \in DOMAIN rules /\ up(k) # i
  BY <1>0
<1>4. ASSUME NEW j \in DOMAIN rules, j # i PROVE \E k \in 1..(Len(rules) - 1) : up(k) = j
  <2>1. CASE j < i BY <2>1, <1>0
  <2>2. CASE j > i
    <3>1. j - 1 \in 1..(Len(rules) - 1) /\ up(j - 1) = j BY <2>2, <1>0
    <3> QED BY <3>1
  <2> QED BY <2>1, <2>2, <1>4, <1>0
<1> HIDE DEF up
<1>5. \A j \in DOMAIN rules : rules[j].rule.id # id <=> j # i
  BY <1>1 DEF RuleIdsUnique
<1>6. ASSUME NEW q \in Live' PROVE q \in Live /\ q.id # id
  <2>1. PICK k \in 1..(Len(rules) - 1) : q = rules'[k].rule BY <1>6, <1>2 DEF Live
  <2> QED BY <2>1, <1>2, <1>3, <1>5 DEF Live
<1>7. ASSUME NEW q \in Live, q.id # id PROVE q \in Live'
  <2>1. PICK j \in DOMAIN rules : q = rules[j].rule BY DEF Live
  <2>2. PICK k \in 1..(Len(rules) - 1) : up(k) = j BY <2>1, <1>4, <1>5, <1>7
  <2>3. q = rules'[k].rule BY <2>1, <2>2, <1>2
  <2> QED BY <2>3, <1>2 DEF Live
<1> QED BY <1>6, <1>7

(***************************************************************************)
(* The inductive invariant.  Outside a call the file and the table hold    *)
(* the same rules, but for the unsaved ids.  During a call the file holds  *)
(* those the table held before it; the table differs from them by the      *)
(* call's own rule, and so does the array the call is about to write.      *)
(* While a boot loads the file, the rest of the array makes up for what    *)
(* the table still lacks.                                                  *)
(***************************************************************************)
Phases  == {"idle", "load", "write", "rename", "direct", "fill", "reload", "boot"}
Writing == {"write", "rename", "direct", "fill"}

FileOK == /\ file \in Seq(Templates) \cup {Torn}
          /\ Readable \in Seq(Templates) /\ Unique(Readable)
Calls  == [at : Phases, id : RuleIds \cup {""}, new : Seq(Templates), arr : Seq(Templates), was : SUBSET Templates]
CallOK == /\ call \in Calls
          /\ Unique(call.arr) /\ NewOK
DiskOK == unsaved \subseteq RuleIds /\ boots \in 0..MaxBoots

(* The table is the one before the call but for the call's rule.           *)
EditedLive == \A r \in Templates : r \in Live <=> (r \in call.was /\ r.id # call.id) \/ r \in Range(call.new)

Persist ==
  /\ call.at = "idle" => Agree(OnFile, Live, unsaved)
  /\ call.at \in {"load"} \cup Writing => call.id \in RuleIds /\ EditedLive
  /\ call.at \in {"load", "write", "rename", "direct"} => Agree(OnFile, call.was, unsaved)
  /\ call.at \in Writing => Agree(Range(call.arr), Live, unsaved \ {call.id})
  /\ call.at \in {"reload", "boot"} => Range(call.arr) \subseteq OnFile
  /\ call.at = "reload" => Agree(OnFile, Live, unsaved)
  /\ call.at = "boot" => Agree(OnFile, Live \cup Range(call.arr), unsaved)

RouterInv == TypeOK /\ RuleIdsUnique /\ FileOK /\ CallOK /\ DiskOK /\ Persist

LEMMA CallType ==
  ASSUME NEW at \in Phases, NEW id \in RuleIds \cup {""}, NEW new \in Seq(Templates), NEW arr \in Seq(Templates),
         NEW was, was \subseteq Templates
  PROVE  [at |-> at, id |-> id, new |-> new, arr |-> arr, was |-> was] \in Calls
BY ZenonT(20) DEF Calls

LEMMA InvPersists == RouterInv => RulesPersist
<1> SUFFICES ASSUME RouterInv PROVE RulesPersist
  OBVIOUS
<1>1. OnFile = Range(Readable) /\ OnFile \subseteq Templates
  BY DEF RouterInv, FileOK, OnFile, Range
<1>2. Live \subseteq Templates /\ call.was \subseteq Templates
  BY LiveType, TypeParts DEF RouterInv, CallOK, Calls
<1>3. call.at \in Phases BY DEF RouterInv, CallOK, Calls
<1>4. CASE call.at \in {"idle", "reload"}
  <2>1. Agree(OnFile, Live, unsaved) BY <1>4 DEF RouterInv, Persist
  <2>2. Sure(OnFile) = Sure(Live) BY <2>1, <1>1, <1>2 DEF Agree, Sure
  <2> QED BY <2>2 DEF RulesPersist
<1>5. CASE call.at \in {"load", "write", "rename", "direct"}
  <2>1. Agree(OnFile, call.was, unsaved) BY <1>5 DEF RouterInv, Persist
  <2>2. Sure(OnFile) = Sure(call.was) BY <2>1, <1>1, <1>2 DEF Agree, Sure
  <2> QED BY <2>2, <1>5 DEF RulesPersist
<1>6. CASE call.at \in {"fill", "boot"} BY <1>6 DEF RulesPersist
<1> QED BY <1>3, <1>4, <1>5, <1>6 DEF Phases

LEMMA RouterInitInv == RouterInit => RouterInv
<1> SUFFICES ASSUME RouterInit PROVE RouterInv
  OBVIOUS
<1>1. TypeOK BY InitType DEF RouterInit
<1>2. RuleIdsUnique BY DEF RouterInit, Init, RuleIdsUnique
<1>3. file = <<>> /\ Readable = <<>> BY DEF RouterInit, Readable
<1>4. FileOK BY <1>3 DEF FileOK, Unique
<1>5. CallOK
  <2>1. call = Idle BY DEF RouterInit
  <2>2. Idle \in Calls BY DEF Idle, Phases, Calls
  <2>3. call.new = <<>> /\ call.arr = <<>> BY <2>1 DEF Idle
  <2>4. Unique(call.arr) /\ NewOK BY <2>3 DEF Unique, NewOK
  <2> HIDE DEF Idle
  <2> QED BY <2>1, <2>2, <2>4 DEF CallOK
<1>6. DiskOK BY DEF RouterInit, DiskOK
<1>7. OnFile = {} /\ Live = {} BY <1>3 DEF OnFile, Live, RouterInit, Init
<1>8. Persist BY <1>7 DEF RouterInit, Idle, Persist, Agree, Writing
<1> QED BY <1>1, <1>2, <1>4, <1>5, <1>6, <1>8 DEF RouterInv

-----------------------------------------------------------------------------
LEMMA InvFacts ==
  ASSUME RouterInv
  PROVE  /\ TableOK /\ CountsOK /\ RuleIdsUnique /\ FileOK /\ CallOK /\ DiskOK /\ Persist
         /\ OnFile = Range(Readable) /\ OnFile \subseteq Templates /\ Live \subseteq Templates
         /\ call.at \in Phases /\ call.new \in Seq(Templates) /\ call.arr \in Seq(Templates)
         /\ call.was \subseteq Templates /\ call.id \in RuleIds \cup {""}
         /\ \A r \in Templates : r.id \in RuleIds
<1>1. TableOK /\ CountsOK BY TypeParts DEF RouterInv
<1>2. OnFile = Range(Readable) /\ OnFile \subseteq Templates
  BY DEF RouterInv, FileOK, OnFile, Range
<1>3. Live \subseteq Templates BY <1>1, LiveType
<1>4. \A r \in Templates : r.id \in RuleIds BY DEF RuleIds
<1> QED BY <1>1, <1>2, <1>3, <1>4 DEF RouterInv, CallOK, Calls

(* Steps that leave the disk and the table alone keep their part.          *)
LEMMA DispatcherSteps ==
  ASSUME RouterInv, Dispatcher \/ UNCHANGED rvars
  PROVE  RouterInv'
<1>1. UNCHANGED <<file, call, unsaved, boots>> BY DEF Dispatcher, rvars
<1>2. [Next]_vars BY DEF Dispatcher, rvars, Next
<1>3. TypeOK' /\ RuleIdsUnique' BY <1>2, NextType, NextUnique DEF RouterInv
<1>4. Live' = Live
  <2>1. CASE rules' = rules BY <2>1 DEF Live
  <2>2. CASE Match
    <3>1. DOMAIN rules' = DOMAIN rules /\ \A i \in DOMAIN rules : rules'[i].rule = rules[i].rule
      BY <2>2, MatchTable DEF RouterInv
    <3> QED BY <3>1 DEF Live
  <2>3. CASE Worker
    BY <2>3, <2>1, <2>2
       DEF Worker, Receive, SlashCommand, RunRule, GuardFails, AskAgent, CallCap, Emit, EmitFails, Finish
  <2>4. CASE Tick \/ \E k \in Published : Publish(k) BY <2>4, <2>1 DEF Tick, Publish
  <2> QED BY <2>1, <2>3, <2>4 DEF Dispatcher, rvars, vars
<1>5. Readable' = Readable /\ OnFile' = OnFile BY <1>1 DEF Readable, OnFile
<1>6. FileOK' /\ CallOK' /\ DiskOK'
  BY <1>1, <1>5 DEF RouterInv, FileOK, CallOK, DiskOK, Unique, NewOK
<1>7. Persist' BY <1>1, <1>4, <1>5 DEF RouterInv, Persist, Agree, EditedLive
<1> QED BY <1>3, <1>6, <1>7 DEF RouterInv

(* A call begins: the table holds the call's rule instead of the old one.  *)
LEMMA CallBegins ==
  ASSUME RouterInv, TypeOK', RuleIdsUnique', call = Idle, UNCHANGED disk,
         NEW id \in RuleIds, NEW new \in Seq(Templates), call' = Call("load", id, new, <<>>), NewOK',
         \A r : r \in Live' <=> (r \in Live /\ r.id # id) \/ r \in Range(new)
  PROVE  RouterInv'
<1>0. call.at = "idle" BY DEF Idle
<1> DEFINE none == <<>>
<1>1. /\ call'.at = "load" /\ call'.id = id /\ call'.new = new /\ call'.arr = none /\ call'.was = Live
      /\ call' \in Calls
  <2>1. call' = [at |-> "load", id |-> id, new |-> new, arr |-> none, was |-> Live] BY DEF Call, Live
  <2>2. none \in Seq(Templates) OBVIOUS
  <2>3. Live \subseteq Templates BY InvFacts
  <2>4. "load" \in Phases BY DEF Phases
  <2> HIDE DEF Phases, none
  <2>5. /\ call'.at = "load" /\ call'.id = id /\ call'.new = new /\ call'.arr = none /\ call'.was = Live
    BY <2>1
  <2>6. id \in RuleIds \cup {""} OBVIOUS
  <2>7. [at |-> "load", id |-> id, new |-> new, arr |-> none, was |-> Live] \in Calls
    BY <2>2, <2>3, <2>4, <2>6, CallType
  <2> HIDE DEF Live
  <2> QED BY <2>1, <2>5, <2>7
<1>2. Readable' = Readable /\ OnFile' = OnFile /\ unsaved' = unsaved BY DEF Readable, OnFile, disk
<1>3. FileOK' /\ DiskOK' BY <1>2 DEF RouterInv, FileOK, DiskOK, Unique, disk
<1>4. CallOK'
  <2>1. Unique(none) BY DEF Unique
  <2>2. Unique(call.arr)' BY <1>1, <2>1 DEF Unique
  <2> QED BY <1>1, <2>2 DEF CallOK
<1>5. Persist'
  <2>1. EditedLive' /\ call'.id \in RuleIds BY <1>1 DEF EditedLive
  <2>2. Agree(OnFile, Live, unsaved) BY <1>0 DEF RouterInv, Persist
  <2>3. Agree(OnFile, call.was, unsaved)' BY <2>2, <1>1, <1>2 DEF Agree
  <2> QED BY <1>1, <2>1, <2>3 DEF Persist, Writing
<1> QED BY <1>3, <1>4, <1>5 DEF RouterInv

LEMMA PutStep ==
  ASSUME RouterInv, NEW r \in Templates, PutRule(r)
  PROVE  RouterInv'
<1>1. (AddRule(r) \/ UpdateRule(r)) /\ call = Idle /\ UNCHANGED disk BY DEF PutRule
<1>2. [Next]_vars BY <1>1 DEF Next, Router
<1>3. TypeOK' /\ RuleIdsUnique' BY <1>2, NextType, NextUnique DEF RouterInv
<1>4. rules' = Added(r) \/ (IndexOf(r.id) # {} /\ rules' = Replaced(r)) BY <1>1 DEF AddRule, UpdateRule
<1>5. /\ Accepts(r) => \A q : q \in Live' <=> (q \in Live /\ q.id # r.id) \/ q = r
      /\ ~Accepts(r) => rules' = rules
  BY <1>4, InvFacts, PutInTable
<1>6. CASE Accepts(r)
  <2>1. call' = Call("load", r.id, <<r>>, <<>>) BY <1>6 DEF PutRule
  <2>2. call'.new = <<r>> /\ call'.id = r.id BY <2>1 DEF Call
  <2>3. NewOK' BY <2>2 DEF NewOK
  <2> DEFINE new == <<r>>
  <2>4. new \in Seq(Templates) /\ Range(new) = {r} BY DEF Range
  <2>5. call' = Call("load", r.id, new, <<>>) /\ r.id \in RuleIds BY <2>1, InvFacts
  <2> HIDE DEF new
  <2>6. \A q : q \in Live' <=> (q \in Live /\ q.id # r.id) \/ q \in Range(new) BY <2>4, <1>5, <1>6
  <2> QED BY <1>1, <1>3, <2>3, <2>4, <2>5, <2>6, CallBegins
<1>7. CASE ~Accepts(r)
  <2>1. call' = call /\ rules' = rules BY <1>1, <1>5, <1>7 DEF PutRule
  <2>2. Live' = Live /\ Readable' = Readable /\ OnFile' = OnFile /\ unsaved' = unsaved
    BY <1>1, <2>1 DEF Live, Readable, OnFile, disk
  <2>3. FileOK' /\ CallOK' /\ DiskOK'
    BY <1>1, <2>1, <2>2 DEF RouterInv, FileOK, CallOK, DiskOK, Unique, NewOK, disk
  <2>4. Persist' BY <2>1, <2>2 DEF RouterInv, Persist, Agree, EditedLive
  <2> QED BY <1>3, <2>3, <2>4 DEF RouterInv
<1> QED BY <1>6, <1>7

LEMMA RemoveStep ==
  ASSUME RouterInv, NEW id \in RuleIds, RemoveRule(id)
  PROVE  RouterInv'
<1>1. call = Idle /\ UNCHANGED disk /\ call' = Call("load", id, <<>>, <<>>) BY DEF RemoveRule
<1>2. NewOK'
  <2>1. call'.new = <<>> BY <1>1 DEF Call
  <2> QED BY <2>1 DEF NewOK
<1> DEFINE new == <<>>
<1>3. new \in Seq(Templates) /\ Range(new) = {} /\ call' = Call("load", id, new, <<>>) BY <1>1 DEF Range
<1> HIDE DEF new
<1>4. CASE DeleteRule(id)
  <2>1. TypeOK' /\ RuleIdsUnique'
    <3>1. [Next]_vars BY <1>4 DEF Next, Router
    <3> QED BY <3>1, NextType, NextUnique DEF RouterInv
  <2>2. \A q : q \in Live' <=> q \in Live /\ q.id # id BY <1>4, InvFacts, DeletedFromTable
  <2>3. \A q : q \in Live' <=> (q \in Live /\ q.id # id) \/ q \in Range(new) BY <2>2, <1>3
  <2> QED BY <1>1, <1>2, <1>3, <2>1, <2>3, CallBegins
<1>5. CASE IndexOf(id) = {} /\ edits < MaxEdits /\ edits' = edits + 1 /\ UNCHANGED <<inbox, rules, worker, time, events>>
  <2>1. TableOK /\ InboxOK /\ ChainOK /\ SnapsOK /\ EventOK /\ CountsOK BY TypeParts DEF RouterInv
  <2>2. CountsOK' BY <2>1, <1>5 DEF CountsOK
  <2>3. TypeOK'
    <3>1. TableOK' /\ InboxOK' /\ ChainOK' /\ SnapsOK' BY <2>1, <1>5 DEF TableOK, Slot, InboxOK, ChainOK, SnapsOK, worker
    <3>2. EventOK' BY <2>1, <1>5 DEF EventOK, worker
    <3> QED BY <2>2, <3>1, <3>2 DEF TypeOK, TableOK, InboxOK, ChainOK, SnapsOK, EventOK, CountsOK, Slot
  <2>4. RuleIdsUnique' /\ Live' = Live BY <1>5 DEF RouterInv, RuleIdsUnique, Live
  <2>5. \A q \in Live : q.id # id BY <1>5 DEF IndexOf, Live
  <2>6. \A q : q \in Live' <=> (q \in Live /\ q.id # id) \/ q \in Range(new) BY <2>4, <2>5, <1>3
  <2> QED BY <1>1, <1>2, <1>3, <2>3, <2>4, <2>6, CallBegins
<1> QED BY <1>4, <1>5 DEF RemoveRule

(* The steps of a call after its edit of the table change the call and the *)
(* disk.                                                                   *)
LEMMA CallMoves ==
  ASSUME call \in Calls, NEW at \in Phases, NEW arr \in Seq(Templates)
  PROVE  /\ [call EXCEPT !.at = at] \in Calls
         /\ [call EXCEPT !.at = at] = [at |-> at, id |-> call.id, new |-> call.new, arr |-> call.arr, was |-> call.was]
         /\ [call EXCEPT !.at = at, !.arr = arr] \in Calls
         /\ [call EXCEPT !.at = at, !.arr = arr] = [at |-> at, id |-> call.id, new |-> call.new, arr |-> arr, was |-> call.was]
         /\ [call EXCEPT !.arr = arr] \in Calls
         /\ [call EXCEPT !.arr = arr] = [at |-> call.at, id |-> call.id, new |-> call.new, arr |-> arr, was |-> call.was]
<1> DEFINE move(a, s) == [at |-> a, id |-> call.id, new |-> call.new, arr |-> s, was |-> call.was]
<1>1. /\ call.at \in Phases /\ call.id \in RuleIds \cup {""} /\ call.new \in Seq(Templates)
      /\ call.arr \in Seq(Templates) /\ call.was \subseteq Templates
  BY DEF Calls
<1>2. move(at, call.arr) \in Calls /\ move(at, arr) \in Calls /\ move(call.at, arr) \in Calls
  BY <1>1, CallType
<1>0. call = move(call.at, call.arr) BY DEF Calls
<1>3. [call EXCEPT !.at = at] = move(at, call.arr) BY <1>0
<1>4. [call EXCEPT !.at = at, !.arr = arr] = move(at, arr)
  <2> DEFINE moved == [call EXCEPT !.at = at]
  <2>1. [call EXCEPT !.at = at, !.arr = arr] = [moved EXCEPT !.arr = arr] OBVIOUS
  <2>2. moved = move(at, call.arr) BY <1>3
  <2> HIDE DEF moved
  <2>3. [moved EXCEPT !.arr = arr] = move(at, arr) BY <2>2
  <2> QED BY <2>1, <2>3
<1>5. [call EXCEPT !.arr = arr] = move(call.at, arr) BY <1>0
<1> QED BY <1>2, <1>3, <1>4, <1>5

LEMMA TableStays ==
  ASSUME RouterInv, UNCHANGED vars
  PROVE  TypeOK' /\ RuleIdsUnique' /\ Live' = Live
<1>1. [Next]_vars OBVIOUS
<1>2. TypeOK' /\ RuleIdsUnique' BY <1>1, NextType, NextUnique DEF RouterInv
<1>3. rules' = rules BY DEF vars
<1> QED BY <1>2, <1>3 DEF Live

LEMMA IdleType == Idle \in Calls /\ Idle.at = "idle" /\ Idle.arr = <<>> /\ Idle.new = <<>>
BY DEF Idle, Calls, Phases

(* A call ends with the same rules on both sides, but for some ids.        *)
LEMMA CallEnds ==
  ASSUME RouterInv, UNCHANGED vars, call' = Idle, FileOK', DiskOK', Agree(OnFile', Live, unsaved')
  PROVE  RouterInv'
<1>1. TypeOK' /\ RuleIdsUnique' /\ Live' = Live BY TableStays
<1>2. CallOK'
  <2>1. call' \in Calls /\ call'.arr = <<>> /\ call'.new = <<>> BY IdleType
  <2>2. Unique(call.arr)' /\ NewOK' BY <2>1 DEF Unique, NewOK
  <2> QED BY <2>1, <2>2 DEF CallOK
<1>3. Persist'
  <2>1. call'.at = "idle" BY IdleType
  <2>2. Agree(OnFile, Live, unsaved)' BY <1>1 DEF Agree
  <2> QED BY <2>1, <2>2 DEF Persist, Writing
<1> QED BY <1>1, <1>2, <1>3 DEF RouterInv

LEMMA LoadFileStep ==
  ASSUME RouterInv, LoadFile
  PROVE  RouterInv'
<1>0. call.at = "load" /\ UNCHANGED vars /\ file' = file /\ boots' = boots BY DEF LoadFile
<1>1. PICK arr \in Reads :
        /\ call' = IF call.new = <<>> /\ ~HasId(arr, call.id) THEN Idle
                   ELSE [call EXCEPT !.at = "write", !.arr = Edited(arr)]
        /\ unsaved' = IF arr # Readable THEN RuleIds ELSE unsaved
  BY DEF LoadFile
<1>2. TypeOK' /\ RuleIdsUnique' /\ Live' = Live BY <1>0, TableStays
<1>3. Readable' = Readable /\ OnFile' = OnFile BY <1>0 DEF Readable, OnFile
<1>4. FileOK' /\ DiskOK'
  BY <1>0, <1>1, <1>3 DEF RouterInv, FileOK, DiskOK, Unique
<1>5. arr \in Seq(Templates) /\ Unique(arr)
  <2>1. CASE arr = Readable BY <2>1 DEF RouterInv, FileOK
  <2>2. CASE arr = <<>> BY <2>2 DEF Unique
  <2> QED BY <2>1, <2>2 DEF Reads
<1>6. EditedLive /\ Agree(OnFile, call.was, unsaved) BY <1>0, InvFacts DEF Persist
<1>7. Agree(OnFile, call.was, unsaved') BY <1>1, <1>6, InvFacts DEF Agree
<1>8. CASE call.new = <<>> /\ ~HasId(arr, call.id)
  <2>1. call' = Idle BY <1>1, <1>8
  <2>2. Agree(OnFile', Live, unsaved')
    <3>1. CASE arr = Readable
      <4>1. \A r \in OnFile : r.id # call.id BY <3>1, <1>8 DEF HasId, OnFile
      <4>2. Range(call.new) = {} BY <1>8 DEF Range
      <4>3. ASSUME NEW r \in Templates, r.id \notin unsaved PROVE r \in OnFile <=> r \in Live
        BY <4>1, <4>2, <4>3, <1>6 DEF Agree, EditedLive
      <4> QED BY <4>3, <1>1, <1>3, <3>1 DEF Agree
    <3>2. CASE arr # Readable BY <3>2, <1>1, InvFacts DEF Agree
    <3> QED BY <3>1, <3>2
  <2> QED BY <2>1, <2>2, <1>0, <1>4, CallEnds
<1>9. CASE ~(call.new = <<>> /\ ~HasId(arr, call.id))
  <2> DEFINE new == Edited(arr)
  <2>1. /\ new \in Seq(Templates) /\ Unique(new)
        /\ \A r : r \in Range(new) <=> (r \in Range(arr) /\ r.id # call.id) \/ r \in Range(call.new)
    BY <1>5, InvFacts, EditedRules DEF CallOK
  <2> HIDE DEF new
  <2>2. call' = [call EXCEPT !.at = "write", !.arr = new] BY <1>1, <1>9 DEF new
  <2>3. call \in Calls /\ "write" \in Phases BY InvFacts DEF CallOK, Phases
  <2>4. call' \in Calls /\ call' = [at |-> "write", id |-> call.id, new |-> call.new, arr |-> new, was |-> call.was]
    BY <2>1, <2>2, <2>3, CallMoves
  <2>5. call'.at = "write" /\ call'.id = call.id /\ call'.new = call.new /\ call'.arr = new /\ call'.was = call.was
    BY <2>4
  <2>6. CallOK' BY <2>1, <2>4, <2>5, InvFacts DEF CallOK, Unique, NewOK
  <2>7. Agree(Range(new), Live, unsaved' \ {call.id})
    <3> SUFFICES ASSUME NEW r \in Templates, r.id \notin unsaved' \ {call.id} PROVE r \in Range(new) <=> r \in Live
      BY DEF Agree
    <3>1. CASE r.id = call.id BY <3>1, <2>1, <1>6 DEF EditedLive
    <3>2. CASE r.id # call.id
      <4>1. r.id \notin unsaved' BY <3>2
      <4>2. arr = Readable BY <4>1, <1>1, InvFacts
      <4>3. r \in Range(arr) <=> r \in call.was BY <4>1, <4>2, <1>7, InvFacts DEF Agree
      <4> QED BY <4>3, <3>2, <2>1, <1>6 DEF EditedLive
    <3> QED BY <3>1, <3>2
  <2>8. Persist'
    <3>1. EditedLive' /\ call'.id \in RuleIds BY <1>0, <1>2, <1>6, <2>5, InvFacts DEF EditedLive, Persist
    <3>2. Agree(OnFile, call.was, unsaved)' BY <1>3, <1>7, <2>5 DEF Agree
    <3>3. Agree(Range(call.arr), Live, unsaved \ {call.id})' BY <1>2, <2>5, <2>7 DEF Agree
    <3> QED BY <2>5, <3>1, <3>2, <3>3 DEF Persist, Writing
  <2> QED BY <1>2, <1>4, <2>6, <2>8 DEF RouterInv
<1> QED BY <1>8, <1>9

(* Writing: the call moves on, replaces the file, or gives up.             *)
LEMMA SavedEnds ==
  ASSUME RouterInv, call.at \in Writing, UNCHANGED <<vars, boots>>, Saved
  PROVE  RouterInv'
<1>1. file' = call.arr /\ call' = Idle /\ unsaved' = unsaved \ {call.id} BY DEF Saved
<1>2. call.arr \in Seq(Templates) /\ Unique(call.arr) BY InvFacts DEF CallOK
<1>3. Readable' = call.arr BY <1>1, <1>2 DEF Readable
<1>4. OnFile' = Range(call.arr) BY <1>3 DEF OnFile, Range
<1>5. FileOK' BY <1>1, <1>2, <1>3 DEF FileOK, Unique
<1>6. DiskOK' BY <1>1, InvFacts DEF DiskOK
<1>7. Agree(OnFile', Live, unsaved') BY <1>1, <1>4, InvFacts DEF Persist
<1> QED BY <1>1, <1>5, <1>6, <1>7, CallEnds

LEMMA UnsavedEnds ==
  ASSUME RouterInv, call.at \in {"write", "direct"}, UNCHANGED <<vars, boots, file>>, Unsaved
  PROVE  RouterInv'
<1>1. file' = file /\ call' = Idle /\ unsaved' = unsaved \cup {call.id} BY DEF Unsaved
<1>2. Readable' = Readable /\ OnFile' = OnFile BY <1>1 DEF Readable, OnFile
<1>3. FileOK' BY <1>1, <1>2, InvFacts DEF FileOK, Unique
<1>4. EditedLive /\ Agree(OnFile, call.was, unsaved) BY InvFacts DEF Persist, Writing
<1>5. NewOK BY InvFacts DEF CallOK
<1>6. \A r \in Range(call.new) : r.id = call.id BY <1>5 DEF NewOK, Range
<1>7. DiskOK'
  <2>1. call.id \in RuleIds BY InvFacts DEF Persist, Writing
  <2> QED BY <2>1, <1>1, InvFacts DEF DiskOK
<1>8. Agree(OnFile', Live, unsaved') BY <1>1, <1>2, <1>4, <1>6 DEF Agree, EditedLive
<1> QED BY <1>1, <1>3, <1>7, <1>8, CallEnds

(* The next step of the write: from "direct" on the file may be torn.      *)
LEMMA WriteMoves ==
  ASSUME RouterInv, UNCHANGED <<vars, unsaved, boots>>, NEW at \in Writing, call' = [call EXCEPT !.at = at],
         call.at \in {"write", "rename", "direct"},
         file' = file \/ (file' = Torn /\ at = "fill")
  PROVE  RouterInv'
<1>1. TypeOK' /\ RuleIdsUnique' /\ Live' = Live BY TableStays
<1>2. at \in Phases /\ call \in Calls BY InvFacts DEF Writing, Phases, CallOK
<1>3. call' \in Calls /\ call' = [at |-> at, id |-> call.id, new |-> call.new, arr |-> call.arr, was |-> call.was]
  BY <1>2, InvFacts, CallMoves
<1>4. call'.at = at /\ call'.id = call.id /\ call'.new = call.new /\ call'.arr = call.arr /\ call'.was = call.was
  BY <1>3
<1>5. CallOK' BY <1>3, <1>4, InvFacts DEF CallOK, Unique, NewOK
<1>6. DiskOK' BY InvFacts DEF DiskOK
<1>7. EditedLive' /\ call'.id \in RuleIds
  BY <1>1, <1>4, InvFacts DEF Persist, Writing, EditedLive
<1>8. Agree(Range(call.arr), Live, unsaved \ {call.id})'
  BY <1>1, <1>4, InvFacts DEF Persist, Writing, Agree
<1>9. CASE file' = file
  <2>1. Readable' = Readable /\ OnFile' = OnFile BY <1>9 DEF Readable, OnFile
  <2>2. FileOK' BY <1>9, <2>1, InvFacts DEF FileOK, Unique
  <2>3. Agree(OnFile, call.was, unsaved)' BY <2>1, <1>4, InvFacts DEF Persist, Writing, Agree
  <2>4. Persist' BY <1>4, <1>7, <1>8, <2>3 DEF Persist, Writing
  <2> QED BY <1>1, <1>5, <1>6, <2>2, <2>4 DEF RouterInv
<1>10. CASE file' = Torn /\ at = "fill"
  <2>1. Readable' = <<>> BY <1>10 DEF Readable
  <2>2. FileOK' BY <1>10, <2>1 DEF FileOK, Unique
  <2>3. Persist' BY <1>4, <1>7, <1>8, <1>10 DEF Persist, Writing
  <2> QED BY <1>1, <1>5, <1>6, <2>2, <2>3 DEF RouterInv
<1> QED BY <1>9, <1>10

LEMMA WriteStep ==
  ASSUME RouterInv, WriteTmp \/ RenameTmp \/ OpenDirect \/ WriteDirect
  PROVE  RouterInv'
<1>1. CASE WriteTmp
  <2>1. UNCHANGED <<vars, file, boots>> /\ call.at = "write" BY <1>1 DEF WriteTmp
  <2>2. CASE call' = [call EXCEPT !.at = "rename"] /\ UNCHANGED unsaved
    <3>1. "rename" \in Writing BY DEF Writing
    <3> QED BY <2>1, <2>2, <3>1, WriteMoves
  <2>3. CASE Unsaved BY <2>1, <2>3, UnsavedEnds
  <2> QED BY <1>1, <2>2, <2>3 DEF WriteTmp
<1>2. CASE RenameTmp
  <2>1. UNCHANGED <<vars, boots>> /\ call.at = "rename" BY <1>2 DEF RenameTmp
  <2>2. CASE Saved BY <2>1, <2>2, SavedEnds DEF Writing
  <2>3. CASE call' = [call EXCEPT !.at = "direct"] /\ UNCHANGED <<file, unsaved>>
    <3>1. "direct" \in Writing BY DEF Writing
    <3> QED BY <2>1, <2>3, <3>1, WriteMoves
  <2> QED BY <1>2, <2>2, <2>3 DEF RenameTmp
<1>3. CASE OpenDirect
  <2>1. UNCHANGED <<vars, boots>> /\ call.at = "direct" BY <1>3 DEF OpenDirect
  <2>2. CASE file' = Torn /\ call' = [call EXCEPT !.at = "fill"] /\ UNCHANGED unsaved
    <3>1. "fill" \in Writing BY DEF Writing
    <3> QED BY <2>1, <2>2, <3>1, WriteMoves
  <2>3. CASE Unsaved /\ UNCHANGED file BY <2>1, <2>3, UnsavedEnds
  <2> QED BY <1>3, <2>2, <2>3 DEF OpenDirect
<1>4. CASE WriteDirect
  <2>1. UNCHANGED <<vars, boots>> /\ call.at \in Writing /\ Saved BY <1>4 DEF WriteDirect, Writing
  <2> QED BY <2>1, SavedEnds
<1> QED BY <1>1, <1>2, <1>3, <1>4

LEMMA PutFailsStep ==
  ASSUME RouterInv, PutFails
  PROVE  RouterInv'
<1>1. EditFails /\ UNCHANGED <<call, disk>> BY DEF PutFails
<1>2. [Next]_vars BY <1>1 DEF Next, Router
<1>3. TypeOK' /\ RuleIdsUnique' BY <1>2, NextType, NextUnique DEF RouterInv
<1>4. Live' = Live /\ Readable' = Readable /\ OnFile' = OnFile /\ call' = call /\ unsaved' = unsaved
  BY <1>1 DEF EditFails, Live, Readable, OnFile, disk
<1>5. FileOK' /\ CallOK' /\ DiskOK' BY <1>1, <1>4, InvFacts DEF FileOK, CallOK, DiskOK, Unique, NewOK, disk
<1>6. Persist' BY <1>4, InvFacts DEF Persist, Agree, EditedLive
<1> QED BY <1>3, <1>5, <1>6 DEF RouterInv

(* A reload or a boot begins with what it could read of the file.          *)
LEMMA ReadsType ==
  ASSUME FileOK, NEW arr \in Reads
  PROVE  arr \in Seq(Templates) /\ Unique(arr) /\ Range(arr) \subseteq OnFile /\ (arr # Readable => arr = <<>>)
<1>1. CASE arr = Readable BY <1>1 DEF FileOK, OnFile, Range
<1>2. CASE arr = <<>> BY <1>2 DEF Unique, Range
<1> QED BY <1>1, <1>2 DEF Reads

LEMMA ReloadStep ==
  ASSUME RouterInv, Reload
  PROVE  RouterInv'
<1>1. call = Idle /\ UNCHANGED <<vars, disk>> BY DEF Reload
<1>2. PICK arr \in Reads : call' = Call("reload", "", <<>>, arr) BY DEF Reload
<1>3. arr \in Seq(Templates) /\ Unique(arr) /\ Range(arr) \subseteq OnFile BY InvFacts, ReadsType
<1>4. TypeOK' /\ RuleIdsUnique' /\ Live' = Live BY <1>1, TableStays
<1>5. Readable' = Readable /\ OnFile' = OnFile /\ unsaved' = unsaved BY <1>1 DEF Readable, OnFile, disk
<1>6. FileOK' /\ DiskOK' BY <1>1, <1>5, InvFacts DEF FileOK, DiskOK, Unique, disk
<1> DEFINE none == <<>>
<1>7. call' = [at |-> "reload", id |-> "", new |-> none, arr |-> arr, was |-> Live] BY <1>2 DEF Call, Live
<1>8. none \in Seq(Templates) /\ "reload" \in Phases /\ "" \in RuleIds \cup {""} /\ Live \subseteq Templates
  <2>1. none \in Seq(Templates) OBVIOUS
  <2>2. Live \subseteq Templates BY InvFacts
  <2>3. "reload" \in Phases BY DEF Phases
  <2> QED BY <2>1, <2>2, <2>3
<1> HIDE DEF none, Live
<1>9. call' \in Calls BY <1>3, <1>7, <1>8, CallType
<1>10. call'.at = "reload" /\ call'.arr = arr /\ call'.new = <<>> BY <1>7 DEF none
<1>11. CallOK' BY <1>3, <1>9, <1>10 DEF CallOK, Unique, NewOK
<1>12. Agree(OnFile, Live, unsaved)' BY <1>1, <1>4, <1>5, IdleType, InvFacts DEF Persist, Agree
<1>13. Persist' BY <1>3, <1>5, <1>10, <1>12 DEF Persist, Writing
<1> QED BY <1>4, <1>6, <1>11, <1>13 DEF RouterInv

LEMMA PowerLossStep ==
  ASSUME RouterInv, PowerLoss
  PROVE  RouterInv'
<1>1. PICK arr \in Reads :
        /\ call' = [Idle EXCEPT !.at = "boot", !.arr = arr]
        /\ unsaved' = IF arr # Readable THEN RuleIds ELSE {}
  BY DEF PowerLoss
<1>2. arr \in Seq(Templates) /\ Unique(arr) /\ Range(arr) \subseteq OnFile /\ (arr # Readable => arr = <<>>)
  BY InvFacts, ReadsType
<1>3. /\ inbox' = <<>> /\ rules' = <<>> /\ cur' = None /\ busy' = FALSE /\ matched' = 0
      /\ snaps' = <<>> /\ acts' = <<>> /\ ran' = <<>> /\ asked' = 0 /\ time' = 1
      /\ events' = events /\ edits' = edits /\ file' = file /\ boots < MaxBoots /\ boots' = boots + 1
  BY DEF PowerLoss
<1>4. TypeOK'
  <2>1. TableOK' /\ InboxOK' /\ ChainOK' BY <1>3 DEF TableOK, InboxOK, ChainOK
  <2>2. SnapsOK' BY <1>3 DEF SnapsOK
  <2>3. EventOK'
    <3>1. busy' \in BOOLEAN BY <1>3
    <3>2. MaxRules \in Nat OBVIOUS
    <3> QED BY <1>3, <3>1, <3>2 DEF EventOK
  <2>4. CountsOK'
    <3>1. events \in 0..MaxEvents /\ edits \in 0..MaxEdits BY InvFacts DEF CountsOK
    <3>2. 1 \in 1..MaxTime OBVIOUS
    <3> QED BY <1>3, <3>1, <3>2 DEF CountsOK
  <2> QED BY <2>1, <2>2, <2>3, <2>4 DEF TypeOK, TableOK, InboxOK, ChainOK, SnapsOK, EventOK, CountsOK, Slot
<1>5. RuleIdsUnique' /\ Live' = {} BY <1>3 DEF RuleIdsUnique, Live
<1>6. Readable' = Readable /\ OnFile' = OnFile BY <1>3 DEF Readable, OnFile
<1>7. FileOK' BY <1>3, <1>6, InvFacts DEF FileOK, Unique
<1>8. DiskOK'
  <2>1. boots \in 0..MaxBoots BY InvFacts DEF DiskOK
  <2>2. boots' \in 0..MaxBoots BY <1>3, <2>1
  <2>3. unsaved' \subseteq RuleIds BY <1>1
  <2> QED BY <2>2, <2>3 DEF DiskOK
<1> DEFINE none == <<>>
<1>9. call' = [at |-> "boot", id |-> "", new |-> none, arr |-> arr, was |-> {}] BY <1>1 DEF Idle
<1>10. none \in Seq(Templates) OBVIOUS
<1>11. "boot" \in Phases BY DEF Phases
<1> HIDE DEF none
<1>12. call' \in Calls
  <2>1. "" \in RuleIds \cup {""} /\ {} \subseteq Templates OBVIOUS
  <2> QED BY <1>2, <1>9, <1>10, <1>11, <2>1, CallType
<1>13. call'.at = "boot" /\ call'.arr = arr /\ call'.new = <<>> BY <1>9 DEF none
<1>14. CallOK' BY <1>2, <1>12, <1>13 DEF CallOK, Unique, NewOK
<1>15. Agree(OnFile, Live \cup Range(call.arr), unsaved)'
  <2>1. CASE arr = Readable BY <2>1, <1>5, <1>6, <1>13, InvFacts DEF Agree
  <2>2. CASE arr # Readable BY <2>2, <1>1, InvFacts DEF Agree
  <2> QED BY <2>1, <2>2
<1>16. Persist' BY <1>2, <1>6, <1>13, <1>15 DEF Persist, Writing
<1> QED BY <1>4, <1>5, <1>7, <1>8, <1>14, <1>16 DEF RouterInv

LEMMA LoadNextStep ==
  ASSUME RouterInv, LoadNext
  PROVE  RouterInv'
<1>1. call.at \in {"boot", "reload"} /\ UNCHANGED <<inbox, worker, time, events, edits, file, boots>>
  BY DEF LoadNext
<1>2. Readable' = Readable /\ OnFile' = OnFile BY <1>1 DEF Readable, OnFile
<1>3. FileOK' BY <1>1, <1>2, InvFacts DEF FileOK, Unique
<1>4. Range(call.arr) \subseteq OnFile /\ Unique(call.arr) /\ call.arr \in Seq(Templates) /\ call \in Calls
  BY <1>1, InvFacts DEF Persist, CallOK
<1>5. CASE call.arr = <<>>
  <2>1. call' = Idle /\ UNCHANGED <<rules, unsaved>> BY <1>5 DEF LoadNext
  <2>2. UNCHANGED vars BY <1>1, <2>1 DEF vars
  <2>3. Range(call.arr) = {} BY <1>5 DEF Range
  <2>4. Agree(OnFile', Live, unsaved') BY <1>1, <1>2, <2>1, <2>3, InvFacts DEF Persist, Agree
  <2>5. DiskOK' BY <1>1, <2>1, InvFacts DEF DiskOK
  <2> QED BY <1>3, <2>1, <2>2, <2>4, <2>5, CallEnds
<1>6. CASE call.arr # <<>>
  <2> DEFINE r == Head(call.arr)
             rest == Tail(call.arr)
  <2>1. /\ rules' = Added(r) /\ call' = [call EXCEPT !.arr = rest]
        /\ unsaved' = IF Accepts(r) THEN unsaved \ {r.id} ELSE unsaved \cup {r.id}
    BY <1>6 DEF LoadNext
  <2>2. /\ r \in Templates /\ rest \in Seq(Templates) /\ r \in Range(call.arr)
        /\ Range(call.arr) = Range(rest) \cup {r}
    BY <1>4, <1>6, TailRange
  <2>3. Unique(rest)
    <3>1. Len(call.arr) \in Nat /\ DOMAIN call.arr = 1..Len(call.arr) /\ DOMAIN rest = 1..(Len(call.arr) - 1)
          /\ \A k \in DOMAIN rest : rest[k] = call.arr[k + 1]
      BY <1>4, <1>6
    <3> HIDE DEF rest
    <3> SUFFICES ASSUME NEW k \in DOMAIN rest, NEW l \in DOMAIN rest, rest[k].id = rest[l].id PROVE k = l
      BY DEF Unique
    <3>2. k + 1 \in DOMAIN call.arr /\ l + 1 \in DOMAIN call.arr BY SMTT(40), <3>1
    <3>3. call.arr[k + 1].id = call.arr[l + 1].id BY <3>1
    <3>4. k + 1 = l + 1 BY <3>2, <3>3, <1>4 DEF Unique
    <3> QED BY <3>1, <3>4
  <2> HIDE DEF r, rest
  <2>4. /\ TableOK' /\ RuleIdsUnique'
        /\ Accepts(r) => \A q : q \in Live' <=> (q \in Live /\ q.id # r.id) \/ q = r
        /\ ~Accepts(r) => rules' = rules
    BY <2>1, <2>2, InvFacts, PutInTable
  <2>5. TypeOK'
    <3>1. InboxOK /\ ChainOK /\ SnapsOK /\ EventOK /\ CountsOK BY TypeParts DEF RouterInv
    <3>2. InboxOK' /\ ChainOK' /\ SnapsOK' BY <1>1, <3>1 DEF InboxOK, ChainOK, SnapsOK, worker
    <3>3. EventOK' /\ CountsOK' BY <1>1, <3>1 DEF EventOK, CountsOK, worker
    <3> QED BY <2>4, <3>2, <3>3 DEF TypeOK, TableOK, InboxOK, ChainOK, SnapsOK, EventOK, CountsOK, Slot
  <2>6. r.id \in RuleIds BY <2>2, InvFacts
  <2>7. DiskOK' BY <1>1, <2>1, <2>6, InvFacts DEF DiskOK
  <2>8. call' \in Calls /\ call' = [at |-> call.at, id |-> call.id, new |-> call.new, arr |-> rest, was |-> call.was]
    BY <1>4, <2>1, <2>2, InvFacts, CallMoves
  <2>9. call'.at = call.at /\ call'.id = call.id /\ call'.new = call.new /\ call'.arr = rest BY <2>8
  <2>10. CallOK' BY <2>3, <2>8, <2>9, InvFacts DEF CallOK, Unique, NewOK
  <2>11. Range(rest) \subseteq OnFile' /\ r \in OnFile BY <1>2, <1>4, <2>2
  <2>12. \A q \in OnFile : q.id = r.id => q = r
    <3>1. Unique(Readable) BY InvFacts DEF FileOK
    <3> QED BY <3>1, <2>11 DEF Unique, OnFile
  <2>13. ASSUME call.at = "reload" PROVE Agree(OnFile', Live', unsaved')
    <3>1. Agree(OnFile, Live, unsaved) BY <2>13, InvFacts DEF Persist
    <3>2. CASE Accepts(r) BY <3>1, <3>2, <1>2, <2>1, <2>4, <2>11, <2>12 DEF Agree
    <3>3. CASE ~Accepts(r)
      <4>1. Live' = Live /\ unsaved' = unsaved \cup {r.id} BY <3>3, <2>1, <2>4 DEF Live
      <4> QED BY <4>1, <3>1, <1>2 DEF Agree
    <3> QED BY <3>2, <3>3
  <2>14. ASSUME call.at = "boot" PROVE Agree(OnFile', Live' \cup Range(rest), unsaved')
    <3>1. Agree(OnFile, Live \cup Range(call.arr), unsaved) BY <2>14, InvFacts DEF Persist
    <3>2. CASE Accepts(r) BY <3>1, <3>2, <1>2, <2>1, <2>2, <2>4, <2>11, <2>12 DEF Agree
    <3>3. CASE ~Accepts(r)
      <4>1. Live' = Live /\ unsaved' = unsaved \cup {r.id} BY <3>3, <2>1, <2>4 DEF Live
      <4> QED BY <4>1, <3>1, <1>2, <2>2 DEF Agree
    <3> QED BY <3>2, <3>3
  <2>15. Persist' BY <1>1, <2>9, <2>11, <2>13, <2>14 DEF Persist, Writing
  <2> QED BY <1>3, <2>4, <2>5, <2>7, <2>10, <2>15 DEF RouterInv
<1> QED BY <1>5, <1>6

LEMMA RouterNextInv == RouterInv /\ [RouterNext]_rvars => RouterInv'
<1> SUFFICES ASSUME RouterInv, [RouterNext]_rvars PROVE RouterInv'
  OBVIOUS
<1>1. CASE Dispatcher \/ UNCHANGED rvars BY <1>1, DispatcherSteps
<1>2. CASE RouterCalls
  BY <1>2, PutStep, RemoveStep, PutFailsStep, LoadFileStep, WriteStep, ReloadStep, LoadNextStep, PowerLossStep
     DEF RouterCalls
<1> QED BY <1>1, <1>2 DEF RouterNext

(* The state of the rule calls is well typed.                              *)
THEOREM RouterTypeCorrect == RouterSpec => []RouterTypeOK
<1>1. RouterInit => RouterInv BY RouterInitInv
<1>2. RouterInv /\ [RouterNext]_rvars => RouterInv' BY RouterNextInv
<1>3. RouterInv => RouterTypeOK
  BY InvFacts DEF RouterInv, FileOK, DiskOK, RouterTypeOK, Phases
<1> QED BY <1>1, <1>2, <1>3, PTL DEF RouterSpec

(* "takes effect immediately and is persisted": whatever fails and         *)
(* whenever power is lost, the file holds the rules of the running table   *)
(* or, during a call, those before it, but for the ids whose edit was not  *)
(* saved.                                                                  *)
THEOREM RulesAlwaysPersist == RouterSpec => []RulesPersist
<1>1. RouterInit => RouterInv BY RouterInitInv
<1>2. RouterInv /\ [RouterNext]_rvars => RouterInv' BY RouterNextInv
<1>3. RouterInv => RulesPersist BY InvPersists
<1> QED BY <1>1, <1>2, <1>3, PTL DEF RouterSpec
=============================================================================
