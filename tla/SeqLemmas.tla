----------------------------- MODULE SeqLemmas -----------------------------
(***************************************************************************)
(* What the sequence operators the models are built from do to the set of  *)
(* elements of a sequence without repetitions, and least numbers, on which *)
(* every induction of the proofs rests.                                    *)
(***************************************************************************)
EXTENDS SequencesExt, SequenceTheorems, WellFoundedInduction, TLAPS

(* An element of a sequence is in the set it ranges over.                  *)
LEMMA RangeType ==
  ASSUME NEW S, NEW s \in Seq(S)
  PROVE  /\ Range(s) \subseteq S
         /\ \A i \in 1..Len(s) : s[i] \in Range(s)
BY DEF Range

(* Appending (rtos_queue_send, recv_push_pending) adds one element, and     *)
(* keeps a sequence free of repetitions if that element is new.            *)
LEMMA AppendRange ==
  ASSUME NEW S, NEW s \in Seq(S), NEW e \in S
  PROVE  /\ Append(s, e) \in Seq(S)
         /\ Range(Append(s, e)) = Range(s) \cup {e}
         /\ IsInjective(s) /\ e \notin Range(s) => IsInjective(Append(s, e))
<1> DEFINE t == Append(s, e)
<1>1. t \in Seq(S) /\ Len(t) = Len(s) + 1 /\ DOMAIN t = 1..(Len(s) + 1) /\ DOMAIN s = 1..Len(s)
  OBVIOUS
<1>2. t[Len(s) + 1] = e /\ \A i \in 1..Len(s) : t[i] = s[i]
  OBVIOUS
<1>3. Range(t) = Range(s) \cup {e}
  <2>1. Range(t) \subseteq Range(s) \cup {e}
    BY <1>1, <1>2 DEF Range
  <2>2. Range(s) \cup {e} \subseteq Range(t)
    BY <1>1, <1>2 DEF Range
  <2> QED BY <2>1, <2>2
<1>4. ASSUME IsInjective(s), e \notin Range(s) PROVE IsInjective(t)
  <2> SUFFICES ASSUME NEW a \in DOMAIN t, NEW b \in DOMAIN t, t[a] = t[b] PROVE a = b
    BY DEF IsInjective
  <2>1. CASE a \in 1..Len(s) /\ b \in 1..Len(s)
    BY <2>1, <1>1, <1>2, <1>4 DEF IsInjective
  <2>2. CASE a = Len(s) + 1 \/ b = Len(s) + 1
    BY <2>2, <1>1, <1>2, <1>4 DEF Range
  <2> QED BY <2>1, <2>2, <1>1
<1> QED BY <1>1, <1>3, <1>4

(* Taking the head (rtos_queue_receive) removes exactly that element.      *)
LEMMA TailRange ==
  ASSUME NEW S, NEW s \in Seq(S), s # <<>>
  PROVE  /\ Head(s) \in Range(s) /\ Head(s) \in S
         /\ Tail(s) \in Seq(S) /\ Len(Tail(s)) = Len(s) - 1
         /\ Range(s) = Range(Tail(s)) \cup {Head(s)}
         /\ IsInjective(s) => IsInjective(Tail(s)) /\ Head(s) \notin Range(Tail(s))
<1> DEFINE t == Tail(s)
<1>1. /\ Len(s) \in Nat /\ Len(s) > 0 /\ Head(s) = s[1] /\ t \in Seq(S)
      /\ Len(t) = Len(s) - 1 /\ DOMAIN t = 1..(Len(s) - 1) /\ DOMAIN s = 1..Len(s)
      /\ \A i \in 1..(Len(s) - 1) : t[i] = s[i + 1]
  OBVIOUS
<1>2. Head(s) \in Range(s) /\ Head(s) \in S
  BY <1>1 DEF Range
<1>3. Range(s) = Range(t) \cup {Head(s)}
  <2>1. ASSUME NEW i \in DOMAIN s PROVE s[i] \in Range(t) \cup {Head(s)}
    <3>1. CASE i = 1 BY <3>1, <1>1
    <3>2. CASE i # 1
      <4>1. i - 1 \in DOMAIN t /\ t[i - 1] = s[i]
        BY <3>2, <1>1
      <4> QED BY <4>1 DEF Range
    <3> QED BY <3>1, <3>2
  <2>2. ASSUME NEW i \in DOMAIN t PROVE t[i] \in Range(s)
    <3>1. i + 1 \in DOMAIN s /\ s[i + 1] = t[i]
      BY <1>1
    <3> QED BY <3>1 DEF Range
  <2> QED BY <2>1, <2>2, <1>2 DEF Range
<1>4. ASSUME IsInjective(s) PROVE IsInjective(t) /\ Head(s) \notin Range(t)
  <2>1. IsInjective(t)
    BY <1>1, <1>4 DEF IsInjective
  <2>2. ASSUME NEW i \in DOMAIN t, t[i] = Head(s) PROVE FALSE
    <3>1. i + 1 \in DOMAIN s /\ 1 \in DOMAIN s /\ s[i + 1] = s[1] /\ i + 1 # 1
      BY <1>1, <2>2
    <3> QED BY <3>1, <1>4 DEF IsInjective
  <2> QED BY <2>1, <2>2 DEF Range
<1> QED BY <1>1, <1>2, <1>3, <1>4

(* Unlinking one node of a list closes the gap it leaves.                  *)
LEMMA RemoveAtElements ==
  ASSUME NEW S, NEW s \in Seq(S), NEW i \in DOMAIN s
  PROVE  LET t == RemoveAt(s, i)
         IN  /\ t \in Seq(S) /\ Len(t) = Len(s) - 1 /\ DOMAIN t = 1..(Len(s) - 1)
             /\ \A k \in 1..(Len(s) - 1) : t[k] = s[IF k < i THEN k ELSE k + 1]
<1> DEFINE t == RemoveAt(s, i)
           up(k) == IF k < i THEN k ELSE k + 1
<1>1. Len(s) \in Nat /\ DOMAIN s = 1..Len(s) /\ i \in 1..Len(s)
  OBVIOUS
<1>2. /\ t \in Seq(S) /\ Len(t) = Len(s) - 1 /\ DOMAIN t = 1..(Len(s) - 1)
      /\ \A k \in 1..(Len(s) - 1) : t[k] = s[up(k)]
  <2>1. \E l, r \in Seq(S) :
          /\ t = l \o r /\ Len(l) = i - 1 /\ Len(r) = Len(s) - i
          /\ \A k \in 1..(i - 1) : l[k] = s[k]
          /\ \A k \in 1..(Len(s) - i) : r[k] = s[k + i]
    <3> DEFINE l == SubSeq(s, 1, i - 1)
               r == SubSeq(s, i + 1, Len(s))
    <3>1. /\ l \in Seq(S) /\ Len(l) = i - 1
          /\ \A k \in 1..(i - 1) : l[k] = s[k]
      BY <1>1
    <3>2. /\ r \in Seq(S) /\ Len(r) = Len(s) - i
          /\ \A k \in 1..(Len(s) - i) : r[k] = s[k + i]
      BY <1>1
    <3>3. t = l \o r
      BY DEF RemoveAt
    <3> QED BY <3>1, <3>2, <3>3
  <2>2. PICK l \in Seq(S), r \in Seq(S) :
          /\ t = l \o r /\ Len(l) = i - 1 /\ Len(r) = Len(s) - i
          /\ \A k \in 1..(i - 1) : l[k] = s[k]
          /\ \A k \in 1..(Len(s) - i) : r[k] = s[k + i]
    BY <2>1
  <2> HIDE DEF t
  <2>3. /\ t \in Seq(S) /\ Len(t) = Len(l) + Len(r)
        /\ \A k \in 1..(Len(l) + Len(r)) : t[k] = IF k <= Len(l) THEN l[k] ELSE r[k - Len(l)]
    BY <2>2, ConcatProperties
  <2>4. t \in Seq(S) /\ Len(t) = Len(s) - 1
    BY <2>3, <2>2, <1>1
  <2>5. DOMAIN t = 1..(Len(s) - 1)
    BY <1>1, <2>4
  <2>6. ASSUME NEW k \in 1..(Len(s) - 1) PROVE t[k] = s[up(k)]
    <3>1. CASE k < i BY <3>1, <1>1, <2>2, <2>3
    <3>2. CASE k >= i
      <4>1. k - (i - 1) \in 1..(Len(s) - i) /\ (k - (i - 1)) + i = k + 1
        BY <3>2, <1>1
      <4>2. t[k] = r[k - (i - 1)]
        BY SMTT(40), <3>2, <1>1, <2>2, <2>3
      <4>3. r[k - (i - 1)] = s[(k - (i - 1)) + i]
        BY <4>1, <2>2
      <4> QED BY <4>1, <4>2, <4>3, <3>2, <1>1
    <3> QED BY <3>1, <3>2, <1>1
  <2> QED BY <2>4, <2>5, <2>6
<1> QED BY <1>2

(* Unlinking one node of a list (recv_pop_pending) removes exactly it.     *)
LEMMA RemoveAtRange ==
  ASSUME NEW S, NEW s \in Seq(S), NEW i \in DOMAIN s, IsInjective(s)
  PROVE  /\ RemoveAt(s, i) \in Seq(S)
         /\ Range(RemoveAt(s, i)) = Range(s) \ {s[i]}
         /\ IsInjective(RemoveAt(s, i))
<1> DEFINE t == RemoveAt(s, i)
           up(k) == IF k < i THEN k ELSE k + 1
<1>1. Len(s) \in Nat /\ DOMAIN s = 1..Len(s) /\ i \in 1..Len(s)
  OBVIOUS
<1>2. /\ t \in Seq(S) /\ Len(t) = Len(s) - 1 /\ DOMAIN t = 1..(Len(s) - 1)
      /\ \A k \in 1..(Len(s) - 1) : t[k] = s[up(k)]
  BY RemoveAtElements
<1>3. \A k \in DOMAIN t : up(k) \in DOMAIN s /\ up(k) # i
  BY <1>1, <1>2
<1>4. IsInjective(t)
  <2> SUFFICES ASSUME NEW a \in DOMAIN t, NEW b \in DOMAIN t, t[a] = t[b] PROVE a = b
    BY DEF IsInjective
  <2>1. up(a) = up(b)
    BY <1>2, <1>3 DEF IsInjective
  <2> QED BY <2>1, <1>2
<1>5. Range(t) \subseteq Range(s) \ {s[i]}
  BY <1>2, <1>3 DEF Range, IsInjective
<1>6. ASSUME NEW k \in DOMAIN s, k # i PROVE s[k] \in Range(t)
  <2>1. CASE k < i
    <3>1. k \in DOMAIN t /\ up(k) = k BY <2>1, <1>1, <1>2
    <3> QED BY <3>1, <1>2 DEF Range
  <2>2. CASE k > i
    <3>1. k - 1 \in DOMAIN t /\ up(k - 1) = k BY <2>2, <1>1, <1>2
    <3> QED BY <3>1, <1>2 DEF Range
  <2> QED BY <2>1, <2>2, <1>6, <1>1
<1>7. Range(s) \ {s[i]} \subseteq Range(t)
  BY <1>6 DEF Range
<1> QED BY <1>2, <1>4, <1>5, <1>7

(* Every nonempty set of natural numbers has a least element.              *)
LEMMA LeastNat ==
  ASSUME NEW S \in SUBSET Nat, S # {}
  PROVE  \E n \in S : \A m \in S : n <= m
<1> DEFINE Less == {ss \in Nat \X Nat : ss[1] < ss[2]}
<1>1. IsWellFoundedOn(Less, Nat)
  BY NatLessThanWellFounded DEF OpToRel
<1>2. \A x, y \in Nat : x < y => <<x, y>> \in Less
  OBVIOUS
<1> HIDE DEF Less
<1>3. \E n \in S : \A m \in S : <<m, n>> \notin Less
  BY <1>1, WFMin
<1>4. PICK n \in S : \A m \in S : <<m, n>> \notin Less
  BY <1>3
<1>5. ASSUME NEW m \in S PROVE n <= m
  <2>1. m \in Nat /\ n \in Nat /\ ~(m < n)
    BY <1>2, <1>4
  <2> QED BY <2>1
<1> QED BY <1>5

(* Induction: what the first step has and each step hands on, all have.    *)
LEMMA EachStep ==
  ASSUME NEW n \in Nat, NEW P, 0 \in P, \A k \in 1..n : k - 1 \in P => k \in P
  PROVE  \A k \in 0..n : k \in P
<1> SUFFICES ASSUME NEW k \in 0..n, k \notin P PROVE FALSE
  OBVIOUS
<1> DEFINE Missing == {j \in 0..n : j \notin P}
<1>1. Missing \in SUBSET Nat /\ Missing # {}
  OBVIOUS
<1>2. \A j \in 0..n : j \in Missing <=> j \notin P
  OBVIOUS
<1> HIDE DEF Missing
<1>3. PICK m \in Missing : \A j \in Missing : m <= j
  BY <1>1, LeastNat
<1>4. m \in 0..n
  BY <1>3 DEF Missing
<1>5. m \notin P
  BY <1>2, <1>3, <1>4
<1>6. m # 0
  BY <1>5
<1>7. m \in 1..n /\ m - 1 \in 0..n /\ ~(m <= m - 1)
  BY <1>4, <1>6
<1>8. m - 1 \in P
  BY <1>2, <1>3, <1>7
<1> QED BY <1>5, <1>7, <1>8

(* A function defined by recursion on 0..n exists.                         *)
Iterates(f, n, x, F) == f[0] = x /\ \A k \in 1..n : f[k] = F[<<f[k - 1], k>>]

LEMMA RecursiveFunction ==
  ASSUME NEW n \in Nat, NEW S, NEW x \in S, NEW F \in [S \X (1..n) -> S]
  PROVE  \E f \in [0..n -> S] : Iterates(f, n, x, F)
<1> DEFINE Upto(f, m) == f \in [0..m -> S] /\ f[0] = x /\ \A k \in 1..m : f[k] = F[<<f[k - 1], k>>]
           P == {m \in 0..n : \E f : Upto(f, m)}
<1>1. 0 \in P
  <2> DEFINE f0 == [k \in 0..0 |-> x]
  <2>1. Upto(f0, 0) /\ 0 \in 0..n
    OBVIOUS
  <2> HIDE DEF f0
  <2> QED BY <2>1
<1>2. ASSUME NEW m \in 1..n, m - 1 \in P PROVE m \in P
  <2>1. PICK f : Upto(f, m - 1)
    BY <1>2
  <2> DEFINE g == [k \in 0..m |-> IF k = m THEN F[<<f[m - 1], m>>] ELSE f[k]]
  <2>2. /\ m - 1 \in 0..(m - 1) /\ 0 \in 0..(m - 1) /\ 0 # m /\ m \in 0..m
        /\ \A k \in 0..m : k # m => k \in 0..(m - 1)
        /\ \A k \in 1..m : k # m => k \in 1..(m - 1) /\ k - 1 # m
        /\ \A k \in 1..m : k - 1 \in 0..m /\ k - 1 # m /\ k \in 0..m
    OBVIOUS
  <2>3. g \in [0..m -> S]
    <3>1. f[m - 1] \in S /\ F[<<f[m - 1], m>>] \in S
      BY <2>1, <2>2
    <3> QED BY <2>1, <2>2, <3>1
  <2>4. g[0] = x
    BY <2>1, <2>2
  <2>5. ASSUME NEW k \in 1..m PROVE g[k] = F[<<g[k - 1], k>>]
    <3>1. g[k - 1] = f[k - 1]
      BY <2>2
    <3>2. CASE k = m
      BY <2>2, <3>1, <3>2
    <3>3. CASE k # m
      <4>1. g[k] = f[k] /\ k \in 1..(m - 1)
        BY <2>2, <3>3
      <4> QED BY <2>1, <3>1, <4>1
    <3> QED BY <3>2, <3>3
  <2> HIDE DEF g
  <2>6. Upto(g, m)
    BY <2>3, <2>4, <2>5
  <2> QED BY <2>6
<1> HIDE DEF P
<1>3. n \in P
  BY <1>1, <1>2, EachStep
<1> QED BY <1>3 DEF P, Iterates

(* A part of a sequence, from after one position up to another.            *)
LEMMA PartOf ==
  ASSUME NEW S, NEW s \in Seq(S), NEW i \in Nat, NEW j \in i..Len(s)
  PROVE  /\ SubSeq(s, i + 1, j) \in Seq(S) /\ Len(SubSeq(s, i + 1, j)) = j - i
         /\ \A k \in 1..(j - i) : SubSeq(s, i + 1, j)[k] = s[i + k]
         /\ SubSeq(s, i + 1, j) = <<>> <=> i = j
<1>1. Len(s) \in Nat /\ \A k \in (i + 1)..j : s[k] \in S
  OBVIOUS
<1>2. /\ SubSeq(s, i + 1, j) \in Seq(S) /\ Len(SubSeq(s, i + 1, j)) = j - i
      /\ \A k \in 1..(j - i) : SubSeq(s, i + 1, j)[k] = s[i + k]
  BY <1>1, SubSeqProperties
<1> QED
  BY <1>2

(* Two sequences with the same elements are one.                           *)
LEMMA SameSeq ==
  ASSUME NEW S, NEW s \in Seq(S), NEW T, NEW t \in Seq(T), Len(s) = Len(t), \A k \in 1..Len(s) : s[k] = t[k]
  PROVE  s = t
<1>1. s \in Seq(S \cup T) /\ t \in Seq(S \cup T)
  BY SeqMonotonic
<1> QED
  BY <1>1, SeqEqual

(* The head and the tail of a part.                                        *)
LEMMA PartHead ==
  ASSUME NEW S, NEW s \in Seq(S), NEW i \in Nat, NEW j \in (i + 1)..Len(s)
  PROVE  Head(SubSeq(s, i + 1, j)) = s[i + 1] /\ Tail(SubSeq(s, i + 1, j)) = SubSeq(s, i + 2, j)
<1>1. Len(s) \in Nat /\ i + 1 \in 1..Len(s)
  OBVIOUS
<1>2. Tail(SubSeq(s, i + 1, j)) = SubSeq(s, (i + 1) + 1, j)
  BY <1>1, HeadTailOfSubSeq
<1> QED
  BY <1>1, <1>2, HeadTailOfSubSeq

(* A part of a part is a part.                                             *)
LEMMA PartOfPart ==
  ASSUME NEW S, NEW s \in Seq(S), NEW i \in Nat, NEW j \in i..Len(s), NEW k \in Nat, NEW l \in k..(j - i)
  PROVE  SubSeq(SubSeq(s, i + 1, j), k + 1, l) = SubSeq(s, i + k + 1, i + l)
<1> DEFINE t == SubSeq(s, i + 1, j)
           u == SubSeq(t, k + 1, l)
           v == SubSeq(s, (i + k) + 1, i + l)
<1>1. t \in Seq(S) /\ Len(t) = j - i /\ \A m \in 1..(j - i) : t[m] = s[i + m]
  BY PartOf
<1> HIDE DEF t
<1>2. u \in Seq(S) /\ Len(u) = l - k /\ \A m \in 1..(l - k) : u[m] = t[k + m]
  BY <1>1, PartOf
<1>3. v \in Seq(S) /\ Len(v) = l - k /\ \A m \in 1..(l - k) : v[m] = s[(i + k) + m]
  <2>1. i + k \in Nat /\ i + l \in (i + k)..Len(s) /\ (i + l) - (i + k) = l - k
    OBVIOUS
  <2> QED
    BY <2>1, PartOf
<1> HIDE DEF u, v
<1>4. ASSUME NEW m \in 1..(l - k) PROVE u[m] = v[m]
  <2>1. u[m] = t[k + m] /\ v[m] = s[(i + k) + m]
    BY <1>2, <1>3
  <2>2. k + m \in 1..(j - i) /\ i + (k + m) = (i + k) + m
    OBVIOUS
  <2> QED
    BY <2>1, <2>2, <1>1
<1>5. u = v
  BY <1>2, <1>3, <1>4, SameSeq
<1> QED
  BY <1>5 DEF u, v, t

(* Equal stretches of two sequences: n elements after the positions i, m.  *)
Alike(s, i, t, m, n) ==
  i + n <= Len(s) /\ m + n <= Len(t) /\ \A k \in 1..n : s[i + k] = t[m + k]

(* Such stretches are equal sequences.                                     *)
LEMMA PartsEqual ==
  ASSUME NEW S, NEW s \in Seq(S), NEW T, NEW t \in Seq(T), NEW i \in Nat, NEW m \in Nat, NEW n \in Nat,
         Alike(s, i, t, m, n)
  PROVE  SubSeq(s, i + 1, i + n) = SubSeq(t, m + 1, m + n)
<1> DEFINE u == SubSeq(s, i + 1, i + n)
           v == SubSeq(t, m + 1, m + n)
<1>0. i + n <= Len(s) /\ m + n <= Len(t) /\ \A k \in 1..n : s[i + k] = t[m + k]
  BY DEF Alike
<1>1. i + n \in i..Len(s) /\ m + n \in m..Len(t) /\ (i + n) - i = n /\ (m + n) - m = n
  BY <1>0
<1>2. u \in Seq(S) /\ Len(u) = n /\ \A k \in 1..n : u[k] = s[i + k]
  BY <1>1, PartOf
<1>3. v \in Seq(T) /\ Len(v) = n /\ \A k \in 1..n : v[k] = t[m + k]
  BY <1>1, PartOf
<1> HIDE DEF u, v
<1>4. \A k \in 1..n : u[k] = v[k]
  BY <1>0, <1>2, <1>3
<1>5. u = v
  BY <1>2, <1>3, <1>4, SameSeq
<1> QED
  BY <1>5 DEF u, v

(* Repeating a step.                                                       *)
Iterated(f, n, x, F) == f[0] = x /\ \A k \in 1..n : f[k] = F[f[k - 1]]

(* A step can be repeated any number of times.                             *)
LEMMA Repeating ==
  ASSUME NEW n \in Nat, NEW S, NEW x \in S, NEW F \in [S -> S]
  PROVE  \E f \in [0..n -> S] : Iterated(f, n, x, F)
<1> DEFINE G == [p \in S \X (1..n) |-> F[p[1]]]
<1>1. G \in [S \X (1..n) -> S]
  OBVIOUS
<1>2. \A y \in S, k \in 1..n : G[<<y, k>>] = F[y]
  OBVIOUS
<1> HIDE DEF G
<1>3. PICK f \in [0..n -> S] : Iterates(f, n, x, G)
  BY <1>1, RecursiveFunction
<1>4. \A k \in 1..n : k - 1 \in 0..n /\ f[k - 1] \in S
  BY <1>3
<1>5. Iterated(f, n, x, F)
  BY <1>2, <1>3, <1>4 DEF Iterates, Iterated
<1> QED
  BY <1>5

(* Where the parts of a concatenation end: the k-th at b[k].               *)
PartPlaces(s, q, n, b) ==
  /\ b[0] = 0 /\ Len(s) = b[n]
  /\ \A k \in 1..n : /\ b[k] = b[k - 1] + Len(q[k]) /\ b[k] <= b[n]
                     /\ \A j \in 1..Len(q[k]) : s[b[k - 1] + j] = q[k][j]

(* A concatenation has such places.                                        *)
LEMMA Flattened ==
  ASSUME NEW S, NEW n \in Nat, NEW q \in [1..n -> Seq(S)]
  PROVE  FlattenSeq(q) \in Seq(S) /\ \E b \in [0..n -> Nat] : PartPlaces(FlattenSeq(q), q, n, b)
<1> DEFINE F == [p \in Seq(S) \X (1..n) |-> p[1] \o q[p[2]]]
<1>1. <<>> \in Seq(S) /\ F \in [Seq(S) \X (1..n) -> Seq(S)]
  <2>1. \A p \in Seq(S) \X (1..n) : p[1] \o q[p[2]] \in Seq(S)
    BY ConcatProperties
  <2> QED
    BY <2>1
<1>2. \A y \in Seq(S), k \in 1..n : F[<<y, k>>] = y \o q[k]
  OBVIOUS
<1> HIDE DEF F
<1>3. PICK f \in [0..n -> Seq(S)] : Iterates(f, n, <<>>, F)
  BY <1>1, RecursiveFunction
<1>4. f[0] = <<>> /\ \A k \in 1..n : k - 1 \in 0..n /\ k \in 0..n /\ f[k] = f[k - 1] \o q[k]
  <2>1. \A k \in 1..n : k - 1 \in 0..n /\ k \in 0..n /\ f[k - 1] \in Seq(S)
    BY <1>3
  <2> QED
    BY <1>2, <1>3, <2>1 DEF Iterates
<1> DEFINE b == [k \in 0..n |-> Len(f[k])]
<1>5. b \in [0..n -> Nat] /\ b[0] = 0 /\ \A k \in 0..n : b[k] = Len(f[k])
  BY <1>3, <1>4
<1> HIDE DEF b
<1>6. ASSUME NEW k \in 1..n
      PROVE  /\ b[k] = b[k - 1] + Len(q[k])
             /\ \A i \in 1..b[k - 1] : f[k][i] = f[k - 1][i]
             /\ \A j \in 1..Len(q[k]) : f[k][b[k - 1] + j] = q[k][j]
  <2>1. f[k - 1] \in Seq(S) /\ q[k] \in Seq(S) /\ f[k] = f[k - 1] \o q[k] /\ b[k] = Len(f[k]) /\ b[k - 1] = Len(f[k - 1])
    BY <1>3, <1>4, <1>5
  <2> QED
    BY <2>1, ConcatProperties
<1>7. ASSUME NEW k \in 0..n PROVE b[k] <= b[n] /\ \A i \in 1..b[k] : f[n][i] = f[k][i]
  <2> DEFINE P == {m \in 0..n : m >= k => b[k] <= b[m] /\ \A i \in 1..b[k] : f[m][i] = f[k][i]}
  <2>1. 0 \in P
    BY <1>5
  <2>2. ASSUME NEW m \in 1..n, m - 1 \in P PROVE m \in P
    <3>1. CASE m < k
      BY <3>1
    <3>2. CASE m = k
      BY <3>2, <1>5
    <3>3. CASE m > k
      <4>1. m - 1 >= k /\ m - 1 \in 0..n
        BY <3>3
      <4>2. b[k] <= b[m - 1] /\ \A i \in 1..b[k] : f[m - 1][i] = f[k][i]
        BY <2>2, <4>1
      <4>3. b[k] \in Nat /\ b[m - 1] \in Nat /\ Len(q[m]) \in Nat
        <5>1. q[m] \in Seq(S)
          OBVIOUS
        <5>2. Len(q[m]) \in Nat
          BY <5>1, LenProperties
        <5>3. b[k] \in Nat /\ b[m - 1] \in Nat
          BY <1>5, <4>1
        <5> QED
          BY <5>2, <5>3
      <4>4. b[m] = b[m - 1] + Len(q[m]) /\ \A i \in 1..b[m - 1] : f[m][i] = f[m - 1][i]
        BY <1>6
      <4> QED
        BY <4>2, <4>3, <4>4
    <3> QED
      BY <3>1, <3>2, <3>3
  <2> HIDE DEF P
  <2>3. n \in P
    <3>1. \A m \in 0..n : m \in P
      BY <2>1, <2>2, EachStep
    <3> QED
      BY <3>1
  <2> QED
    BY <2>3 DEF P
<1>8. FlattenSeq(q) = f[n]
  <2>1. CASE n = 0
    <3>1. q = <<>> /\ f[n] = <<>> /\ Len(q) = 0
      BY <1>4, <2>1
    <3> QED
      BY <3>1 DEF FlattenSeq
  <2>2. CASE n # 0
    <3> DEFINE Step(g, i) == IF i = 1 THEN q[i] ELSE g[i - 1] \o q[i]
               g0 == [i \in 1..n |-> f[i]]
               t == CHOOSE g : g = [i \in 1..n |-> Step(g, i)]
    <3>1. g0 = [i \in 1..n |-> Step(g0, i)]
      <4>1. ASSUME NEW i \in 1..n PROVE g0[i] = Step(g0, i)
        <5>1. g0[i] = f[i - 1] \o q[i] /\ q[i] \in Seq(S)
          BY <1>4
        <5>2. CASE i = 1
          <6>1. f[i - 1] = <<>>
            BY <5>2, <1>4
          <6> QED
            BY <5>1, <5>2, <6>1, ConcatEmptySeq
        <5>3. CASE i # 1
          <6>1. i - 1 \in 1..n /\ g0[i - 1] = f[i - 1]
            BY <5>3
          <6> QED
            BY <5>1, <5>3, <6>1
        <5> QED
          BY <5>2, <5>3
      <4> QED
        BY <4>1
    <3>2. t = [i \in 1..n |-> Step(t, i)]
      BY <3>1
    <3>3. Len(q) = n
      OBVIOUS
    <3>4. FlattenSeq(q) = t[n]
      BY <2>2, <3>3 DEF FlattenSeq
    <3> HIDE DEF t, g0
    <3>5. \A i \in 1..n : t[i] = IF i = 1 THEN q[i] ELSE t[i - 1] \o q[i]
      BY <3>2
    <3> DEFINE P == {m \in 0..n : m # 0 => t[m] = f[m]}
    <3>6. 0 \in P
      OBVIOUS
    <3>7. ASSUME NEW m \in 1..n, m - 1 \in P PROVE m \in P
      <4>1. f[m] = f[m - 1] \o q[m] /\ q[m] \in Seq(S)
        BY <1>4
      <4>2. CASE m = 1
        <5>1. f[m - 1] = <<>> /\ t[m] = q[m]
          <6>1. t[m] = q[m]
            BY <4>2, <3>5
          <6> QED
            BY <4>2, <6>1, <1>4
        <5> QED
          BY <4>1, <5>1, ConcatEmptySeq
      <4>3. CASE m # 1
        <5>1. t[m - 1] = f[m - 1]
          BY <4>3, <3>7
        <5>2. t[m] = t[m - 1] \o q[m]
          BY <4>3, <3>5
        <5>3. t[m] = f[m]
          BY <4>1, <5>1, <5>2, Zenon
        <5> QED
          BY <5>3
      <4> QED
        BY <4>2, <4>3
    <3> HIDE DEF P
    <3>8. n \in P
      <4>1. \A m \in 0..n : m \in P
        BY <3>6, <3>7, EachStep
      <4> QED
        BY <4>1
    <3> QED
      BY <2>2, <3>4, <3>8 DEF P
  <2> QED
    BY <2>1, <2>2
<1>9. ASSUME NEW k \in 1..n
      PROVE  /\ b[k] = b[k - 1] + Len(q[k]) /\ b[k] <= b[n]
             /\ \A j \in 1..Len(q[k]) : f[n][b[k - 1] + j] = q[k][j]
  <2>1. b[k] = b[k - 1] + Len(q[k]) /\ \A j \in 1..Len(q[k]) : f[k][b[k - 1] + j] = q[k][j]
    BY <1>6
  <2>2. k \in 0..n /\ b[k] <= b[n] /\ \A i \in 1..b[k] : f[n][i] = f[k][i]
    BY <1>7
  <2>3. b[k - 1] \in Nat /\ Len(q[k]) \in Nat
    <3>1. q[k] \in Seq(S) /\ k - 1 \in 0..n
      OBVIOUS
    <3>2. Len(q[k]) \in Nat
      BY <3>1, LenProperties
    <3>3. b[k - 1] \in Nat
      BY <1>5, <3>1
    <3> QED
      BY <3>2, <3>3
  <2>4. ASSUME NEW j \in 1..Len(q[k]) PROVE f[n][b[k - 1] + j] = q[k][j]
    <3>1. b[k - 1] + j \in 1..b[k]
      BY <2>1, <2>3
    <3> QED
      BY <2>1, <2>2, <3>1
  <2> QED
    BY <2>1, <2>2, <2>4
<1>10. f[n] \in Seq(S) /\ Len(f[n]) = b[n]
  BY <1>3, <1>5
<1>11. PartPlaces(f[n], q, n, b)
  BY <1>5, <1>9, <1>10 DEF PartPlaces
<1> QED
  BY <1>5, <1>8, <1>10, <1>11

(* Where the elements of a concatenation are.                              *)
LEMMA Joined ==
  ASSUME NEW S, NEW s \in Seq(S), NEW t \in Seq(S)
  PROVE  /\ s \o t \in Seq(S) /\ Len(s \o t) = Len(s) + Len(t)
         /\ \A i \in 1..Len(s) : (s \o t)[i] = s[i]
         /\ \A j \in 1..Len(t) : (s \o t)[Len(s) + j] = t[j]
<1>1. /\ s \o t \in Seq(S) /\ Len(s \o t) = Len(s) + Len(t)
      /\ \A i \in 1..(Len(s) + Len(t)) : (s \o t)[i] = IF i <= Len(s) THEN s[i] ELSE t[i - Len(s)]
  BY ConcatProperties
<1>2. Len(s) \in Nat /\ Len(t) \in Nat
  OBVIOUS
<1>3. ASSUME NEW j \in 1..Len(t) PROVE (s \o t)[Len(s) + j] = t[j]
  <2>1. Len(s) + j \in 1..(Len(s) + Len(t)) /\ ~(Len(s) + j <= Len(s)) /\ (Len(s) + j) - Len(s) = j
    BY <1>2
  <2> QED
    BY <1>1, <2>1
<1> QED
  BY <1>1, <1>2, <1>3

(* Each step makes less of W, or has it at its end.                        *)
Shrinks(S, F, W) == \A p \in S : W[F[p]] < W[p] \/ W[F[p]] = 0

(* Repeating a step that gets nearer to the end each time comes to it.     *)
LEMMA StepsEnd ==
  ASSUME NEW n \in Nat, NEW S, NEW x \in S, NEW F \in [S -> S], NEW W \in [S -> Nat],
         W[x] <= n, Shrinks(S, F, W)
  PROVE  \E f \in [0..n -> S] : Iterated(f, n, x, F) /\ W[f[n]] = 0
<1>1. PICK f \in [0..n -> S] : Iterated(f, n, x, F)
  BY Repeating
<1> DEFINE P == {k \in 0..n : W[f[k]] <= n - k}
<1>2. 0 \in P
  BY <1>1 DEF Iterated
<1>3. ASSUME NEW k \in 1..n, k - 1 \in P PROVE k \in P
  <2>1. k - 1 \in 0..n /\ f[k - 1] \in S /\ W[f[k - 1]] <= n - (k - 1)
    BY <1>3
  <2>2. f[k] = F[f[k - 1]] /\ W[f[k - 1]] \in Nat /\ W[f[k]] \in Nat
    BY <1>1, <2>1 DEF Iterated
  <2>3. W[f[k]] < W[f[k - 1]] \/ W[f[k]] = 0
    BY <2>1, <2>2 DEF Shrinks
  <2> QED
    BY <2>1, <2>2, <2>3
<1>4. n \in P
  <2> HIDE DEF P
  <2>1. \A k \in 0..n : k \in P
    BY <1>2, <1>3, EachStep
  <2> QED
    BY <2>1
<1>5. W[f[n]] = 0
  <2>1. f[n] \in S /\ W[f[n]] \in Nat
    BY <1>1
  <2> QED
    BY <1>4, <2>1
<1> QED
  BY <1>1, <1>5

(* A step repeated twice from the same start has the same results.         *)
Follows(t, n, S, x, F) == t[0] = x /\ \A k \in 1..n : t[k - 1] \in S => t[k] = F[t[k - 1]]

LEMMA StepsAgree ==
  ASSUME NEW n \in Nat, NEW S, NEW x \in S, NEW F \in [S -> S],
         NEW f \in [0..n -> S], Iterated(f, n, x, F),
         NEW t, Follows(t, n, S, x, F)
  PROVE  t[n] = f[n]
<1> DEFINE P == {k \in 0..n : t[k] = f[k]}
<1>1. 0 \in P
  BY DEF Iterated, Follows
<1>2. ASSUME NEW k \in 1..n, k - 1 \in P PROVE k \in P
  <2>1. k \in 0..n /\ k - 1 \in 0..n /\ t[k - 1] = f[k - 1] /\ f[k - 1] \in S
    BY <1>2
  <2>2. f[k] = F[f[k - 1]] /\ t[k] = F[t[k - 1]]
    BY <2>1 DEF Iterated, Follows
  <2> QED
    BY <2>1, <2>2
<1> HIDE DEF P
<1>3. \A k \in 0..n : k \in P
  BY <1>1, <1>2, EachStep
<1>4. n \in P
  BY <1>3
<1> QED
  BY <1>4 DEF P
=============================================================================
