---------------------------- MODULE CaddyEdgeProofs ----------------------------
(***************************************************************************)
(* Proofs about module CaddyEdge, for every set of hosts and every routes  *)
(* an operator and other clients of the admin API may have put on the edge.*)
(***************************************************************************)
EXTENDS CaddyEdge, FiniteSetTheorems, WellFoundedInduction, TLAPS

-----------------------------------------------------------------------------
(***************************************************************************)
(* Sequences and finite sets.                                              *)
(***************************************************************************)
\* A set of naturals that is not empty has a least element.
LEMMA LeastNatural ==
    ASSUME NEW T \in SUBSET Nat, T # {}
    PROVE  \E n \in T : \A m \in T : n <= m
<1>1. PICK n \in T : \A m \in T : ~ (<<m, n>> \in OpToRel(<, Nat))
  BY NatLessThanWellFounded, WFMin
<1>2. \A m \in T : ~ (m < n)
  BY <1>1 DEF OpToRel
<1> QED
  BY <1>2

\* SetToSeq lists the elements of a finite set, all of them.
LEMMA SetToSeqLists ==
    ASSUME NEW S, IsFiniteSet(S)
    PROVE  /\ SetToSeq(S) \in Seq(S)
           /\ \A i, j \in DOMAIN SetToSeq(S) : SetToSeq(S)[i] = SetToSeq(S)[j] => i = j
           /\ \A x \in S : \E i \in DOMAIN SetToSeq(S) : SetToSeq(S)[i] = x
<1> DEFINE n == Cardinality(S)
<1>1. n \in Nat /\ ExistsBijection(1 .. n, S)
  BY FS_CardinalityType
<1>2. \E f \in [1 .. n -> S] : IsInjective(f)
  BY <1>1 DEF ExistsBijection, Bijection, Injection
<1> DEFINE s == SetToSeq(S)
<1>3. s \in [1 .. n -> S] /\ IsInjective(s)
  BY <1>2 DEF SetToSeq
<1> HIDE DEF s
<1>4. s \in Injection(1 .. n, S)
  BY <1>3 DEF Injection
<1>5. IsFiniteSet(1 .. n) /\ Cardinality(1 .. n) = n
  BY <1>1, FS_Interval
<1>6. s \in Surjection(1 .. n, S)
  BY <1>4, <1>5, FS_Injection
<1>7. s \in Seq(S) /\ DOMAIN s = 1 .. n
  BY <1>1, <1>3
<1> QED
  BY <1>3, <1>6, <1>7 DEF s, IsInjective, Surjection

\* Two sequences put together, element by element.
LEMMA Joined ==
    ASSUME NEW S, NEW a \in Seq(S), NEW b \in Seq(S)
    PROVE  /\ a \o b \in Seq(S) /\ Len(a \o b) = Len(a) + Len(b)
           /\ \A k \in 1 .. Len(a) : (a \o b)[k] = a[k]
           /\ \A k \in 1 .. Len(b) : (a \o b)[Len(a) + k] = b[k]
OBVIOUS

\* A sequence is known by its elements.
LEMMA SameSeq ==
    ASSUME NEW S, NEW s \in Seq(S), NEW n \in Nat, NEW w, DOMAIN w = 1 .. n,
           w = [k \in 1 .. n |-> w[k]], Len(s) = n, \A k \in 1 .. n : s[k] = w[k]
    PROVE  s = w
<1>1. DOMAIN s = 1 .. n
  OBVIOUS
<1>2. s = [k \in DOMAIN s |-> s[k]]
  OBVIOUS
<1> QED
  BY <1>1, <1>2

\* What InsertAt returns, element by element.
LEMMA InsertedAt ==
    ASSUME NEW S, NEW s \in Seq(S), NEW i \in 1 .. Len(s) + 1, NEW e \in S
    PROVE  InsertAt(s, i, e) = [k \in 1 .. Len(s) + 1 |->
               IF k < i THEN s[k] ELSE IF k = i THEN e ELSE s[k - 1]]
<1>1. i \in Nat /\ Len(s) \in Nat /\ i >= 1 /\ i <= Len(s) + 1
  OBVIOUS
<1> DEFINE a == SubSeq(s, 1, i - 1)
           b == SubSeq(s, i, Len(s))
           w == [k \in 1 .. Len(s) + 1 |-> IF k < i THEN s[k] ELSE IF k = i THEN e ELSE s[k - 1]]
<1>2. a \in Seq(S) /\ Len(a) = i - 1 /\ \A k \in 1 .. i - 1 : a[k] = s[k]
  BY <1>1
<1>3. b \in Seq(S) /\ Len(b) = Len(s) + 1 - i /\ \A k \in 1 .. Len(s) + 1 - i : b[k] = s[k + i - 1]
  BY <1>1
<1>4. InsertAt(s, i, e) = (a \o <<e>>) \o b
  BY DEF InsertAt
<1> HIDE DEF a, b
<1>5. /\ <<e>> \in Seq(S) /\ Len(<<e>>) = 1 /\ <<e>>[1] = e
  OBVIOUS
<1> DEFINE ae == a \o <<e>>
<1>6. ae \in Seq(S) /\ Len(ae) = i /\ ae[i] = e /\ \A k \in 1 .. i - 1 : ae[k] = s[k]
  <2>1. ae \in Seq(S) /\ Len(ae) = Len(a) + 1 /\ \A k \in 1 .. Len(a) : ae[k] = a[k]
    BY <1>2, <1>5, Joined
  <2>2. ae[Len(a) + 1] = e
    BY <1>2, <1>5, Joined
  <2> HIDE DEF ae
  <2> QED
    BY <1>1, <1>2, <2>1, <2>2
<1> HIDE DEF ae
<1> DEFINE c == ae \o b
<1>7. c \in Seq(S) /\ Len(c) = Len(ae) + Len(b) /\ (\A k \in 1 .. Len(ae) : c[k] = ae[k])
      /\ \A k \in 1 .. Len(b) : c[Len(ae) + k] = b[k]
  BY <1>3, <1>6, Joined
<1> HIDE DEF c
<1>8. Len(c) = Len(s) + 1
  BY <1>1, <1>3, <1>6, <1>7
<1>9. ASSUME NEW k \in 1 .. Len(s) + 1
      PROVE  c[k] = w[k]
  <2>0. k \in Nat /\ k >= 1 /\ k <= Len(s) + 1
    BY <1>1
  <2>1. CASE k <= i
    BY <1>1, <1>6, <1>7, <2>0, <2>1
  <2>2. CASE k > i
    <3>1. k - i \in 1 .. Len(s) + 1 - i /\ i + (k - i) = k /\ (k - i) + i - 1 = k - 1
      BY <1>1, <2>0, <2>2
    <3>2. k - i \in 1 .. Len(b)
      BY <1>3, <3>1
    <3>3. c[Len(ae) + (k - i)] = b[k - i]
      BY <1>7, <3>2
    <3>4. c[k] = b[k - i]
      BY <3>1, <3>3, <1>6
    <3>5. b[k - i] = s[(k - i) + i - 1]
      BY <1>3, <3>1
    <3>6. b[k - i] = s[k - 1]
      BY <3>1, <3>5
    <3> QED
      BY <1>1, <3>4, <3>6, <2>0, <2>2
  <2> QED
    BY <1>1, <2>0, <2>1, <2>2
<1>10. c = w
  <2>1. DOMAIN w = 1 .. Len(s) + 1 /\ w = [k \in 1 .. Len(s) + 1 |-> w[k]]
    OBVIOUS
  <2> HIDE DEF w
  <2>2. Len(s) + 1 \in Nat
    BY <1>1
  <2> QED
    BY <1>7, <1>8, <1>9, <2>1, <2>2, SameSeq
<1> QED
  BY <1>4, <1>10 DEF ae, c

\* An element of a sequence is one of the set it is over.
LEMMA Elements ==
    ASSUME NEW S, NEW s \in Seq(S)
    PROVE  \A i \in DOMAIN s : s[i] \in S
OBVIOUS

\* The elements of t are e and those of s.
Among(t, s, e) == \A k \in DOMAIN t : t[k] = e \/ \E l \in DOMAIN s : t[k] = s[l]

\* What insertAt returns: an element more, and the others as they were.
LEMMA InsertedSeq ==
    ASSUME NEW S, NEW s \in Seq(S), NEW i \in Nat \ {0}, NEW e \in S
    PROVE  /\ insertAt(s, i, e) \in Seq(S) /\ Len(insertAt(s, i, e)) = Len(s) + 1
           /\ Among(insertAt(s, i, e), s, e)
           /\ i = 1 => insertAt(s, i, e)[1] = e
                       /\ \A k \in 1 .. Len(s) : insertAt(s, i, e)[k + 1] = s[k]
<1> DEFINE m == IF i > Len(s) THEN Len(s) + 1 ELSE i
<1>1. m \in 1 .. Len(s) + 1 /\ Len(s) \in Nat /\ (i = 1 => m = 1)
  OBVIOUS
<1> HIDE DEF m
<1> DEFINE t == InsertAt(s, m, e)
           w == [k \in 1 .. Len(s) + 1 |-> IF k < m THEN s[k] ELSE IF k = m THEN e ELSE s[k - 1]]
<1>2. t = w
  BY <1>1, InsertedAt
<1>3. ASSUME NEW k \in 1 .. Len(s) + 1
      PROVE  w[k] \in S /\ (w[k] = e \/ \E l \in DOMAIN s : w[k] = s[l])
  <2>1. k < m => k \in DOMAIN s
    BY <1>1
  <2>2. k > m => k - 1 \in DOMAIN s
    BY <1>1
  <2>3. k < m \/ k = m \/ k > m
    BY <1>1
  <2> QED
    BY <2>1, <2>2, <2>3, <1>1
<1>4. w \in Seq(S) /\ Len(w) = Len(s) + 1 /\ DOMAIN w = 1 .. Len(s) + 1
  <2>1. w \in [1 .. Len(s) + 1 -> S]
    BY <1>3
  <2>2. Len(s) + 1 \in Nat
    BY <1>1
  <2> HIDE DEF w
  <2> QED
    BY <2>1, <2>2
<1>5. i = 1 => w[1] = e /\ \A k \in 1 .. Len(s) : w[k + 1] = s[k]
  BY <1>1
<1>6. insertAt(s, i, e) = w
  BY <1>2 DEF insertAt, m
<1> HIDE DEF w
<1>7. Among(w, s, e)
  BY <1>3, <1>4 DEF Among
<1> QED
  BY <1>4, <1>5, <1>6, <1>7

\* What RemoveAt returns, element by element.
LEMMA RemovedAt ==
    ASSUME NEW S, NEW s \in Seq(S), NEW i \in DOMAIN s
    PROVE  RemoveAt(s, i) = [k \in 1 .. Len(s) - 1 |-> IF k < i THEN s[k] ELSE s[k + 1]]
<1>1. i \in Nat /\ Len(s) \in Nat /\ i >= 1 /\ i <= Len(s)
  OBVIOUS
<1> DEFINE a == SubSeq(s, 1, i - 1)
           b == SubSeq(s, i + 1, Len(s))
           w == [k \in 1 .. Len(s) - 1 |-> IF k < i THEN s[k] ELSE s[k + 1]]
<1>2. a \in Seq(S) /\ Len(a) = i - 1 /\ \A k \in 1 .. i - 1 : a[k] = s[k]
  BY <1>1
<1>3. b \in Seq(S) /\ Len(b) = Len(s) - i /\ \A k \in 1 .. Len(s) - i : b[k] = s[k + i]
  BY <1>1
<1>4. RemoveAt(s, i) = a \o b
  BY DEF RemoveAt
<1> HIDE DEF a, b
<1> DEFINE c == a \o b
<1>5. c \in Seq(S) /\ Len(c) = Len(a) + Len(b) /\ (\A k \in 1 .. Len(a) : c[k] = a[k])
      /\ \A k \in 1 .. Len(b) : c[Len(a) + k] = b[k]
  <2>1. a \in Seq(S) /\ b \in Seq(S)
    BY <1>2, <1>3
  <2> QED
    BY ONLY <2>1, Joined
<1> HIDE DEF c
<1>6. Len(c) = Len(s) - 1
  BY <1>1, <1>2, <1>3, <1>5
<1>7. ASSUME NEW k \in 1 .. Len(s) - 1
      PROVE  c[k] = w[k]
  <2>0. k \in Nat /\ k >= 1 /\ k <= Len(s) - 1
    BY <1>1
  <2>1. CASE k < i
    <3>1. k \in 1 .. i - 1 /\ w[k] = s[k]
      BY <1>1, <2>0, <2>1
    <3> HIDE DEF w
    <3>2. k \in 1 .. Len(a)
      BY <3>1, <1>2
    <3> QED
      BY <3>1, <3>2, <1>2, <1>5
  <2>2. CASE k >= i
    <3> DEFINE l == k - (i - 1)
    <3>1. l \in 1 .. Len(s) - i /\ (i - 1) + l = k /\ l + i = k + 1
      BY <1>1, <2>0, <2>2
    <3> HIDE DEF l
    <3>2. l \in 1 .. Len(b)
      BY <1>3, <3>1
    <3>3. c[Len(a) + l] = b[l]
      BY <1>5, <3>2
    <3>4. c[k] = b[l]
      BY <3>1, <3>3, <1>2
    <3>5. b[l] = s[l + i]
      BY <1>3, <3>1
    <3> QED
      BY <1>1, <3>1, <3>4, <3>5, <2>0, <2>2
  <2> QED
    BY <1>1, <2>0, <2>1, <2>2
<1>8. c = w
  <2>1. DOMAIN w = 1 .. Len(s) - 1 /\ w = [k \in 1 .. Len(s) - 1 |-> w[k]]
    OBVIOUS
  <2> HIDE DEF w
  <2>2. Len(s) - 1 \in Nat
    BY <1>1
  <2> QED
    BY <1>5, <1>6, <1>7, <2>1, <2>2, SameSeq
<1> QED
  BY <1>4, <1>8 DEF c

\* What RemoveAt leaves: an element less, and the others as they were.
LEMMA RemovedSeq ==
    ASSUME NEW S, NEW s \in Seq(S), NEW i \in DOMAIN s
    PROVE  /\ RemoveAt(s, i) \in Seq(S) /\ Len(RemoveAt(s, i)) = Len(s) - 1
           /\ \A k \in DOMAIN RemoveAt(s, i) :
                 \E l \in DOMAIN s \ {i} : RemoveAt(s, i)[k] = s[l]
           /\ \A k \in DOMAIN RemoveAt(s, i) : RemoveAt(s, i)[k] = IF k < i THEN s[k] ELSE s[k + 1]
<1> DEFINE w == [k \in 1 .. Len(s) - 1 |-> IF k < i THEN s[k] ELSE s[k + 1]]
<1>1. i \in 1 .. Len(s) /\ Len(s) \in Nat /\ Len(s) - 1 \in Nat
  OBVIOUS
<1>2. RemoveAt(s, i) = w
  BY RemovedAt
<1>3. ASSUME NEW k \in 1 .. Len(s) - 1
      PROVE  \E l \in DOMAIN s \ {i} : w[k] = s[l]
  <2>1. k < i => k \in DOMAIN s \ {i}
    BY <1>1
  <2>2. ~ (k < i) => k + 1 \in DOMAIN s \ {i}
    BY <1>1
  <2> QED
    BY <2>1, <2>2
<1>4. w \in Seq(S) /\ Len(w) = Len(s) - 1 /\ DOMAIN w = 1 .. Len(s) - 1
  <2>1. w \in [1 .. Len(s) - 1 -> S]
    BY <1>3
  <2> HIDE DEF w
  <2> QED
    BY <2>1, <1>1
<1>5. \A k \in 1 .. Len(s) - 1 : w[k] = IF k < i THEN s[k] ELSE s[k + 1]
  OBVIOUS
<1> HIDE DEF w
<1> QED
  BY <1>2, <1>3, <1>4, <1>5

\* t is s without its i-th element.
MovedUp(t, s, i) ==
    DOMAIN t = 1 .. Len(s) - 1 /\ \A k \in DOMAIN t : t[k] = IF k < i THEN s[k] ELSE s[k + 1]

\* What RemoveAt returns, in that form.
LEMMA RemovedUp ==
    ASSUME NEW S, NEW s \in Seq(S), NEW i \in DOMAIN s
    PROVE  /\ RemoveAt(s, i) \in Seq(S) /\ Len(RemoveAt(s, i)) = Len(s) - 1
           /\ MovedUp(RemoveAt(s, i), s, i)
<1> DEFINE t == RemoveAt(s, i)
<1>1. /\ t \in Seq(S) /\ Len(t) = Len(s) - 1 /\ Len(s) \in Nat
      /\ \A k \in DOMAIN t : t[k] = IF k < i THEN s[k] ELSE s[k + 1]
  BY RemovedSeq
<1> HIDE DEF t
<1>2. DOMAIN t = 1 .. Len(s) - 1
  BY <1>1
<1>3. MovedUp(t, s, i)
  BY <1>1, <1>2 DEF MovedUp
<1> QED
  BY <1>1, <1>3 DEF t

\* Where the k-th of the remaining elements was.
Up(i, k) == IF k < i THEN k ELSE k + 1

\* Every element but the i-th remains, in order.
LEMMA UpIs ==
    ASSUME NEW S, NEW s \in Seq(S), NEW i \in DOMAIN s, NEW t, MovedUp(t, s, i)
    PROVE  /\ \A k \in DOMAIN t : /\ Up(i, k) \in DOMAIN s \ {i} /\ t[k] = s[Up(i, k)]
                                  /\ k \in Nat \ {0} /\ Up(i, k) \in Nat \ {0}
           /\ \A l \in DOMAIN s \ {i} : \E k \in DOMAIN t : l = Up(i, k)
           /\ \A k, l \in DOMAIN t : k < l <=> Up(i, k) < Up(i, l)
<1>1. i \in 1 .. Len(s) /\ Len(s) \in Nat /\ DOMAIN s = 1 .. Len(s) /\ DOMAIN t = 1 .. Len(s) - 1
  BY DEF MovedUp
<1>2. ASSUME NEW k \in DOMAIN t
      PROVE  Up(i, k) \in DOMAIN s \ {i} /\ t[k] = s[Up(i, k)] /\ k \in Nat \ {0} /\ Up(i, k) \in Nat \ {0}
  <2>1. t[k] = IF k < i THEN s[k] ELSE s[k + 1]
    BY DEF MovedUp
  <2>2. k \in 1 .. Len(s) - 1
    BY <1>1
  <2> QED
    BY <1>1, <2>1, <2>2 DEF Up
<1>3. ASSUME NEW l \in DOMAIN s \ {i}
      PROVE  \E k \in DOMAIN t : l = Up(i, k)
  <2>1. CASE l < i
    <3>1. l \in DOMAIN t /\ l = Up(i, l)
      BY <1>1, <2>1 DEF Up
    <3> QED
      BY <3>1
  <2>2. CASE ~ (l < i)
    <3>1. l - 1 \in DOMAIN t /\ l = Up(i, l - 1)
      BY <1>1, <2>2 DEF Up
    <3> QED
      BY <3>1
  <2> QED
    BY <2>1, <2>2
<1>4. \A k, l \in DOMAIN t : k < l <=> Up(i, k) < Up(i, l)
  BY <1>1 DEF Up
<1> QED
  BY <1>2, <1>3, <1>4

\* The hosts and zones are finitely many.
LEMMA PatternsFinite == IsFiniteSet(Hosts) /\ IsFiniteSet(Zones) /\ IsFiniteSet(Patterns)
<1>1. IsFiniteSet(Hosts)
  BY CaddyAssumption
<1>2. IsFiniteSet(Zones)
  <2>1. ZoneOf \in [Hosts -> Zones]
    BY CaddyAssumption
  <2>2. ZoneOf \in Surjection(Hosts, Zones)
    BY <2>1 DEF Surjection, Zones
  <2> QED
    BY <1>1, <2>2, FS_Surjection
<1> QED
  BY <1>1, <1>2, FS_Union DEF Patterns

-----------------------------------------------------------------------------
(***************************************************************************)
(* Paths and their order.                                                  *)
(***************************************************************************)
Path == {p \in Seq(Nat \ {0}) : Len(p) \in {1, 2}}

\* A path is its one or two indices.
LEMMA PathIs ==
    ASSUME NEW p \in Path
    PROVE  /\ p \in Seq(Nat \ {0}) /\ Len(p) \in {1, 2} /\ p[1] \in Nat \ {0} /\ p # <<>>
           /\ Len(p) = 1 => p = <<p[1]>>
           /\ Len(p) = 2 => p[2] \in Nat \ {0} /\ p = <<p[1], p[2]>>
<1>1. p \in Seq(Nat \ {0}) /\ Len(p) \in {1, 2} /\ DOMAIN p = 1 .. Len(p)
  BY DEF Path
<1>2. p[1] \in Nat \ {0} /\ (Len(p) = 2 => p[2] \in Nat \ {0})
  BY <1>1
<1>3. Len(p) = 1 => p = <<p[1]>>
  BY <1>1
<1>4. Len(p) = 2 => p = <<p[1], p[2]>>
  BY <1>1
<1> QED
  BY <1>1, <1>2, <1>3, <1>4

\* One or two indices are a path.
LEMMA PathsBuilt ==
    ASSUME NEW i \in Nat \ {0}
    PROVE  /\ <<i>> \in Path /\ Len(<<i>>) = 1
           /\ \A j \in Nat \ {0} : <<i, j>> \in Path /\ Len(<<i, j>>) = 2
BY DEF Path

\* A set of paths that is not empty has a first one.
LEMMA FirstIsIn ==
    ASSUME NEW S \in SUBSET Path, S # {}
    PROVE  FirstOf(S) \in S /\ \A q \in S \ {FirstOf(S)} : Precedes(FirstOf(S), q)
<1>1. \A p \in S : p \in Path
  OBVIOUS
<1> DEFINE A == {p[1] : p \in S}
<1>2. A \in SUBSET Nat /\ A # {}
  BY PathIs
<1>3. PICK i \in A : \A m \in A : i <= m
  BY <1>2, LeastNatural
<1>4. i \in Nat /\ \A p \in S : i <= p[1]
  BY <1>2, <1>3
<1> DEFINE B == {p \in S : p[1] = i}
<1>5. B # {}
  BY <1>3
<1>6. \E p \in S : \A q \in S \ {p} : Precedes(p, q)
  <2>1. CASE \E p \in B : Len(p) = 1
    <3>1. PICK p \in B : Len(p) = 1
      BY <2>1
    <3>2. ASSUME NEW q \in S \ {p}
          PROVE  Precedes(p, q)
      <4>0. p \in Path /\ q \in Path /\ p[1] = i /\ i <= q[1] /\ q[1] \in Nat
        BY <1>4, PathIs
      <4>1. CASE q[1] = i
        <5>1. Len(q) # 1
          BY <4>0, <4>1, <3>1, PathIs
        <5>2. Len(q) = 2
          BY <5>1, <4>0, PathIs
        <5> QED
          BY <5>2, <4>0, <4>1, <3>1 DEF Precedes
      <4>2. CASE q[1] # i
        BY <4>0, <4>2, <1>4 DEF Precedes
      <4> QED
        BY <4>1, <4>2
    <3> QED
      BY <3>1, <3>2
  <2>2. CASE ~ \E p \in B : Len(p) = 1
    <3>0. \A p \in B : Len(p) = 2 /\ p[2] \in Nat
      BY <2>2, PathIs
    <3> DEFINE C == {p[2] : p \in B}
    <3>1. C \in SUBSET Nat /\ C # {}
      BY <3>0, <1>5
    <3>2. PICK j \in C : \A m \in C : j <= m
      BY <3>1, LeastNatural
    <3>3. PICK p \in B : p[2] = j
      BY <3>2
    <3>4. ASSUME NEW q \in S \ {p}
          PROVE  Precedes(p, q)
      <4>0. p \in Path /\ q \in Path /\ p[1] = i /\ i <= q[1] /\ q[1] \in Nat
            /\ Len(p) = 2 /\ p[2] = j
        BY <1>4, <3>0, <3>3, PathIs
      <4>1. CASE q[1] = i
        <5>1. q \in B /\ Len(q) = 2 /\ q[2] \in Nat /\ j <= q[2] /\ j \in Nat
          BY <4>1, <3>0, <3>1, <3>2
        <5>2. q[2] # j
          BY <4>0, <4>1, <5>1, PathIs
        <5> QED
          BY <5>1, <5>2, <4>0, <4>1 DEF Precedes
      <4>2. CASE q[1] # i
        BY <4>0, <4>2, <1>4 DEF Precedes
      <4> QED
        BY <4>1, <4>2
    <3> QED
      BY <3>3, <3>4
  <2> QED
    BY <2>1, <2>2
<1> QED
  BY <1>6 DEF FirstOf

\* Any finite set of paths can be put in the order of the walk.
Ordered(S) ==
    \E q \in SetToSeqs(S) : \A i, j \in DOMAIN q : i < j => Precedes(q[i], q[j])

\* One path in front of those that come after it.
LEMMA OrderedStep ==
    ASSUME NEW S \in SUBSET Path, IsFiniteSet(S), S # {}, Ordered(S \ {FirstOf(S)})
    PROVE  Ordered(S)
<1> DEFINE f == FirstOf(S)
           R == S \ {f}
           n == Cardinality(S)
<1>1. f \in S /\ \A q \in R : Precedes(f, q)
  BY FirstIsIn
<1>2. n \in Nat /\ Cardinality(R) = n - 1 /\ IsFiniteSet(R) /\ Cardinality(R) \in Nat
  BY <1>1, FS_RemoveElement, FS_CardinalityType
<1>3. PICK q \in SetToSeqs(R) : \A i, j \in DOMAIN q : i < j => Precedes(q[i], q[j])
  BY DEF Ordered
<1> HIDE DEF f, n
<1>4. q \in [1 .. n - 1 -> R] /\ \A i, j \in 1 .. n - 1 : i # j => q[i] # q[j]
  BY <1>2, <1>3 DEF SetToSeqs
<1> HIDE DEF R
<1> DEFINE t == [k \in 1 .. n |-> IF k = 1 THEN f ELSE q[k - 1]]
<1>5. \A k \in 1 .. n : k # 1 => k - 1 \in 1 .. n - 1
  BY <1>2
<1>6. \A x \in R : x \in S /\ x # f
  BY DEF R
<1>7. t \in [1 .. n -> S]
  BY <1>1, <1>4, <1>5, <1>6
<1>8. ASSUME NEW i \in 1 .. n, NEW j \in 1 .. n, i < j
      PROVE  t[i] # t[j] /\ Precedes(t[i], t[j])
  <2>1. j # 1 /\ j - 1 \in 1 .. n - 1 /\ t[j] = q[j - 1] /\ q[j - 1] \in R
    BY <1>2, <1>4, <1>5, <1>8
  <2>2. CASE i = 1
    BY <1>1, <1>6, <2>1, <2>2
  <2>3. CASE i # 1
    <3>1. i - 1 \in 1 .. n - 1 /\ i - 1 < j - 1 /\ i - 1 # j - 1 /\ t[i] = q[i - 1]
      BY <1>2, <1>5, <1>8, <2>3
    <3>2. DOMAIN q = 1 .. n - 1
      BY <1>4
    <3> QED
      BY <1>3, <1>4, <2>1, <3>1, <3>2
  <2> QED
    BY <2>2, <2>3
<1>9. \A i, j \in 1 .. n : i # j => t[i] # t[j]
  <2> SUFFICES ASSUME NEW i \in 1 .. n, NEW j \in 1 .. n, i # j
               PROVE  t[i] # t[j]
    OBVIOUS
  <2>1. i < j \/ j < i
    BY <1>2
  <2> QED
    BY <2>1, <1>8
<1>10. DOMAIN t = 1 .. n
  OBVIOUS
<1> HIDE DEF t
<1>11. t \in SetToSeqs(S)
  BY <1>7, <1>9 DEF SetToSeqs, n
<1> QED
  BY <1>8, <1>10, <1>11 DEF Ordered

\* By the size of a smallest set that could not be.
LEMMA WalkOrdered ==
    ASSUME NEW S \in SUBSET Path, IsFiniteSet(S)
    PROVE  Ordered(S)
<1> SUFFICES ASSUME ~ Ordered(S)
             PROVE  FALSE
  OBVIOUS
<1> DEFINE Bad(n) == \E R \in SUBSET Path : IsFiniteSet(R) /\ Cardinality(R) = n /\ ~ Ordered(R)
           T == {n \in Nat : Bad(n)}
<1>1. Cardinality(S) \in T
  BY FS_CardinalityType
<1>2. PICK n \in T : \A m \in T : n <= m
  BY <1>1, LeastNatural
<1>3. PICK R \in SUBSET Path : IsFiniteSet(R) /\ Cardinality(R) = n /\ ~ Ordered(R)
  BY <1>2
<1>4. R # {}
  <2> SUFFICES ASSUME R = {}
               PROVE  FALSE
    OBVIOUS
  <2>1. Cardinality(R) = 0
    BY FS_EmptySet
  <2> DEFINE q == [i \in 1 .. 0 |-> i]
  <2>2. q \in [1 .. 0 -> R] /\ \A i, j \in 1 .. 0 : i # j => q[i] # q[j]
    OBVIOUS
  <2>3. DOMAIN q = 1 .. 0
    OBVIOUS
  <2>4. q \in SetToSeqs(R)
    BY <2>1, <2>2 DEF SetToSeqs
  <2> QED
    BY <2>3, <2>4, <1>3 DEF Ordered
<1>5. FirstOf(R) \in R
  BY <1>4, FirstIsIn
<1> DEFINE Q == R \ {FirstOf(R)}
<1>6. IsFiniteSet(Q) /\ Cardinality(Q) = n - 1 /\ Cardinality(Q) \in Nat /\ Q \in SUBSET Path
  BY <1>3, <1>5, FS_RemoveElement, FS_CardinalityType
<1>7. ~ Ordered(Q)
  BY <1>3, <1>4, OrderedStep
<1> HIDE DEF Q
<1>8. n - 1 \in T
  BY <1>6, <1>7
<1>9. n <= n - 1 /\ n \in Nat
  BY <1>2, <1>8
<1> QED
  BY <1>9

\* The routes to adopt, each once, in the order of the walk.
LEMMA InWalkOrderLists ==
    ASSUME NEW S \in SUBSET Path, IsFiniteSet(S)
    PROVE  /\ InWalkOrder(S) \in Seq(S)
           /\ \A x \in S : \E i \in DOMAIN InWalkOrder(S) : InWalkOrder(S)[i] = x
           /\ \A i, j \in DOMAIN InWalkOrder(S) : i < j =>
                 Precedes(InWalkOrder(S)[i], InWalkOrder(S)[j])
           /\ \A i, j \in DOMAIN InWalkOrder(S) : i # j => InWalkOrder(S)[i] # InWalkOrder(S)[j]
<1> DEFINE q == InWalkOrder(S)
           n == Cardinality(S)
<1>1. Ordered(S)
  BY WalkOrdered
<1>2. q \in SetToSeqs(S) /\ \A i, j \in DOMAIN q : i < j => Precedes(q[i], q[j])
  BY <1>1 DEF Ordered, InWalkOrder
<1> HIDE DEF q
<1>3. q \in [1 .. n -> S] /\ \A i, j \in 1 .. n : i # j => q[i] # q[j]
  BY <1>2 DEF SetToSeqs
<1>4. n \in Nat
  BY FS_CardinalityType
<1>5. IsFiniteSet(1 .. n) /\ Cardinality(1 .. n) = n
  BY <1>4, FS_Interval
<1>6. q \in Injection(1 .. n, S)
  BY <1>3 DEF Injection, IsInjective
<1>7. q \in Surjection(1 .. n, S)
  BY <1>5, <1>6, FS_Injection
<1>8. \A x \in S : \E i \in DOMAIN q : q[i] = x
  BY <1>7 DEF Surjection
<1>9. q \in Seq(S) /\ DOMAIN q = 1 .. n
  BY <1>3, <1>4
<1> HIDE DEF n
<1> QED
  BY <1>2, <1>3, <1>8, <1>9 DEF q

-----------------------------------------------------------------------------
(***************************************************************************)
(* Routes, and the writes of the admin API on them.                        *)
(***************************************************************************)
NodeIds == Ids({"route", "ack", "own"})

\* The fields of a route.
LEMMA NodeIs ==
    ASSUME NEW n \in Node
    PROVE  /\ n.id \in NodeIds /\ n.match \in Seq(Patterns) /\ n.extra \in BOOLEAN
           /\ n.handle \in SUBSET {"sub", "proxy", "deny", "other"}
           /\ n.auth \in {"none", "named", "detected"} /\ n.tls \in BOOLEAN
           /\ n.dial \in {"none", "origin", "elsewhere"} /\ n.subs \in Seq(SubNode)
           /\ n.subs = <<>> \/ HasSub(n)
           /\ \A id \in NodeIds : [n EXCEPT !.id = id] \in Node /\ [n EXCEPT !.id = id].id = id
           /\ \A t \in Seq(SubNode) : HasSub(n) =>
                 [n EXCEPT !.subs = t] \in Node /\ [n EXCEPT !.subs = t].subs = t
<1>1. n \in Route({"sub", "proxy", "deny", "other"}, Seq(SubNode)) /\ (n.subs = <<>> \/ "sub" \in n.handle)
  BY DEF Node
<1>2. ASSUME NEW id \in NodeIds
      PROVE  [n EXCEPT !.id = id] \in Node /\ [n EXCEPT !.id = id].id = id
  BY <1>1 DEF Node, Route, NodeIds
<1>3. ASSUME NEW t \in Seq(SubNode), HasSub(n)
      PROVE  [n EXCEPT !.subs = t] \in Node /\ [n EXCEPT !.subs = t].subs = t
  BY <1>1, <1>3 DEF Node, Route, HasSub
<1> QED
  BY <1>1, <1>2, <1>3 DEF Route, HasSub, NodeIds

\* The fields of a route of a subroute, which is a route with nothing below it.
LEMMA SubNodeIs ==
    ASSUME NEW n \in SubNode
    PROVE  /\ n \in Node /\ n.subs = <<>> /\ ~ HasSub(n) /\ n.match \in Seq(Patterns) /\ n.id \in NodeIds
           /\ n.handle \in SUBSET {"proxy", "deny", "other"}
           /\ \A id \in NodeIds : [n EXCEPT !.id = id] \in SubNode
<1>1. n \in Route({"proxy", "deny", "other"}, {<<>>})
  BY DEF SubNode
<1>2. <<>> \in Seq(SubNode)
  OBVIOUS
<1>3. n \in Node
  BY <1>1, <1>2 DEF Node, Route
<1>4. ASSUME NEW id \in NodeIds
      PROVE  [n EXCEPT !.id = id] \in SubNode
  BY <1>1 DEF SubNode, Route, NodeIds
<1> QED
  BY <1>1, <1>3, <1>4 DEF Route, HasSub, NodeIds

\* The @ids of crenel, of its layer4 routes' siblings and of acknowledgements.
LEMMA IdsBuilt ==
    /\ NoId \in NodeIds
    /\ \A h \in Hosts : routeID(h) \in NodeIds /\ AckId(h) \in NodeIds
    /\ \A p \in Path : AckId(p) \in NodeIds
<1>1. \A p \in Path : p \in Seq(Nat)
  BY DEF Path
<1> QED
  BY <1>1 DEF NodeIds, Ids, NoId, routeID, AckId

\* The addressable routes of a sequence of routes.
LEMMA PathsAre ==
    ASSUME NEW s \in Seq(Node), NEW p
    PROVE  p \in Paths(s) <=>
              \/ p \in Path /\ Len(p) = 1 /\ p[1] \in DOMAIN s
              \/ p \in Path /\ Len(p) = 2 /\ p[1] \in DOMAIN s /\ HasSub(s[p[1]])
                 /\ p[2] \in DOMAIN s[p[1]].subs
<1>0. DOMAIN s \subseteq Nat \ {0} /\ \A i \in DOMAIN s : DOMAIN s[i].subs \subseteq Nat \ {0}
  <2>1. \A i \in DOMAIN s : s[i].subs \in Seq(SubNode)
    BY NodeIs
  <2> QED
    BY <2>1
<1>1. ASSUME p \in Paths(s)
      PROVE  \/ p \in Path /\ Len(p) = 1 /\ p[1] \in DOMAIN s
             \/ p \in Path /\ Len(p) = 2 /\ p[1] \in DOMAIN s /\ HasSub(s[p[1]])
                 /\ p[2] \in DOMAIN s[p[1]].subs
  <2>1. CASE \E i \in DOMAIN s : p = <<i>>
    BY <2>1, <1>0, PathsBuilt
  <2>2. CASE \E i \in DOMAIN s : HasSub(s[i]) /\ \E j \in DOMAIN s[i].subs : p = <<i, j>>
    <3>0. PICK i \in DOMAIN s : HasSub(s[i]) /\ \E j \in DOMAIN s[i].subs : p = <<i, j>>
      BY <2>2
    <3>1. PICK j \in DOMAIN s[i].subs : p = <<i, j>>
      BY <3>0
    <3>2. i \in Nat \ {0} /\ j \in Nat \ {0}
      BY <1>0
    <3>3. p \in Path /\ Len(p) = 2
      BY <3>1, <3>2, PathsBuilt
    <3>4. p[1] = i /\ p[2] = j
      BY <3>1
    <3> QED
      BY <3>0, <3>1, <3>3, <3>4
  <2> QED
    BY <1>1, <2>1, <2>2 DEF Paths
<1>2. ASSUME p \in Path, Len(p) = 1, p[1] \in DOMAIN s
      PROVE  p \in Paths(s)
  BY <1>2, PathIs DEF Paths
<1>3. ASSUME p \in Path, Len(p) = 2, p[1] \in DOMAIN s, HasSub(s[p[1]]), p[2] \in DOMAIN s[p[1]].subs
      PROVE  p \in Paths(s)
  BY <1>3, PathIs DEF Paths
<1> QED
  BY <1>1, <1>2, <1>3

\* The addressable routes are those a path is valid for.
LEMMA ValidPaths ==
    ASSUME NEW s \in Seq(Node), NEW p \in Path
    PROVE  ValidPath(s, p) <=> p \in Paths(s)
BY PathsAre, PathIs DEF ValidPath

\* What is addressed: a route, or a route of a subroute.
LEMMA NodeAtIs ==
    ASSUME NEW s \in Seq(Node), NEW p \in Paths(s)
    PROVE  /\ NodeAt(s, p) \in Node
           /\ Len(p) = 2 => NodeAt(s, p) \in SubNode
<1>1. p \in Path /\ p[1] \in DOMAIN s /\ s[p[1]] \in Node
  BY PathsAre
<1>2. CASE Len(p) = 1
  BY <1>1, <1>2 DEF NodeAt
<1>3. CASE Len(p) = 2
  <2>1. p[2] \in DOMAIN s[p[1]].subs /\ s[p[1]].subs \in Seq(SubNode)
    BY <1>1, <1>3, PathsAre, NodeIs
  <2>2. NodeAt(s, p) = s[p[1]].subs[p[2]]
    BY <1>3 DEF NodeAt
  <2> QED
    BY <2>1, <2>2, SubNodeIs
<1> QED
  BY <1>1, <1>2, <1>3, PathIs

\* The addressable routes are finitely many.
LEMMA PathsFinite ==
    ASSUME NEW s \in Seq(Node)
    PROVE  IsFiniteSet(Paths(s)) /\ Paths(s) \in SUBSET Path
<1>1. IsFiniteSet(DOMAIN s) /\ \A i \in DOMAIN s : IsFiniteSet(DOMAIN s[i].subs)
  <2>1. DOMAIN s = 1 .. Len(s) /\ Len(s) \in Nat
    OBVIOUS
  <2>2. \A i \in DOMAIN s : DOMAIN s[i].subs = 1 .. Len(s[i].subs) /\ Len(s[i].subs) \in Nat
    BY NodeIs
  <2>3. \A n \in Nat : IsFiniteSet(1 .. n)
    BY FS_Interval
  <2>4. IsFiniteSet(DOMAIN s)
    BY <2>1, <2>3
  <2> QED
    BY <2>2, <2>3, <2>4
<1> DEFINE D == UNION {DOMAIN s[i].subs : i \in DOMAIN s}
           E == {DOMAIN s[i].subs : i \in DOMAIN s}
<1>2. IsFiniteSet(E)
  <2> DEFINE f == [i \in DOMAIN s |-> DOMAIN s[i].subs]
  <2>1. f \in Surjection(DOMAIN s, E)
    BY DEF Surjection
  <2> QED
    BY <1>1, <2>1, FS_Surjection
<1>3. IsFiniteSet(D)
  BY <1>1, <1>2, FS_UNION
<1> DEFINE F == {<<i>> : i \in DOMAIN s}
<1>4. IsFiniteSet(F)
  <2> DEFINE f == [i \in DOMAIN s |-> <<i>>]
  <2>1. f \in Surjection(DOMAIN s, F)
    BY DEF Surjection
  <2> QED
    BY <1>1, <2>1, FS_Surjection
<1> HIDE DEF D
<1>5. IsFiniteSet((DOMAIN s) \X D)
  <2>1. IsFiniteSet(DOMAIN s)
    BY <1>1
  <2> QED
    BY <1>3, <2>1, FS_Product
<1> HIDE DEF F
<1>6. IsFiniteSet(F \cup ((DOMAIN s) \X D))
  BY <1>4, <1>5, FS_Union
<1>7. Paths(s) \subseteq F \cup ((DOMAIN s) \X D)
  <2>1. \A i \in DOMAIN s : <<i>> \in F
    BY DEF F
  <2>2. \A i \in DOMAIN s : \A j \in DOMAIN s[i].subs : <<i, j>> \in (DOMAIN s) \X D
    BY DEF D
  <2> QED
    BY <2>1, <2>2 DEF Paths
<1>8. Paths(s) \in SUBSET Path
  BY PathsAre
<1> QED
  BY <1>6, <1>7, <1>8, FS_Subset

\* A write puts well-formed routes in the place of well-formed routes.
CallNode(path, n) == n \in Node /\ (Len(path) = 2 => n \in SubNode)

\* A sequence with another element in one place.
LEMMA ReplacedSeq ==
    ASSUME NEW S, NEW s \in Seq(S), NEW i \in DOMAIN s, NEW e \in S
    PROVE  /\ [s EXCEPT ![i] = e] \in Seq(S) /\ DOMAIN [s EXCEPT ![i] = e] = DOMAIN s
           /\ [s EXCEPT ![i] = e][i] = e
           /\ \A k \in DOMAIN s \ {i} : [s EXCEPT ![i] = e][k] = s[k]
OBVIOUS

\* The route above a path of two indices.
LEMMA AboveIs ==
    ASSUME NEW s \in Seq(Node), NEW p \in Paths(s), Len(p) = 2
    PROVE  /\ p[1] \in DOMAIN s /\ s[p[1]] \in Node /\ HasSub(s[p[1]])
           /\ s[p[1]].subs \in Seq(SubNode) /\ p[2] \in DOMAIN s[p[1]].subs
<1>1. p[1] \in DOMAIN s /\ HasSub(s[p[1]]) /\ p[2] \in DOMAIN s[p[1]].subs
  BY PathsAre
<1>2. s[p[1]] \in Node
  BY <1>1
<1> QED
  BY <1>1, <1>2, NodeIs

\* A route more at the top, or below a subroute.
LEMMA PutType ==
    ASSUME NEW s \in Seq(Node), NEW p \in Path, NEW n, CallNode(p, n),
           Len(p) = 2 => p[1] \in DOMAIN s /\ HasSub(s[p[1]])
    PROVE  handlePutRoute(s, p, n) \in Seq(Node)
<1>1. CASE Len(p) = 1
  <2>1. p[1] \in Nat \ {0} /\ n \in Node
    BY PathIs DEF CallNode
  <2>2. insertAt(s, p[1], n) \in Seq(Node)
    BY <2>1, InsertedSeq
  <2> QED
    BY <1>1, <2>2 DEF handlePutRoute
<1>2. CASE Len(p) = 2
  <2> DEFINE m == s[p[1]]
             t == insertAt(m.subs, p[2], n)
  <2>1. p[2] \in Nat \ {0} /\ n \in SubNode /\ m \in Node /\ m.subs \in Seq(SubNode) /\ HasSub(m)
    BY <1>2, PathIs, NodeIs DEF CallNode
  <2>2. t \in Seq(SubNode)
    BY <2>1, InsertedSeq
  <2> HIDE DEF t
  <2>3. [m EXCEPT !.subs = t] \in Node
    BY <2>1, <2>2, NodeIs
  <2>4. handlePutRoute(s, p, n) = [s EXCEPT ![p[1]] = [m EXCEPT !.subs = t]]
    BY <1>2 DEF handlePutRoute, t
  <2> HIDE DEF m
  <2> QED
    BY <1>2, <2>3, <2>4, ReplacedSeq
<1> QED
  BY <1>1, <1>2, PathIs

\* A route in the place of another.
LEMMA PatchType ==
    ASSUME NEW s \in Seq(Node), NEW p \in Paths(s), NEW n, CallNode(p, n)
    PROVE  setByPath(s, p, n) \in Seq(Node)
<1>0. p \in Path /\ p[1] \in DOMAIN s
  BY PathsAre
<1>1. CASE Len(p) = 1
  BY <1>0, <1>1, ReplacedSeq DEF setByPath, CallNode
<1>2. CASE Len(p) = 2
  <2> DEFINE m == s[p[1]]
             t == [m.subs EXCEPT ![p[2]] = n]
  <2>1. n \in SubNode /\ m \in Node /\ m.subs \in Seq(SubNode) /\ HasSub(m) /\ p[2] \in DOMAIN m.subs
    BY <1>2, AboveIs DEF CallNode
  <2>2. t \in Seq(SubNode)
    BY <2>1, ReplacedSeq
  <2> HIDE DEF t
  <2>3. [m EXCEPT !.subs = t] \in Node
    BY <2>1, <2>2, NodeIs
  <2>4. setByPath(s, p, n) = [s EXCEPT ![p[1]] = [m EXCEPT !.subs = t]]
    BY <1>2 DEF setByPath, t
  <2> HIDE DEF m
  <2> QED
    BY <1>0, <2>3, <2>4, ReplacedSeq
<1> QED
  BY <1>0, <1>1, <1>2, PathIs

\* A route less.
LEMMA DeleteType ==
    ASSUME NEW s \in Seq(Node), NEW p \in Paths(s)
    PROVE  deleteByPath(s, p) \in Seq(Node)
<1>0. p \in Path /\ p[1] \in DOMAIN s
  BY PathsAre
<1>1. CASE Len(p) = 1
  BY <1>0, <1>1, RemovedSeq DEF deleteByPath
<1>2. CASE Len(p) = 2
  <2> DEFINE m == s[p[1]]
             t == RemoveAt(m.subs, p[2])
  <2>1. p[2] \in DOMAIN m.subs /\ m \in Node /\ m.subs \in Seq(SubNode) /\ HasSub(m)
    BY <1>2, AboveIs
  <2>2. t \in Seq(SubNode)
    BY <2>1, RemovedSeq
  <2> HIDE DEF t
  <2>3. [m EXCEPT !.subs = t] \in Node
    BY <2>1, <2>2, NodeIs
  <2>4. deleteByPath(s, p) = [s EXCEPT ![p[1]] = [m EXCEPT !.subs = t]]
    BY <1>2 DEF deleteByPath, t
  <2> HIDE DEF m
  <2> QED
    BY <1>0, <2>3, <2>4, ReplacedSeq
<1> QED
  BY <1>0, <1>1, <1>2, PathIs

-----------------------------------------------------------------------------
(***************************************************************************)
(* What a read lists of what a server answers.                             *)
(***************************************************************************)
\* A union of readings has what each of them has.
LEMMA UnionHas ==
    ASSUME NEW R, NEW x \in R
    PROVE  x.routes \subseteq Union(R).routes /\ x.unparsed \subseteq Union(R).unparsed
BY DEF Union

\* l lists the route at loc for one of the names, or holds t's entry for it.
Lists(l, t, loc, names) ==
    \/ ackAware(t, loc) \in l.unparsed
    \/ \E r \in l.routes : r.loc = loc /\ r.host \in names

\* What lists more lists as much.
LEMMA ListsMore ==
    ASSUME NEW R, NEW x \in R, NEW t, NEW loc, NEW names, Lists(x, t, loc, names)
    PROVE  Lists(Union(R), t, loc, names)
BY UnionHas DEF Lists

\* More names list no less.
LEMMA ListsWider ==
    ASSUME NEW l, NEW t, NEW loc, NEW names, NEW more, names \subseteq more, Lists(l, t, loc, names)
    PROVE  Lists(l, t, loc, more)
BY DEF Lists

\* The address of a route of a subroute, put together in either order.
LEMMA LocBelow ==
    ASSUME NEW k, NEW i, NEW j
    PROVE  <<k>> \o <<i, j>> = <<k, i>> \o <<j>>
<1> DEFINE S == {k, i, j}
           a == <<k>> \o <<i, j>>
           b == <<k, i>> \o <<j>>
<1>1. <<k>> \in Seq(S) /\ <<i, j>> \in Seq(S) /\ <<k, i>> \in Seq(S) /\ <<j>> \in Seq(S)
      /\ Len(<<k>>) = 1 /\ Len(<<i, j>>) = 2 /\ Len(<<k, i>>) = 2 /\ Len(<<j>>) = 1
  OBVIOUS
<1>2. /\ a \in Seq(S) /\ Len(a) = 3
      /\ \A m \in 1 .. 1 : a[m] = <<k>>[m]
      /\ \A m \in 1 .. 2 : a[1 + m] = <<i, j>>[m]
  <2> HIDE DEF S
  <2> QED
    BY <1>1, Joined
<1>3. /\ b \in Seq(S) /\ Len(b) = 3
      /\ \A m \in 1 .. 2 : b[m] = <<k, i>>[m]
      /\ \A m \in 1 .. 1 : b[2 + m] = <<j>>[m]
  <2> HIDE DEF S
  <2> QED
    BY <1>1, Joined
<1> HIDE DEF a, b, S
<1>4. a[1] = k /\ a[1 + 1] = i /\ a[1 + 2] = j
  BY <1>2
<1>5. b[1] = k /\ b[2] = i /\ b[2 + 1] = j
  BY <1>3
<1>6. \A m \in 1 .. 3 : a[m] = b[m]
  BY <1>4, <1>5
<1>7. DOMAIN b = 1 .. 3 /\ b = [m \in 1 .. 3 |-> b[m]]
  BY <1>3
<1>8. a = b
  BY <1>2, <1>6, <1>7, SameSeq
<1> QED
  BY <1>8 DEF a, b

\* A reading that is one entry.
LEMMA UnreadLists ==
    ASSUME NEW n, NEW loc, NEW names
    PROVE  Unread(n, loc).unparsed = {ackAware(n, loc)} /\ Lists(Unread(n, loc), n, loc, names)
BY DEF Lists, Unread, Nothing

\* A leaf that exposes something is listed for the name it is read under.
LEMMA LeafListed ==
    ASSUME NEW n \in Node, NEW p, NEW m, NEW a, NEW loc, ReadWhole(n),
           n.handle \cap {"proxy", "other"} # {}
    PROVE  Lists(collectLeaf(n, p, m, a, loc), n, loc, {p})
<1>1. CASE n.extra
  BY <1>1, UnreadLists DEF collectLeaf
<1>2. CASE ~ n.extra /\ Proxies(n)
  <2> DEFINE r == Understood(n, p, m \/ n.id = routeID(p), Inherited(a, n), loc)
  <2>1. collectLeaf(n, p, m, a, loc).routes = {r}
    BY <1>2 DEF collectLeaf, Resolved, Nothing
  <2>2. r.loc = loc /\ r.host = p
    BY DEF Understood
  <2> HIDE DEF r
  <2> QED
    BY <2>1, <2>2 DEF Lists
<1>3. CASE ~ n.extra /\ ~ Proxies(n)
  <2>1. ~ hasDenyHandler(n)
    BY <1>3 DEF ReadWhole, hasDenyHandler, Proxies
  <2>2. collectLeaf(n, p, m, a, loc) = Unread(n, loc)
    BY <1>3, <2>1 DEF collectLeaf
  <2> QED
    BY <2>2, UnreadLists
<1> QED
  BY <1>1, <1>2, <1>3

\* A route with a host matcher, read under one of its patterns: its own handlers.
LEMMA OwnListed ==
    ASSUME NEW n \in Node, NEW p, NEW loc, ReadWhole(n), n.handle \cap {"proxy", "other"} # {}
    PROVE  Lists(collectLeaves(n, p, loc), n, loc, {p})
<1>1. ~ HasSub(n)
  BY DEF ReadWhole
<1> QED
  BY <1>1, LeafListed DEF collectLeaves

\* And the routes below it.
LEMMA BelowListed ==
    ASSUME NEW n \in Node, NEW h \in Hosts, NEW p \in {h, ZoneOf[h]}, p \in Patterns, NEW loc,
           ReadWhole(n), HasSub(n),
           NEW j \in DOMAIN n.subs, MatchesHost(n.subs[j], h), ReadWhole(n.subs[j]),
           n.subs[j].handle \cap {"proxy", "other"} # {}
    PROVE  \/ Lists(collectLeaves(n, p, loc), n, loc, {})
           \/ Lists(collectLeaves(n, p, loc), n.subs[j], loc \o <<j>>, {h, ZoneOf[h]})
<1> DEFINE t == n.subs[j]
           X == {y \in (DOMAIN n.subs) \X Patterns :
                   IF hasHost(n.subs[y[1]])
                   THEN y[2] \in hostMatches(n.subs[y[1]]) ELSE y[2] = p}
           R == {collectLeaf(n.subs[x[1]], x[2], n.id = routeID(p), n.auth, loc \o <<x[1]>>) : x \in X}
           below == Union(R)
<1>1. t \in Node /\ t.match \in Seq(Patterns)
  BY NodeIs, SubNodeIs
<1>2. ~ Proxies(n)
  BY DEF ReadWhole, Proxies
<1>3. CASE n.extra
  BY <1>3, UnreadLists DEF collectLeaves, collectLeaf
<1>4. CASE ~ n.extra
  <2>1. \E y \in {h, ZoneOf[h]} : <<j, y>> \in X
    <3>1. CASE hasHost(t)
      <4>1. \E y \in {h, ZoneOf[h]} : y \in hostMatches(t)
        BY <3>1 DEF MatchesHost, routeHasExactHost, routeWildcardCovers, wildcardCovers
      <4>2. hostMatches(t) \subseteq Patterns
        BY <1>1 DEF hostMatches, ToSet
      <4> QED
        BY <3>1, <4>1, <4>2
    <3>2. CASE ~ hasHost(t)
      BY <3>2
    <3> QED
      BY <3>1, <3>2
  <2>2. PICK y \in {h, ZoneOf[h]} : <<j, y>> \in X
    BY <2>1
  <2> HIDE DEF X
  <2> DEFINE x == collectLeaf(t, y, n.id = routeID(p), n.auth, loc \o <<j>>)
  <2>3. x \in R
    BY <2>2
  <2>4. Lists(x, t, loc \o <<j>>, {y})
    BY <1>1, LeafListed
  <2> HIDE DEF x, R
  <2>5. Lists(below, t, loc \o <<j>>, {y})
    BY <2>3, <2>4, ListsMore
  <2>6. collectLeaves(n, p, loc) =
          IF below.ok \/ below.unparsed # {} THEN [below EXCEPT !.ok = TRUE] ELSE Unread(n, loc)
    BY <1>2, <1>4 DEF collectLeaves, R, X
  <2>7. [below EXCEPT !.ok = TRUE].routes = below.routes
        /\ [below EXCEPT !.ok = TRUE].unparsed = below.unparsed
    BY DEF Union
  <2> HIDE DEF below
  <2>8. CASE below.ok \/ below.unparsed # {}
    <3>1. collectLeaves(n, p, loc) = [below EXCEPT !.ok = TRUE]
      BY <2>6, <2>8
    <3>2. Lists([below EXCEPT !.ok = TRUE], t, loc \o <<j>>, {h, ZoneOf[h]})
      BY <2>5, <2>7 DEF Lists
    <3> QED
      BY <3>1, <3>2
  <2>9. CASE ~ (below.ok \/ below.unparsed # {})
    BY <2>6, <2>9, UnreadLists
  <2> QED
    BY <2>8, <2>9
<1> QED
  BY <1>3, <1>4

\* A host-less route that a read passes over exposes nothing.
LEMMA HostlessListed ==
    ASSUME NEW n \in Node, ~ hasHost(n), ~ Permissive(n), ReadWhole(n), NEW loc, NEW t,
           t = n \/ (HasSub(n) /\ \E j \in DOMAIN n.subs : t = n.subs[j]),
           ReadWhole(t), t.handle \cap {"proxy", "other"} # {}
    PROVE  Lists(readHostless(n, loc), n, loc, {})
<1>1. ~ Proxies(n)
  BY DEF Permissive
<1>2. CASE t = n
  <2>1. ~ hasDenyHandler(n) /\ ~ HasSub(n)
    BY <1>1, <1>2 DEF ReadWhole, Proxies, HasSub, hasDenyHandler
  <2>2. readHostless(n, loc) = Unread(n, loc)
    BY <2>1 DEF readHostless
  <2> QED
    BY <2>2, UnreadLists
<1>3. CASE HasSub(n) /\ \E j \in DOMAIN n.subs : t = n.subs[j]
  <2>1. PICK j \in DOMAIN n.subs : t = n.subs[j]
    BY <1>3
  <2>2. ~ hasDenyHandler(n)
    BY <1>3 DEF ReadWhole, hasDenyHandler
  <2>3. classifyHostlessSubroute(n.subs) # "deny"
    <3> SUFFICES ASSUME classifyHostlessSubroute(n.subs) = "deny"
                 PROVE  FALSE
      OBVIOUS
    <3>1. ~ Proxies(t) /\ hasDenyHandler(t)
      BY <2>1 DEF classifyHostlessSubroute
    <3> QED
      BY <3>1 DEF ReadWhole, Proxies, hasDenyHandler
  <2>4. readHostless(n, loc) = Unread(n, loc)
    BY <2>2, <2>3 DEF readHostless
  <2> QED
    BY <2>4, UnreadLists
<1> QED
  BY <1>2, <1>3

\* The terminals of a host's candidates.
LEMMA CandidateIs ==
    ASSUME NEW s \in Seq(Node), NEW h, NEW c \in Candidates(s, h)
    PROVE  /\ c[1] \in DOMAIN s /\ s[c[1]] \in Node /\ MatchesHost(s[c[1]], h)
           /\ c[2] \in 1 .. (Len(s[c[1]].subs) + 1) /\ c = <<c[1], c[2]>>
           /\ \/ /\ c[2] > Len(s[c[1]].subs) /\ Terminal(s, c) = s[c[1]]
                 /\ s[c[1]].handle # {"sub"}
              \/ /\ c[2] \in DOMAIN s[c[1]].subs /\ Terminal(s, c) = s[c[1]].subs[c[2]]
                 /\ ~ (c[2] > Len(s[c[1]].subs)) /\ HasSub(s[c[1]])
                 /\ MatchesHost(s[c[1]].subs[c[2]], h)
<1>1. PICK i \in DOMAIN s : MatchesHost(s[i], h) /\ \E j \in 1 .. (Len(s[i].subs) + 1) :
          c = <<i, j>> /\ IF j <= Len(s[i].subs) THEN HasSub(s[i]) /\ MatchesHost(s[i].subs[j], h)
                          ELSE s[i].handle # {"sub"}
  BY DEF Candidates
<1>2. PICK j \in 1 .. (Len(s[i].subs) + 1) :
          c = <<i, j>> /\ IF j <= Len(s[i].subs) THEN HasSub(s[i]) /\ MatchesHost(s[i].subs[j], h)
                          ELSE s[i].handle # {"sub"}
  BY <1>1
<1>3. c[1] = i /\ c[2] = j /\ c = <<c[1], c[2]>>
  BY <1>2
<1>4. s[i] \in Node /\ s[i].subs \in Seq(SubNode) /\ Len(s[i].subs) \in Nat
  BY NodeIs
<1>5. CASE j <= Len(s[i].subs)
  <2>1. j \in DOMAIN s[i].subs /\ ~ (j > Len(s[i].subs))
    BY <1>4, <1>5
  <2>2. Terminal(s, c) = s[i].subs[j]
    BY <1>3, <1>5 DEF Terminal
  <2> QED
    BY <1>1, <1>2, <1>3, <1>4, <1>5, <2>1, <2>2
<1>6. CASE ~ (j <= Len(s[i].subs))
  <2>1. j > Len(s[i].subs)
    BY <1>4, <1>6
  <2>2. Terminal(s, c) = s[i]
    BY <1>3, <1>6 DEF Terminal
  <2> QED
    BY <1>1, <1>2, <1>3, <1>4, <1>6, <2>1, <2>2
<1> QED
  BY <1>5, <1>6

\* A server without an open catch-all: every answer that exposes something is
\* listed under the host or its zone, or is an entry of its own.
LEMMA ServerListed ==
    ASSUME NEW s \in Seq(Node), NEW key, NEW h \in Hosts, NEW c \in Candidates(s, h),
           Exposes(s, c), ReadWhole(s[c[1]]), ReadWhole(Terminal(s, c)),
           ~ permissiveCatchAll(s)
    PROVE  \/ Lists(normalizeServer(s, key), s[c[1]], <<key, c[1]>>, {})
           \/ Lists(normalizeServer(s, key), Terminal(s, c), LocOf(key, s, c), {h, ZoneOf[h]})
<1> DEFINE i == c[1]
           n == s[i]
           t == Terminal(s, c)
           of(k) == IF hasHost(s[k])
                    THEN Union({collectLeaves(s[k], p, <<key, k>>) : p \in hostMatches(s[k])})
                    ELSE readHostless(s[k], <<key, k>>)
           L == normalizeServer(s, key)
<1>1. i \in DOMAIN s /\ n \in Node /\ MatchesHost(n, h) /\ i \in Nat
  BY CandidateIs
<1>2. t.handle \cap {"proxy", "other"} # {}
  BY DEF Exposes
<1>3. of(i) \in {of(k) : k \in DOMAIN s} /\ L = Union({of(k) : k \in DOMAIN s})
  BY <1>1 DEF normalizeServer
<1>4. ASSUME NEW u, NEW loc, NEW names, Lists(of(i), u, loc, names)
      PROVE  Lists(L, u, loc, names)
  <2> HIDE DEF of, L
  <2> QED
    BY <1>3, <1>4, ListsMore
<1>5. CASE ~ hasHost(n)
  <2>1. ~ Permissive(n)
    BY <1>1 DEF permissiveCatchAll
  <2>2. t = n \/ (HasSub(n) /\ \E j \in DOMAIN n.subs : t = n.subs[j])
    BY CandidateIs
  <2>3. Lists(readHostless(n, <<key, i>>), n, <<key, i>>, {})
    BY <1>1, <1>2, <1>5, <2>1, <2>2, HostlessListed
  <2>4. Lists(of(i), n, <<key, i>>, {})
    BY <1>5, <2>3
  <2>5. Lists(L, n, <<key, i>>, {})
    BY <2>4, <1>4
  <2> QED
    BY <2>5
<1>6. CASE hasHost(n)
  <2>1. PICK p \in {h, ZoneOf[h]} : p \in hostMatches(n)
    BY <1>1, <1>6 DEF MatchesHost, routeHasExactHost, routeWildcardCovers, wildcardCovers
  <2>2. p \in Patterns
    BY <2>1, <1>1, NodeIs DEF hostMatches, ToSet
  <2> DEFINE x == collectLeaves(n, p, <<key, i>>)
  <2>3. ASSUME NEW u, NEW loc, NEW names, Lists(x, u, loc, names)
        PROVE  Lists(L, u, loc, names)
    <3> DEFINE R == {collectLeaves(n, q, <<key, i>>) : q \in hostMatches(n)}
    <3>1. x \in R /\ of(i) = Union(R)
      BY <1>6, <2>1
    <3> HIDE DEF x, R, of, L
    <3>2. Lists(of(i), u, loc, names)
      BY <2>3, <3>1, ListsMore
    <3> QED
      BY <1>4, <2>3, <3>2
  <2>4. CASE c[2] > Len(n.subs) /\ t = n
    <3>1. LocOf(key, s, c) = <<key, i>>
      <4>1. ~ (c[2] <= Len(n.subs))
        BY <2>4, <1>1, CandidateIs, NodeIs
      <4> QED
        BY <4>1 DEF LocOf
    <3>2. Lists(x, n, <<key, i>>, {p})
      BY <1>1, <1>2, <2>4, OwnListed
    <3> HIDE DEF x
    <3>3. Lists(L, n, <<key, i>>, {p})
      BY <2>3, <3>2
    <3>4. Lists(L, n, <<key, i>>, {h, ZoneOf[h]})
      BY <2>1, <3>3, ListsWider
    <3> QED
      BY <2>4, <3>1, <3>4
  <2>5. CASE c[2] \in DOMAIN n.subs /\ t = n.subs[c[2]] /\ HasSub(n) /\ MatchesHost(n.subs[c[2]], h)
             /\ ~ (c[2] > Len(n.subs))
    <3> DEFINE j == c[2]
    <3>1. LocOf(key, s, c) = <<key, i>> \o <<j>>
      <4>1. c[2] <= Len(n.subs) /\ j \in Nat /\ c = <<i, j>>
        BY <2>5, <1>1, CandidateIs, NodeIs
      <4>2. LocOf(key, s, c) = <<key>> \o <<i, j>>
        BY <4>1 DEF LocOf
      <4> QED
        BY <4>2, LocBelow
    <3>2. \/ Lists(x, n, <<key, i>>, {})
          \/ Lists(x, n.subs[j], <<key, i>> \o <<j>>, {h, ZoneOf[h]})
      BY <1>1, <1>2, <2>1, <2>2, <2>5, BelowListed
    <3> HIDE DEF x
    <3>3. \/ Lists(L, n, <<key, i>>, {})
          \/ Lists(L, n.subs[j], <<key, i>> \o <<j>>, {h, ZoneOf[h]})
      BY <2>3, <3>2
    <3> QED
      BY <2>5, <3>1, <3>3
  <2> QED
    BY <2>4, <2>5, CandidateIs
<1> QED
  BY <1>5, <1>6

\* ENFORCED is never certified over config that was not read.
LEMMA ClosedWhenEnforced ==
    ASSUME cfg.routes \in Seq(Node), cfg.sibling \in Seq(Node)
    PROVE  EnforcedIsClosed
<1> DEFINE live == normalize(cfg)
           main == normalizeServer(cfg.routes, "srv0")
           side == readSibling(cfg.sibling)
<1> SUFFICES ASSUME DenyState(live) = "enforced",
                    NEW key \in {"srv0", "sibling"}, NEW h \in Hosts,
                    NEW s, s = IF key = "srv0" THEN cfg.routes ELSE cfg.sibling,
                    NEW c \in Answers(s, h), Exposes(s, c), ReadWhole(s[c[1]]),
                    ReadWhole(Terminal(s, c)), key = "srv0" \/ serverForwards(s)
             PROVE  \/ IsAck(s[c[1]].id) \/ IsAck(Terminal(s, c).id)
                    \/ \E r \in live.routes :
                          r.loc = LocOf(key, s, c) /\ (r.host = h \/ r.host = ZoneOf[h])
  BY DEF EnforcedIsClosed
<1>1. live.deny /\ \A u \in live.unparsed : u.acked
  BY DEF DenyState, FullyParsed
<1>2. /\ main.routes \subseteq live.routes /\ main.unparsed \subseteq live.unparsed
      /\ side.routes \subseteq live.routes /\ side.unparsed \subseteq live.unparsed
      /\ live.deny = ~ permissiveCatchAll(cfg.routes)
  BY DEF normalize
<1> HIDE DEF live
<1>3. c \in Candidates(s, h) /\ s \in Seq(Node)
  BY DEF Answers
<1>4. ASSUME NEW L, L.routes \subseteq live.routes, L.unparsed \subseteq live.unparsed,
             \/ Lists(L, s[c[1]], <<key, c[1]>>, {})
             \/ Lists(L, Terminal(s, c), LocOf(key, s, c), {h, ZoneOf[h]})
      PROVE  \/ IsAck(s[c[1]].id) \/ IsAck(Terminal(s, c).id)
             \/ \E r \in live.routes :
                   r.loc = LocOf(key, s, c) /\ (r.host = h \/ r.host = ZoneOf[h])
  <2>1. \A t, loc : ackAware(t, loc) \in live.unparsed => IsAck(t.id)
    BY <1>1 DEF ackAware
  <2>2. Lists(L, s[c[1]], <<key, c[1]>>, {}) => ackAware(s[c[1]], <<key, c[1]>>) \in live.unparsed
    BY <1>4 DEF Lists
  <2> QED
    BY <1>4, <2>1, <2>2 DEF Lists
<1>5. CASE key = "srv0"
  <2>1. s = cfg.routes /\ ~ permissiveCatchAll(s)
    BY <1>1, <1>2, <1>5
  <2>2. \/ Lists(normalizeServer(s, key), s[c[1]], <<key, c[1]>>, {})
        \/ Lists(normalizeServer(s, key), Terminal(s, c), LocOf(key, s, c), {h, ZoneOf[h]})
    BY <1>3, <2>1, ServerListed
  <2>3. main = normalizeServer(s, key)
    BY <1>5, <2>1
  <2> HIDE DEF main
  <2> QED
    BY <1>2, <1>4, <2>2, <2>3
<1>6. CASE key = "sibling"
  <2>1. s = cfg.sibling /\ serverForwards(s)
    BY <1>6
  <2> DEFINE L == normalizeServer(s, "sibling")
  <2>2. CASE L.unparsed = {} /\ ~ permissiveCatchAll(s)
    <3>1. side = normalizeServer(s, key)
      BY <1>6, <2>1, <2>2 DEF readSibling
    <3>2. \/ Lists(normalizeServer(s, key), s[c[1]], <<key, c[1]>>, {})
          \/ Lists(normalizeServer(s, key), Terminal(s, c), LocOf(key, s, c), {h, ZoneOf[h]})
      BY <1>3, <2>2, ServerListed
    <3> HIDE DEF side
    <3> QED
      BY <1>2, <1>4, <3>1, <3>2
  <2>3. CASE ~ (L.unparsed = {} /\ ~ permissiveCatchAll(s))
    <3> DEFINE u == [loc |-> <<"sibling">>, acked |-> FALSE]
    <3>1. side = [Nothing EXCEPT !.unparsed = {u}]
      BY <2>1, <2>3 DEF readSibling
    <3>2. side.unparsed = {u}
      BY <3>1 DEF Nothing
    <3> HIDE DEF side
    <3> QED
      BY <1>1, <1>2, <3>2
  <2> QED
    BY <2>2, <2>3
<1> QED
  BY <1>5, <1>6

-----------------------------------------------------------------------------
(***************************************************************************)
(* What a read returns is typed.                                           *)
(***************************************************************************)
Dials == {"none", "origin", "elsewhere"}

\* Listed routes have a name and a dial; entries have an address on server key.
Typed(l, key) ==
    /\ \A r \in l.routes : r.host \in Patterns /\ r.dial \in Dials
    /\ \A u \in l.unparsed : \E p \in Path : u.loc = <<key>> \o p

\* A union of typed readings is one.
LEMMA UnionTyped ==
    ASSUME NEW R, NEW key, \A x \in R : Typed(x, key)
    PROVE  Typed(Union(R), key)
BY DEF Typed, Union

\* Nothing is typed, and so is one entry.
LEMMA EntryTyped ==
    ASSUME NEW n, NEW key, NEW p \in Path
    PROVE  /\ Typed(Resolved, key) /\ Typed(Nothing, key) /\ Typed(Unread(n, <<key>> \o p), key)
BY DEF Typed, Resolved, Unread, Nothing, ackAware

\* A leaf.
LEMMA LeafTyped ==
    ASSUME NEW n \in Node, NEW p \in Patterns, NEW m, NEW a, NEW key, NEW q \in Path
    PROVE  Typed(collectLeaf(n, p, m, a, <<key>> \o q), key)
<1> DEFINE loc == <<key>> \o q
           r == Understood(n, p, m \/ n.id = routeID(p), Inherited(a, n), loc)
           w == [Resolved EXCEPT !.routes = {r}]
<1>1. w.routes = {r} /\ w.unparsed = {}
  BY DEF Resolved, Nothing
<1>2. r.host = p /\ r.dial = n.dial
  BY DEF Understood
<1>3. n.dial \in Dials
  BY NodeIs DEF Dials
<1> HIDE DEF r, loc
<1>4. Typed(w, key)
  BY <1>1, <1>2, <1>3 DEF Typed
<1>5. collectLeaf(n, p, m, a, loc) \in {Unread(n, loc), w, Resolved}
  BY DEF collectLeaf, r
<1>6. Typed(Unread(n, loc), key) /\ Typed(Resolved, key)
  BY EntryTyped DEF loc
<1> HIDE DEF w
<1>7. Typed(collectLeaf(n, p, m, a, loc), key)
  BY <1>4, <1>5, <1>6
<1> QED
  BY <1>7 DEF loc

\* The address below a route is one of two indices.
LEMMA LocsBuilt ==
    ASSUME NEW key, NEW i \in Nat \ {0}
    PROVE  /\ <<key>> \o <<i>> = <<key, i>>
           /\ \A j \in Nat \ {0} : <<key, i>> \o <<j>> = <<key>> \o <<i, j>>
<1>1. <<key>> \o <<i>> = <<key, i>>
  <2> DEFINE S == {key, i}
             a == <<key>> \o <<i>>
             b == <<key, i>>
  <2>1. <<key>> \in Seq(S) /\ <<i>> \in Seq(S) /\ Len(<<key>>) = 1 /\ Len(<<i>>) = 1
    OBVIOUS
  <2>2. a \in Seq(S) /\ Len(a) = 2 /\ (\A m \in 1 .. 1 : a[m] = <<key>>[m])
        /\ \A m \in 1 .. 1 : a[1 + m] = <<i>>[m]
    <3> HIDE DEF S
    <3> QED
      BY <2>1, Joined
  <2> HIDE DEF a
  <2>3. a[1] = key /\ a[1 + 1] = i
    BY <2>2
  <2>4. \A m \in 1 .. 2 : a[m] = b[m]
    BY <2>3
  <2>5. DOMAIN b = 1 .. 2 /\ b = [m \in 1 .. 2 |-> b[m]]
    OBVIOUS
  <2> HIDE DEF b
  <2>6. a = b
    BY <2>2, <2>4, <2>5, SameSeq
  <2> QED
    BY <2>6 DEF a, b
<1> QED
  BY <1>1, LocBelow

\* A route with a host matcher, under one of its patterns.
LEMMA LeavesTyped ==
    ASSUME NEW n \in Node, NEW p \in Patterns, NEW key, NEW i \in Nat \ {0}
    PROVE  Typed(collectLeaves(n, p, <<key, i>>), key)
<1> DEFINE loc == <<key, i>>
           X == {y \in (DOMAIN n.subs) \X Patterns :
                   IF hasHost(n.subs[y[1]])
                   THEN y[2] \in hostMatches(n.subs[y[1]]) ELSE y[2] = p}
           R == {collectLeaf(n.subs[x[1]], x[2], n.id = routeID(p), n.auth, loc \o <<x[1]>>) : x \in X}
           below == Union(R)
           w == [below EXCEPT !.ok = TRUE]
<1>1. loc = <<key>> \o <<i>> /\ <<i>> \in Path
  BY LocsBuilt, PathsBuilt
<1>2. Typed(collectLeaf(n, p, FALSE, "none", loc), key) /\ Typed(Unread(n, loc), key)
  BY <1>1, LeafTyped, EntryTyped
<1>3. ASSUME NEW x \in X
      PROVE  Typed(collectLeaf(n.subs[x[1]], x[2], n.id = routeID(p), n.auth, loc \o <<x[1]>>), key)
  <2>1. x[1] \in DOMAIN n.subs /\ x[2] \in Patterns
    OBVIOUS
  <2>2. n.subs[x[1]] \in Node /\ x[1] \in Nat \ {0}
    BY <2>1, NodeIs, SubNodeIs
  <2> DEFINE l == loc \o <<x[1]>>
             q == <<i, x[1]>>
  <2>3. q \in Path /\ l = <<key>> \o q
    BY <2>2, PathsBuilt, LocsBuilt
  <2> HIDE DEF l, q
  <2>4. Typed(collectLeaf(n.subs[x[1]], x[2], n.id = routeID(p), n.auth, l), key)
    BY <2>1, <2>2, <2>3, LeafTyped
  <2> QED
    BY <2>4 DEF l
<1>4. \A y \in R : Typed(y, key)
  BY <1>3
<1> HIDE DEF R
<1>5. Typed(below, key)
  BY <1>4, UnionTyped
<1>6. w.routes = below.routes /\ w.unparsed = below.unparsed
  BY DEF Union
<1>7. Typed(w, key)
  BY <1>5, <1>6 DEF Typed
<1>8. collectLeaves(n, p, loc) \in {collectLeaf(n, p, FALSE, "none", loc), w, Unread(n, loc)}
  BY DEF collectLeaves, R
<1> HIDE DEF w, below, loc
<1>9. Typed(collectLeaves(n, p, loc), key)
  BY <1>2, <1>7, <1>8
<1> QED
  BY <1>9 DEF loc

\* A server.
LEMMA ServerTyped ==
    ASSUME NEW s \in Seq(Node), NEW key
    PROVE  Typed(normalizeServer(s, key), key)
<1> DEFINE of(i) == IF hasHost(s[i])
                    THEN Union({collectLeaves(s[i], p, <<key, i>>) : p \in hostMatches(s[i])})
                    ELSE readHostless(s[i], <<key, i>>)
<1>1. ASSUME NEW i \in DOMAIN s
      PROVE  Typed(of(i), key)
  <2>1. i \in Nat \ {0} /\ s[i] \in Node
    OBVIOUS
  <2>2. \A p \in hostMatches(s[i]) : p \in Patterns
    BY <2>1, NodeIs DEF hostMatches, ToSet
  <2> DEFINE R == {collectLeaves(s[i], p, <<key, i>>) : p \in hostMatches(s[i])}
  <2>3. \A x \in R : Typed(x, key)
    BY <2>1, <2>2, LeavesTyped
  <2> HIDE DEF R
  <2>4. Typed(Union(R), key)
    BY <2>3, UnionTyped
  <2>5. <<key, i>> = <<key>> \o <<i>> /\ <<i>> \in Path
    BY <2>1, LocsBuilt, PathsBuilt
  <2>6. Typed(Unread(s[i], <<key, i>>), key) /\ Typed(Resolved, key)
    BY <2>5, EntryTyped
  <2>7. readHostless(s[i], <<key, i>>) \in {Resolved, Unread(s[i], <<key, i>>)}
    BY DEF readHostless
  <2>8. Typed(readHostless(s[i], <<key, i>>), key)
    BY <2>6, <2>7
  <2> QED
    BY <2>4, <2>8 DEF R
<1> DEFINE R == {of(i) : i \in DOMAIN s}
<1>2. \A x \in R : Typed(x, key)
  BY <1>1
<1>3. normalizeServer(s, key) = Union(R)
  BY DEF normalizeServer
<1> HIDE DEF R
<1> QED
  BY <1>2, <1>3, UnionTyped

\* The tail of an address is a path.
LEMMA TailOfLoc ==
    ASSUME NEW key, NEW p \in Path
    PROVE  /\ Tail(<<key>> \o p) = p /\ Len(<<key>> \o p) = Len(p) + 1
<1> DEFINE S == {key} \cup Nat
           a == <<key>> \o p
<1>1. <<key>> \in Seq(S) /\ Len(<<key>>) = 1 /\ p \in Seq(S) /\ Len(p) \in Nat
  BY DEF Path
<1>2. a \in Seq(S) /\ Len(a) = 1 + Len(p) /\ \A m \in 1 .. Len(p) : a[1 + m] = p[m]
  <2> HIDE DEF S
  <2> QED
    BY <1>1, Joined
<1> HIDE DEF a, S
<1>3. Tail(a) \in Seq(S) /\ Len(Tail(a)) = Len(p) /\ \A m \in 1 .. Len(p) : Tail(a)[m] = a[m + 1]
  BY <1>1, <1>2
<1>4. \A m \in 1 .. Len(p) : Tail(a)[m] = p[m]
  BY <1>1, <1>2, <1>3
<1>5. DOMAIN p = 1 .. Len(p) /\ p = [m \in 1 .. Len(p) |-> p[m]]
  BY <1>1
<1>6. Tail(a) = p
  BY <1>1, <1>3, <1>4, <1>5, SameSeq
<1> QED
  BY <1>1, <1>2, <1>6 DEF a

ConfigType(c) ==
    /\ c = [routes |-> c.routes, sibling |-> c.sibling, l4 |-> c.l4, admin |-> c.admin,
            granular |-> c.granular, ops |-> c.ops]
    /\ c.routes \in Seq(Node) /\ c.sibling \in Seq(Node) /\ c.ops \in Nat

\* The whole read: what is not a layer4 route has a name and a dial, and what
\* has an address with an index is on the managed server.
LEMMA ReadTyped ==
    ASSUME NEW c, ConfigType(c)
    PROVE  /\ \A r \in normalize(c).routes : r.dial # "tcp" => r.host \in Patterns /\ r.dial \in Dials
           /\ \A u \in normalize(c).unparsed : Len(u.loc) # 1 => PathOf(u.loc) \in Path
<1> DEFINE main == normalizeServer(c.routes, "srv0")
           side == readSibling(c.sibling)
<1>1. Typed(main, "srv0")
  BY ServerTyped DEF ConfigType
<1>2. /\ \A r \in side.routes : r.host \in Patterns /\ r.dial \in Dials
      /\ \A u \in side.unparsed : Len(u.loc) = 1
  <2> DEFINE L == normalizeServer(c.sibling, "sibling")
             w == [Nothing EXCEPT !.unparsed = {[loc |-> <<"sibling">>, acked |-> FALSE]}]
  <2>1. Typed(L, "sibling")
    BY ServerTyped DEF ConfigType
  <2>2. side = Nothing \/ (side = L /\ L.unparsed = {}) \/ side = w
    BY DEF readSibling
  <2>3. Nothing.routes = {} /\ Nothing.unparsed = {} /\ w.routes = {}
        /\ w.unparsed = {[loc |-> <<"sibling">>, acked |-> FALSE]}
    BY DEF Nothing
  <2> HIDE DEF w, L
  <2> QED
    BY <2>1, <2>2, <2>3 DEF Typed
<1>3. /\ normalize(c).routes = appendLayer4Routes(c) \cup main.routes \cup side.routes
      /\ normalize(c).unparsed = main.unparsed \cup side.unparsed
  BY DEF normalize
<1>4. \A r \in appendLayer4Routes(c) : r.dial = "tcp"
  BY DEF appendLayer4Routes
<1> HIDE DEF main, side
<1>5. \A u \in main.unparsed : PathOf(u.loc) \in Path
  BY <1>1, TailOfLoc DEF Typed, PathOf
<1> QED
  BY <1>1, <1>2, <1>3, <1>4, <1>5 DEF Typed

-----------------------------------------------------------------------------
(***************************************************************************)
(* Type correctness.                                                       *)
(***************************************************************************)
Targets == Patterns \X Dials

Calls ==
    [kind : {"insert", "delete", "l4"}, host : Hosts]
    \cup [kind : {"put"}, path : Path, node : SubNode]
    \cup [kind : {"patch"}, path : {p \in Path : Len(p) = 1}, node : Node]
    \cup [kind : {"patch"}, path : {p \in Path : Len(p) = 2}, node : SubNode]
    \cup [kind : {"sweep"}, host : Hosts, n : Nat]
    \cup [kind : {"delpath"}, path : Path]
    \cup [kind : {"load"}, target : SUBSET Targets]

JobShape(j) ==
    /\ j = [verb |-> j.verb, add |-> j.add, remove |-> j.remove, gate |-> j.gate, loc |-> j.loc,
            todo |-> j.todo, status |-> j.status, clean |-> j.clean]
    /\ j.add \in SUBSET Hosts /\ j.remove \in SUBSET Hosts
    /\ j.todo \in Seq(Calls)
    /\ j.status \in {"running", "done", "error"} /\ j.clean \in BOOLEAN
    /\ j.status = "running" \/ j.todo = <<>>

\* No two routes carry the same @id.
IdsApart(s) ==
    \A p, q \in Paths(s) : NodeAt(s, p).id = NodeAt(s, q).id => p = q \/ NodeAt(s, p).id = NoId

Counters ==
    /\ jobs \in 0 .. cfg.ops /\ troubles \in 0 .. Troubles

TypeInv ==
    /\ ConfigType(cfg) /\ ConfigType(before) /\ JobShape(job)
    /\ IdsApart(cfg.routes) /\ Counters

\* The invariant has the parts of the type invariant.
LEMMA TypeInvImplies == TypeInv => TypeOK
BY DEF TypeInv, TypeOK, JobType, JobShape, Counters, IdsApart

\* A config with other routes.
LEMMA WithRoutesType ==
    ASSUME NEW c, ConfigType(c), NEW s \in Seq(Node)
    PROVE  /\ ConfigType(WithRoutes(c, s)) /\ WithRoutes(c, s).routes = s
           /\ WithRoutes(c, s).l4 = c.l4 /\ WithRoutes(c, s).ops = c.ops
           /\ WithRoutes(c, s).sibling = c.sibling
<1>1. WithRoutes(c, s) = [routes |-> s, sibling |-> c.sibling, l4 |-> c.l4, admin |-> c.admin,
                          granular |-> c.granular, ops |-> c.ops]
  BY DEF WithRoutes, ConfigType
<1> QED
  BY <1>1 DEF ConfigType

\* A config without a passthrough route.
LEMMA WithoutL4Type ==
    ASSUME NEW c, ConfigType(c), NEW h
    PROVE  /\ ConfigType(WithoutL4(c, h)) /\ WithoutL4(c, h).routes = c.routes
           /\ WithoutL4(c, h).ops = c.ops
<1>1. \A l : LET d == [c EXCEPT !.l4 = l]
             IN  ConfigType(d) /\ d.routes = c.routes /\ d.ops = c.ops
  BY DEF ConfigType
<1>2. CASE Layer4
  BY <1>1, <1>2 DEF WithoutL4
<1>3. CASE ~ Layer4
  BY <1>3 DEF WithoutL4
<1> QED
  BY <1>2, <1>3

\* The kinds of call.
LEMMA CallIs ==
    ASSUME NEW k \in Calls
    PROVE  /\ k.kind \in {"insert", "delete", "l4", "sweep"} => k.host \in Hosts
           /\ k.kind = "put" => k.path \in Path /\ k.node \in SubNode
           /\ k.kind = "patch" => k.path \in Path /\ CallNode(k.path, k.node)
           /\ k.kind = "sweep" => k.n \in Nat
           /\ k.kind = "delpath" => k.path \in Path
           /\ k.kind = "load" => k.target \in SUBSET Targets
<1>1. k.kind = "patch" => k.path \in Path /\ CallNode(k.path, k.node)
  BY SubNodeIs DEF Calls, CallNode
<1>2. k.kind \in {"insert", "delete", "l4", "sweep"} => k.host \in Hosts
  BY DEF Calls
<1>3. k.kind = "put" => k.path \in Path /\ k.node \in SubNode
  BY DEF Calls
<1>4. (k.kind = "sweep" => k.n \in Nat) /\ (k.kind = "delpath" => k.path \in Path)
      /\ (k.kind = "load" => k.target \in SUBSET Targets)
  BY DEF Calls
<1> QED
  BY <1>1, <1>2, <1>3, <1>4

\* A sequence over a set is one over a larger set.
LEMMA SeqWider ==
    ASSUME NEW S, NEW T, S \subseteq T, NEW s \in Seq(S)
    PROVE  s \in Seq(T) /\ \A i \in DOMAIN s : s[i] \in S
OBVIOUS

\* q asks for one thing about each host of S.
Asks(q, kind, S) ==
    /\ q \in Seq([kind : {kind}, host : S])
    /\ \A h \in S : \E i \in DOMAIN q : q[i].host = h

\* A call of one kind about each of a set of hosts.
LEMMA EachType ==
    ASSUME NEW S \in SUBSET Hosts, NEW kind
    PROVE  Asks(Each(kind, S), kind, S)
<1>1. IsFiniteSet(S)
  BY PatternsFinite, FS_Subset
<1> DEFINE q == SetToSeq(S)
<1>2. /\ q \in Seq(S) /\ \A x \in S : \E i \in DOMAIN q : q[i] = x
      /\ \A i, j \in DOMAIN q : q[i] = q[j] => i = j
  BY <1>1, SetToSeqLists
<1> HIDE DEF q
<1> DEFINE t == [i \in DOMAIN q |-> Call(kind, q[i])]
<1>3. \A i \in DOMAIN q : t[i] \in [kind : {kind}, host : S] /\ t[i].host = q[i]
  BY <1>2 DEF Call
<1>4. t \in Seq([kind : {kind}, host : S]) /\ DOMAIN t = DOMAIN q
  <2>1. DOMAIN q = 1 .. Len(q) /\ Len(q) \in Nat
    BY <1>2
  <2>2. t \in [1 .. Len(q) -> [kind : {kind}, host : S]]
    BY <1>3, <2>1
  <2> QED
    BY <2>1, <2>2
<1>5. Each(kind, S) = t
  BY DEF Each, q
<1> HIDE DEF t
<1>6. Asks(t, kind, S)
  BY <1>2, <1>3, <1>4 DEF Asks
<1> QED
  BY <1>5, <1>6

\* The calls of an apply are inserts of what is added, deletes of what is removed.
LEMMA GranularType ==
    ASSUME NEW add \in SUBSET Hosts, NEW remove \in SUBSET Hosts
    PROVE  /\ applyGranular(add, remove) \in
                 Seq([kind : {"insert"}, host : add] \cup [kind : {"delete"}, host : remove])
           /\ applyGranular(add, remove) \in Seq(Calls)
           /\ \A h \in remove : \E i \in DOMAIN applyGranular(add, remove) :
                 applyGranular(add, remove)[i].kind = "delete" /\ applyGranular(add, remove)[i].host = h
<1> DEFINE a == Each("insert", add \ remove)
           b == Each("delete", remove)
           c == Each("insert", add \cap remove)
           S == [kind : {"insert"}, host : add] \cup [kind : {"delete"}, host : remove]
<1>1. a \in Seq([kind : {"insert"}, host : add \ remove]) /\ c \in Seq([kind : {"insert"}, host : add \cap remove])
  <2>1. add \ remove \in SUBSET Hosts /\ add \cap remove \in SUBSET Hosts
    OBVIOUS
  <2>2. Asks(a, "insert", add \ remove) /\ Asks(c, "insert", add \cap remove)
    BY <2>1, EachType
  <2> QED
    BY <2>2 DEF Asks
<1>2. b \in Seq([kind : {"delete"}, host : remove]) /\ \A h \in remove : \E i \in DOMAIN b : b[i].host = h
  <2>1. Asks(b, "delete", remove)
    BY EachType
  <2> HIDE DEF b
  <2> QED
    BY <2>1 DEF Asks
<1> HIDE DEF a, b, c
<1>3. a \in Seq(S) /\ b \in Seq(S) /\ c \in Seq(S)
  <2>1. /\ [kind : {"insert"}, host : add \ remove] \subseteq S
        /\ [kind : {"insert"}, host : add \cap remove] \subseteq S
        /\ [kind : {"delete"}, host : remove] \subseteq S
    OBVIOUS
  <2> HIDE DEF S
  <2>2. a \in Seq(S)
    BY <1>1, <2>1, SeqWider
  <2>3. c \in Seq(S)
    BY <1>1, <2>1, SeqWider
  <2>4. b \in Seq(S)
    BY <1>2, <2>1, SeqWider
  <2> QED
    BY <2>2, <2>3, <2>4
<1>4. S \subseteq Calls
  BY DEF Calls
<1>5. \A i \in DOMAIN b : b[i].kind = "delete"
  <2>1. \A i \in DOMAIN b : b[i] \in [kind : {"delete"}, host : remove]
    <3> DEFINE D == [kind : {"delete"}, host : remove]
    <3>1. b \in Seq(D)
      BY <1>2
    <3> HIDE DEF D
    <3>2. \A i \in DOMAIN b : b[i] \in D
      BY <3>1, Elements
    <3> QED
      BY <3>2 DEF D
  <2> QED
    BY <2>1
<1> HIDE DEF S
<1>6. /\ a \o b \in Seq(S) /\ Len(a \o b) = Len(a) + Len(b)
      /\ \A i \in 1 .. Len(b) : (a \o b)[Len(a) + i] = b[i]
  BY <1>3, Joined
<1> DEFINE ab == a \o b
<1> HIDE DEF ab
<1>7. /\ ab \o c \in Seq(S) /\ Len(ab \o c) = Len(ab) + Len(c)
      /\ \A i \in 1 .. Len(ab) : (ab \o c)[i] = ab[i]
  <2>1. ab \in Seq(S)
    BY <1>6 DEF ab
  <2> QED
    BY <1>3, <2>1, Joined
<1> DEFINE t == ab \o c
<1>8. applyGranular(add, remove) = t
  BY DEF applyGranular, a, b, c, ab
<1> HIDE DEF t
<1>9. ASSUME NEW h \in remove
      PROVE  \E i \in DOMAIN t : t[i].kind = "delete" /\ t[i].host = h
  <2>1. PICK i \in DOMAIN b : b[i].host = h
    BY <1>2
  <2>2. i \in 1 .. Len(b) /\ Len(a) \in Nat /\ Len(b) \in Nat /\ Len(c) \in Nat
    BY <1>3
  <2>3. Len(a) + i \in 1 .. Len(ab) /\ Len(ab) \in Nat
    BY <1>6, <2>2 DEF ab
  <2>4. ab[Len(a) + i] = b[i]
    BY <1>6, <2>2 DEF ab
  <2>5. t[Len(a) + i] = b[i]
    BY <1>7, <2>3, <2>4 DEF t
  <2>6. Len(a) + i \in DOMAIN t
    BY <1>7, <2>2, <2>3 DEF t
  <2> QED
    BY <1>5, <2>1, <2>5, <2>6
<1>10. t \in Seq(S) /\ t \in Seq(Calls)
  BY <1>4, <1>7 DEF t
<1> QED
  BY <1>8, <1>9, <1>10 DEF S

\* The path a route had before the route at p was deleted.
Was(p, q) ==
    IF Len(p) = 1
    THEN IF Len(q) = 1 THEN <<IF q[1] < p[1] THEN q[1] ELSE q[1] + 1>>
         ELSE <<IF q[1] < p[1] THEN q[1] ELSE q[1] + 1, q[2]>>
    ELSE IF Len(q) = 2 /\ q[1] = p[1] THEN <<q[1], IF q[2] < p[2] THEN q[2] ELSE q[2] + 1>>
    ELSE q

\* Its indices.
LEMMA WasIs ==
    ASSUME NEW p \in Path, NEW q \in Path
    PROVE  /\ Len(Was(p, q)) = Len(q)
           /\ Was(p, q)[1] = IF Len(p) = 1 /\ ~ (q[1] < p[1]) THEN q[1] + 1 ELSE q[1]
           /\ Len(q) = 2 => Was(p, q)[2] = IF Len(p) = 2 /\ q[1] = p[1] /\ ~ (q[2] < p[2])
                                           THEN q[2] + 1 ELSE q[2]
<1>1. Len(p) \in {1, 2} /\ Len(q) \in {1, 2}
  BY PathIs
<1>2. \A x, y : Len(<<x>>) = 1 /\ <<x>>[1] = x /\ Len(<<x, y>>) = 2 /\ <<x, y>>[1] = x /\ <<x, y>>[2] = y
  OBVIOUS
<1>3. CASE Len(p) = 1 /\ Len(q) = 1
  <2>1. Was(p, q) = <<IF q[1] < p[1] THEN q[1] ELSE q[1] + 1>>
    BY <1>3 DEF Was
  <2>2. Len(Was(p, q)) = 1 /\ Was(p, q)[1] = IF q[1] < p[1] THEN q[1] ELSE q[1] + 1
    BY <1>2, <2>1
  <2> QED
    BY <1>3, <2>2
<1>4. CASE Len(p) = 1 /\ Len(q) = 2
  <2>1. Was(p, q) = <<IF q[1] < p[1] THEN q[1] ELSE q[1] + 1, q[2]>>
    BY <1>4 DEF Was
  <2>2. Len(Was(p, q)) = 2 /\ Was(p, q)[2] = q[2]
        /\ Was(p, q)[1] = IF q[1] < p[1] THEN q[1] ELSE q[1] + 1
    BY <1>2, <2>1
  <2> QED
    BY <1>4, <2>2
<1>5. CASE Len(p) = 2 /\ Len(q) = 2 /\ q[1] = p[1]
  <2>1. Was(p, q) = <<q[1], IF q[2] < p[2] THEN q[2] ELSE q[2] + 1>>
    BY <1>5 DEF Was
  <2>2. Len(Was(p, q)) = 2 /\ Was(p, q)[1] = q[1]
        /\ Was(p, q)[2] = IF q[2] < p[2] THEN q[2] ELSE q[2] + 1
    BY <1>2, <2>1
  <2> QED
    BY <1>5, <2>2
<1>6. CASE Len(p) = 2 /\ ~ (Len(q) = 2 /\ q[1] = p[1])
  BY <1>6 DEF Was
<1> QED
  BY <1>1, <1>3, <1>4, <1>5, <1>6

\* A deleted top-level route: the others move up.
LEMMA WasAtTop ==
    ASSUME NEW s \in Seq(Node), NEW p \in Paths(s), Len(p) = 1,
           NEW q \in Paths(deleteByPath(s, p))
    PROVE  /\ Was(p, q) \in Paths(s) /\ Was(p, q) # p
           /\ NodeAt(deleteByPath(s, p), q) = NodeAt(s, Was(p, q))
<1> DEFINE i == p[1]
           t == deleteByPath(s, p)
           k == IF q[1] < i THEN q[1] ELSE q[1] + 1
<1>1. i \in DOMAIN s /\ p \in Path /\ p = <<i>> /\ i \in Nat
  BY PathsAre, PathIs
<1>2. t \in Seq(Node) /\ Len(t) = Len(s) - 1 /\ DOMAIN t = 1 .. Len(s) - 1
      /\ \A m \in DOMAIN t : t[m] = IF m < i THEN s[m] ELSE s[m + 1]
  <2>1. t = RemoveAt(s, i)
    BY DEF deleteByPath
  <2>2. t \in Seq(Node) /\ Len(t) = Len(s) - 1 /\ MovedUp(t, s, i)
    <3> HIDE DEF t, i
    <3> QED
      BY <1>1, <2>1, RemovedUp
  <2> HIDE DEF t
  <2> QED
    BY <2>2 DEF MovedUp
<1>3. q \in Path /\ q[1] \in DOMAIN t
  BY <1>2, PathsAre
<1>4. k \in DOMAIN s /\ k # i /\ t[q[1]] = s[k] /\ k \in Nat \ {0}
  BY <1>1, <1>2, <1>3
<1> HIDE DEF k, t
<1>5. CASE Len(q) = 1
  <2>1. Was(p, q) = <<k>>
    BY <1>5 DEF Was, k
  <2>2. <<k>> \in Path /\ Len(<<k>>) = 1 /\ <<k>>[1] = k
    BY <1>4, PathsBuilt
  <2>3. <<k>> \in Paths(s) /\ <<k>> # p
    BY <1>1, <1>4, <2>2, PathsAre
  <2>4. NodeAt(t, q) = t[q[1]] /\ NodeAt(s, <<k>>) = s[k]
    BY <1>5, <2>2 DEF NodeAt
  <2> QED
    BY <1>4, <2>1, <2>3, <2>4 DEF t
<1>6. CASE Len(q) = 2
  <2>1. Was(p, q) = <<k, q[2]>>
    BY <1>6 DEF Was, k
  <2>2. HasSub(t[q[1]]) /\ q[2] \in DOMAIN t[q[1]].subs /\ q[2] \in Nat \ {0}
    BY <1>2, <1>3, <1>6, PathsAre, PathIs DEF t
  <2>3. <<k, q[2]>> \in Path /\ Len(<<k, q[2]>>) = 2 /\ <<k, q[2]>>[1] = k /\ <<k, q[2]>>[2] = q[2]
    BY <1>4, <2>2, PathsBuilt
  <2>4. <<k, q[2]>> \in Paths(s) /\ <<k, q[2]>> # p
    BY <1>4, <2>2, <2>3, PathsAre
  <2>5. NodeAt(t, q) = t[q[1]].subs[q[2]] /\ NodeAt(s, <<k, q[2]>>) = s[k].subs[q[2]]
    BY <1>6, <2>3 DEF NodeAt
  <2> QED
    BY <1>4, <2>1, <2>4, <2>5 DEF t
<1> QED
  BY <1>3, <1>5, <1>6, PathIs

\* A deleted route of a subroute: its siblings move up.
LEMMA WasBelow ==
    ASSUME NEW s \in Seq(Node), NEW p \in Paths(s), Len(p) = 2,
           NEW q \in Paths(deleteByPath(s, p))
    PROVE  /\ Was(p, q) \in Paths(s) /\ Was(p, q) # p
           /\ \/ NodeAt(deleteByPath(s, p), q) = NodeAt(s, Was(p, q))
              \/ /\ q = <<p[1]>> /\ Was(p, q) = q
                 /\ NodeAt(deleteByPath(s, p), q)
                       = [NodeAt(s, q) EXCEPT !.subs = RemoveAt(NodeAt(s, q).subs, p[2])]
<1> DEFINE i == p[1]
           t == deleteByPath(s, p)
           m == s[i]
           u == RemoveAt(m.subs, p[2])
<1>1. i \in DOMAIN s /\ m \in Node /\ HasSub(m) /\ m.subs \in Seq(SubNode) /\ p[2] \in DOMAIN m.subs
      /\ p \in Path /\ p = <<i, p[2]>> /\ i = p[1] /\ m = s[i] /\ i \in Nat \ {0} /\ p[2] \in Nat \ {0}
  BY AboveIs, PathsAre, PathIs
<1>2. u \in Seq(SubNode) /\ Len(u) = Len(m.subs) - 1 /\ MovedUp(u, m.subs, p[2])
  <2> DEFINE b == m.subs
             l0 == p[2]
  <2>1. b \in Seq(SubNode) /\ l0 \in DOMAIN b
    BY <1>1
  <2>2. u = RemoveAt(b, l0)
    OBVIOUS
  <2> HIDE DEF b, l0, u
  <2>3. u \in Seq(SubNode) /\ Len(u) = Len(b) - 1 /\ MovedUp(u, b, l0)
    BY <2>1, <2>2, RemovedUp
  <2> QED
    BY <2>3 DEF b, l0
<1> HIDE DEF u
<1>3. t = [s EXCEPT ![i] = [m EXCEPT !.subs = u]]
  BY DEF deleteByPath, u
<1> HIDE DEF i, m, t
<1>4. [m EXCEPT !.subs = u] \in Node /\ [m EXCEPT !.subs = u].subs = u
  BY <1>1, <1>2, NodeIs
<1>5. t \in Seq(Node) /\ DOMAIN t = DOMAIN s /\ t[i].subs = u /\ t[i] = [m EXCEPT !.subs = u]
      /\ \A k \in DOMAIN s \ {i} : t[k] = s[k]
  <2> DEFINE m2 == [m EXCEPT !.subs = u]
  <2>1. m2 \in Node /\ t = [s EXCEPT ![i] = m2] /\ m2.subs = u
    BY <1>3, <1>4
  <2> HIDE DEF m2
  <2>2. t \in Seq(Node) /\ DOMAIN t = DOMAIN s /\ t[i] = m2 /\ \A k \in DOMAIN s \ {i} : t[k] = s[k]
    BY <1>1, <2>1, ReplacedSeq
  <2> QED
    BY <2>1, <2>2 DEF m2
<1>6. q \in Path /\ q[1] \in DOMAIN t
  BY <1>5, PathsAre DEF t
<1>7. CASE Len(q) = 2 /\ q[1] = i
  <2>0. HasSub(t[q[1]]) /\ q[2] \in DOMAIN t[q[1]].subs
    <3>1. q \in Paths(t)
      BY DEF t
    <3> QED
      BY <1>5, <1>7, <3>1, AboveIs
  <2> DEFINE l == IF q[2] < p[2] THEN q[2] ELSE q[2] + 1
  <2>1. q[2] \in DOMAIN u
    BY <1>5, <1>7, <2>0
  <2>2. l \in DOMAIN m.subs /\ l # p[2] /\ u[q[2]] = m.subs[l] /\ l \in Nat \ {0}
    <3> DEFINE b == m.subs
               k == q[2]
               l0 == p[2]
    <3>1. b \in Seq(SubNode) /\ l0 \in DOMAIN b /\ MovedUp(u, b, l0) /\ k \in DOMAIN u /\ l = Up(l0, k)
      BY <1>1, <1>2, <2>1 DEF Up
    <3> HIDE DEF b, k, l0, l
    <3>2. l \in DOMAIN b \ {l0} /\ u[k] = b[l] /\ l \in Nat \ {0}
      BY <3>1, UpIs
    <3> QED
      BY <3>2 DEF b, k, l0
  <2>3. Was(p, q) = <<i, l>>
    BY <1>1, <1>7 DEF Was
  <2> HIDE DEF l
  <2>4. <<i, l>> \in Path /\ Len(<<i, l>>) = 2 /\ <<i, l>>[1] = i /\ <<i, l>>[2] = l
    BY <1>1, <2>2, PathsBuilt
  <2>5. <<i, l>> \in Paths(s) /\ <<i, l>> # p
    BY <1>1, <2>2, <2>4, PathsAre
  <2>6. NodeAt(t, q) = u[q[2]] /\ NodeAt(s, <<i, l>>) = m.subs[l]
    <3>1. NodeAt(t, q) = t[i].subs[q[2]]
      BY <1>7 DEF NodeAt
    <3>2. NodeAt(s, <<i, l>>) = s[i].subs[l]
      BY <2>4 DEF NodeAt
    <3> QED
      BY <1>1, <1>5, <3>1, <3>2
  <2> QED
    BY <2>2, <2>3, <2>5, <2>6 DEF t, m, i
<1>8. CASE Len(q) = 1
  <2>1. Was(p, q) = q /\ q # p
    BY <1>8 DEF Was
  <2>2. q \in Paths(s) /\ q = <<q[1]>>
    BY <1>5, <1>6, <1>8, PathsAre, PathIs
  <2>3. NodeAt(t, q) = t[q[1]] /\ NodeAt(s, q) = s[q[1]]
    BY <1>8 DEF NodeAt
  <2>4. q[1] # i => NodeAt(t, q) = NodeAt(s, q)
    BY <1>5, <1>6, <2>3
  <2>5. q[1] = i => NodeAt(t, q) = [NodeAt(s, q) EXCEPT !.subs = u]
    BY <1>1, <1>5, <2>3
  <2> QED
    BY <1>1, <2>1, <2>2, <2>3, <2>4, <2>5 DEF t, u, m, i
<1>9. CASE Len(q) = 2 /\ q[1] # i
  <2>1. Was(p, q) = q /\ q # p
    BY <1>1, <1>9 DEF Was
  <2>2. t[q[1]] = s[q[1]]
    BY <1>5, <1>6, <1>9
  <2>3. q \in Paths(s)
    BY <1>5, <1>6, <1>9, <2>2, PathsAre DEF t
  <2>4. NodeAt(t, q) = NodeAt(s, q)
    BY <1>9, <2>2 DEF NodeAt
  <2> QED
    BY <2>1, <2>3, <2>4 DEF t
<1> QED
  BY <1>6, <1>7, <1>8, <1>9, PathIs

\* Two routes that were one are one.
LEMMA WasApart ==
    ASSUME NEW p \in Path, NEW q \in Path, NEW r \in Path, Was(p, q) = Was(p, r)
    PROVE  q = r
<1>1. /\ p[1] \in Nat /\ q[1] \in Nat /\ r[1] \in Nat
      /\ (Len(p) = 2 => p[2] \in Nat) /\ (Len(q) = 2 => q[2] \in Nat) /\ (Len(r) = 2 => r[2] \in Nat)
  BY PathIs
<1>2. /\ Len(Was(p, q)) = Len(q) /\ Len(Was(p, r)) = Len(r)
      /\ Len(q) \in {1, 2} /\ Len(r) \in {1, 2}
  BY WasIs, PathIs
<1>3. q[1] = r[1]
  BY <1>1, WasIs
<1>4. Len(q) = 2 => q[2] = r[2]
  <2> HAVE Len(q) = 2
  <2>1. Len(r) = 2
    BY <1>2
  <2>2. CASE Len(p) = 2 /\ q[1] = p[1]
    <3>1. Was(p, q)[2] = IF q[2] < p[2] THEN q[2] ELSE q[2] + 1
      BY <2>2, WasIs
    <3>2. Was(p, r)[2] = IF r[2] < p[2] THEN r[2] ELSE r[2] + 1
      BY <1>3, <2>1, <2>2, WasIs
    <3> QED
      BY <1>1, <2>1, <2>2, <3>1, <3>2
  <2>3. CASE ~ (Len(p) = 2 /\ q[1] = p[1])
    <3>1. Was(p, q)[2] = q[2]
      BY <2>3, WasIs
    <3>2. Was(p, r)[2] = r[2]
      BY <1>3, <2>1, <2>3, WasIs
    <3> QED
      BY <3>1, <3>2
  <2> QED
    BY <2>2, <2>3
<1>5. (Len(q) = 1 => q = <<q[1]>>) /\ (Len(q) = 2 => q = <<q[1], q[2]>>)
  BY PathIs
<1>6. (Len(r) = 1 => r = <<r[1]>>) /\ (Len(r) = 2 => r = <<r[1], r[2]>>)
  BY PathIs
<1>7. Len(q) = Len(r)
  BY <1>2
<1> QED
  BY <1>2, <1>3, <1>4, <1>5, <1>6, <1>7

\* A delete keeps @ids apart.
LEMMA DeleteApart ==
    ASSUME NEW s \in Seq(Node), NEW p \in Paths(s), IdsApart(s)
    PROVE  IdsApart(deleteByPath(s, p))
<1> DEFINE t == deleteByPath(s, p)
<1>1. p \in Path /\ t \in Seq(Node) /\ Paths(t) \in SUBSET Path
  BY PathsAre, DeleteType, PathsFinite
<1>2. ASSUME NEW q \in Paths(t)
      PROVE  Was(p, q) \in Paths(s) /\ NodeAt(t, q).id = NodeAt(s, Was(p, q)).id
  <2>1. CASE Len(p) = 1
    BY <2>1, WasAtTop
  <2>2. CASE Len(p) = 2
    <3>1. Was(p, q) \in Paths(s)
      BY <2>2, WasBelow
    <3>2. NodeAt(s, Was(p, q)) \in Node
      BY <3>1, NodeAtIs
    <3>3. \A n \in Node : \A x : [n EXCEPT !.subs = x].id = n.id
      BY DEF Node, Route
    <3>4. \A x : [NodeAt(s, Was(p, q)) EXCEPT !.subs = x].id = NodeAt(s, Was(p, q)).id
      BY <3>2, <3>3
    <3>5. \/ NodeAt(t, q) = NodeAt(s, Was(p, q))
          \/ \E x : NodeAt(t, q) = [NodeAt(s, Was(p, q)) EXCEPT !.subs = x]
      BY <2>2, WasBelow
    <3> QED
      BY <3>1, <3>4, <3>5
  <2> QED
    BY <1>1, <2>1, <2>2, PathIs
<1> SUFFICES ASSUME NEW q \in Paths(t), NEW r \in Paths(t), NodeAt(t, q).id = NodeAt(t, r).id,
                    NodeAt(t, q).id # NoId
             PROVE  q = r
  BY DEF IdsApart
<1>3. Was(p, q) = Was(p, r)
  BY <1>2 DEF IdsApart
<1> QED
  BY <1>1, <1>3, WasApart

\* A config that Caddy accepts has its @ids apart.
LEMMA UniqueApart ==
    ASSUME NEW s, NEW l4, IdsUnique(s, l4)
    PROVE  IdsApart(s)
BY DEF IdsUnique, IdsApart

\* Site blocks, and a deny after them, none with an @id.
LEMMA LoadType ==
    ASSUME NEW T \in SUBSET Targets
    PROVE  /\ renderCaddyfile(T) \in Seq(Node) /\ IdsApart(renderCaddyfile(T))
           /\ \A i \in DOMAIN renderCaddyfile(T) :
                 renderCaddyfile(T)[i].id = NoId /\ renderCaddyfile(T)[i].subs = <<>>
<1>1. IsFiniteSet(T)
  <2>1. IsFiniteSet({"none"}) /\ IsFiniteSet({"origin"}) /\ IsFiniteSet({"elsewhere"})
    BY FS_Singleton
  <2>2. IsFiniteSet({"none"} \cup {"origin"})
    BY <2>1, FS_Union
  <2>3. IsFiniteSet(({"none"} \cup {"origin"}) \cup {"elsewhere"})
    BY <2>1, <2>2, FS_Union
  <2>4. Dials = ({"none"} \cup {"origin"}) \cup {"elsewhere"}
    BY DEF Dials
  <2>5. IsFiniteSet(Targets)
    BY <2>3, <2>4, PatternsFinite, FS_Product DEF Targets
  <2> QED
    BY <2>5, FS_Subset
<1> DEFINE exact == {x \in T : x[1] \in Hosts}
           a == SetToSeq(exact)
           b == SetToSeq(T \ exact)
           blocks == a \o b
           top == [i \in DOMAIN blocks |-> SiteBlock(blocks[i])]
           Blank == {n \in Node : n.id = NoId /\ n.subs = <<>> /\ n.handle \subseteq {"proxy", "deny"}}
<1>2. IsFiniteSet(exact) /\ IsFiniteSet(T \ exact)
  BY <1>1, FS_Subset
<1>3. a \in Seq(exact) /\ b \in Seq(T \ exact)
  BY <1>2, SetToSeqLists
<1> HIDE DEF a, b
<1>4. a \in Seq(T) /\ b \in Seq(T)
  BY <1>3, SeqWider
<1>5. blocks \in Seq(T)
  BY <1>4, Joined
<1> HIDE DEF blocks
<1>6. ASSUME NEW x \in T
      PROVE  SiteBlock(x) \in Blank
  <2>1. x[1] \in Patterns /\ x[2] \in {"none", "origin", "elsewhere"}
    BY DEF Targets, Dials
  <2>2. <<x[1]>> \in Seq(Patterns) /\ <<>> \in Seq(SubNode)
    BY <2>1
  <2>3. NoId \in Ids({"route", "ack", "own"})
    BY DEF Ids
  <2> QED
    BY <2>1, <2>2, <2>3 DEF SiteBlock, Node, Route
<1>7. DenyAll \in Blank
  <2>2. <<>> \in Seq(Patterns) /\ <<>> \in Seq(SubNode)
    OBVIOUS
  <2>3. NoId \in Ids({"route", "ack", "own"})
    BY DEF Ids
  <2> QED
    BY <2>2, <2>3 DEF DenyAll, Node, Route
<1> HIDE DEF Blank
<1>8. top \in Seq(Blank)
  <2>1. \A i \in DOMAIN blocks : SiteBlock(blocks[i]) \in Blank
    BY <1>5, <1>6
  <2>2. DOMAIN blocks = 1 .. Len(blocks) /\ Len(blocks) \in Nat
    BY <1>5
  <2>3. top \in [1 .. Len(blocks) -> Blank]
    BY <2>1, <2>2
  <2> HIDE DEF top
  <2> QED
    BY <2>2, <2>3
<1> HIDE DEF top
<1> DEFINE t == top \o <<DenyAll>>
<1>9. t \in Seq(Blank)
  <2>1. <<DenyAll>> \in Seq(Blank)
    BY <1>7
  <2> QED
    BY <1>8, <2>1, Joined
<1>10. renderCaddyfile(T) = t
  BY DEF renderCaddyfile, top, blocks, a, b
<1> HIDE DEF t
<1>11. t \in Seq(Node) /\ \A i \in DOMAIN t : t[i].id = NoId /\ t[i].subs = <<>> /\ ~ HasSub(t[i])
  <2>1. Blank \subseteq Node /\ \A n \in Blank : n.id = NoId /\ n.subs = <<>> /\ ~ HasSub(n)
    BY DEF Blank, HasSub
  <2> QED
    BY <1>9, <2>1, SeqWider
<1>12. ASSUME NEW p \in Paths(t)
       PROVE  NodeAt(t, p).id = NoId
  <2>1. Len(p) = 1 /\ p[1] \in DOMAIN t
    BY <1>11, PathsAre
  <2> QED
    BY <2>1, <1>11 DEF NodeAt
<1> QED
  BY <1>10, <1>11, <1>12 DEF IdsApart

\* A job with one of its fields changed.
LEMMA EditShape ==
    ASSUME NEW j, JobShape(j)
    PROVE  /\ JobShape([j EXCEPT !.status = "error", !.todo = <<>>])
           /\ \A g : JobShape([j EXCEPT !.gate = g])
           /\ \A l : JobShape([j EXCEPT !.loc = l])
<1>1. <<>> \in Seq(Calls)
  OBVIOUS
<1>2. JobShape([j EXCEPT !.status = "error", !.todo = <<>>])
  <2> DEFINE i == [j EXCEPT !.status = "error"]
             d == [i EXCEPT !.todo = <<>>]
  <2>1. i = [verb |-> i.verb, add |-> i.add, remove |-> i.remove, gate |-> i.gate, loc |-> i.loc,
             todo |-> i.todo, status |-> i.status, clean |-> i.clean]
    BY DEF JobShape
  <2>2. i.status = "error" /\ i.add = j.add /\ i.remove = j.remove /\ i.clean = j.clean
    BY DEF JobShape
  <2> HIDE DEF i
  <2>3. d = [verb |-> d.verb, add |-> d.add, remove |-> d.remove, gate |-> d.gate, loc |-> d.loc,
             todo |-> d.todo, status |-> d.status, clean |-> d.clean]
    BY <2>1
  <2>4. d.status = "error" /\ d.add = j.add /\ d.remove = j.remove /\ d.clean = j.clean /\ d.todo = <<>>
    BY <2>1, <2>2
  <2> HIDE DEF d
  <2>5. JobShape(d)
    BY <1>1, <2>3, <2>4 DEF JobShape
  <2> QED
    BY <2>5 DEF d, i
<1>3. \A g : JobShape([j EXCEPT !.gate = g])
  BY DEF JobShape
<1>4. \A l : JobShape([j EXCEPT !.loc = l])
  BY DEF JobShape
<1> QED
  BY <1>2, <1>3, <1>4

\* A new job.
LEMMA JobType1 ==
    ASSUME NEW verb, NEW add \in SUBSET Hosts, NEW remove \in SUBSET Hosts, NEW todo \in Seq(Calls)
    PROVE  /\ JobShape(Job(verb, add, remove, todo))
           /\ JobShape([Job(verb, add, remove, todo) EXCEPT !.status = "error", !.todo = <<>>])
           /\ \A g : JobShape([Job(verb, add, remove, todo) EXCEPT !.gate = g])
           /\ \A l : JobShape([Job(verb, add, remove, todo) EXCEPT !.loc = l])
<1>1. JobShape(Job(verb, add, remove, todo))
  BY DEF JobShape, Job
<1> QED
  BY <1>1, EditShape

\* It begins.
LEMMA BeginType ==
    ASSUME TypeInv, jobs < cfg.ops, NEW j, JobShape(j), Begin(j)
    PROVE  TypeInv'
<1>1. job' = j /\ jobs' = jobs + 1 /\ before' = cfg /\ cfg' = cfg /\ troubles' = troubles
  BY DEF Begin
<1>2. jobs + 1 \in 0 .. cfg.ops
  BY DEF TypeInv, Counters, ConfigType
<1> QED
  BY <1>1, <1>2 DEF TypeInv, Counters

\* The call at the head, and the calls after it.
LEMMA HeadType ==
    ASSUME JobShape(job), job.todo # <<>>
    PROVE  Head1 \in Calls /\ Tail(job.todo) \in Seq(Calls)
BY DEF JobShape, Head1

\* The job goes on with other calls first.
LEMMA ThenType ==
    ASSUME JobShape(job), job.status = "running", job.todo # <<>>, NEW t \in Seq(Calls), Then(t)
    PROVE  JobShape(job') /\ job' = [job EXCEPT !.todo = t \o Tail(job.todo)]
<1>1. t \o Tail(job.todo) \in Seq(Calls)
  BY HeadType, Joined
<1>2. job' = [job EXCEPT !.todo = t \o Tail(job.todo)]
  BY DEF Then
<1> QED
  BY <1>1, <1>2 DEF JobShape

\* It fails.
LEMMA FailType ==
    ASSUME JobShape(job), Fail
    PROVE  JobShape(job') /\ job' = [job EXCEPT !.status = "error", !.todo = <<>>]
<1>1. <<>> \in Seq(Calls)
  OBVIOUS
<1> QED
  BY <1>1 DEF JobShape, Fail

\* A job that may begin.
Startable(j) == JobShape(j) /\ Begin(j)

\* What an apply may start with: nothing, its granular calls, or one full load.
Applying(add, remove) ==
    \/ job'.verb = "apply" /\ job'.status = "error"
    \/ \E g : job' = [Job("apply", add, remove, applyGranular(add, remove)) EXCEPT !.gate = g]
    \/ job'.verb = "load" /\ job'.add = add /\ job'.remove = remove

\* A change of the edge.
LEMMA ChangeBegins ==
    ASSUME TypeInv, NEW add \in SUBSET Hosts, NEW remove \in SUBSET Hosts, NEW g, Change(add, remove, g)
    PROVE  Applying(add, remove) /\ \E j : Startable(j)
<1> DEFINE n == normalize(cfg)
           T == targetRoutes(n, add, remove)
           todo == <<[kind |-> "load", target |-> T]>>
<1>1. T \in SUBSET Targets
  <2>1. \A r \in n.routes : r.dial # "tcp" => r.host \in Patterns /\ r.dial \in Dials
    BY ReadTyped DEF TypeInv
  <2>2. add \subseteq Patterns /\ "origin" \in Dials
    BY DEF Patterns, Dials
  <2> HIDE DEF n
  <2> QED
    BY <2>1, <2>2 DEF targetRoutes, Targets
<1> HIDE DEF T
<1>2. todo \in Seq(Calls) /\ <<>> \in Seq(Calls)
  <2>1. [kind |-> "load", target |-> T] \in Calls
    BY <1>1 DEF Calls
  <2> QED
    BY <2>1
<1>3. CASE Refuse(Job("apply", add, remove, <<>>))
  <2> DEFINE j == [Job("apply", add, remove, <<>>) EXCEPT !.status = "error", !.todo = <<>>]
  <2>1. Begin(j) /\ JobShape(j)
    BY <1>2, <1>3, JobType1 DEF Refuse
  <2>2. j.verb = "apply" /\ j.status = "error"
    BY DEF Job
  <2>3. job' = j
    BY <2>1 DEF Begin
  <2> HIDE DEF j
  <2> QED
    BY <2>1, <2>2, <2>3 DEF Applying, Startable
<1>4. CASE Begin([Job("apply", add, remove, applyGranular(add, remove)) EXCEPT !.gate = g])
  <2>1. JobShape([Job("apply", add, remove, applyGranular(add, remove)) EXCEPT !.gate = g])
    BY GranularType, JobType1
  <2> QED
    BY <1>4, <2>1 DEF Begin, Applying, Startable
<1>5. CASE Begin(Job("load", add, remove, todo))
  <2>1. JobShape(Job("load", add, remove, todo))
    BY <1>2, JobType1
  <2>2. Job("load", add, remove, todo).verb = "load" /\ Job("load", add, remove, todo).add = add
        /\ Job("load", add, remove, todo).remove = remove
    BY DEF Job
  <2> QED
    BY <1>5, <2>1, <2>2 DEF Begin, Applying, Startable
<1>6. CASE Refuse(Job("load", add, remove, <<>>))
  <2> DEFINE k == Job("load", add, remove, <<>>)
             j == [k EXCEPT !.status = "error", !.todo = <<>>]
  <2>1. Begin(j) /\ JobShape(j)
    BY <1>2, <1>6, JobType1 DEF Refuse
  <2>2. j.verb = "load" /\ j.add = add /\ j.remove = remove
    BY DEF Job
  <2>3. job' = j
    BY <2>1 DEF Begin
  <2> HIDE DEF j
  <2> QED
    BY <2>1, <2>2, <2>3 DEF Applying, Startable
<1>7. \/ Refuse(Job("apply", add, remove, <<>>))
      \/ Begin([Job("apply", add, remove, applyGranular(add, remove)) EXCEPT !.gate = g])
      \/ Begin(Job("load", add, remove, todo))
      \/ Refuse(Job("load", add, remove, <<>>))
  BY DEF Change, T
<1> QED
  BY <1>3, <1>4, <1>5, <1>6, <1>7

\* Expose, unexpose, rename, re-render.
LEMMA ApplyBegins ==
    ASSUME TypeInv, Apply
    PROVE  (\E add, remove \in SUBSET Hosts : Applying(add, remove)) /\ \E j : Startable(j)
<1>1. CASE \E h \in Hosts, g \in Gates : Change({h}, {}, g)
  <2>1. PICK h \in Hosts, g \in Gates : Change({h}, {}, g)
    BY <1>1
  <2>2. {h} \in SUBSET Hosts /\ {} \in SUBSET Hosts
    OBVIOUS
  <2> QED
    BY <2>1, <2>2, ChangeBegins
<1>2. CASE \E h \in Hosts : Change({}, {h}, "none") \/ Change({h}, {h}, "none")
  <2>1. PICK h \in Hosts : Change({}, {h}, "none") \/ Change({h}, {h}, "none")
    BY <1>2
  <2>2. {h} \in SUBSET Hosts /\ {} \in SUBSET Hosts
    OBVIOUS
  <2> QED
    BY <2>1, <2>2, ChangeBegins
<1>3. CASE \E h, new \in Hosts : h # new /\ Change({new}, {h}, "none")
  <2>1. PICK h \in Hosts, new \in Hosts : Change({new}, {h}, "none")
    BY <1>3
  <2>2. {h} \in SUBSET Hosts /\ {new} \in SUBSET Hosts
    OBVIOUS
  <2> QED
    BY <2>1, <2>2, ChangeBegins
<1> QED
  BY <1>1, <1>2, <1>3 DEF Apply

\* A passthrough route of the layer4 app.
LEMMA ApplyLayer4Begins ==
    ASSUME TypeInv, ApplyLayer4
    PROVE  job'.verb = "l4" /\ \E j : Startable(j)
<1>1. PICK h \in Hosts : IF Layer4 /\ cfg.granular THEN Begin(Job("l4", {h}, {}, <<Call("l4", h)>>))
                         ELSE Refuse(Job("l4", {h}, {}, <<>>))
  BY DEF ApplyLayer4
<1>2. {h} \in SUBSET Hosts /\ {} \in SUBSET Hosts /\ <<>> \in Seq(Calls)
  OBVIOUS
<1>3. <<Call("l4", h)>> \in Seq(Calls)
  BY DEF Call, Calls
<1>4. CASE Begin(Job("l4", {h}, {}, <<Call("l4", h)>>))
  <2>1. JobShape(Job("l4", {h}, {}, <<Call("l4", h)>>))
    BY <1>2, <1>3, JobType1
  <2>2. Job("l4", {h}, {}, <<Call("l4", h)>>).verb = "l4"
    BY DEF Job
  <2> QED
    BY <1>4, <2>1, <2>2 DEF Begin, Startable
<1>5. CASE Refuse(Job("l4", {h}, {}, <<>>))
  <2> DEFINE j == [Job("l4", {h}, {}, <<>>) EXCEPT !.status = "error", !.todo = <<>>]
  <2>1. Begin(j) /\ JobShape(j)
    BY <1>2, <1>5, JobType1 DEF Refuse
  <2>2. j.verb = "l4"
    BY DEF Job
  <2> HIDE DEF j
  <2> QED
    BY <2>1, <2>2 DEF Begin, Startable
<1> QED
  BY <1>1, <1>4, <1>5

\* A PATCH of a route that is there, with another @id.
LEMMA StampType ==
    ASSUME NEW s \in Seq(Node), NEW p \in Paths(s), NEW id \in NodeIds
    PROVE  At("patch", p, Stamped(s, p, id)) \in Calls
<1>1. p \in Path /\ Len(p) \in {1, 2}
  BY PathsAre, PathIs
<1>2. Stamped(s, p, id) \in Node /\ (Len(p) = 2 => Stamped(s, p, id) \in SubNode)
  BY NodeAtIs, NodeIs, SubNodeIs DEF Stamped
<1> QED
  BY <1>1, <1>2 DEF At, Calls

\* The PATCHes of an import.
LEMMA AdoptType ==
    ASSUME NEW s \in Seq(Node), NEW want \in SUBSET Hosts
    PROVE  adoptCalls(s, want) \in Seq(Calls)
<1> DEFINE S == AdoptPaths(s, want)
           q == InWalkOrder(S)
           call(i) == At("patch", q[i], Stamped(s, q[i], routeID(rawRouteHost(NodeAt(s, q[i])))))
           t == [i \in DOMAIN q |-> call(i)]
<1>1. S \subseteq Paths(s) /\ \A p \in S : rawRouteHost(NodeAt(s, p)) \in want
  BY DEF AdoptPaths
<1> HIDE DEF S
<1>2. S \in SUBSET Path /\ IsFiniteSet(S)
  BY <1>1, PathsFinite, FS_Subset
<1>3. q \in Seq(S)
  BY <1>2, InWalkOrderLists
<1> HIDE DEF q
<1>4. ASSUME NEW i \in DOMAIN q
      PROVE  call(i) \in Calls
  <2>1. q[i] \in S
    BY <1>3
  <2>2. q[i] \in Paths(s) /\ routeID(rawRouteHost(NodeAt(s, q[i]))) \in NodeIds
    BY <1>1, <2>1, IdsBuilt
  <2> QED
    BY <2>2, StampType
<1> HIDE DEF call
<1>5. DOMAIN q = 1 .. Len(q) /\ Len(q) \in Nat
  BY <1>3
<1>6. t \in [1 .. Len(q) -> Calls]
  BY <1>4, <1>5
<1>7. adoptCalls(s, want) = t
  BY DEF adoptCalls, call, q, S
<1> HIDE DEF t
<1> QED
  BY <1>5, <1>6, <1>7

\* The PATCH of an acknowledgement.
LEMMA AckType ==
    ASSUME NEW s \in Seq(Node), NEW p \in Paths(s), NEW marker \in NodeIds
    PROVE  ackCalls(s, p, marker) \in Seq(Calls)
<1>1. <<At("patch", p, Stamped(s, p, marker))>> \in Seq(Calls) /\ <<>> \in Seq(Calls)
  BY StampType
<1> QED
  BY <1>1 DEF ackCalls

\* A refusal.
LEMMA RefuseBegins ==
    ASSUME NEW verb, NEW add \in SUBSET Hosts, Refuse(Job(verb, add, {}, <<>>))
    PROVE  job'.verb = verb /\ \E j : Startable(j)
<1> DEFINE j == [Job(verb, add, {}, <<>>) EXCEPT !.status = "error", !.todo = <<>>]
<1>1. <<>> \in Seq(Calls) /\ {} \in SUBSET Hosts
  OBVIOUS
<1>2. Begin(j) /\ JobShape(j)
  BY <1>1, JobType1 DEF Refuse
<1>3. j.verb = verb
  BY DEF Job
<1> HIDE DEF j
<1> QED
  BY <1>2, <1>3 DEF Begin, Startable

\* An operation with nothing refused.
LEMMA BeginBegins ==
    ASSUME NEW verb, NEW add \in SUBSET Hosts, NEW todo \in Seq(Calls),
           \/ Begin(Job(verb, add, {}, todo))
           \/ \E l : Begin([Job(verb, add, {}, todo) EXCEPT !.loc = l])
    PROVE  job'.verb = verb /\ \E j : Startable(j)
<1>1. {} \in SUBSET Hosts
  OBVIOUS
<1>2. JobShape(Job(verb, add, {}, todo)) /\ \A l : JobShape([Job(verb, add, {}, todo) EXCEPT !.loc = l])
  BY <1>1, JobType1
<1>3. Job(verb, add, {}, todo).verb = verb /\ \A l : [Job(verb, add, {}, todo) EXCEPT !.loc = l].verb = verb
  BY DEF Job
<1> QED
  BY <1>2, <1>3 DEF Begin, Startable

\* Import.
LEMMA ImportBegins ==
    ASSUME TypeInv, Import
    PROVE  job'.verb = "adopt" /\ \E j : Startable(j)
<1>1. PICK want \in SUBSET planImport(normalize(cfg)) : Begin(Job("adopt", want, {}, adoptCalls(Routes, want)))
  BY DEF Import
<1>2. want \in SUBSET Hosts
  BY DEF planImport
<1>3. adoptCalls(Routes, want) \in Seq(Calls)
  BY <1>2, AdoptType DEF TypeInv, ConfigType, Routes
<1> QED
  BY <1>1, <1>2, <1>3, BeginBegins

\* The route to acknowledge is one of the routes.
LEMMA AckPathIs ==
    ASSUME NEW s \in Seq(Node), NEW h
    PROVE  AckPath(s, h) = <<>> \/ AckPath(s, h) \in Paths(s)
<1> DEFINE hit == {p \in Paths(s) : rawRouteHost(NodeAt(s, p)) = h}
<1>1. hit \in SUBSET Path
  BY PathsFinite
<1>2. hit # {} => FirstOf(hit) \in hit
  BY <1>1, FirstIsIn
<1> QED
  BY <1>2 DEF AckPath

\* Acknowledging by name, and taking it back.
LEMMA AckBegins ==
    ASSUME TypeInv, NEW verb, NEW h \in Hosts, NEW marker \in NodeIds, AckOrUnack(verb, h, marker)
    PROVE  job'.verb = verb /\ \E j : Startable(j)
<1> DEFINE p == AckPath(Routes, h)
<1>1. Routes \in Seq(Node)
  BY DEF TypeInv, ConfigType, Routes
<1>2. p = <<>> \/ p \in Paths(Routes)
  BY <1>1, AckPathIs
<1>3. {h} \in SUBSET Hosts /\ <<>> \in Seq(Calls)
  OBVIOUS
<1>4. \/ Refuse(Job(verb, {h}, {}, <<>>))
      \/ Begin(Job(verb, {h}, {}, <<>>))
      \/ p # <<>> /\ Begin(Job(verb, {h}, {}, ackCalls(Routes, p, marker)))
  BY DEF AckOrUnack
<1>5. p # <<>> => ackCalls(Routes, p, marker) \in Seq(Calls)
  BY <1>1, <1>2, AckType
<1> HIDE DEF p
<1> QED
  BY <1>3, <1>4, <1>5, RefuseBegins, BeginBegins

\* Acknowledging by place, and taking it back.
LEMMA AckLocatorBegins ==
    ASSUME TypeInv, NEW verb, NEW on, AckLocator(verb, on)
    PROVE  job'.verb = verb /\ \E j : Startable(j)
<1>1. PICK loc \in Locators :
        IF Len(loc) = 1 \/ ~ ValidPath(Routes, PathOf(loc)) THEN Refuse(Job(verb, {}, {}, <<>>))
        ELSE IF IsOwned(NodeAt(Routes, PathOf(loc)).id) THEN Refuse(Job(verb, {}, {}, <<>>))
        ELSE Begin([Job(verb, {}, {}, ackCalls(Routes, PathOf(loc),
                        IF on THEN locatorMarker(PathOf(loc)) ELSE NoId)) EXCEPT !.loc = loc])
  BY DEF AckLocator
<1> DEFINE p == PathOf(loc)
           marker == IF on THEN locatorMarker(p) ELSE NoId
<1>2. {} \in SUBSET Hosts /\ Routes \in Seq(Node)
  BY DEF TypeInv, ConfigType, Routes
<1>3. CASE Len(loc) # 1 /\ ValidPath(Routes, p)
  <2>1. p \in Path
    BY <1>3, ReadTyped DEF Locators, TypeInv
  <2>2. p \in Paths(Routes) /\ marker \in NodeIds
    BY <1>2, <1>3, <2>1, ValidPaths, IdsBuilt DEF locatorMarker
  <2>3. ackCalls(Routes, p, marker) \in Seq(Calls)
    BY <1>2, <2>2, AckType
  <2> HIDE DEF p, marker
  <2>4. \/ Refuse(Job(verb, {}, {}, <<>>))
        \/ \E l : Begin([Job(verb, {}, {}, ackCalls(Routes, p, marker)) EXCEPT !.loc = l])
    BY <1>1, <1>3 DEF p, marker
  <2> QED
    BY <1>2, <2>3, <2>4, RefuseBegins, BeginBegins
<1>4. CASE ~ (Len(loc) # 1 /\ ValidPath(Routes, p))
  BY <1>1, <1>2, <1>4, RefuseBegins
<1> QED
  BY <1>3, <1>4

OtherVerbs == {"l4", "adopt", "ack", "unack", "ackroute", "unackroute"}

\* Every operation begins as a job, and only an apply is one of verb apply.
LEMMA OperationBegins ==
    ASSUME TypeInv, Apply \/ ApplyLayer4 \/ Import \/ Ack \/ Unack \/ AckRoute \/ UnackRoute
    PROVE  /\ \E j : Startable(j)
           /\ \/ \E add, remove \in SUBSET Hosts : Applying(add, remove)
              \/ job'.verb \in OtherVerbs
<1>1. CASE Apply
  BY <1>1, ApplyBegins
<1>2. CASE ApplyLayer4
  BY <1>2, ApplyLayer4Begins DEF OtherVerbs
<1>3. CASE Import
  BY <1>3, ImportBegins DEF OtherVerbs
<1>4. CASE Ack
  BY <1>4, AckBegins, IdsBuilt DEF Ack, OtherVerbs
<1>5. CASE Unack
  BY <1>5, AckBegins, IdsBuilt DEF Unack, OtherVerbs
<1>6. CASE AckRoute
  BY <1>6, AckLocatorBegins DEF AckRoute, OtherVerbs
<1>7. CASE UnackRoute
  BY <1>7, AckLocatorBegins DEF UnackRoute, OtherVerbs
<1> QED
  BY <1>1, <1>2, <1>3, <1>4, <1>5, <1>6, <1>7


\* Where a route may be put, and what is put there.
LEMMA InsertPathIs ==
    ASSUME NEW s \in Seq(Node), NEW h, NEW p, p = httpRouteInsertPath(s, h), p # <<>>
    PROVE  /\ p \in Path
           /\ Len(p) = 2 => /\ p[2] = 1 /\ p[1] \in DOMAIN s /\ HasSub(s[p[1]])
                            /\ routeWildcardCovers(s[p[1]], h)
           /\ Len(p) = 1 => p = <<1>>
<1> DEFINE C == Covering(s, h)
<1>1. Cardinality(C) = 1 => C # {}
  <2> HIDE DEF C
  <2>1. C = {} => Cardinality(C) = 0
    BY FS_EmptySet
  <2> QED
    BY <2>1
<1> DEFINE i == CHOOSE i \in Covering(s, h) : TRUE
<1>2. p = <<1>> \/ (p = <<i, 1>> /\ i \in Covering(s, h))
  BY <1>1 DEF httpRouteInsertPath
<1> HIDE DEF i
<1>3. i \in Covering(s, h) => i \in DOMAIN s /\ HasSub(s[i]) /\ routeWildcardCovers(s[i], h) /\ i \in Nat \ {0}
  BY DEF Covering
<1>4. CASE p = <<1>>
  BY <1>4, PathsBuilt
<1>5. CASE p = <<i, 1>> /\ i \in Covering(s, h)
  <2>0. i \in Nat \ {0} /\ 1 \in Nat \ {0}
    BY <1>3, <1>5
  <2>1. <<i, 1>> \in Path /\ Len(<<i, 1>>) = 2
    BY <2>0, PathsBuilt
  <2>2. p[1] = i /\ p[2] = 1
    BY <1>5
  <2> QED
    BY <1>3, <1>5, <2>1, <2>2
<1> QED
  BY <1>2, <1>4, <1>5

\* The route of an expose is well formed.
LEMMA InsertedIs ==
    ASSUME NEW h \in Hosts, NEW g
    PROVE  InsertedRoute(h, g) \in SubNode
<1>1. routeID(h) \in NodeIds /\ <<h>> \in Seq(Patterns)
  BY IdsBuilt DEF Patterns
<1> QED
  BY <1>1 DEF InsertedRoute, SubNode, Route, NodeIds

\* A step that keeps the config and the job well formed keeps the invariant.
LEMMA CallType ==
    ASSUME TypeInv, JobShape(job'), jobs' = jobs, before' = before, troubles' \in 0 .. Troubles,
           ConfigType(cfg'), cfg'.ops = cfg.ops, IdsApart(cfg'.routes)
    PROVE  TypeInv'
BY DEF TypeInv, Counters

\* The same where the config is left alone.
LEMMA SameConfigType ==
    ASSUME TypeInv, JobShape(job'), cfg' = cfg, Keep
    PROVE  TypeInv'
BY DEF TypeInv, Counters, Keep

\* The same where only the routes change.
LEMMA RoutesType ==
    ASSUME TypeInv, JobShape(job'), NEW s \in Seq(Node), IdsApart(s), cfg' = WithRoutes(cfg, s),
           jobs' = jobs, before' = before, troubles' \in 0 .. Troubles
    PROVE  TypeInv'
<1>1. ConfigType(cfg)
  BY DEF TypeInv
<1>2. ConfigType(cfg') /\ cfg'.ops = cfg.ops /\ cfg'.routes = s
  BY <1>1, WithRoutesType
<1> QED
  BY <1>2, CallType

\* A call that is being made.
LEMMA DoingIs ==
    ASSUME TypeInv, NEW kind, Doing(kind)
    PROVE  /\ JobShape(job) /\ job.status = "running" /\ job.todo # <<>> /\ Head1 \in Calls
           /\ Head1.kind = kind /\ Routes \in Seq(Node) /\ Routes = cfg.routes /\ ConfigType(cfg)
           /\ IdsApart(Routes) /\ jobs \in 0 .. cfg.ops /\ troubles \in 0 .. Troubles
BY HeadType DEF TypeInv, Doing, ConfigType, Routes, Counters

\* A job without its first call.
LEMMA NextType ==
    ASSUME JobShape(job), job.status = "running", job.todo # <<>>, Then(<<>>)
    PROVE  JobShape(job')
<1>1. <<>> \in Seq(Calls)
  OBVIOUS
<1> QED
  BY <1>1, ThenType

\* httpRouteInsertPath, and the PUT it plans.
LEMMA LocateInsertType ==
    ASSUME TypeInv, LocateInsert
    PROVE  TypeInv'
<1>1. /\ JobShape(job) /\ job.status = "running" /\ job.todo # <<>> /\ Head1 \in Calls
      /\ Head1.kind = "insert" /\ Routes \in Seq(Node)
  BY DoingIs DEF LocateInsert
<1> DEFINE p == httpRouteInsertPath(Routes, Head1.host)
           e == InsertedRoute(Head1.host, job.gate)
<1>2. Head1.host \in Hosts
  BY <1>1, CallIs
<1>3. e \in SubNode
  BY <1>2, InsertedIs
<1>4. p # <<>> => p \in Path
  BY <1>1, InsertPathIs
<1> HIDE DEF p, e
<1>5. p # <<>> => <<At("put", p, e)>> \in Seq(Calls)
  <2>1. p # <<>> => At("put", p, e) \in Calls
    BY <1>3, <1>4 DEF At, Calls
  <2> QED
    BY <2>1
<1>6. cfg' = cfg /\ Keep /\ (Fail \/ (p # <<>> /\ Then(<<At("put", p, e)>>)))
  BY DEF LocateInsert, p, e
<1>7. JobShape(job')
  BY <1>1, <1>5, <1>6, FailType, ThenType
<1> QED
  BY <1>6, <1>7, SameConfigType

\* The PUT of a route.
LEMMA InsertRouteType ==
    ASSUME TypeInv, insertRoute
    PROVE  TypeInv'
<1>1. /\ JobShape(job) /\ job.status = "running" /\ job.todo # <<>> /\ Head1 \in Calls
      /\ Head1.kind = "put" /\ Routes \in Seq(Node) /\ Routes = cfg.routes /\ troubles \in 0 .. Troubles
  BY DoingIs DEF insertRoute
<1>2. Head1.path \in Path /\ CallNode(Head1.path, Head1.node)
  BY <1>1, CallIs, SubNodeIs DEF CallNode
<1> DEFINE s == handlePutRoute(Routes, Head1.path, Head1.node)
<1>3. CASE PutOK(cfg, Head1.path, Head1.node)
  <2>1. cfg' = WithRoutes(cfg, s) /\ Then(<<>>) /\ Keep
    BY <1>3 DEF insertRoute
  <2>2. s \in Seq(Node)
    BY <1>1, <1>2, <1>3, PathIs, PutType DEF PutOK
  <2>3. IdsApart(s)
    BY <1>1, <1>3, UniqueApart DEF PutOK
  <2> HIDE DEF s
  <2> QED
    BY <1>1, <2>1, <2>2, <2>3, NextType, RoutesType DEF Keep
<1>4. CASE ~ PutOK(cfg, Head1.path, Head1.node)
  <2>1. cfg' = cfg /\ Fail /\ Keep
    BY <1>4 DEF insertRoute
  <2> QED
    BY <1>1, <2>1, FailType, SameConfigType
<1> QED
  BY <1>3, <1>4

\* The route of the layer4 app.
LEMMA InsertLayer4Type ==
    ASSUME TypeInv, insertLayer4Route
    PROVE  TypeInv'
<1>1. /\ JobShape(job) /\ job.status = "running" /\ job.todo # <<>> /\ ConfigType(cfg)
      /\ IdsApart(cfg.routes) /\ troubles \in 0 .. Troubles
  BY DoingIs DEF insertLayer4Route
<1>2. \A l : LET d == [cfg EXCEPT !.l4 = l] IN ConfigType(d) /\ d.routes = cfg.routes /\ d.ops = cfg.ops
  BY <1>1 DEF ConfigType
<1>3. ConfigType(cfg') /\ cfg'.routes = cfg.routes /\ cfg'.ops = cfg.ops /\ Then(<<>>) /\ Keep
  BY <1>2 DEF insertLayer4Route
<1>4. JobShape(job')
  BY <1>1, <1>3, NextType
<1> QED
  BY <1>1, <1>3, <1>4, CallType DEF Keep

\* The first route with an @id is one of the routes.
LEMMA WithIdIs ==
    ASSUME NEW s \in Seq(Node), NEW id, WithId(s, id) # {}
    PROVE  FirstOf(WithId(s, id)) \in Paths(s) /\ NodeAt(s, FirstOf(WithId(s, id))).id = id
<1>1. WithId(s, id) \in SUBSET Path
  BY PathsFinite DEF WithId
<1>2. FirstOf(WithId(s, id)) \in WithId(s, id)
  BY <1>1, FirstIsIn
<1> QED
  BY <1>2 DEF WithId

\* A delete by @id leaves well-formed routes.
LEMMA DeletedType ==
    ASSUME TypeInv, NEW p \in Paths(cfg.routes)
    PROVE  /\ deleteByPath(Routes, p) \in Seq(Node) /\ IdsApart(deleteByPath(Routes, p))
           /\ ConfigType(WithRoutes(cfg, deleteByPath(Routes, p)))
           /\ WithRoutes(cfg, deleteByPath(Routes, p)).routes = deleteByPath(Routes, p)
           /\ WithRoutes(cfg, deleteByPath(Routes, p)).ops = cfg.ops
<1>1. ConfigType(cfg) /\ cfg.routes \in Seq(Node) /\ IdsApart(cfg.routes) /\ Routes = cfg.routes
  BY DEF TypeInv, ConfigType, Routes
<1> DEFINE t == deleteByPath(Routes, p)
<1>2. t \in Seq(Node) /\ IdsApart(t)
  BY <1>1, DeleteType, DeleteApart
<1> HIDE DEF t
<1> QED
  BY <1>1, <1>2, WithRoutesType DEF t

\* The delete by @id, and the passthrough route that goes with it.
LEMMA DeleteRouteType ==
    ASSUME TypeInv, deleteRoute
    PROVE  TypeInv'
<1>1. /\ JobShape(job) /\ job.status = "running" /\ job.todo # <<>> /\ Head1 \in Calls
      /\ Head1.kind = "delete" /\ Routes \in Seq(Node) /\ Routes = cfg.routes
      /\ troubles \in 0 .. Troubles /\ ConfigType(cfg) /\ IdsApart(cfg.routes)
  BY DoingIs DEF deleteRoute
<1> DEFINE h == Head1.host
           own == WithId(Routes, routeID(h))
           t == deleteByPath(Routes, FirstOf(own))
           calls == <<SweepCall(h, 0)>>
<1>2. h \in Hosts
  BY <1>1, CallIs
<1>3. calls \in Seq(Calls)
  <2>1. SweepCall(h, 0) \in Calls
    BY <1>2 DEF SweepCall, Calls
  <2> QED
    BY <2>1
<1> HIDE DEF calls
<1>4. CASE own # {}
  <2>1. cfg' = WithoutL4(WithRoutes(cfg, t), h) /\ Then(<<>>) /\ Keep
    BY <1>4 DEF deleteRoute, deleteByID
  <2>2. FirstOf(own) \in Paths(cfg.routes)
    BY <1>1, <1>4, WithIdIs
  <2>3. /\ IdsApart(t) /\ ConfigType(WithRoutes(cfg, t)) /\ WithRoutes(cfg, t).routes = t
        /\ WithRoutes(cfg, t).ops = cfg.ops
    BY <2>2, DeletedType
  <2> HIDE DEF t, own, h
  <2>4. ConfigType(cfg') /\ cfg'.routes = t /\ cfg'.ops = cfg.ops
    BY <2>1, <2>3, WithoutL4Type
  <2> QED
    BY <1>1, <2>1, <2>3, <2>4, NextType, CallType DEF Keep
<1>5. CASE own = {} /\ Durable
  <2>1. cfg' = cfg /\ Then(calls) /\ Keep
    BY <1>5 DEF deleteRoute, deleteByID, calls
  <2> QED
    BY <1>1, <1>3, <2>1, ThenType, SameConfigType
<1>6. CASE own = {} /\ ~ Durable
  <2>1. cfg' = WithoutL4(cfg, h) /\ Then(<<>>) /\ Keep
    BY <1>6 DEF deleteRoute, deleteByID
  <2> HIDE DEF h
  <2>2. ConfigType(cfg') /\ cfg'.routes = cfg.routes /\ cfg'.ops = cfg.ops
    BY <1>1, <2>1, WithoutL4Type
  <2> QED
    BY <1>1, <2>1, <2>2, NextType, CallType DEF Keep
<1> QED
  BY <1>4, <1>5, <1>6

\* The route of a host is one of the routes, and for that host.
LEMMA FoundIs ==
    ASSUME NEW s \in Seq(Node), NEW h
    PROVE  /\ findHostRoutePath(s, h) = <<>> => FlatFor(s, h) = {} /\ NestedFor(s, h) = {}
           /\ findHostRoutePath(s, h) # <<>> => findHostRoutePath(s, h) \in Paths(s)
<1>1. FlatFor(s, h) \in SUBSET Paths(s) /\ NestedFor(s, h) \in SUBSET Paths(s)
  BY DEF FlatFor, NestedFor
<1>2. /\ FlatFor(s, h) # {} => FirstOf(FlatFor(s, h)) \in Paths(s)
      /\ NestedFor(s, h) # {} => FirstOf(NestedFor(s, h)) \in Paths(s)
  BY <1>1, PathsFinite, FirstIsIn
<1>3. \A p \in Paths(s) : p # <<>>
  BY PathsFinite, PathIs
<1> DEFINE p == findHostRoutePath(s, h)
<1>4. \/ FlatFor(s, h) # {} /\ p = FirstOf(FlatFor(s, h))
      \/ FlatFor(s, h) = {} /\ NestedFor(s, h) # {} /\ p = FirstOf(NestedFor(s, h))
      \/ FlatFor(s, h) = {} /\ NestedFor(s, h) = {} /\ p = <<>>
  BY DEF findHostRoutePath
<1> HIDE DEF p
<1>5. (p = <<>> => FlatFor(s, h) = {} /\ NestedFor(s, h) = {}) /\ (p # <<>> => p \in Paths(s))
  BY <1>2, <1>3, <1>4
<1> QED
  BY <1>5 DEF p

\* The sweep.
LEMMA SweepType ==
    ASSUME TypeInv, Sweep
    PROVE  TypeInv'
<1>1. /\ JobShape(job) /\ job.status = "running" /\ job.todo # <<>> /\ Head1 \in Calls
      /\ Head1.kind = "sweep" /\ Routes \in Seq(Node) /\ Routes = cfg.routes
      /\ troubles \in 0 .. Troubles /\ ConfigType(cfg) /\ IdsApart(cfg.routes)
  BY DoingIs DEF Sweep
<1> DEFINE h == Head1.host
           p == findHostRoutePath(Routes, h)
           calls == <<[kind |-> "delpath", path |-> p], SweepCall(h, Head1.n + 1)>>
<1>2. h \in Hosts /\ Head1.n \in Nat
  BY <1>1, CallIs
<1>3. p # <<>> => p \in Path
  BY <1>1, FoundIs, PathsFinite
<1>4. \/ cfg' = cfg /\ Fail
      \/ cfg' = WithoutL4(cfg, h) /\ Then(<<>>)
      \/ p # <<>> /\ cfg' = cfg /\ Then(calls)
  BY DEF Sweep
<1>5. Keep
  BY DEF Sweep
<1> HIDE DEF p
<1>6. p # <<>> => calls \in Seq(Calls)
  <2>1. p # <<>> => [kind |-> "delpath", path |-> p] \in Calls
    BY <1>3 DEF Calls
  <2>2. SweepCall(h, Head1.n + 1) \in Calls
    BY <1>2 DEF Calls, SweepCall
  <2> QED
    BY <2>1, <2>2
<1> HIDE DEF calls, h
<1>7. CASE cfg' = cfg /\ Fail
  BY <1>1, <1>5, <1>7, FailType, SameConfigType
<1>8. CASE cfg' = WithoutL4(cfg, h) /\ Then(<<>>)
  <2>1. ConfigType(cfg') /\ cfg'.routes = cfg.routes /\ cfg'.ops = cfg.ops
    BY <1>1, <1>8, WithoutL4Type
  <2> QED
    BY <1>1, <1>5, <1>8, <2>1, NextType, CallType DEF Keep
<1>9. CASE p # <<>> /\ cfg' = cfg /\ Then(calls)
  BY <1>1, <1>5, <1>6, <1>9, ThenType, SameConfigType
<1> QED
  BY <1>4, <1>7, <1>8, <1>9

\* The DELETE of a path, which another client may have emptied.
LEMMA DeletePathType ==
    ASSUME TypeInv, handleDeletePath
    PROVE  TypeInv'
<1>1. /\ JobShape(job) /\ job.status = "running" /\ job.todo # <<>> /\ Head1 \in Calls
      /\ Head1.kind = "delpath" /\ Routes \in Seq(Node) /\ Routes = cfg.routes
      /\ troubles \in 0 .. Troubles
  BY DoingIs DEF handleDeletePath
<1>2. Then(<<>>) /\ Keep
  BY DEF handleDeletePath
<1>3. JobShape(job')
  BY <1>1, <1>2, NextType
<1>4. CASE ValidPath(Routes, Head1.path)
  <2>1. Head1.path \in Paths(Routes)
    BY <1>1, <1>4, CallIs, ValidPaths
  <2>2. cfg' = WithRoutes(cfg, deleteByPath(Routes, Head1.path))
    BY <1>4 DEF handleDeletePath
  <2> QED
    BY <1>1, <1>2, <1>3, <2>1, <2>2, DeletedType, RoutesType DEF Keep
<1>5. CASE ~ ValidPath(Routes, Head1.path)
  <2>1. cfg' = cfg
    BY <1>5 DEF handleDeletePath
  <2> QED
    BY <1>2, <1>3, <2>1, SameConfigType
<1> QED
  BY <1>4, <1>5

\* A PATCH that is accepted leaves well-formed routes.
LEMMA PatchedType ==
    ASSUME TypeInv, NEW p \in Path, NEW n, CallNode(p, n), PatchOK(cfg, p, n)
    PROVE  setByPath(Routes, p, n) \in Seq(Node) /\ IdsApart(setByPath(Routes, p, n))
<1>1. Routes \in Seq(Node) /\ Routes = cfg.routes
  BY DEF TypeInv, ConfigType, Routes
<1>2. p \in Paths(Routes)
  BY <1>1, ValidPaths DEF PatchOK
<1>3. IdsApart(setByPath(Routes, p, n))
  BY <1>1, UniqueApart DEF PatchOK
<1> QED
  BY <1>1, <1>2, <1>3, PatchType

\* The PATCH of a route.
LEMMA PatchRouteType ==
    ASSUME TypeInv, handlePatchRoute
    PROVE  TypeInv'
<1>1. /\ JobShape(job) /\ job.status = "running" /\ job.todo # <<>> /\ Head1 \in Calls
      /\ Head1.kind = "patch" /\ troubles \in 0 .. Troubles
  BY DoingIs DEF handlePatchRoute
<1>2. Head1.path \in Path /\ CallNode(Head1.path, Head1.node)
  BY <1>1, CallIs
<1> DEFINE s == setByPath(Routes, Head1.path, Head1.node)
<1>3. CASE PatchOK(cfg, Head1.path, Head1.node)
  <2>1. cfg' = WithRoutes(cfg, s) /\ Then(<<>>) /\ Keep
    BY <1>3 DEF handlePatchRoute
  <2>2. s \in Seq(Node) /\ IdsApart(s)
    BY <1>2, <1>3, PatchedType
  <2> HIDE DEF s
  <2> QED
    BY <1>1, <2>1, <2>2, NextType, RoutesType DEF Keep
<1>4. CASE ~ PatchOK(cfg, Head1.path, Head1.node)
  <2>1. cfg' = cfg /\ Fail /\ Keep
    BY <1>4 DEF handlePatchRoute
  <2> QED
    BY <1>1, <2>1, FailType, SameConfigType
<1> QED
  BY <1>3, <1>4

\* POST /load.
LEMMA LoadStepType ==
    ASSUME TypeInv, load
    PROVE  TypeInv'
<1>1. /\ JobShape(job) /\ job.status = "running" /\ job.todo # <<>> /\ Head1 \in Calls
      /\ Head1.kind = "load" /\ ConfigType(cfg) /\ troubles \in 0 .. Troubles
  BY DoingIs DEF load
<1>2. Head1.target \in SUBSET Targets
  BY <1>1, CallIs
<1> DEFINE s == renderCaddyfile(Head1.target)
<1>3. s \in Seq(Node) /\ IdsApart(s)
  BY <1>2, LoadType
<1>4. CASE LoadOK(Head1.target)
  <2>1. cfg' = [WithRoutes(cfg, s) EXCEPT !.sibling = <<>>, !.l4 = <<>>] /\ Then(<<>>) /\ Keep
    BY <1>4 DEF load
  <2> HIDE DEF s
  <2>2. ConfigType(WithRoutes(cfg, s)) /\ WithRoutes(cfg, s).routes = s /\ WithRoutes(cfg, s).ops = cfg.ops
    BY <1>1, <1>3, WithRoutesType
  <2>3. \A c : ConfigType(c) =>
            LET d == [c EXCEPT !.sibling = <<>>, !.l4 = <<>>]
            IN  ConfigType(d) /\ d.routes = c.routes /\ d.ops = c.ops
    <3> TAKE c
    <3> HAVE ConfigType(c)
    <3> DEFINE a == [c EXCEPT !.sibling = <<>>]
    <3>1. /\ a = [routes |-> c.routes, sibling |-> <<>>, l4 |-> c.l4, admin |-> c.admin,
                  granular |-> c.granular, ops |-> c.ops]
      BY DEF ConfigType
    <3> HIDE DEF a
    <3>2. [a EXCEPT !.l4 = <<>>] = [routes |-> c.routes, sibling |-> <<>>, l4 |-> <<>>,
               admin |-> c.admin, granular |-> c.granular, ops |-> c.ops]
      BY <3>1
    <3>3. <<>> \in Seq(Node)
      OBVIOUS
    <3>4. [c EXCEPT !.sibling = <<>>, !.l4 = <<>>] = [a EXCEPT !.l4 = <<>>]
      BY DEF a
    <3> QED
      BY <3>2, <3>3, <3>4 DEF ConfigType
  <2>4. ConfigType(cfg') /\ cfg'.routes = s /\ cfg'.ops = cfg.ops
    BY <2>1, <2>2, <2>3
  <2> QED
    BY <1>1, <1>3, <2>1, <2>4, NextType, CallType DEF Keep
<1>5. CASE ~ LoadOK(Head1.target)
  <2>1. cfg' = cfg /\ Fail /\ Keep
    BY <1>5 DEF load
  <2> QED
    BY <1>1, <2>1, FailType, SameConfigType
<1> QED
  BY <1>4, <1>5

\* The end of an operation.
LEMMA FinishType ==
    ASSUME TypeInv, Finish
    PROVE  TypeInv'
<1>1. JobShape(job) /\ job.todo = <<>> /\ cfg' = cfg /\ Keep
  BY DEF TypeInv, Finish
<1>2. job' = [job EXCEPT !.status = "done"] \/ job' = [job EXCEPT !.status = "error"]
  BY Zenon DEF Finish
<1>3. JobShape(job')
  BY <1>1, <1>2 DEF JobShape
<1> QED
  BY <1>1, <1>3, SameConfigType

\* A call that fails.
LEMMA CallFailsType ==
    ASSUME TypeInv, CallFails
    PROVE  TypeInv'
<1>1. JobShape(job) /\ ConfigType(cfg) /\ IdsApart(cfg.routes) /\ troubles \in 0 .. Troubles
  BY DEF TypeInv, Counters
<1>2. troubles - 1 \in 0 .. Troubles
  BY <1>1, CaddyAssumption DEF CallFails
<1> QED
  BY <1>1, <1>2, FailType, CallType DEF CallFails

\* A write that lands although its answer is lost.
LEMMA LandsThenFailsType ==
    ASSUME TypeInv, LandsThenFails
    PROVE  TypeInv'
<1>1. JobShape(job) /\ Routes = cfg.routes /\ Routes \in Seq(Node) /\ troubles \in 0 .. Troubles
  BY DEF TypeInv, Counters, ConfigType, Routes
<1>2. troubles' \in 0 .. Troubles /\ jobs' = jobs /\ before' = before
  BY <1>1, CaddyAssumption DEF LandsThenFails
<1>3. JobShape(job')
  BY <1>1, FailType DEF LandsThenFails
<1>4. CASE /\ Doing("put") /\ PutOK(cfg, Head1.path, Head1.node)
           /\ cfg' = WithRoutes(cfg, handlePutRoute(Routes, Head1.path, Head1.node))
  <2>1. Head1 \in Calls /\ Head1.kind = "put"
    BY <1>4, DoingIs
  <2>2. Head1.path \in Path /\ CallNode(Head1.path, Head1.node)
    BY <2>1, CallIs, SubNodeIs DEF CallNode
  <2>3. handlePutRoute(Routes, Head1.path, Head1.node) \in Seq(Node)
    BY <1>1, <1>4, <2>2, PathIs, PutType DEF PutOK
  <2>4. IdsApart(handlePutRoute(Routes, Head1.path, Head1.node))
    BY <1>1, <1>4, UniqueApart DEF PutOK
  <2> QED
    BY <1>2, <1>3, <1>4, <2>3, <2>4, RoutesType
<1>5. CASE /\ Doing("patch") /\ PatchOK(cfg, Head1.path, Head1.node)
           /\ cfg' = WithRoutes(cfg, setByPath(Routes, Head1.path, Head1.node))
  <2>1. Head1 \in Calls /\ Head1.kind = "patch"
    BY <1>5, DoingIs
  <2>2. Head1.path \in Path /\ CallNode(Head1.path, Head1.node)
    BY <2>1, CallIs
  <2>3. /\ setByPath(Routes, Head1.path, Head1.node) \in Seq(Node)
        /\ IdsApart(setByPath(Routes, Head1.path, Head1.node))
    BY <1>5, <2>2, PatchedType
  <2> QED
    BY <1>2, <1>3, <1>5, <2>3, RoutesType
<1>6. CASE /\ Doing("delete") /\ WithId(Routes, routeID(Head1.host)) # {}
           /\ cfg' = WithRoutes(cfg, deleteByPath(Routes, FirstOf(WithId(Routes, routeID(Head1.host)))))
  <2> DEFINE p == FirstOf(WithId(Routes, routeID(Head1.host)))
  <2>1. p \in Paths(cfg.routes)
    BY <1>1, <1>6, WithIdIs
  <2>2. deleteByPath(Routes, p) \in Seq(Node) /\ IdsApart(deleteByPath(Routes, p))
    BY <2>1, DeletedType
  <2> QED
    BY <1>2, <1>3, <1>6, <2>2, RoutesType
<1> QED
  BY <1>4, <1>5, <1>6 DEF LandsThenFails

\* Another client of the admin API.
LEMMA OtherClientType ==
    ASSUME TypeInv, OtherClient
    PROVE  TypeInv'
<1>1. JobShape(job) /\ Routes = cfg.routes /\ Routes \in Seq(Node) /\ troubles \in 0 .. Troubles
  BY DEF TypeInv, Counters, ConfigType, Routes
<1>2. troubles' \in 0 .. Troubles /\ jobs' = jobs /\ before' = before
  BY <1>1, CaddyAssumption DEF OtherClient
<1>3. JobShape(job')
  BY <1>1 DEF OtherClient, JobShape
<1>4. CASE \E n \in Inserted : /\ IdsUnique(<<n>> \o Routes, cfg.l4)
                               /\ cfg' = WithRoutes(cfg, <<n>> \o Routes)
  <2>1. PICK n \in Inserted : /\ IdsUnique(<<n>> \o Routes, cfg.l4)
                              /\ cfg' = WithRoutes(cfg, <<n>> \o Routes)
    BY <1>4
  <2>2. n \in Node
    BY CaddyAssumption DEF TrueNode
  <2>3. <<n>> \o Routes \in Seq(Node)
    BY <1>1, <2>2, Joined
  <2>4. IdsApart(<<n>> \o Routes)
    BY <2>1, UniqueApart
  <2> QED
    BY <1>2, <1>3, <2>1, <2>3, <2>4, RoutesType
<1>5. CASE \E i \in DOMAIN Routes : cfg' = WithRoutes(cfg, RemoveAt(Routes, i))
  <2>1. PICK i \in DOMAIN Routes : cfg' = WithRoutes(cfg, RemoveAt(Routes, i))
    BY <1>5
  <2>2. i \in Nat \ {0}
    BY <1>1
  <2>3. <<i>> \in Path /\ Len(<<i>>) = 1 /\ <<i>>[1] = i
    BY <2>2, PathsBuilt
  <2>4. <<i>> \in Paths(cfg.routes)
    BY <1>1, <2>1, <2>3, PathsAre
  <2>5. deleteByPath(Routes, <<i>>) = RemoveAt(Routes, i)
    BY <2>3 DEF deleteByPath
  <2>6. RemoveAt(Routes, i) \in Seq(Node) /\ IdsApart(RemoveAt(Routes, i))
    BY <2>4, <2>5, DeletedType
  <2> QED
    BY <1>2, <1>3, <2>1, <2>6, RoutesType
<1> QED
  BY <1>4, <1>5 DEF OtherClient

\* A job that is done.
LEMMA DoneShape ==
    ASSUME NEW j, JobShape(j), j.todo = <<>>
    PROVE  JobShape([j EXCEPT !.status = "done"])
<1> DEFINE d == [j EXCEPT !.status = "done"]
<1>1. d = [verb |-> j.verb, add |-> j.add, remove |-> j.remove, gate |-> j.gate, loc |-> j.loc,
           todo |-> j.todo, status |-> "done", clean |-> j.clean]
  BY DEF JobShape
<1> HIDE DEF d
<1>2. JobShape(d)
  BY <1>1 DEF JobShape
<1> QED
  BY <1>2 DEF d

\* The initial states.
LEMMA InitType == Init => TypeInv
<1> SUFFICES ASSUME Init
             PROVE  TypeInv
  OBVIOUS
<1>1. PICK s \in Shapes : \E r \in UNION {[1..n -> Nodes] : n \in 0..MaxRoutes} :
          cfg = [routes |-> r, sibling |-> s.sibling, l4 |-> s.l4, admin |-> s.admin,
                 granular |-> s.granular, ops |-> s.ops]
  BY DEF Init
<1>2. PICK r \in UNION {[1..n -> Nodes] : n \in 0..MaxRoutes} :
          cfg = [routes |-> r, sibling |-> s.sibling, l4 |-> s.l4, admin |-> s.admin,
                 granular |-> s.granular, ops |-> s.ops]
  BY <1>1
<1>3. PICK n \in 0 .. MaxRoutes : r \in [1 .. n -> Nodes]
  OBVIOUS
<1>4. n \in Nat /\ Nodes \subseteq Node
  BY CaddyAssumption DEF TrueNode
<1>5. r \in Seq(Node)
  BY <1>3, <1>4
<1>6. s.sibling \in Seq(Node) /\ s.ops \in Nat
  BY CaddyAssumption DEF Shape
<1>7. ConfigType(cfg)
  BY <1>2, <1>5, <1>6 DEF ConfigType
<1>8. before = cfg /\ job = Idle /\ jobs = 0 /\ troubles = Troubles /\ IdsApart(cfg.routes)
  BY UniqueApart DEF Init
<1>9. JobShape(Idle)
  <2>1. <<>> \in Seq(Calls)
    OBVIOUS
  <2>2. {} \in SUBSET Hosts
    OBVIOUS
  <2> DEFINE j == Job("none", {}, {}, <<>>)
  <2>3. JobShape(j) /\ j.todo = <<>>
    BY <2>1, <2>2, JobType1 DEF Job
  <2> HIDE DEF j
  <2>4. JobShape([j EXCEPT !.status = "done"])
    BY <2>3, DoneShape
  <2> QED
    BY <2>4 DEF Idle, j
<1>10. jobs \in 0 .. cfg.ops /\ troubles \in 0 .. Troubles
  BY <1>7, <1>8, CaddyAssumption DEF ConfigType
<1> QED
  BY <1>7, <1>8, <1>9, <1>10 DEF TypeInv, Counters

\* Every step keeps the invariant.
LEMMA StepType ==
    ASSUME TypeInv, [Next]_vars
    PROVE  TypeInv'
<1>1. CASE /\ job.status # "running" /\ jobs < cfg.ops
           /\ Apply \/ ApplyLayer4 \/ Import \/ Ack \/ Unack \/ AckRoute \/ UnackRoute
  <2>1. PICK j : Startable(j)
    BY <1>1, OperationBegins
  <2> QED
    BY <1>1, <2>1, BeginType DEF Startable
<1>2. CASE Step
  BY <1>2, LocateInsertType, InsertRouteType, InsertLayer4Type, DeleteRouteType, SweepType,
     DeletePathType, PatchRouteType, LoadStepType, FinishType DEF Step
<1>3. CASE CallFails
  BY <1>3, CallFailsType
<1>4. CASE LandsThenFails
  BY <1>4, LandsThenFailsType
<1>5. CASE OtherClient
  BY <1>5, OtherClientType
<1>6. CASE UNCHANGED vars
  BY <1>6 DEF vars, TypeInv, Counters
<1> QED
  BY <1>1, <1>2, <1>3, <1>4, <1>5, <1>6 DEF Next

\* Whatever crenel and other clients send, in whatever order and with whatever
\* failures, the config stays a config, its @ids apart, and the calls a job has
\* left are well-formed calls (Driver.Apply, Adopt, Ack and the admin API).
THEOREM TypeInvariant == Spec => []TypeInv
BY InitType, StepType, PTL DEF Spec

\* The live config stays well formed through every admin call: every @id is on
\* one route at most (Caddy's global index of @ids), and a job is over when it
\* has nothing left to call.
THEOREM TypeCorrect == Spec => []TypeOK
BY TypeInvariant, TypeInvImplies, PTL

\* DenyState: whatever the managed server, or a sibling that forwards, answers a
\* request with is a listed route or one the operator acknowledged, when the
\* read certifies ENFORCED.
THEOREM EnforcedClosed == Spec => []EnforcedIsClosed
<1>1. TypeInv => EnforcedIsClosed
  BY ClosedWhenEnforced DEF TypeInv, ConfigType
<1> QED
  BY <1>1, TypeInvariant, PTL

-----------------------------------------------------------------------------
(***************************************************************************)
(* The sweep of an unexpose.                                               *)
(***************************************************************************)
\* The routes without crenel's @id for h, and those that are not for h at all.
Unmarked(h) == {n \in Node : n.id # routeID(h) /\ \A j \in DOMAIN n.subs : n.subs[j].id # routeID(h)}

NotFor(h) ==
    {n \in Node : /\ h \notin hostMatches(n)
                  /\ routeWildcardCovers(n, h) => \A j \in DOMAIN n.subs : h \notin hostMatches(n.subs[j])}

\* The calls of an apply that is not by full load.
ApplyCall(k, add) ==
    \/ k.kind \in {"delete", "sweep", "delpath"}
    \/ k.kind = "insert" /\ k.host \in add
    \/ k.kind = "put" /\ \E h \in add : \E g : k.node = InsertedRoute(h, g)

ApplyCalls == \A i \in DOMAIN job.todo : ApplyCall(job.todo[i], job.add)

\* A removal that is still to be made.
Pending(h) == \E i \in DOMAIN job.todo : job.todo[i].kind \in {"delete", "sweep"} /\ job.todo[i].host = h

\* The removal of h, whose routes had not crenel's @id.
Sweeping(h) ==
    /\ cfg.routes \in Seq(Unmarked(h))
    /\ Pending(h) \/ cfg.routes \in Seq(NotFor(h))

Applies == job.verb = "apply" /\ job.clean /\ job.status # "error" /\ Durable

Swept == {h \in job.remove \ job.add : WithId(before.routes, routeID(h)) = {}}

SweepInv == Applies => ApplyCalls /\ \A h \in Swept : Sweeping(h)

\* What a call has to do to go on with it.
Removes(t, h) == \E k \in DOMAIN t : t[k].kind \in {"delete", "sweep"} /\ t[k].host = h

KeepsSweeping(t, h) ==
    /\ cfg'.routes \in Seq(Unmarked(h))
    /\ cfg.routes \in Seq(NotFor(h)) => cfg'.routes \in Seq(NotFor(h))
    /\ Head1.kind \in {"delete", "sweep"} /\ Head1.host = h =>
          cfg'.routes \in Seq(NotFor(h)) \/ Removes(t, h)

\* Routes of one kind stay of it when one more of it is put.
LEMMA PutWithin ==
    ASSUME NEW G \in SUBSET Node, NEW s \in Seq(G), NEW p \in Path, NEW n,
           Len(p) = 1 => n \in G,
           Len(p) = 2 => p[1] \in DOMAIN s /\ [s[p[1]] EXCEPT !.subs = insertAt(s[p[1]].subs, p[2], n)] \in G
    PROVE  handlePutRoute(s, p, n) \in Seq(G)
<1>1. CASE Len(p) = 1
  <2>1. p[1] \in Nat \ {0}
    BY PathIs
  <2>2. insertAt(s, p[1], n) \in Seq(G)
    BY <1>1, <2>1, InsertedSeq
  <2> QED
    BY <1>1, <2>2 DEF handlePutRoute
<1>2. CASE Len(p) = 2
  <2> DEFINE m == [s[p[1]] EXCEPT !.subs = insertAt(s[p[1]].subs, p[2], n)]
  <2>1. handlePutRoute(s, p, n) = [s EXCEPT ![p[1]] = m]
    BY <1>2 DEF handlePutRoute
  <2>2. m \in G /\ p[1] \in DOMAIN s
    BY <1>2
  <2> HIDE DEF m
  <2> QED
    BY <2>1, <2>2, ReplacedSeq
<1> QED
  BY <1>1, <1>2, PathIs

\* And when one is deleted.
LEMMA DeleteWithin ==
    ASSUME NEW G \in SUBSET Node, NEW s \in Seq(G), NEW p \in Path, p[1] \in DOMAIN s,
           Len(p) = 2 => [s[p[1]] EXCEPT !.subs = RemoveAt(s[p[1]].subs, p[2])] \in G
    PROVE  deleteByPath(s, p) \in Seq(G)
<1>1. CASE Len(p) = 1
  BY <1>1, RemovedSeq DEF deleteByPath
<1>2. CASE Len(p) = 2
  <2> DEFINE m == [s[p[1]] EXCEPT !.subs = RemoveAt(s[p[1]].subs, p[2])]
  <2>1. deleteByPath(s, p) = [s EXCEPT ![p[1]] = m]
    BY <1>2 DEF deleteByPath
  <2>2. m \in G
    BY <1>2
  <2> HIDE DEF m
  <2> QED
    BY <2>1, <2>2, ReplacedSeq
<1> QED
  BY <1>1, <1>2, PathIs

\* The subroute of a route without h's @id, or not for h, with other routes of
\* the same kind in it.
LEMMA OtherSubs ==
    ASSUME NEW h, NEW m \in Node, HasSub(m), NEW t \in Seq(SubNode)
    PROVE  /\ m \in Unmarked(h) /\ (\A j \in DOMAIN t : t[j].id # routeID(h))
                 => [m EXCEPT !.subs = t] \in Unmarked(h)
           /\ m \in NotFor(h) /\ (routeWildcardCovers(m, h) => \A j \in DOMAIN t : h \notin hostMatches(t[j]))
                 => [m EXCEPT !.subs = t] \in NotFor(h)
<1> DEFINE w == [m EXCEPT !.subs = t]
<1>1. w \in Node /\ w.subs = t
  BY NodeIs
<1>2. w.id = m.id /\ w.match = m.match
  BY DEF Node, Route
<1> HIDE DEF w
<1>3. hostMatches(w) = hostMatches(m) /\ (routeWildcardCovers(w, h) <=> routeWildcardCovers(m, h))
  BY <1>2 DEF hostMatches, routeWildcardCovers
<1>4. m \in Unmarked(h) /\ (\A j \in DOMAIN t : t[j].id # routeID(h)) => w \in Unmarked(h)
  BY <1>1, <1>2 DEF Unmarked
<1>5. m \in NotFor(h) /\ (routeWildcardCovers(m, h) => \A j \in DOMAIN t : h \notin hostMatches(t[j]))
         => w \in NotFor(h)
  BY <1>1, <1>3 DEF NotFor
<1> QED
  BY <1>4, <1>5 DEF w

\* The route of another host is put among routes that are not for h.
LEMMA PutOther ==
    ASSUME NEW s \in Seq(Node), NEW h, NEW o \in Hosts, o # h, NEW g, NEW p \in Path,
           Len(p) = 2 => p[1] \in DOMAIN s /\ HasSub(s[p[1]])
    PROVE  /\ s \in Seq(Unmarked(h)) => handlePutRoute(s, p, InsertedRoute(o, g)) \in Seq(Unmarked(h))
           /\ s \in Seq(NotFor(h)) => handlePutRoute(s, p, InsertedRoute(o, g)) \in Seq(NotFor(h))
<1> DEFINE e == InsertedRoute(o, g)
           m == s[p[1]]
           t == insertAt(m.subs, p[2], e)
<1>1. e \in SubNode /\ e \in Node /\ e.subs = <<>>
  BY InsertedIs, SubNodeIs
<1>2. e.id # routeID(h) /\ h \notin hostMatches(e)
  <2>1. e.id = routeID(o) /\ e.match = <<o>>
    BY DEF InsertedRoute
  <2>2. routeID(o) # routeID(h)
    BY DEF routeID
  <2>3. ToSet(<<o>>) = {o}
    BY DEF ToSet
  <2> QED
    BY <2>1, <2>2, <2>3 DEF hostMatches
<1> HIDE DEF e
<1>3. e \in Unmarked(h) /\ e \in NotFor(h)
  BY <1>1, <1>2 DEF Unmarked, NotFor
<1>4. ASSUME Len(p) = 2
      PROVE  /\ m \in Unmarked(h) => [m EXCEPT !.subs = t] \in Unmarked(h)
             /\ m \in NotFor(h) => [m EXCEPT !.subs = t] \in NotFor(h)
  <2>1. m \in Node /\ HasSub(m) /\ m.subs \in Seq(SubNode) /\ p[2] \in Nat \ {0}
    BY <1>4, NodeIs, PathIs
  <2> HIDE DEF m
  <2> DEFINE u == m.subs
             i == p[2]
  <2>0. u \in Seq(SubNode) /\ i \in Nat \ {0}
    BY <2>1
  <2> HIDE DEF u, i
  <2>2. insertAt(u, i, e) \in Seq(SubNode) /\ Among(insertAt(u, i, e), u, e)
    <3>1. e \in SubNode
      BY <1>1
    <3>2. insertAt(u, i, e) \in Seq(SubNode)
      BY <2>0, <3>1, InsertedSeq
    <3>3. Among(insertAt(u, i, e), u, e)
      BY <2>0, <3>1, InsertedSeq
    <3> QED
      BY <3>2, <3>3
  <2>3. t = insertAt(u, i, e) /\ u = m.subs
    BY DEF u, i
  <2> HIDE DEF t
  <2>4. t \in Seq(SubNode) /\ \A k \in DOMAIN t : t[k] = e \/ \E l \in DOMAIN m.subs : t[k] = m.subs[l]
    BY <2>2, <2>3 DEF Among
  <2>5. m \in Unmarked(h) => \A k \in DOMAIN t : t[k].id # routeID(h)
    BY <1>2, <2>4 DEF Unmarked
  <2>6. m \in NotFor(h) /\ routeWildcardCovers(m, h) => \A k \in DOMAIN t : h \notin hostMatches(t[k])
    BY <1>2, <2>4 DEF NotFor
  <2> QED
    BY <2>1, <2>4, <2>5, <2>6, OtherSubs
<1>5. Unmarked(h) \in SUBSET Node /\ NotFor(h) \in SUBSET Node
  BY DEF Unmarked, NotFor
<1>6. ASSUME s \in Seq(Unmarked(h))
      PROVE  handlePutRoute(s, p, e) \in Seq(Unmarked(h))
  <2>1. Len(p) = 2 => p[1] \in DOMAIN s /\ [m EXCEPT !.subs = t] \in Unmarked(h)
    BY <1>4, <1>6
  <2> QED
    BY <1>3, <1>5, <1>6, <2>1, PutWithin
<1>7. ASSUME s \in Seq(NotFor(h))
      PROVE  handlePutRoute(s, p, e) \in Seq(NotFor(h))
  <2>1. Len(p) = 2 => p[1] \in DOMAIN s /\ [m EXCEPT !.subs = t] \in NotFor(h)
    BY <1>4, <1>7
  <2> QED
    BY <1>3, <1>5, <1>7, <2>1, PutWithin
<1> QED
  BY <1>6, <1>7 DEF e

\* A route is deleted among routes that are not for h.
LEMMA DeleteOther ==
    ASSUME NEW s \in Seq(Node), NEW h, NEW p \in Paths(s)
    PROVE  /\ s \in Seq(Unmarked(h)) => deleteByPath(s, p) \in Seq(Unmarked(h))
           /\ s \in Seq(NotFor(h)) => deleteByPath(s, p) \in Seq(NotFor(h))
<1> DEFINE m == s[p[1]]
           t == RemoveAt(m.subs, p[2])
<1>1. p \in Path /\ p[1] \in DOMAIN s
  BY PathsAre
<1>2. ASSUME Len(p) = 2
      PROVE  /\ m \in Unmarked(h) => [m EXCEPT !.subs = t] \in Unmarked(h)
             /\ m \in NotFor(h) => [m EXCEPT !.subs = t] \in NotFor(h)
  <2>1. m \in Node /\ HasSub(m) /\ m.subs \in Seq(SubNode) /\ p[2] \in DOMAIN m.subs
    BY <1>2, AboveIs
  <2> HIDE DEF m
  <2>2. t \in Seq(SubNode) /\ \A k \in DOMAIN t : \E l \in DOMAIN m.subs : t[k] = m.subs[l]
    BY <2>1, RemovedSeq
  <2> HIDE DEF t
  <2>3. m \in Unmarked(h) => \A k \in DOMAIN t : t[k].id # routeID(h)
    BY <2>2 DEF Unmarked
  <2>4. m \in NotFor(h) /\ routeWildcardCovers(m, h) => \A k \in DOMAIN t : h \notin hostMatches(t[k])
    BY <2>2 DEF NotFor
  <2> QED
    BY <2>1, <2>2, <2>3, <2>4, OtherSubs
<1>3. Unmarked(h) \in SUBSET Node /\ NotFor(h) \in SUBSET Node
  BY DEF Unmarked, NotFor
<1>4. ASSUME s \in Seq(Unmarked(h))
      PROVE  deleteByPath(s, p) \in Seq(Unmarked(h))
  <2>1. Len(p) = 2 => [m EXCEPT !.subs = t] \in Unmarked(h)
    BY <1>1, <1>2, <1>4
  <2> QED
    BY <1>1, <1>3, <1>4, <2>1, DeleteWithin
<1>5. ASSUME s \in Seq(NotFor(h))
      PROVE  deleteByPath(s, p) \in Seq(NotFor(h))
  <2>1. Len(p) = 2 => [m EXCEPT !.subs = t] \in NotFor(h)
    BY <1>1, <1>2, <1>5
  <2> QED
    BY <1>1, <1>3, <1>5, <2>1, DeleteWithin
<1> QED
  BY <1>4, <1>5

\* No route has h's @id.
LEMMA UnmarkedIs ==
    ASSUME NEW s \in Seq(Node), NEW h
    PROVE  WithId(s, routeID(h)) = {} <=> s \in Seq(Unmarked(h))
<1>1. ASSUME WithId(s, routeID(h)) = {}
      PROVE  s \in Seq(Unmarked(h))
  <2>1. \A p \in Paths(s) : NodeAt(s, p).id # routeID(h)
    BY <1>1 DEF WithId
  <2>2. ASSUME NEW i \in DOMAIN s
        PROVE  s[i] \in Unmarked(h)
    <3>1. i \in Nat \ {0} /\ s[i] \in Node /\ s[i].subs \in Seq(SubNode) /\ (s[i].subs = <<>> \/ HasSub(s[i]))
      BY NodeIs
    <3>2. <<i>> \in Path /\ Len(<<i>>) = 1 /\ <<i>>[1] = i
      BY <3>1, PathsBuilt
    <3>3. <<i>> \in Paths(s) /\ NodeAt(s, <<i>>) = s[i]
      BY <3>2, PathsAre DEF NodeAt
    <3>4. ASSUME NEW j \in DOMAIN s[i].subs
          PROVE  s[i].subs[j].id # routeID(h)
      <4>1. j \in Nat \ {0} /\ HasSub(s[i])
        BY <3>1
      <4>2. <<i, j>> \in Path /\ Len(<<i, j>>) = 2 /\ <<i, j>>[1] = i /\ <<i, j>>[2] = j
        BY <3>1, <4>1, PathsBuilt
      <4>3. <<i, j>> \in Paths(s) /\ NodeAt(s, <<i, j>>) = s[i].subs[j]
        BY <4>1, <4>2, PathsAre DEF NodeAt
      <4> QED
        BY <2>1, <4>3
    <3> QED
      BY <2>1, <3>1, <3>3, <3>4 DEF Unmarked
  <2> QED
    BY <2>2
<1>2. ASSUME s \in Seq(Unmarked(h)), NEW p \in Paths(s)
      PROVE  NodeAt(s, p).id # routeID(h)
  <2>1. p[1] \in DOMAIN s /\ p \in Path /\ (Len(p) = 2 => p[2] \in DOMAIN s[p[1]].subs)
    BY PathsAre
  <2>2. s[p[1]] \in Unmarked(h)
    BY <1>2, <2>1
  <2> QED
    BY <2>1, <2>2, PathIs DEF Unmarked, NodeAt
<1> QED
  BY <1>1, <1>2 DEF WithId

\* No route is for h.
LEMMA NotForIs ==
    ASSUME NEW s \in Seq(Node), NEW h
    PROVE  FlatFor(s, h) \cup NestedFor(s, h) = {} <=> s \in Seq(NotFor(h))
<1>1. ASSUME FlatFor(s, h) = {}, NestedFor(s, h) = {}
      PROVE  s \in Seq(NotFor(h))
  <2>1. ASSUME NEW i \in DOMAIN s
        PROVE  s[i] \in NotFor(h)
    <3>1. i \in Nat \ {0} /\ s[i] \in Node /\ s[i].subs \in Seq(SubNode) /\ (s[i].subs = <<>> \/ HasSub(s[i]))
      BY NodeIs
    <3>2. <<i>> \in Path /\ Len(<<i>>) = 1 /\ <<i>>[1] = i
      BY <3>1, PathsBuilt
    <3>3. <<i>> \in Paths(s) /\ NodeAt(s, <<i>>) = s[i]
      BY <3>2, PathsAre DEF NodeAt
    <3>4. h \notin hostMatches(s[i])
      BY <1>1, <3>2, <3>3 DEF FlatFor, routeHasExactHost
    <3>5. ASSUME NEW j \in DOMAIN s[i].subs, routeWildcardCovers(s[i], h)
          PROVE  h \notin hostMatches(s[i].subs[j])
      <4>1. j \in Nat \ {0} /\ HasSub(s[i])
        BY <3>1
      <4>2. <<i, j>> \in Path /\ Len(<<i, j>>) = 2 /\ <<i, j>>[1] = i /\ <<i, j>>[2] = j
        BY <3>1, <4>1, PathsBuilt
      <4>3. <<i, j>> \in Paths(s) /\ NodeAt(s, <<i, j>>) = s[i].subs[j]
        BY <4>1, <4>2, PathsAre DEF NodeAt
      <4> QED
        BY <1>1, <3>5, <4>2, <4>3 DEF NestedFor, routeHasExactHost
    <3> QED
      BY <3>1, <3>4, <3>5 DEF NotFor
  <2> QED
    BY <2>1
<1>2. ASSUME s \in Seq(NotFor(h)), NEW p \in Paths(s)
      PROVE  p \notin FlatFor(s, h) /\ p \notin NestedFor(s, h)
  <2>1. p[1] \in DOMAIN s /\ (Len(p) = 2 => p[2] \in DOMAIN s[p[1]].subs)
    BY PathsAre
  <2>2. s[p[1]] \in NotFor(h)
    BY <1>2, <2>1
  <2>3. Len(p) = 1 => ~ routeHasExactHost(NodeAt(s, p), h)
    BY <2>2 DEF NotFor, NodeAt, routeHasExactHost
  <2>4. Len(p) = 2 /\ routeWildcardCovers(s[p[1]], h) => ~ routeHasExactHost(NodeAt(s, p), h)
    BY <2>1, <2>2 DEF NotFor, NodeAt, routeHasExactHost
  <2> QED
    BY <2>3, <2>4 DEF FlatFor, NestedFor
<1>3. FlatFor(s, h) \in SUBSET Paths(s) /\ NestedFor(s, h) \in SUBSET Paths(s)
  BY DEF FlatFor, NestedFor
<1> QED
  BY <1>1, <1>2, <1>3

\* The calls of a job that goes on: the new ones first, and the others but the head.
LEMMA TodoNext ==
    ASSUME JobShape(job), job.todo # <<>>, NEW t \in Seq(Calls), Then(t)
    PROVE  /\ \A i \in DOMAIN job'.todo :
                 \/ \E k \in DOMAIN t : job'.todo[i] = t[k]
                 \/ \E k \in DOMAIN job.todo : job'.todo[i] = job.todo[k]
           /\ \A k \in DOMAIN job.todo : k = 1 \/ \E i \in DOMAIN job'.todo : job'.todo[i] = job.todo[k]
           /\ \A k \in DOMAIN t : \E i \in DOMAIN job'.todo : job'.todo[i] = t[k]
           /\ job.todo[1] = Head1
<1> DEFINE q == job.todo
           u == Tail(q)
           r == t \o u
<1>1. q \in Seq(Calls) /\ q # <<>>
  BY DEF JobShape
<1>2. /\ u \in Seq(Calls) /\ Len(q) \in Nat /\ Len(u) = Len(q) - 1 /\ DOMAIN u = 1 .. Len(u)
      /\ DOMAIN q = 1 .. Len(q) /\ \A k \in 1 .. Len(u) : u[k] = q[k + 1]
  BY <1>1
<1>3. Head1 = q[1]
  BY <1>1 DEF Head1
<1>4. job'.todo = r
  BY DEF Then, JobShape
<1> HIDE DEF q, u
<1>5. /\ r \in Seq(Calls) /\ Len(r) = Len(t) + Len(u) /\ DOMAIN r = 1 .. Len(r)
      /\ \A k \in 1 .. Len(t) : r[k] = t[k]
      /\ \A k \in 1 .. Len(u) : r[Len(t) + k] = u[k]
  <2>1. u \in Seq(Calls)
    BY <1>2
  <2>2. /\ r \in Seq(Calls) /\ Len(r) = Len(t) + Len(u)
        /\ \A k \in 1 .. Len(t) : r[k] = t[k]
        /\ \A k \in 1 .. Len(u) : r[Len(t) + k] = u[k]
    BY <2>1, Joined
  <2> HIDE DEF r
  <2>3. DOMAIN r = 1 .. Len(r)
    BY <2>2
  <2> QED
    BY <2>2, <2>3
<1>6. Len(t) \in Nat /\ DOMAIN t = 1 .. Len(t) /\ Len(u) \in Nat
  BY <1>2
<1> HIDE DEF r
<1>7. ASSUME NEW i \in DOMAIN r
      PROVE  (\E k \in DOMAIN t : r[i] = t[k]) \/ (\E k \in DOMAIN q : r[i] = q[k])
  <2>1. i \in Nat /\ i >= 1 /\ i <= Len(t) + Len(u)
    BY <1>5, <1>6
  <2>2. CASE i <= Len(t)
    BY <1>5, <1>6, <2>1, <2>2
  <2>3. CASE i > Len(t)
    <3>1. i - Len(t) \in 1 .. Len(u) /\ i = Len(t) + (i - Len(t))
      BY <1>6, <2>1, <2>3
    <3>2. r[i] = u[i - Len(t)]
      BY <1>5, <3>1
    <3>3. u[i - Len(t)] = q[(i - Len(t)) + 1] /\ (i - Len(t)) + 1 \in DOMAIN q
      BY <1>2, <1>6, <3>1
    <3> QED
      BY <3>2, <3>3
  <2> QED
    BY <1>6, <2>1, <2>2, <2>3
<1>8. ASSUME NEW k \in DOMAIN q
      PROVE  k = 1 \/ \E i \in DOMAIN r : r[i] = q[k]
  <2>1. k \in Nat /\ k >= 1 /\ k <= Len(q)
    BY <1>2
  <2>2. CASE k # 1
    <3>1. k - 1 \in 1 .. Len(u) /\ (k - 1) + 1 = k
      BY <1>2, <2>1, <2>2
    <3>2. u[k - 1] = q[k] /\ r[Len(t) + (k - 1)] = u[k - 1]
      BY <1>2, <1>5, <3>1
    <3>3. Len(t) + (k - 1) \in DOMAIN r
      BY <1>5, <1>6, <3>1
    <3> QED
      BY <3>2, <3>3
  <2> QED
    BY <2>2
<1>9. ASSUME NEW k \in DOMAIN t
      PROVE  \E i \in DOMAIN r : r[i] = t[k]
  BY <1>5, <1>6
<1> QED
  BY <1>3, <1>4, <1>7, <1>8, <1>9 DEF q

\* A call that keeps the sweeping keeps the invariant.
LEMMA SweepGoesOn ==
    ASSUME TypeInv, SweepInv, job.status = "running", job.todo # <<>>, before' = before,
           NEW t \in Seq(Calls), Then(t),
           Applies => (\A k \in DOMAIN t : ApplyCall(t[k], job.add)) /\ \A h \in Swept : KeepsSweeping(t, h)
    PROVE  SweepInv'
<1>1. JobShape(job)
  BY DEF TypeInv
<1>2. /\ job'.verb = job.verb /\ job'.add = job.add /\ job'.remove = job.remove
      /\ job'.clean = job.clean /\ job'.status = job.status
  BY <1>1 DEF Then, JobShape
<1>3. Swept' = Swept /\ (Applies' <=> Applies)
  BY <1>2 DEF Swept, Applies
<1> SUFFICES ASSUME Applies
             PROVE  ApplyCalls' /\ \A h \in Swept : Sweeping(h)'
  BY <1>3 DEF SweepInv
<1>4. ASSUME NEW i \in DOMAIN job'.todo
      PROVE  ApplyCall(job'.todo[i], job'.add)
  <2>1. ApplyCall(job'.todo[i], job.add)
    BY <1>1, TodoNext DEF SweepInv, ApplyCalls
  <2> QED
    BY <1>2, <2>1
<1>5. ASSUME NEW h \in Swept
      PROVE  Sweeping(h)'
  <2>1. KeepsSweeping(t, h) /\ Sweeping(h)
    BY DEF SweepInv
  <2>2. CASE cfg'.routes \in Seq(NotFor(h))
    BY <2>1, <2>2 DEF Sweeping, KeepsSweeping
  <2>3. CASE cfg'.routes \notin Seq(NotFor(h))
    <3>1. PICK k \in DOMAIN job.todo : job.todo[k].kind \in {"delete", "sweep"} /\ job.todo[k].host = h
      BY <2>1, <2>3 DEF Sweeping, KeepsSweeping, Pending
    <3>2. CASE k = 1
      <4>1. Head1.kind \in {"delete", "sweep"} /\ Head1.host = h
        BY <1>1, <3>1, <3>2, TodoNext
      <4>2. PICK m \in DOMAIN t : t[m].kind \in {"delete", "sweep"} /\ t[m].host = h
        BY <2>1, <2>3, <4>1 DEF KeepsSweeping, Removes
      <4>3. PICK i \in DOMAIN job'.todo : job'.todo[i] = t[m]
        BY <1>1, TodoNext
      <4> QED
        BY <2>1, <4>2, <4>3 DEF Sweeping, KeepsSweeping, Pending
    <3>3. CASE k # 1
      <4>1. PICK i \in DOMAIN job'.todo : job'.todo[i] = job.todo[k]
        BY <1>1, <3>3, TodoNext
      <4> QED
        BY <2>1, <3>1, <4>1 DEF Sweeping, KeepsSweeping, Pending
    <3> QED
      BY <3>2, <3>3
  <2> QED
    BY <2>2, <2>3
<1> QED
  BY <1>4, <1>5 DEF ApplyCalls

\* A failed operation is swept of nothing.
LEMMA FailSwept ==
    ASSUME JobShape(job), Fail
    PROVE  SweepInv'
<1> DEFINE i == [job EXCEPT !.status = "error"]
<1>1. i = [verb |-> job.verb, add |-> job.add, remove |-> job.remove, gate |-> job.gate, loc |-> job.loc,
           todo |-> job.todo, status |-> "error", clean |-> job.clean]
  BY DEF JobShape
<1>2. job' = [i EXCEPT !.todo = <<>>]
  BY DEF Fail, i
<1> HIDE DEF i
<1>3. job'.status = "error"
  BY <1>1, <1>2
<1> QED
  BY <1>3 DEF SweepInv, Applies

\* The call at the head is one of an apply.
LEMMA HeadAllowed ==
    ASSUME TypeInv, SweepInv, Applies, job.todo # <<>>
    PROVE  ApplyCall(Head1, job.add)
<1>1. job.todo \in Seq(Calls) /\ 1 \in DOMAIN job.todo /\ Head1 = job.todo[1]
  BY DEF TypeInv, JobShape, Head1
<1> QED
  BY <1>1 DEF SweepInv, ApplyCalls

\* A call that leaves the routes alone, and is no removal or goes on with it.
LEMMA SameRoutesSwept ==
    ASSUME TypeInv, SweepInv, Applies, cfg'.routes = cfg.routes, NEW t, NEW h \in Swept,
           Head1.kind \in {"delete", "sweep"} /\ Head1.host = h =>
               cfg.routes \in Seq(NotFor(h)) \/ Removes(t, h)
    PROVE  KeepsSweeping(t, h)
<1>1. Sweeping(h)
  BY DEF SweepInv
<1> QED
  BY <1>1 DEF Sweeping, KeepsSweeping

\* httpRouteInsertPath.
LEMMA LocateInsertSwept ==
    ASSUME TypeInv, SweepInv, LocateInsert
    PROVE  SweepInv'
<1>1. /\ JobShape(job) /\ job.status = "running" /\ job.todo # <<>> /\ Head1 \in Calls
      /\ Head1.kind = "insert" /\ Routes \in Seq(Node)
  BY DoingIs DEF LocateInsert
<1> DEFINE p == httpRouteInsertPath(Routes, Head1.host)
           e == InsertedRoute(Head1.host, job.gate)
           t == <<At("put", p, e)>>
<1>2. Head1.host \in Hosts
  BY <1>1, CallIs
<1>3. e \in SubNode
  BY <1>2, InsertedIs
<1>4. p # <<>> => p \in Path
  BY <1>1, InsertPathIs
<1>5. cfg' = cfg /\ before' = before /\ (Fail \/ (p # <<>> /\ Then(t)))
  BY DEF LocateInsert, Keep
<1>6. CASE p # <<>> /\ Then(t)
  <2> HIDE DEF p
  <2>1. At("put", p, e) \in Calls
    <3> HIDE DEF e
    <3> QED
      BY <1>3, <1>4, <1>6 DEF At, Calls
  <2>2. t \in Seq(Calls) /\ \A k \in DOMAIN t : t[k] = At("put", p, e)
    BY <2>1
  <2> HIDE DEF t
  <2>3. ASSUME Applies
        PROVE  ApplyCall(At("put", p, e), job.add)
    <3>1. ApplyCall(Head1, job.add)
      BY <1>1, <2>3, HeadAllowed
    <3>2. Head1.host \in job.add
      BY <1>1, <3>1 DEF ApplyCall
    <3> QED
      BY <3>2 DEF ApplyCall, At
  <2>4. Applies => \A h \in Swept : KeepsSweeping(t, h)
    BY <1>1, <1>5, SameRoutesSwept
  <2> HIDE DEF e
  <2> QED
    BY <1>1, <1>5, <1>6, <2>2, <2>3, <2>4, SweepGoesOn
<1> QED
  BY <1>1, <1>5, <1>6, FailSwept

\* The PUT of a route.
LEMMA InsertRouteSwept ==
    ASSUME TypeInv, SweepInv, insertRoute
    PROVE  SweepInv'
<1>1. /\ JobShape(job) /\ job.status = "running" /\ job.todo # <<>> /\ Head1 \in Calls
      /\ Head1.kind = "put" /\ Routes \in Seq(Node) /\ Routes = cfg.routes /\ ConfigType(cfg)
  BY DoingIs DEF insertRoute
<1>2. Head1.path \in Path /\ CallNode(Head1.path, Head1.node)
  BY <1>1, CallIs, SubNodeIs DEF CallNode
<1> DEFINE s == handlePutRoute(Routes, Head1.path, Head1.node)
<1>3. CASE PutOK(cfg, Head1.path, Head1.node)
  <2>1. cfg' = WithRoutes(cfg, s) /\ Then(<<>>) /\ before' = before
    BY <1>3 DEF insertRoute, Keep
  <2>2. Len(Head1.path) = 2 => Head1.path[1] \in DOMAIN Routes /\ HasSub(Routes[Head1.path[1]])
    BY <1>1, <1>2, <1>3, PathIs DEF PutOK
  <2>3. s \in Seq(Node)
    BY <1>1, <1>2, <2>2, PutType
  <2>4. cfg'.routes = s
    <3> HIDE DEF s
    <3> QED
      BY <1>1, <2>1, <2>3, WithRoutesType
  <2>5. ASSUME Applies, NEW h \in Swept
        PROVE  KeepsSweeping(<<>>, h)
    <3>1. ApplyCall(Head1, job.add)
      BY <1>1, <2>5, HeadAllowed
    <3>2. \E o \in job.add : \E g : Head1.node = InsertedRoute(o, g)
      BY <1>1, <3>1 DEF ApplyCall
    <3>3. PICK o \in job.add : \E g : Head1.node = InsertedRoute(o, g)
      BY <3>2
    <3>4. PICK g : Head1.node = InsertedRoute(o, g)
      BY <3>3
    <3>5. o \in Hosts /\ o # h
      BY <1>1 DEF JobShape, Swept
    <3>6. Sweeping(h)
      BY <2>5 DEF SweepInv
    <3>7. /\ Routes \in Seq(Unmarked(h)) => s \in Seq(Unmarked(h))
          /\ Routes \in Seq(NotFor(h)) => s \in Seq(NotFor(h))
      BY <1>1, <1>2, <2>2, <3>4, <3>5, PutOther
    <3> HIDE DEF s
    <3> QED
      BY <1>1, <2>4, <3>6, <3>7 DEF Sweeping, KeepsSweeping
  <2>6. <<>> \in Seq(Calls) /\ DOMAIN <<>> = {}
    OBVIOUS
  <2> HIDE DEF s
  <2> QED
    BY <1>1, <2>1, <2>5, <2>6, SweepGoesOn
<1>4. CASE ~ PutOK(cfg, Head1.path, Head1.node)
  BY <1>1, <1>4, FailSwept DEF insertRoute
<1> QED
  BY <1>3, <1>4

\* The delete by @id.
LEMMA DeleteRouteSwept ==
    ASSUME TypeInv, SweepInv, deleteRoute
    PROVE  SweepInv'
<1>1. /\ JobShape(job) /\ job.status = "running" /\ job.todo # <<>> /\ Head1 \in Calls
      /\ Head1.kind = "delete" /\ Routes \in Seq(Node) /\ Routes = cfg.routes /\ ConfigType(cfg)
  BY DoingIs DEF deleteRoute
<1> DEFINE o == Head1.host
           own == WithId(Routes, routeID(o))
           s == deleteByPath(Routes, FirstOf(own))
           calls == <<SweepCall(o, 0)>>
<1>2. o \in Hosts /\ before' = before
  BY <1>1, CallIs DEF deleteRoute, Keep
<1>3. <<>> \in Seq(Calls) /\ DOMAIN <<>> = {}
  OBVIOUS
<1>4. CASE own # {}
  <2>1. cfg' = WithoutL4(WithRoutes(cfg, s), o) /\ Then(<<>>)
    BY <1>4 DEF deleteRoute, deleteByID
  <2>2. FirstOf(own) \in Paths(cfg.routes)
    BY <1>1, <1>4, WithIdIs
  <2>3. ConfigType(WithRoutes(cfg, s)) /\ WithRoutes(cfg, s).routes = s
    BY <2>2, DeletedType
  <2>4. cfg'.routes = s
    <3> HIDE DEF s, o
    <3> QED
      BY <2>1, <2>3, WithoutL4Type
  <2>5. ASSUME Applies, NEW h \in Swept
        PROVE  KeepsSweeping(<<>>, h)
    <3>1. Sweeping(h)
      BY <2>5 DEF SweepInv
    <3>2. o # h
      BY <1>1, <1>4, <3>1, UnmarkedIs DEF Sweeping
    <3>3. /\ Routes \in Seq(Unmarked(h)) => s \in Seq(Unmarked(h))
          /\ Routes \in Seq(NotFor(h)) => s \in Seq(NotFor(h))
      BY <1>1, <2>2, DeleteOther
    <3> HIDE DEF s
    <3> QED
      BY <1>1, <2>4, <3>1, <3>2, <3>3 DEF Sweeping, KeepsSweeping
  <2> HIDE DEF s, own, o
  <2> QED
    BY <1>1, <1>2, <1>3, <2>1, <2>5, SweepGoesOn
<1>5. CASE own = {} /\ Durable
  <2>1. cfg' = cfg /\ Then(calls)
    BY <1>5 DEF deleteRoute, deleteByID, calls
  <2>2. SweepCall(o, 0) \in Calls /\ SweepCall(o, 0).kind = "sweep" /\ SweepCall(o, 0).host = o
    BY <1>2 DEF SweepCall, Calls
  <2>3. calls \in Seq(Calls) /\ 1 \in DOMAIN calls /\ \A k \in DOMAIN calls : calls[k] = SweepCall(o, 0)
    BY <2>2
  <2> HIDE DEF calls
  <2>4. \A k \in DOMAIN calls : ApplyCall(calls[k], job.add)
    BY <2>2, <2>3 DEF ApplyCall
  <2>5. Removes(calls, o)
    BY <2>2, <2>3 DEF Removes
  <2>6. Applies => \A h \in Swept : KeepsSweeping(calls, h)
    BY <2>1, <2>5, SameRoutesSwept
  <2> HIDE DEF o, own
  <2> QED
    BY <1>1, <1>2, <2>1, <2>3, <2>4, <2>6, SweepGoesOn
<1>6. CASE own = {} /\ ~ Durable
  <2>1. Then(<<>>) /\ ~ Applies
    BY <1>6 DEF deleteRoute, deleteByID, Applies
  <2> QED
    BY <1>1, <1>2, <1>3, <2>1, SweepGoesOn
<1> QED
  BY <1>4, <1>5, <1>6

\* The sweep is over when no route is for the host, flat or nested.
LEMMA SweepSwept ==
    ASSUME TypeInv, SweepInv, Sweep
    PROVE  SweepInv'
<1>1. /\ JobShape(job) /\ job.status = "running" /\ job.todo # <<>> /\ Head1 \in Calls
      /\ Head1.kind = "sweep" /\ Routes \in Seq(Node) /\ Routes = cfg.routes /\ ConfigType(cfg)
  BY DoingIs DEF Sweep
<1> DEFINE o == Head1.host
           p == findHostRoutePath(Routes, o)
           d == [kind |-> "delpath", path |-> p]
           again == SweepCall(o, Head1.n + 1)
           calls == <<d, again>>
<1>2. o \in Hosts /\ Head1.n \in Nat /\ before' = before
  BY <1>1, CallIs DEF Sweep, Keep
<1>3. p # <<>> => p \in Path
  BY <1>1, FoundIs, PathsFinite
<1>4. p = <<>> => cfg.routes \in Seq(NotFor(o))
  BY <1>1, FoundIs, NotForIs
<1>5. \/ cfg' = cfg /\ Fail
      \/ p = <<>> /\ cfg' = WithoutL4(cfg, o) /\ Then(<<>>)
      \/ p # <<>> /\ cfg' = cfg /\ Then(calls)
  BY DEF Sweep
<1>6. <<>> \in Seq(Calls) /\ DOMAIN <<>> = {}
  OBVIOUS
<1> HIDE DEF p
<1>7. CASE p = <<>> /\ cfg' = WithoutL4(cfg, o) /\ Then(<<>>)
  <2>1. cfg'.routes = cfg.routes
    <3> HIDE DEF o
    <3> QED
      BY <1>1, <1>7, WithoutL4Type
  <2>2. Applies => \A h \in Swept : KeepsSweeping(<<>>, h)
    BY <1>4, <1>7, <2>1, SameRoutesSwept
  <2> QED
    BY <1>1, <1>2, <1>6, <1>7, <2>2, SweepGoesOn
<1>8. CASE p # <<>> /\ cfg' = cfg /\ Then(calls)
  <2>1. d \in Calls /\ d.kind = "delpath"
    BY <1>3, <1>8 DEF Calls
  <2>2. again \in Calls /\ again.kind = "sweep" /\ again.host = o
    BY <1>2 DEF Calls, SweepCall
  <2> HIDE DEF d, again
  <2>3. /\ calls \in Seq(Calls) /\ 2 \in DOMAIN calls /\ calls[2] = again
        /\ \A k \in DOMAIN calls : calls[k] = d \/ calls[k] = again
    BY <2>1, <2>2
  <2> HIDE DEF calls
  <2>4. \A k \in DOMAIN calls : ApplyCall(calls[k], job.add)
    BY <2>1, <2>2, <2>3 DEF ApplyCall
  <2>5. Removes(calls, o)
    BY <2>2, <2>3 DEF Removes
  <2>6. Applies => \A h \in Swept : KeepsSweeping(calls, h)
    BY <1>8, <2>5, SameRoutesSwept
  <2> QED
    BY <1>1, <1>2, <1>8, <2>3, <2>4, <2>6, SweepGoesOn
<1> QED
  BY <1>1, <1>5, <1>7, <1>8, FailSwept

\* The delete of what the sweep has found.
LEMMA DeletePathSwept ==
    ASSUME TypeInv, SweepInv, handleDeletePath
    PROVE  SweepInv'
<1>1. /\ JobShape(job) /\ job.status = "running" /\ job.todo # <<>> /\ Head1 \in Calls
      /\ Head1.kind = "delpath" /\ Routes \in Seq(Node) /\ Routes = cfg.routes /\ ConfigType(cfg)
  BY DoingIs DEF handleDeletePath
<1>2. Then(<<>>) /\ before' = before /\ <<>> \in Seq(Calls) /\ DOMAIN <<>> = {}
  BY DEF handleDeletePath, Keep
<1> DEFINE s == deleteByPath(Routes, Head1.path)
<1>3. CASE ValidPath(Routes, Head1.path)
  <2>1. Head1.path \in Paths(Routes)
    BY <1>1, <1>3, CallIs, ValidPaths
  <2>2. cfg' = WithRoutes(cfg, s) /\ WithRoutes(cfg, s).routes = s
    BY <1>1, <1>3, <2>1, DeletedType DEF handleDeletePath
  <2>3. ASSUME Applies, NEW h \in Swept
        PROVE  KeepsSweeping(<<>>, h)
    <3>1. Sweeping(h)
      BY <2>3 DEF SweepInv
    <3>2. /\ Routes \in Seq(Unmarked(h)) => s \in Seq(Unmarked(h))
          /\ Routes \in Seq(NotFor(h)) => s \in Seq(NotFor(h))
      BY <1>1, <2>1, DeleteOther
    <3> HIDE DEF s
    <3> QED
      BY <1>1, <2>2, <3>1, <3>2 DEF Sweeping, KeepsSweeping
  <2> HIDE DEF s
  <2> QED
    BY <1>1, <1>2, <2>3, SweepGoesOn
<1>4. CASE ~ ValidPath(Routes, Head1.path)
  <2>1. cfg' = cfg
    BY <1>4 DEF handleDeletePath
  <2>2. Applies => \A h \in Swept : KeepsSweeping(<<>>, h)
    BY <1>1, <2>1, SameRoutesSwept
  <2> QED
    BY <1>1, <1>2, <2>2, SweepGoesOn
<1> QED
  BY <1>3, <1>4

\* No other call is one of an apply.
LEMMA OtherCallSwept ==
    ASSUME TypeInv, SweepInv, insertLayer4Route \/ handlePatchRoute \/ load
    PROVE  SweepInv'
<1>1. JobShape(job) /\ job.status = "running" /\ job.todo # <<>> /\ Head1.kind \in {"l4", "patch", "load"}
  BY DoingIs DEF insertLayer4Route, handlePatchRoute, load
<1>2. ~ Applies
  BY <1>1, HeadAllowed DEF ApplyCall
<1>3. before' = before /\ (Fail \/ Then(<<>>)) /\ <<>> \in Seq(Calls)
  BY DEF insertLayer4Route, handlePatchRoute, load, Keep
<1> QED
  BY <1>1, <1>2, <1>3, FailSwept, SweepGoesOn

\* The end of an operation, with nothing left to call.
LEMMA FinishSwept ==
    ASSUME TypeInv, SweepInv, Finish
    PROVE  SweepInv'
<1>1. JobShape(job) /\ job.status = "running" /\ job.todo = <<>> /\ cfg' = cfg /\ before' = before
  BY DEF TypeInv, Finish, Keep
<1>2. job' = [job EXCEPT !.status = "done"] \/ job' = [job EXCEPT !.status = "error"]
  BY Zenon DEF Finish
<1>3. /\ job'.verb = job.verb /\ job'.add = job.add /\ job'.remove = job.remove
      /\ job'.clean = job.clean /\ job'.todo = job.todo
  BY <1>1, <1>2 DEF JobShape
<1>4. Applies' => Applies
  BY <1>1, <1>3 DEF Applies
<1>5. Swept' = Swept /\ (ApplyCalls => ApplyCalls')
  BY <1>1, <1>3 DEF Swept, ApplyCalls
<1>6. \A h : Sweeping(h) => Sweeping(h)'
  BY <1>1, <1>3 DEF Sweeping, Pending
<1> QED
  BY <1>4, <1>5, <1>6 DEF SweepInv

\* Another client's write, and a failure, leave nothing to say.
LEMMA TroubleSwept ==
    ASSUME TypeInv, CallFails \/ LandsThenFails \/ OtherClient
    PROVE  SweepInv'
<1>1. JobShape(job)
  BY DEF TypeInv
<1>2. ASSUME OtherClient
      PROVE  SweepInv'
  <2>1. job'.clean = FALSE
    BY <1>1, <1>2 DEF OtherClient, JobShape
  <2> QED
    BY <2>1 DEF SweepInv, Applies
<1> QED
  BY <1>1, <1>2, FailSwept DEF CallFails, LandsThenFails

\* An apply begins with a delete of every host it removes.
LEMMA BeginSwept ==
    ASSUME TypeInv, Apply \/ ApplyLayer4 \/ Import \/ Ack \/ Unack \/ AckRoute \/ UnackRoute
    PROVE  SweepInv'
<1>1. CASE job'.verb \in OtherVerbs
  BY <1>1 DEF SweepInv, Applies, OtherVerbs
<1>2. ASSUME NEW add \in SUBSET Hosts, NEW remove \in SUBSET Hosts, Applying(add, remove)
      PROVE  SweepInv'
  <2>1. CASE job'.verb = "apply" /\ job'.status = "error"
    BY <2>1 DEF SweepInv, Applies
  <2>2. CASE job'.verb = "load"
    BY <2>2 DEF SweepInv, Applies
  <2>3. CASE \E g : job' = [Job("apply", add, remove, applyGranular(add, remove)) EXCEPT !.gate = g]
    <3> DEFINE q == applyGranular(add, remove)
    <3>1. job'.add = add /\ job'.remove = remove /\ job'.todo = q
      BY <2>3 DEF Job
    <3>2. /\ q \in Seq([kind : {"insert"}, host : add] \cup [kind : {"delete"}, host : remove])
          /\ \A h \in remove : \E i \in DOMAIN q : q[i].kind = "delete" /\ q[i].host = h
      BY GranularType
    <3> HIDE DEF q
    <3>3. ApplyCalls'
      <4>1. \A i \in DOMAIN q : q[i] \in [kind : {"insert"}, host : add] \cup [kind : {"delete"}, host : remove]
        BY <3>2, SeqWider
      <4>2. \A k \in [kind : {"insert"}, host : add] \cup [kind : {"delete"}, host : remove] : ApplyCall(k, add)
        BY DEF ApplyCall
      <4> QED
        BY <3>1, <4>1, <4>2 DEF ApplyCalls
    <3>4. before' = cfg /\ cfg' = cfg /\ cfg.routes \in Seq(Node)
      BY OperationBegins DEF Startable, Begin, TypeInv, ConfigType
    <3>5. ASSUME NEW h \in Swept'
          PROVE  Sweeping(h)'
      <4>1. h \in remove /\ WithId(cfg.routes, routeID(h)) = {}
        BY <3>1, <3>4 DEF Swept
      <4>2. cfg.routes \in Seq(Unmarked(h))
        BY <3>4, <4>1, UnmarkedIs
      <4>3. Pending(h)'
        BY <3>1, <3>2, <4>1 DEF Pending
      <4> QED
        BY <3>4, <4>2, <4>3 DEF Sweeping
    <3> QED
      BY <3>3, <3>5 DEF SweepInv
  <2> QED
    BY <1>2, <2>1, <2>2, <2>3 DEF Applying
<1> QED
  BY <1>1, <1>2, OperationBegins

\* The sweep, along every step.
LEMMA StepSwept ==
    ASSUME TypeInv, SweepInv, [Next]_vars
    PROVE  SweepInv'
<1>1. CASE Step
  BY <1>1, LocateInsertSwept, InsertRouteSwept, DeleteRouteSwept, SweepSwept, DeletePathSwept,
     OtherCallSwept, FinishSwept DEF Step
<1>2. CASE UNCHANGED vars
  BY <1>2 DEF vars, SweepInv, Applies, Swept, ApplyCalls, Sweeping, Pending
<1> QED
  BY <1>1, <1>2, BeginSwept, TroubleSwept DEF Next

\* The inductive invariant behind the next theorem: while an apply of a durable
\* edge goes on, a host whose routes had no @id of crenel either has no route any
\* more or its removal is still among the calls to be made (deleteRoute).
THEOREM SweepInvariant == Spec => [](TypeInv /\ SweepInv)
<1>1. Init => SweepInv
  BY DEF Init, Idle, Job, SweepInv, Applies
<1> QED
  BY <1>1, InitType, StepType, StepSwept, PTL DEF Spec

\* deleteRoute's sweep: an unexpose that returned has left no route for its host
\* on a durable edge, flat or nested in its zone's subroute, however many there
\* were and whoever had written them, when none had crenel's @id.
THEOREM SweptClear == Spec => []SweepClears
<1>1. TypeInv /\ SweepInv => SweepClears
  <2> SUFFICES ASSUME TypeInv, SweepInv, Ended, job.verb = "apply", job.clean, Durable,
                      NEW h \in job.remove \ job.add, WithId(before.routes, routeID(h)) = {}
               PROVE  FlatFor(cfg.routes, h) \cup NestedFor(cfg.routes, h) = {}
    BY DEF SweepClears
  <2>1. job.todo = <<>> /\ cfg.routes \in Seq(Node)
    BY DEF TypeInv, JobShape, ConfigType, Ended
  <2>2. Sweeping(h)
    BY DEF SweepInv, Applies, Swept, Ended
  <2>3. cfg.routes \in Seq(NotFor(h))
    BY <2>1, <2>2 DEF Sweeping, Pending
  <2> QED
    BY <2>1, <2>3, NotForIs
<1> QED
  BY <1>1, SweepInvariant, PTL

-----------------------------------------------------------------------------

(***************************************************************************)
(* What a host is answered, when routes of other hosts come and go.        *)
(***************************************************************************)
\* Two routes that differ in their @id and in what is below them at most.
SameNode(m, n) ==
    /\ m.match = n.match /\ m.extra = n.extra /\ m.handle = n.handle
    /\ m.auth = n.auth /\ m.dial = n.dial /\ m.tls = n.tls

\* What a candidate answers with.
Seen(s, c) == <<Terminal(s, c).handle \ {"sub"}, Terminal(s, c).dial, AuthAt(s, c), Terminal(s, c).tls>>

\* f takes the candidates of t for g to those of s, in their order.
Corresponds(s, t, g, f) ==
    /\ \A c \in Candidates(t, g) :
          /\ f[c] \in Candidates(s, g)
          /\ SameNode(t[c[1]], s[f[c][1]]) /\ SameNode(Terminal(t, c), Terminal(s, f[c]))
    /\ \A d \in Candidates(s, g) : \E c \in Candidates(t, g) : d = f[c]
    /\ \A c, d \in Candidates(t, g) : Precedes(c, d) <=> Precedes(f[c], f[d])

\* Two trees whose candidates for g correspond answer g alike.
LEMMA SameAnswers ==
    ASSUME NEW s, NEW t, NEW g, NEW f, Corresponds(s, t, g, f)
    PROVE  /\ \A c \in Candidates(t, g) : c \in Answers(t, g) <=> f[c] \in Answers(s, g)
           /\ Behaviour(t, g) = Behaviour(s, g)
<1>0. /\ \A c \in Candidates(t, g) :
            /\ f[c] \in Candidates(s, g)
            /\ SameNode(t[c[1]], s[f[c][1]]) /\ SameNode(Terminal(t, c), Terminal(s, f[c]))
      /\ \A d \in Candidates(s, g) : \E c \in Candidates(t, g) : d = f[c]
      /\ \A c, d \in Candidates(t, g) : Precedes(c, d) <=> Precedes(f[c], f[d])
  BY DEF Corresponds
<1>1. ASSUME NEW c \in Candidates(t, g)
      PROVE  (Always(t, c) <=> Always(s, f[c])) /\ Seen(t, c) = Seen(s, f[c])
  BY <1>0 DEF SameNode, Always, Seen, AuthAt, Inherited
<1>2. ASSUME NEW c \in Candidates(t, g)
      PROVE  c \in Answers(t, g) <=> f[c] \in Answers(s, g)
  <2>1. c \in Answers(t, g) <=> \A d \in Candidates(t, g) : Always(t, d) => ~ Precedes(d, c)
    BY DEF Answers
  <2>2. f[c] \in Answers(s, g) <=> \A d \in Candidates(s, g) : Always(s, d) => ~ Precedes(d, f[c])
    BY <1>0 DEF Answers
  <2>3. ASSUME \A d \in Candidates(t, g) : Always(t, d) => ~ Precedes(d, c),
               NEW d \in Candidates(s, g), Always(s, d)
        PROVE  ~ Precedes(d, f[c])
    <3>1. PICK e \in Candidates(t, g) : d = f[e]
      BY <1>0
    <3> QED
      BY <1>0, <1>1, <2>3, <3>1
  <2>4. ASSUME \A d \in Candidates(s, g) : Always(s, d) => ~ Precedes(d, f[c]),
               NEW d \in Candidates(t, g), Always(t, d)
        PROVE  ~ Precedes(d, c)
    BY <1>0, <1>1, <2>4
  <2> QED
    BY <2>1, <2>2, <2>3, <2>4
<1>3. Behaviour(t, g) = {Seen(t, c) : c \in Answers(t, g)} /\ Behaviour(s, g) = {Seen(s, c) : c \in Answers(s, g)}
  BY DEF Behaviour, Seen
<1>4. Answers(t, g) \subseteq Candidates(t, g) /\ Answers(s, g) \subseteq Candidates(s, g)
  BY DEF Answers
<1>5. ASSUME NEW x \in Behaviour(t, g)
      PROVE  x \in Behaviour(s, g)
  <2>1. PICK c \in Answers(t, g) : x = Seen(t, c)
    BY <1>3
  <2> QED
    BY <1>1, <1>2, <1>3, <1>4, <2>1
<1>6. ASSUME NEW x \in Behaviour(s, g)
      PROVE  x \in Behaviour(t, g)
  <2>1. PICK d \in Answers(s, g) : x = Seen(s, d)
    BY <1>3
  <2>2. PICK c \in Candidates(t, g) : d = f[c]
    BY <1>0, <1>4
  <2> QED
    BY <1>1, <1>2, <1>3, <2>1, <2>2
<1> QED
  BY <1>2, <1>5, <1>6

\* The candidates for g: routes of a subroute, or a route's own handlers.
LEMMA CandidatesAre ==
    ASSUME NEW s \in Seq(Node), NEW g, NEW i \in Nat \ {0}, NEW j \in Nat \ {0}
    PROVE  <<i, j>> \in Candidates(s, g) <=>
              /\ i \in DOMAIN s /\ MatchesHost(s[i], g)
              /\ \/ j \in DOMAIN s[i].subs /\ HasSub(s[i]) /\ MatchesHost(s[i].subs[j], g)
                 \/ j = Len(s[i].subs) + 1 /\ s[i].handle # {"sub"}
<1>1. \A k \in DOMAIN s : s[k].subs \in Seq(SubNode) /\ Len(s[k].subs) \in Nat
                          /\ DOMAIN s[k].subs = 1 .. Len(s[k].subs)
  BY NodeIs
<1>2. ASSUME <<i, j>> \in Candidates(s, g)
      PROVE  /\ i \in DOMAIN s /\ MatchesHost(s[i], g)
             /\ \/ j \in DOMAIN s[i].subs /\ HasSub(s[i]) /\ MatchesHost(s[i].subs[j], g)
                \/ j = Len(s[i].subs) + 1 /\ s[i].handle # {"sub"}
  <2> DEFINE c == <<i, j>>
  <2>1. c[1] = i /\ c[2] = j
    OBVIOUS
  <2>2. /\ i \in DOMAIN s /\ MatchesHost(s[i], g) /\ j \in 1 .. (Len(s[i].subs) + 1)
        /\ \/ j > Len(s[i].subs) /\ s[i].handle # {"sub"}
           \/ j \in DOMAIN s[i].subs /\ HasSub(s[i]) /\ MatchesHost(s[i].subs[j], g)
    BY <1>2, <2>1, CandidateIs
  <2> QED
    BY <1>1, <2>2
<1>3. ASSUME i \in DOMAIN s, MatchesHost(s[i], g), j \in DOMAIN s[i].subs, HasSub(s[i]), MatchesHost(s[i].subs[j], g)
      PROVE  <<i, j>> \in Candidates(s, g)
  <2>1. j \in 1 .. (Len(s[i].subs) + 1) /\ j <= Len(s[i].subs)
    BY <1>1, <1>3
  <2> QED
    BY <1>3, <2>1 DEF Candidates
<1>4. ASSUME i \in DOMAIN s, MatchesHost(s[i], g), j = Len(s[i].subs) + 1, s[i].handle # {"sub"}
      PROVE  <<i, j>> \in Candidates(s, g)
  <2>1. j \in 1 .. (Len(s[i].subs) + 1) /\ ~ (j <= Len(s[i].subs))
    BY <1>1, <1>4
  <2> QED
    BY <1>4, <2>1 DEF Candidates
<1> QED
  BY <1>2, <1>3, <1>4

\* A candidate is two indices, of which the first is that of a route.
LEMMA CandidateShape ==
    ASSUME NEW s \in Seq(Node), NEW g, NEW c \in Candidates(s, g)
    PROVE  /\ c[1] \in Nat \ {0} /\ c[2] \in Nat \ {0} /\ c = <<c[1], c[2]>> /\ Len(c) = 2
           /\ c \in Path /\ c[1] \in DOMAIN s /\ s[c[1]] \in Node
<1>1. /\ c[1] \in DOMAIN s /\ s[c[1]] \in Node
      /\ c[2] \in 1 .. (Len(s[c[1]].subs) + 1) /\ c = <<c[1], c[2]>>
  BY CandidateIs
<1>2. c[1] \in Nat \ {0} /\ c[2] \in Nat \ {0}
  BY <1>1, NodeIs
<1>3. c \in Path /\ Len(c) = 2
  BY <1>1, <1>2, PathsBuilt
<1> QED
  BY <1>1, <1>2, <1>3

\* What stands at a candidate.
LEMMA TerminalIs ==
    ASSUME NEW s \in Seq(Node), NEW i \in DOMAIN s, NEW j
    PROVE  /\ j \in DOMAIN s[i].subs => Terminal(s, <<i, j>>) = s[i].subs[j]
           /\ j = Len(s[i].subs) + 1 => Terminal(s, <<i, j>>) = s[i]
<1>1. s[i].subs \in Seq(SubNode) /\ Len(s[i].subs) \in Nat
  BY NodeIs
<1>2. <<i, j>>[1] = i /\ <<i, j>>[2] = j
  OBVIOUS
<1> QED
  BY <1>1, <1>2 DEF Terminal

\* The order of two candidates.
LEMMA CandidateOrder ==
    ASSUME NEW c, NEW d, Len(c) = 2, Len(d) = 2
    PROVE  Precedes(c, d) <=> c[1] < d[1] \/ (c[1] = d[1] /\ c[2] < d[2])
BY DEF Precedes

\* A route that is deleted at the top was nothing to g.
LEMMA DeleteTopSame ==
    ASSUME NEW s \in Seq(Node), NEW p \in Paths(s), Len(p) = 1, NEW g, ~ MatchesHost(NodeAt(s, p), g)
    PROVE  Behaviour(deleteByPath(s, p), g) = Behaviour(s, g)
<1> DEFINE i == p[1]
           t == RemoveAt(s, i)
           f == [c \in Candidates(t, g) |-> <<Up(i, c[1]), c[2]>>]
<1>1. i \in DOMAIN s /\ ~ MatchesHost(s[i], g)
  BY PathsAre DEF NodeAt
<1>2. deleteByPath(s, p) = t
  BY DEF deleteByPath
<1>3. t \in Seq(Node) /\ MovedUp(t, s, i)
  BY <1>1, RemovedUp
<1> HIDE DEF t, i
<1>4. /\ \A k \in DOMAIN t : /\ Up(i, k) \in DOMAIN s \ {i} /\ t[k] = s[Up(i, k)]
                             /\ k \in Nat \ {0} /\ Up(i, k) \in Nat \ {0}
      /\ \A l \in DOMAIN s \ {i} : \E k \in DOMAIN t : l = Up(i, k)
      /\ \A k, l \in DOMAIN t : k < l <=> Up(i, k) < Up(i, l)
  BY <1>1, <1>3, UpIs
<1>5. ASSUME NEW k \in DOMAIN t, NEW j \in Nat \ {0}
      PROVE  <<k, j>> \in Candidates(t, g) <=> <<Up(i, k), j>> \in Candidates(s, g)
  <2>1. t[k] = s[Up(i, k)] /\ k \in Nat \ {0} /\ Up(i, k) \in Nat \ {0} /\ Up(i, k) \in DOMAIN s
    BY <1>4
  <2>2. <<k, j>> \in Candidates(t, g) <=>
              /\ k \in DOMAIN t /\ MatchesHost(t[k], g)
              /\ \/ j \in DOMAIN t[k].subs /\ HasSub(t[k]) /\ MatchesHost(t[k].subs[j], g)
                 \/ j = Len(t[k].subs) + 1 /\ t[k].handle # {"sub"}
    BY <1>3, <2>1, CandidatesAre
  <2> DEFINE m == Up(i, k)
  <2>3. m \in Nat \ {0} /\ m \in DOMAIN s /\ t[k] = s[m]
    BY <2>1
  <2> HIDE DEF m
  <2>4. <<m, j>> \in Candidates(s, g) <=>
              /\ m \in DOMAIN s /\ MatchesHost(s[m], g)
              /\ \/ j \in DOMAIN s[m].subs /\ HasSub(s[m]) /\ MatchesHost(s[m].subs[j], g)
                 \/ j = Len(s[m].subs) + 1 /\ s[m].handle # {"sub"}
    BY <2>3, CandidatesAre
  <2> QED
    BY <2>2, <2>3, <2>4 DEF m
<1>6. ASSUME NEW c \in Candidates(t, g)
      PROVE  /\ f[c] \in Candidates(s, g) /\ f[c][1] = Up(i, c[1]) /\ f[c][2] = c[2] /\ Len(f[c]) = 2
             /\ t[c[1]] = s[f[c][1]] /\ Terminal(t, c) = Terminal(s, f[c])
  <2>1. c[1] \in Nat \ {0} /\ c[2] \in Nat \ {0} /\ c = <<c[1], c[2]>> /\ c[1] \in DOMAIN t
    BY <1>3, CandidateShape
  <2>2. f[c] = <<Up(i, c[1]), c[2]>> /\ f[c][1] = Up(i, c[1]) /\ f[c][2] = c[2] /\ Len(f[c]) = 2
    OBVIOUS
  <2>3. f[c] \in Candidates(s, g)
    BY <1>5, <2>1, <2>2
  <2>4. t[c[1]] = s[f[c][1]]
    BY <1>4, <2>1, <2>2
  <2>5. Terminal(t, c) = Terminal(s, f[c])
    BY <2>2, <2>4 DEF Terminal
  <2> QED
    BY <2>2, <2>3, <2>4, <2>5
<1>7. ASSUME NEW d \in Candidates(s, g)
      PROVE  \E c \in Candidates(t, g) : d = f[c]
  <2>1. d[1] \in DOMAIN s /\ d[2] \in Nat \ {0} /\ d = <<d[1], d[2]>> /\ MatchesHost(s[d[1]], g)
    BY CandidateShape, CandidateIs
  <2>2. PICK k \in DOMAIN t : d[1] = Up(i, k)
    BY <1>1, <1>4, <2>1
  <2>3. <<k, d[2]>> \in Candidates(t, g)
    BY <1>5, <2>1, <2>2
  <2>4. f[<<k, d[2]>>] = d
    BY <2>1, <2>2, <2>3
  <2> QED
    BY <2>3, <2>4
<1>8. ASSUME NEW c \in Candidates(t, g), NEW d \in Candidates(t, g)
      PROVE  Precedes(c, d) <=> Precedes(f[c], f[d])
  <2>1. /\ c[1] \in DOMAIN t /\ d[1] \in DOMAIN t /\ Len(c) = 2 /\ Len(d) = 2
        /\ c[1] \in Nat /\ d[1] \in Nat
    BY <1>3, CandidateShape
  <2>2. /\ f[c][1] = Up(i, c[1]) /\ f[c][2] = c[2] /\ Len(f[c]) = 2
        /\ f[d][1] = Up(i, d[1]) /\ f[d][2] = d[2] /\ Len(f[d]) = 2
    BY <1>6
  <2>3. (c[1] < d[1] <=> f[c][1] < f[d][1]) /\ (d[1] < c[1] <=> f[d][1] < f[c][1])
    BY <1>4, <2>1, <2>2
  <2>4. f[c][1] \in Nat /\ f[d][1] \in Nat
    BY <1>4, <2>1, <2>2
  <2>5. c[1] = d[1] <=> f[c][1] = f[d][1]
    BY <2>1, <2>3, <2>4
  <2> HIDE DEF f
  <2>6. Precedes(c, d) <=> c[1] < d[1] \/ (c[1] = d[1] /\ c[2] < d[2])
    BY <2>1, CandidateOrder
  <2>7. Precedes(f[c], f[d]) <=> f[c][1] < f[d][1] \/ (f[c][1] = f[d][1] /\ f[c][2] < f[d][2])
    BY <2>2, CandidateOrder
  <2> QED
    BY <2>2, <2>3, <2>5, <2>6, <2>7
<1> HIDE DEF f
<1>9. \A c \in Candidates(t, g) :
          /\ f[c] \in Candidates(s, g)
          /\ SameNode(t[c[1]], s[f[c][1]]) /\ SameNode(Terminal(t, c), Terminal(s, f[c]))
  BY <1>6 DEF SameNode
<1>10. Corresponds(s, t, g, f)
  BY <1>7, <1>8, <1>9 DEF Corresponds
<1> QED
  BY <1>2, <1>10, SameAnswers

\* Another route of a subroute is put in the place of the subroute's routes.
LEMMA SubsReplaced ==
    ASSUME NEW s \in Seq(Node), NEW i \in DOMAIN s, HasSub(s[i]), NEW u \in Seq(SubNode)
    PROVE  LET t == [s EXCEPT ![i].subs = u] IN
           /\ t \in Seq(Node) /\ DOMAIN t = DOMAIN s /\ t[i].subs = u /\ SameNode(t[i], s[i])
           /\ t[i].id = s[i].id /\ \A k \in DOMAIN s \ {i} : t[k] = s[k]
<1> DEFINE m == s[i]
           w == [m EXCEPT !.subs = u]
           t == [s EXCEPT ![i] = w]
<1>1. m \in Node /\ HasSub(m)
  OBVIOUS
<1> HIDE DEF m
<1>2. w \in Node /\ w.subs = u
  BY <1>1, NodeIs
<1>3. w.id = m.id /\ SameNode(w, m)
  BY <1>1 DEF Node, Route, SameNode
<1> HIDE DEF w
<1>4. t \in Seq(Node) /\ DOMAIN t = DOMAIN s /\ t[i] = w /\ \A k \in DOMAIN s \ {i} : t[k] = s[k]
  BY <1>2, ReplacedSeq
<1>5. [s EXCEPT ![i].subs = u] = t
  BY DEF t, w, m
<1> HIDE DEF t
<1> QED
  BY <1>2, <1>3, <1>4, <1>5 DEF m

\* Where a candidate was before route j of the subroute of i was deleted.
Below(i, j, c) == IF c[1] = i THEN <<i, Up(j, c[2])>> ELSE c

\* t is s without it.
WithoutBelow(s, t, i, j) ==
    /\ t \in Seq(Node) /\ DOMAIN t = DOMAIN s /\ SameNode(t[i], s[i])
    /\ \A k \in DOMAIN s \ {i} : t[k] = s[k]
    /\ MovedUp(t[i].subs, s[i].subs, j)

\* Below takes the candidates of t for g to those of s.
WasBelowOf(s, t, g, i, j) ==
    /\ \A c \in Candidates(t, g) :
          /\ Below(i, j, c) \in Candidates(s, g) /\ Below(i, j, c)[1] = c[1] /\ Len(Below(i, j, c)) = 2
          /\ Below(i, j, c)[2] = IF c[1] = i THEN Up(j, c[2]) ELSE c[2]
          /\ SameNode(Terminal(t, c), Terminal(s, Below(i, j, c)))
    /\ \A d \in Candidates(s, g) : \E c \in Candidates(t, g) : d = Below(i, j, c)

\* When it was nothing to g, the candidates for g were and are the same.
LEMMA BelowCandidates ==
    ASSUME NEW s \in Seq(Node), NEW t, NEW i \in DOMAIN s, HasSub(s[i]), NEW j \in DOMAIN s[i].subs,
           WithoutBelow(s, t, i, j), NEW g, ~ MatchesHost(s[i].subs[j], g)
    PROVE  WasBelowOf(s, t, g, i, j)
<1>0. /\ t \in Seq(Node) /\ DOMAIN t = DOMAIN s /\ SameNode(t[i], s[i])
      /\ \A k \in DOMAIN s \ {i} : t[k] = s[k]
      /\ MovedUp(t[i].subs, s[i].subs, j)
  BY DEF WithoutBelow
<1>1. /\ s[i].subs \in Seq(SubNode) /\ t[i].subs \in Seq(SubNode) /\ i \in Nat \ {0}
      /\ Len(s[i].subs) \in Nat /\ DOMAIN s[i].subs = 1 .. Len(s[i].subs) /\ j \in Nat \ {0}
      /\ j \in 1 .. Len(s[i].subs)
  BY <1>0, NodeIs
<1>2. /\ \A k \in DOMAIN t[i].subs : /\ Up(j, k) \in DOMAIN s[i].subs \ {j} /\ t[i].subs[k] = s[i].subs[Up(j, k)]
                                     /\ k \in Nat \ {0} /\ Up(j, k) \in Nat \ {0}
      /\ \A l \in DOMAIN s[i].subs \ {j} : \E k \in DOMAIN t[i].subs : l = Up(j, k)
  <2> DEFINE a == s[i].subs
             b == t[i].subs
  <2>1. a \in Seq(SubNode) /\ j \in DOMAIN a /\ MovedUp(b, a, j)
    BY <1>0, <1>1
  <2> HIDE DEF a, b
  <2>2. /\ \A k \in DOMAIN b : /\ Up(j, k) \in DOMAIN a \ {j} /\ b[k] = a[Up(j, k)]
                              /\ k \in Nat \ {0} /\ Up(j, k) \in Nat \ {0}
        /\ \A l \in DOMAIN a \ {j} : \E k \in DOMAIN b : l = Up(j, k)
    BY <2>1, UpIs
  <2> QED
    BY <2>2 DEF a, b
<1>3. Len(t[i].subs) + 1 = Len(s[i].subs) /\ Up(j, Len(t[i].subs) + 1) = Len(s[i].subs) + 1
  <2>1. DOMAIN t[i].subs = 1 .. Len(s[i].subs) - 1 /\ DOMAIN t[i].subs = 1 .. Len(t[i].subs)
        /\ Len(t[i].subs) \in Nat
    BY <1>0, <1>1 DEF MovedUp
  <2>2. Len(t[i].subs) = Len(s[i].subs) - 1
    <3> DEFINE m == Len(s[i].subs)
               n == Len(t[i].subs)
    <3>1. m \in Nat /\ n \in Nat /\ m >= 1 /\ 1 .. n = 1 .. m - 1
      BY <1>1, <2>1
    <3> HIDE DEF m, n
    <3>2. n = m - 1
      BY <3>1
    <3> QED
      BY <3>2 DEF m, n
  <2> QED
    BY <1>1, <2>1, <2>2 DEF Up
<1>4. /\ t[i].handle = s[i].handle /\ (HasSub(t[i]) <=> HasSub(s[i]))
      /\ (MatchesHost(t[i], g) <=> MatchesHost(s[i], g))
  BY <1>0 DEF SameNode, HasSub, MatchesHost, hasHost, routeHasExactHost, routeWildcardCovers, hostMatches
<1>5. ASSUME NEW c \in Candidates(t, g)
      PROVE  /\ Below(i, j, c) \in Candidates(s, g) /\ Below(i, j, c)[1] = c[1] /\ Len(Below(i, j, c)) = 2
             /\ Below(i, j, c)[2] = IF c[1] = i THEN Up(j, c[2]) ELSE c[2]
             /\ SameNode(Terminal(t, c), Terminal(s, Below(i, j, c)))
  <2>1. /\ c[1] \in Nat \ {0} /\ c[2] \in Nat \ {0} /\ c = <<c[1], c[2]>> /\ Len(c) = 2
        /\ c[1] \in DOMAIN t /\ c[1] \in DOMAIN s
    BY <1>0, CandidateShape
  <2>2. <<c[1], c[2]>> \in Candidates(t, g)
    BY <2>1
  <2> DEFINE x == c[1]
             y == c[2]
  <2>3. /\ MatchesHost(t[x], g)
        /\ \/ y \in DOMAIN t[x].subs /\ HasSub(t[x]) /\ MatchesHost(t[x].subs[y], g)
           \/ y = Len(t[x].subs) + 1 /\ t[x].handle # {"sub"}
    BY <1>0, <2>1, <2>2, CandidatesAre
  <2>4. CASE x # i
    <3>1. t[x] = s[x] /\ Below(i, j, c) = c
      BY <1>0, <2>1, <2>4 DEF Below
    <3>2. <<x, y>> \in Candidates(s, g)
      BY <1>0, <2>1, <2>3, <3>1, CandidatesAre
    <3>3. Terminal(t, c) = Terminal(s, c)
      BY <3>1 DEF Terminal
    <3> QED
      BY <2>1, <2>4, <3>1, <3>2, <3>3 DEF SameNode
  <2>5. CASE x = i
    <3>1. Below(i, j, c) = <<i, Up(j, y)>> /\ <<i, Up(j, y)>>[1] = i /\ <<i, Up(j, y)>>[2] = Up(j, y)
          /\ Len(<<i, Up(j, y)>>) = 2
      BY <2>5 DEF Below
    <3>2. CASE y \in DOMAIN t[i].subs /\ HasSub(t[i]) /\ MatchesHost(t[i].subs[y], g)
      <4>1. Up(j, y) \in DOMAIN s[i].subs /\ t[i].subs[y] = s[i].subs[Up(j, y)] /\ Up(j, y) \in Nat \ {0}
        BY <1>2, <3>2
      <4>2. <<i, Up(j, y)>> \in Candidates(s, g)
        <5> DEFINE z == Up(j, y)
        <5>1. z \in DOMAIN s[i].subs /\ HasSub(s[i]) /\ MatchesHost(s[i].subs[z], g) /\ z \in Nat \ {0}
              /\ MatchesHost(s[i], g)
          BY <1>4, <2>3, <2>5, <3>2, <4>1
        <5> HIDE DEF z
        <5>2. <<i, z>> \in Candidates(s, g)
          BY <1>1, <5>1, CandidatesAre
        <5> QED
          BY <5>2 DEF z
      <4>3. Terminal(s, <<i, Up(j, y)>>) = s[i].subs[Up(j, y)] /\ Terminal(t, <<i, y>>) = t[i].subs[y]
        BY <1>0, <3>2, <4>1, TerminalIs
      <4> QED
        BY <2>1, <2>5, <3>1, <4>1, <4>2, <4>3 DEF SameNode
    <3>3. CASE y = Len(t[i].subs) + 1 /\ t[i].handle # {"sub"}
      <4>1. Up(j, y) = Len(s[i].subs) + 1
        BY <1>3, <3>3
      <4>2. <<i, Len(s[i].subs) + 1>> \in Candidates(s, g)
        <5> DEFINE z == Len(s[i].subs) + 1
        <5>1. z = Len(s[i].subs) + 1 /\ s[i].handle # {"sub"} /\ z \in Nat \ {0} /\ MatchesHost(s[i], g)
          BY <1>1, <1>4, <2>3, <2>5, <3>3
        <5> HIDE DEF z
        <5>2. <<i, z>> \in Candidates(s, g)
          BY <1>1, <5>1, CandidatesAre
        <5> QED
          BY <5>2 DEF z
      <4>3. Terminal(s, <<i, Up(j, y)>>) = s[i] /\ Terminal(t, <<i, y>>) = t[i]
        BY <1>0, <3>3, <4>1, TerminalIs
      <4> QED
        BY <1>0, <2>1, <2>5, <3>1, <4>1, <4>2, <4>3
    <3> QED
      BY <2>3, <2>5, <3>2, <3>3
  <2> QED
    BY <2>4, <2>5
<1>6. ASSUME NEW d \in Candidates(s, g)
      PROVE  \E c \in Candidates(t, g) : d = Below(i, j, c)
  <2>1. /\ d[1] \in Nat \ {0} /\ d[2] \in Nat \ {0} /\ d = <<d[1], d[2]>> /\ d[1] \in DOMAIN s
    BY <1>0, CandidateShape
  <2> DEFINE x == d[1]
             y == d[2]
  <2>2. <<x, y>> \in Candidates(s, g)
    BY <2>1
  <2>3. /\ MatchesHost(s[x], g)
        /\ \/ y \in DOMAIN s[x].subs /\ HasSub(s[x]) /\ MatchesHost(s[x].subs[y], g)
           \/ y = Len(s[x].subs) + 1 /\ s[x].handle # {"sub"}
    BY <1>0, <2>1, <2>2, CandidatesAre
  <2>4. CASE x # i
    <3>1. t[x] = s[x] /\ Below(i, j, d) = d
      BY <1>0, <2>1, <2>4 DEF Below
    <3>2. <<x, y>> \in Candidates(t, g)
      BY <1>0, <2>1, <2>3, <3>1, CandidatesAre
    <3> QED
      BY <2>1, <3>1, <3>2
  <2>5. CASE x = i /\ y \in DOMAIN s[i].subs /\ HasSub(s[i]) /\ MatchesHost(s[i].subs[y], g)
    <3>1. PICK k \in DOMAIN t[i].subs : y = Up(j, k)
      BY <1>2, <2>5
    <3>2. k \in Nat \ {0} /\ HasSub(t[i]) /\ MatchesHost(t[i].subs[k], g) /\ MatchesHost(t[i], g)
      BY <1>2, <1>4, <2>3, <2>5, <3>1
    <3>3. <<i, k>> \in Candidates(t, g)
      BY <1>0, <1>1, <3>2, CandidatesAre
    <3>4. Below(i, j, <<i, k>>) = <<i, y>>
      BY <3>1 DEF Below
    <3> QED
      BY <2>1, <2>5, <3>3, <3>4
  <2>6. CASE x = i /\ y = Len(s[i].subs) + 1 /\ s[i].handle # {"sub"}
    <3> DEFINE k == Len(t[i].subs) + 1
    <3>1. /\ k = Len(t[i].subs) + 1 /\ k \in Nat \ {0} /\ Up(j, k) = y
          /\ t[i].handle # {"sub"} /\ MatchesHost(t[i], g)
      <4>1. k \in Nat \ {0}
        BY <1>1, <1>3
      <4>2. Up(j, k) = y
        BY <1>3, <2>6
      <4>3. t[i].handle # {"sub"} /\ MatchesHost(t[i], g)
        BY <1>4, <2>3, <2>6
      <4> QED
        BY <4>1, <4>2, <4>3
    <3> HIDE DEF k
    <3>2. <<i, k>> \in Candidates(t, g)
      BY <1>0, <1>1, <3>1, CandidatesAre
    <3>3. Below(i, j, <<i, k>>) = <<i, y>>
      BY <3>1 DEF Below
    <3> QED
      BY <2>1, <2>6, <3>2, <3>3
  <2> QED
    BY <2>3, <2>4, <2>5, <2>6
<1> QED
  BY <1>5, <1>6 DEF WasBelowOf

\* A route that is deleted below a subroute was nothing to g.
LEMMA DeleteBelowSame ==
    ASSUME NEW s \in Seq(Node), NEW p \in Paths(s), Len(p) = 2, NEW g, ~ MatchesHost(NodeAt(s, p), g)
    PROVE  Behaviour(deleteByPath(s, p), g) = Behaviour(s, g)
<1> DEFINE i == p[1]
           j == p[2]
           u == RemoveAt(s[i].subs, j)
           t == [s EXCEPT ![i].subs = u]
           f == [c \in Candidates(t, g) |-> Below(i, j, c)]
<1>1. /\ i \in DOMAIN s /\ s[i] \in Node /\ HasSub(s[i]) /\ s[i].subs \in Seq(SubNode)
      /\ j \in DOMAIN s[i].subs
  BY AboveIs
<1>2. ~ MatchesHost(s[i].subs[j], g)
  BY DEF NodeAt
<1>3. deleteByPath(s, p) = t
  BY DEF deleteByPath
<1> HIDE DEF i, j
<1>4. u \in Seq(SubNode) /\ MovedUp(u, s[i].subs, j)
  BY <1>1, RemovedUp
<1> HIDE DEF u
<1>5. /\ t \in Seq(Node) /\ DOMAIN t = DOMAIN s /\ t[i].subs = u /\ SameNode(t[i], s[i])
      /\ \A k \in DOMAIN s \ {i} : t[k] = s[k]
  BY <1>1, <1>4, SubsReplaced
<1> HIDE DEF t
<1>6. WasBelowOf(s, t, g, i, j)
  <2>1. WithoutBelow(s, t, i, j)
    BY <1>4, <1>5 DEF WithoutBelow
  <2> QED
    BY <1>1, <1>2, <2>1, BelowCandidates
<1>7. ASSUME NEW c \in Candidates(t, g)
      PROVE  /\ f[c] \in Candidates(s, g)
             /\ SameNode(t[c[1]], s[f[c][1]]) /\ SameNode(Terminal(t, c), Terminal(s, f[c]))
             /\ f[c][1] = c[1] /\ Len(f[c]) = 2 /\ f[c][2] = IF c[1] = i THEN Up(j, c[2]) ELSE c[2]
  <2>1. f[c] = Below(i, j, c)
    OBVIOUS
  <2>2. c[1] \in DOMAIN t
    BY <1>5, CandidateShape
  <2>3. SameNode(t[c[1]], s[c[1]])
    BY <1>5, <2>2 DEF SameNode
  <2> HIDE DEF f
  <2> QED
    BY <1>6, <2>1, <2>3 DEF WasBelowOf
<1>8. \A d \in Candidates(s, g) : \E c \in Candidates(t, g) : d = f[c]
  BY <1>6 DEF WasBelowOf
<1>9. ASSUME NEW c \in Candidates(t, g), NEW d \in Candidates(t, g)
      PROVE  Precedes(c, d) <=> Precedes(f[c], f[d])
  <2>1. /\ Len(c) = 2 /\ Len(d) = 2 /\ c[1] \in Nat /\ d[1] \in Nat /\ c[2] \in Nat /\ d[2] \in Nat
    BY <1>5, CandidateShape
  <2>2. Precedes(c, d) <=> c[1] < d[1] \/ (c[1] = d[1] /\ c[2] < d[2])
    BY <2>1, CandidateOrder
  <2>3. Precedes(f[c], f[d]) <=> f[c][1] < f[d][1] \/ (f[c][1] = f[d][1] /\ f[c][2] < f[d][2])
    <3>1. Len(f[c]) = 2 /\ Len(f[d]) = 2
      BY <1>7
    <3> HIDE DEF f
    <3> QED
      BY <3>1, CandidateOrder
  <2> HIDE DEF f
  <2>4. j \in Nat
    BY <1>1
  <2>5. c[2] < d[2] <=> Up(j, c[2]) < Up(j, d[2])
    BY <2>1, <2>4 DEF Up
  <2> QED
    BY <1>7, <2>1, <2>2, <2>3, <2>5
<1> HIDE DEF f
<1>10. Corresponds(s, t, g, f)
  BY <1>7, <1>8, <1>9 DEF Corresponds
<1> QED
  BY <1>3, <1>10, SameAnswers

\* A route that does not match g is deleted.
LEMMA DeleteSame ==
    ASSUME NEW s \in Seq(Node), NEW p \in Paths(s), NEW g, ~ MatchesHost(NodeAt(s, p), g)
    PROVE  Behaviour(deleteByPath(s, p), g) = Behaviour(s, g)
<1>1. Len(p) = 1 \/ Len(p) = 2
  BY PathsAre
<1> QED
  BY <1>1, DeleteTopSame, DeleteBelowSame

\* What was put first can be deleted again.
LEMMA PutUndone ==
    ASSUME NEW S, NEW s \in Seq(S), NEW e \in S
    PROVE  /\ insertAt(s, 1, e) \in Seq(S) /\ 1 \in DOMAIN insertAt(s, 1, e) /\ insertAt(s, 1, e)[1] = e
           /\ RemoveAt(insertAt(s, 1, e), 1) = s
<1> DEFINE t == insertAt(s, 1, e)
           u == RemoveAt(t, 1)
<1>1. 1 \in Nat \ {0} /\ Len(s) \in Nat
  OBVIOUS
<1>2. t \in Seq(S) /\ Len(t) = Len(s) + 1
  BY <1>1, InsertedSeq
<1>3. t[1] = e /\ \A k \in 1 .. Len(s) : t[k + 1] = s[k]
  BY <1>1, InsertedSeq
<1> HIDE DEF t
<1>4. 1 \in DOMAIN t
  BY <1>1, <1>2
<1>5. u \in Seq(S) /\ Len(u) = Len(t) - 1 /\ MovedUp(u, t, 1)
  BY <1>2, <1>4, RemovedUp
<1> HIDE DEF u
<1>6. Len(u) = Len(s)
  BY <1>1, <1>2, <1>5
<1>7. ASSUME NEW k \in 1 .. Len(s)
      PROVE  u[k] = s[k]
  <2>1. k \in DOMAIN u /\ ~ (k < 1)
    BY <1>1, <1>5, <1>6
  <2> QED
    BY <1>3, <1>5, <2>1 DEF MovedUp
<1>8. u = s
  BY <1>5, <1>6, <1>7, SameSeq
<1> QED
  BY <1>2, <1>3, <1>4, <1>8 DEF t, u

\* A route that does not match g is put first, at the top or in a subroute.
LEMMA PutSame ==
    ASSUME NEW s \in Seq(Node), NEW p \in Path, p[Len(p)] = 1, NEW n \in SubNode,
           Len(p) = 2 => p[1] \in DOMAIN s /\ HasSub(s[p[1]]),
           NEW g, ~ MatchesHost(n, g)
    PROVE  Behaviour(handlePutRoute(s, p, n), g) = Behaviour(s, g)
<1> DEFINE t == handlePutRoute(s, p, n)
<1>0. n \in Node
  BY SubNodeIs
<1>1. t \in Seq(Node)
  BY <1>0, PutType DEF CallNode
<1>2. CASE Len(p) = 1
  <2>1. p[1] = 1
    BY <1>2
  <2>2. t = insertAt(s, 1, n)
    BY <1>2, <2>1 DEF handlePutRoute
  <2>3. 1 \in DOMAIN t /\ t[1] = n
    BY <1>0, <2>2, PutUndone
  <2>4. RemoveAt(t, 1) = s
    BY <1>0, <2>2, PutUndone
  <2> HIDE DEF t
  <2>5. p \in Paths(t) /\ NodeAt(t, p) = n
    BY <1>1, <1>2, <2>1, <2>3, PathsAre DEF NodeAt
  <2>6. deleteByPath(t, p) = s
    BY <1>2, <2>1, <2>4 DEF deleteByPath
  <2> QED
    BY <1>1, <2>5, <2>6, DeleteSame DEF t
<1>3. CASE Len(p) = 2
  <2> DEFINE i == p[1]
             m == s[i]
             u == insertAt(m.subs, 1, n)
             w == [m EXCEPT !.subs = u]
  <2>1. p[2] = 1 /\ i \in DOMAIN s /\ HasSub(m) /\ m \in Node
    BY <1>3
  <2>2. m.subs \in Seq(SubNode)
    BY <2>1, NodeIs
  <2>3. t = [s EXCEPT ![i] = w]
    BY <1>3, <2>1 DEF handlePutRoute
  <2>4. u \in Seq(SubNode) /\ 1 \in DOMAIN u /\ u[1] = n /\ RemoveAt(u, 1) = m.subs
    <3> DEFINE a == m.subs
    <3>1. a \in Seq(SubNode)
      BY <2>2
    <3> HIDE DEF a
    <3>2. insertAt(a, 1, n) \in Seq(SubNode) /\ 1 \in DOMAIN insertAt(a, 1, n) /\ insertAt(a, 1, n)[1] = n
      BY <3>1, PutUndone
    <3>3. RemoveAt(insertAt(a, 1, n), 1) = a
      BY <3>1, PutUndone
    <3> QED
      BY <3>2, <3>3 DEF a
  <2> HIDE DEF t, u, i
  <2>6. w \in Node /\ w.subs = u /\ HasSub(w)
    BY <2>1, <2>4, NodeIs DEF Node, Route, HasSub
  <2>7. [w EXCEPT !.subs = m.subs] = m
    BY <2>1 DEF Node, Route
  <2> HIDE DEF w, m
  <2>8. DOMAIN t = DOMAIN s /\ t[i] = w /\ \A k \in DOMAIN s \ {i} : t[k] = s[k]
    BY <2>1, <2>3, <2>6, ReplacedSeq
  <2>9. p \in Paths(t) /\ NodeAt(t, p) = n
    <3>2. p[1] \in DOMAIN t /\ t[p[1]] = w
      BY <2>1, <2>8 DEF i
    <3>3. p[2] \in DOMAIN t[p[1]].subs /\ HasSub(t[p[1]]) /\ t[p[1]].subs[p[2]] = n
      BY <2>1, <2>4, <2>6, <3>2
    <3> QED
      BY <1>1, <1>3, <3>2, <3>3, PathsAre DEF NodeAt
  <2>10. deleteByPath(t, p) = [t EXCEPT ![i] = [w EXCEPT !.subs = RemoveAt(u, 1)]]
    <3>1. deleteByPath(t, p) = [t EXCEPT ![i] = [t[i] EXCEPT !.subs = RemoveAt(t[i].subs, 1)]]
      BY <1>3, <2>1 DEF deleteByPath, i
    <3> QED
      BY <2>6, <2>8, <3>1
  <2>11. deleteByPath(t, p) = [t EXCEPT ![i] = m]
    BY <2>4, <2>7, <2>10
  <2>12. [t EXCEPT ![i] = m] = s
    <3> DEFINE v == [t EXCEPT ![i] = m]
    <3>1. i \in DOMAIN t
      BY <2>1, <2>8
    <3>2. v \in Seq(Node) /\ DOMAIN v = DOMAIN t /\ v[i] = m /\ \A k \in DOMAIN t \ {i} : v[k] = t[k]
      BY <1>1, <2>1, <3>1, ReplacedSeq
    <3> HIDE DEF v
    <3>3. Len(v) = Len(s) /\ \A k \in 1 .. Len(s) : v[k] = s[k]
      <4>1. DOMAIN v = DOMAIN s /\ \A k \in DOMAIN s : v[k] = s[k]
        BY <2>8, <3>2 DEF m
      <4>2. DOMAIN s = 1 .. Len(s) /\ Len(v) = Len(s)
        BY <3>2, <4>1
      <4> QED
        BY <4>1, <4>2
    <3>4. v = s
      BY <3>2, <3>3, SameSeq
    <3> QED
      BY <3>4 DEF v
  <2>13. deleteByPath(t, p) = s
    BY <2>11, <2>12
  <2>14. Behaviour(deleteByPath(t, p), g) = Behaviour(t, g)
    BY <1>1, <2>9, DeleteSame DEF t
  <2> QED
    BY <2>13, <2>14 DEF t
<1> QED
  BY <1>2, <1>3, PathIs

\* Two routes, and two trees, that differ in @ids at most.
Alike(m, n) ==
    /\ SameNode(m, n) /\ DOMAIN m.subs = DOMAIN n.subs /\ Len(m.subs) = Len(n.subs)
    /\ \A j \in DOMAIN m.subs : SameNode(m.subs[j], n.subs[j])

AlikeTree(s, t) == DOMAIN s = DOMAIN t /\ \A i \in DOMAIN s : Alike(s[i], t[i])

\* They answer every host alike.
LEMMA AlikeSame ==
    ASSUME NEW s \in Seq(Node), NEW t \in Seq(Node), AlikeTree(t, s), NEW g
    PROVE  Behaviour(t, g) = Behaviour(s, g)
<1> DEFINE f == [c \in Candidates(t, g) |-> c]
<1>1. ASSUME NEW i \in Nat \ {0}, NEW j \in Nat \ {0}
      PROVE  <<i, j>> \in Candidates(t, g) <=> <<i, j>> \in Candidates(s, g)
  <2>1. /\ i \in DOMAIN t <=> i \in DOMAIN s
        /\ i \in DOMAIN t => /\ t[i].handle = s[i].handle /\ (HasSub(t[i]) <=> HasSub(s[i]))
                             /\ (MatchesHost(t[i], g) <=> MatchesHost(s[i], g))
                             /\ DOMAIN t[i].subs = DOMAIN s[i].subs /\ Len(t[i].subs) = Len(s[i].subs)
    BY DEF AlikeTree, Alike, SameNode, HasSub, MatchesHost, hasHost, routeHasExactHost, routeWildcardCovers,
           hostMatches
  <2>2. i \in DOMAIN t /\ j \in DOMAIN t[i].subs =>
            (MatchesHost(t[i].subs[j], g) <=> MatchesHost(s[i].subs[j], g))
    BY DEF AlikeTree, Alike, SameNode, MatchesHost, hasHost, routeHasExactHost, routeWildcardCovers, hostMatches
  <2>3. <<i, j>> \in Candidates(t, g) <=>
              /\ i \in DOMAIN t /\ MatchesHost(t[i], g)
              /\ \/ j \in DOMAIN t[i].subs /\ HasSub(t[i]) /\ MatchesHost(t[i].subs[j], g)
                 \/ j = Len(t[i].subs) + 1 /\ t[i].handle # {"sub"}
    BY CandidatesAre
  <2>4. <<i, j>> \in Candidates(s, g) <=>
              /\ i \in DOMAIN s /\ MatchesHost(s[i], g)
              /\ \/ j \in DOMAIN s[i].subs /\ HasSub(s[i]) /\ MatchesHost(s[i].subs[j], g)
                 \/ j = Len(s[i].subs) + 1 /\ s[i].handle # {"sub"}
    BY CandidatesAre
  <2> QED
    BY <2>1, <2>2, <2>3, <2>4
<1>2. ASSUME NEW c \in Candidates(t, g)
      PROVE  c \in Candidates(s, g)
  <2>1. c[1] \in Nat \ {0} /\ c[2] \in Nat \ {0} /\ c = <<c[1], c[2]>>
    BY CandidateShape
  <2> QED
    BY <1>1, <2>1
<1>3. ASSUME NEW c \in Candidates(s, g)
      PROVE  c \in Candidates(t, g)
  <2>1. c[1] \in Nat \ {0} /\ c[2] \in Nat \ {0} /\ c = <<c[1], c[2]>>
    BY CandidateShape
  <2> QED
    BY <1>1, <2>1
<1>4. ASSUME NEW c \in Candidates(t, g)
      PROVE  SameNode(t[c[1]], s[c[1]]) /\ SameNode(Terminal(t, c), Terminal(s, c))
  <2>1. /\ c[1] \in DOMAIN t /\ c[2] \in 1 .. (Len(t[c[1]].subs) + 1)
    BY CandidateIs
  <2>2. t[c[1]].subs \in Seq(SubNode)
    BY <2>1, NodeIs
  <2>3. Alike(t[c[1]], s[c[1]])
    BY <2>1 DEF AlikeTree
  <2>4. c[2] <= Len(t[c[1]].subs) => c[2] \in DOMAIN t[c[1]].subs
    BY <2>1, <2>2
  <2> QED
    BY <2>3, <2>4 DEF Alike, Terminal
<1>5. Corresponds(s, t, g, f)
  <2>1. \A c \in Candidates(t, g) : f[c] = c
    OBVIOUS
  <2> HIDE DEF f
  <2> QED
    BY <1>2, <1>3, <1>4, <2>1 DEF Corresponds
<1> HIDE DEF f
<1> QED
  BY <1>5, SameAnswers

\* Another tree of the kind has what the one has at every path.
LEMMA AlikeAt ==
    ASSUME NEW s \in Seq(Node), NEW t \in Seq(Node), AlikeTree(t, s), NEW p \in Paths(s)
    PROVE  p \in Paths(t) /\ \A n : Alike(n, NodeAt(s, p)) => Alike(n, NodeAt(t, p))
<1>1. p \in Path /\ p[1] \in DOMAIN s /\ p[1] \in DOMAIN t /\ Alike(t[p[1]], s[p[1]])
  BY PathsAre DEF AlikeTree
<1>2. CASE Len(p) = 1
  <2>1. p \in Paths(t)
    BY <1>1, <1>2, PathsAre
  <2>2. NodeAt(s, p) = s[p[1]] /\ NodeAt(t, p) = t[p[1]]
    BY <1>2 DEF NodeAt
  <2> QED
    BY <1>1, <2>1, <2>2 DEF Alike, SameNode
<1>3. CASE Len(p) = 2
  <2>1. p[2] \in DOMAIN s[p[1]].subs /\ HasSub(s[p[1]])
    BY <1>3, PathsAre
  <2>2. /\ p[2] \in DOMAIN t[p[1]].subs /\ HasSub(t[p[1]])
        /\ SameNode(t[p[1]].subs[p[2]], s[p[1]].subs[p[2]])
    BY <1>1, <2>1 DEF Alike, SameNode, HasSub
  <2>3. p \in Paths(t)
    BY <1>1, <1>3, <2>2, PathsAre
  <2>4. NodeAt(s, p) = s[p[1]].subs[p[2]] /\ NodeAt(t, p) = t[p[1]].subs[p[2]]
    BY <1>3 DEF NodeAt
  <2>5. NodeAt(s, p).subs = <<>> /\ NodeAt(t, p).subs = <<>>
    BY <1>3, <2>3, NodeAtIs, SubNodeIs
  <2>6. SameNode(NodeAt(t, p), NodeAt(s, p))
    BY <2>2, <2>4
  <2>7. ASSUME NEW n, Alike(n, NodeAt(s, p))
        PROVE  Alike(n, NodeAt(t, p))
    <3>1. DOMAIN n.subs = {} /\ Len(n.subs) = Len(NodeAt(t, p).subs) /\ DOMAIN NodeAt(t, p).subs = {}
      BY <2>5, <2>7 DEF Alike
    <3>2. SameNode(n, NodeAt(t, p))
      BY <2>6, <2>7 DEF Alike, SameNode
    <3> QED
      BY <3>1, <3>2 DEF Alike
  <2> QED
    BY <2>3, <2>7
<1> QED
  BY <1>1, <1>2, <1>3, PathIs

\* A PATCH that changes an @id leaves a tree of the kind.
LEMMA PatchAlike ==
    ASSUME NEW s \in Seq(Node), NEW p \in Paths(s), NEW n, CallNode(p, n), Alike(n, NodeAt(s, p))
    PROVE  AlikeTree(setByPath(s, p, n), s)
<1>0. p \in Path /\ p[1] \in DOMAIN s
  BY PathsAre
<1> DEFINE i == p[1]
<1>00. \A m : Alike(m, m)
  BY DEF Alike, SameNode
<1>1. CASE Len(p) = 1
  <2> DEFINE t == [s EXCEPT ![i] = n]
  <2>1. n \in Node /\ Alike(n, s[i])
    BY <1>1 DEF CallNode, NodeAt
  <2>2. DOMAIN t = DOMAIN s /\ t[i] = n /\ \A k \in DOMAIN s \ {i} : t[k] = s[k]
    BY <1>0, <2>1, ReplacedSeq
  <2>3. setByPath(s, p, n) = t
    BY <1>1 DEF setByPath
  <2> HIDE DEF t, i
  <2>4. AlikeTree(t, s)
    BY <1>00, <2>1, <2>2 DEF AlikeTree
  <2> QED
    BY <2>3, <2>4
<1>2. CASE Len(p) = 2
  <2> DEFINE m == s[i]
             u == [m.subs EXCEPT ![p[2]] = n]
             t == [s EXCEPT ![i].subs = u]
  <2>1. n \in SubNode /\ m \in Node /\ m.subs \in Seq(SubNode) /\ HasSub(m) /\ p[2] \in DOMAIN m.subs
    BY <1>2, AboveIs DEF CallNode
  <2>2. SameNode(n, m.subs[p[2]])
    BY <1>2 DEF Alike, NodeAt
  <2>3. /\ u \in Seq(SubNode) /\ DOMAIN u = DOMAIN m.subs /\ u[p[2]] = n
        /\ \A k \in DOMAIN m.subs \ {p[2]} : u[k] = m.subs[k]
    BY <2>1, ReplacedSeq
  <2>4. setByPath(s, p, n) = t
    BY <1>2 DEF setByPath
  <2> HIDE DEF u
  <2>5. /\ DOMAIN t = DOMAIN s /\ t[i].subs = u /\ SameNode(t[i], m) /\ \A k \in DOMAIN s \ {i} : t[k] = s[k]
    BY <1>0, <2>1, <2>3, SubsReplaced
  <2> HIDE DEF t
  <2>6. Len(u) = Len(m.subs)
    BY <2>1, <2>3
  <2>7. \A k \in DOMAIN u : SameNode(u[k], m.subs[k])
    BY <2>2, <2>3 DEF SameNode
  <2>8. Alike(t[i], m)
    BY <2>3, <2>5, <2>6, <2>7 DEF Alike
  <2> HIDE DEF i
  <2>9. AlikeTree(t, s)
    BY <1>00, <2>5, <2>8 DEF AlikeTree
  <2> QED
    BY <2>4, <2>9
<1> QED
  BY <1>0, <1>1, <1>2, PathIs

(***************************************************************************)
(* What an operation has left to call, and the tree it calls it on.        *)
(***************************************************************************)
\* The routes whose crenel @id is that of their host.
TrueNodes == {n \in Node : TrueNode(n)}

\* A call is about a host of the job.
WorkCall(k, j) ==
    /\ k.kind = "insert" => k.host \in j.add
    /\ k.kind = "put" => k.path[Len(k.path)] = 1 /\ \E h \in j.add : k.node = InsertedRoute(h, j.gate)
    /\ k.kind \in {"delete", "sweep"} => k.host \in j.remove
    /\ k.kind = "load" => j.verb = "load"
    /\ k.kind = "patch" => TrueNode(k.node)

\* A call by path finds what its job read there.
Fits(k, s, remove) ==
    /\ k.kind = "delpath" => k.path \in Paths(s) /\ hostMatches(NodeAt(s, k.path)) \cap remove # {}
    /\ k.kind = "patch" => k.path \in Paths(s) /\ Alike(k.node, NodeAt(s, k.path))

\* The calls of one job: a delete by path comes next, and PATCHes come alone.
WorkCalls(j, s) ==
    /\ \A i \in DOMAIN j.todo :
          /\ WorkCall(j.todo[i], j)
          /\ j.todo[i].kind = "delpath" => i = 1
          /\ j.clean => Fits(j.todo[i], s, j.remove)
    /\ \A i, k \in DOMAIN j.todo : j.todo[i].kind = "patch" => j.todo[k].kind = "patch"

\* crenel's @id of a host is on routes of that host only, and the calls fit.
WorkInv == cfg.routes \in Seq(TrueNodes) /\ WorkCalls(job, cfg.routes)

\* Nothing left to call.
LEMMA NoCalls ==
    ASSUME NEW j, j.todo = <<>>, NEW s
    PROVE  WorkCalls(j, s)
BY DEF WorkCalls

\* The calls of a job that goes on, in their places.
LEMMA TodoAfter ==
    ASSUME JobShape(job), job.todo # <<>>, NEW t \in Seq(Calls), Then(t)
    PROVE  \A i \in DOMAIN job'.todo :
              \/ i \in DOMAIN t /\ job'.todo[i] = t[i]
              \/ \E k \in DOMAIN job.todo \ {1} : job'.todo[i] = job.todo[k]
<1> DEFINE q == job.todo
           u == Tail(q)
           r == t \o u
<1>1. q \in Seq(Calls) /\ q # <<>>
  BY DEF JobShape
<1>2. /\ u \in Seq(Calls) /\ Len(q) \in Nat /\ Len(u) = Len(q) - 1 /\ DOMAIN u = 1 .. Len(u)
      /\ DOMAIN q = 1 .. Len(q) /\ \A k \in 1 .. Len(u) : u[k] = q[k + 1]
  BY <1>1
<1>3. job'.todo = r
  BY DEF Then, JobShape
<1> HIDE DEF q, u
<1>4. u \in Seq(Calls)
  BY <1>2
<1>5. /\ r \in Seq(Calls) /\ Len(r) = Len(t) + Len(u)
      /\ \A k \in 1 .. Len(t) : r[k] = t[k]
      /\ \A k \in 1 .. Len(u) : r[Len(t) + k] = u[k]
  BY <1>4, Joined
<1>6. Len(t) \in Nat /\ DOMAIN t = 1 .. Len(t) /\ Len(u) \in Nat
  BY <1>2
<1> HIDE DEF r
<1>7. DOMAIN r = 1 .. Len(r)
  BY <1>5
<1>8. ASSUME NEW i \in DOMAIN r
      PROVE  (i \in DOMAIN t /\ r[i] = t[i]) \/ (\E k \in DOMAIN q \ {1} : r[i] = q[k])
  <2>1. i \in Nat /\ i >= 1 /\ i <= Len(t) + Len(u)
    BY <1>5, <1>6, <1>7
  <2>2. CASE i <= Len(t)
    BY <1>5, <1>6, <2>1, <2>2
  <2>3. CASE i > Len(t)
    <3>1. i - Len(t) \in 1 .. Len(u) /\ i = Len(t) + (i - Len(t))
      BY <1>6, <2>1, <2>3
    <3>2. r[i] = u[i - Len(t)]
      BY <1>5, <3>1
    <3>3. u[i - Len(t)] = q[(i - Len(t)) + 1] /\ (i - Len(t)) + 1 \in DOMAIN q /\ (i - Len(t)) + 1 # 1
      BY <1>2, <1>6, <3>1
    <3> QED
      BY <3>2, <3>3
  <2> QED
    BY <1>6, <2>1, <2>2, <2>3
<1> QED
  BY <1>3, <1>8 DEF q

\* What a call may make a job call next, s being the routes then.
NextCalls(t, s) ==
    \A k \in DOMAIN t : /\ WorkCall(t[k], job) /\ t[k].kind # "patch"
                        /\ t[k].kind = "delpath" => k = 1 /\ (job.clean => Fits(t[k], s, job.remove))

\* A call changes the routes only when it is no PATCH or changes @ids.
Tidy(s, t) == t = s \/ Head1.kind # "patch" \/ (job.clean => AlikeTree(t, s))

\* A call that keeps to this keeps the invariant.
LEMMA WorkGoesOn ==
    ASSUME TypeInv, WorkInv, job.status = "running", job.todo # <<>>,
           cfg'.routes \in Seq(TrueNodes), Tidy(cfg.routes, cfg'.routes),
           NEW t \in Seq(Calls), Then(t), NextCalls(t, cfg'.routes), t = <<>> \/ Head1.kind # "patch"
    PROVE  WorkInv'
<1>1. JobShape(job) /\ cfg.routes \in Seq(Node)
  BY DEF TypeInv, ConfigType
<1>2. /\ job'.verb = job.verb /\ job'.add = job.add /\ job'.remove = job.remove
      /\ job'.clean = job.clean /\ job'.gate = job.gate
  BY <1>1 DEF Then, JobShape
<1>3. \A k : WorkCall(k, job') <=> WorkCall(k, job)
  BY <1>2 DEF WorkCall
<1>4. job.todo \in Seq(Calls) /\ 1 \in DOMAIN job.todo /\ job.todo[1] = Head1
  BY <1>1 DEF JobShape, Head1
<1>5. \A i \in DOMAIN job'.todo :
              \/ i \in DOMAIN t /\ job'.todo[i] = t[i]
              \/ \E k \in DOMAIN job.todo \ {1} : job'.todo[i] = job.todo[k]
  BY <1>1, TodoAfter
<1>6. cfg'.routes \in Seq(Node)
  <2>1. TrueNodes \subseteq Node
    BY DEF TrueNodes
  <2> QED
    BY <2>1, SeqWider
<1>7. ASSUME NEW k \in DOMAIN job.todo \ {1}
      PROVE  /\ WorkCall(job.todo[k], job) /\ job.todo[k].kind # "delpath"
             /\ job.todo[k].kind = "patch" <=> Head1.kind = "patch"
             /\ job.clean => Fits(job.todo[k], cfg'.routes, job.remove)
  <2>1. /\ WorkCall(job.todo[k], job) /\ job.todo[k].kind # "delpath"
        /\ job.todo[k].kind = "patch" <=> Head1.kind = "patch"
        /\ job.clean => Fits(job.todo[k], cfg.routes, job.remove)
    BY <1>4 DEF WorkInv, WorkCalls
  <2>2. ASSUME job.clean, job.todo[k].kind = "patch", AlikeTree(cfg'.routes, cfg.routes)
        PROVE  Fits(job.todo[k], cfg'.routes, job.remove)
    <3>1. job.todo[k].path \in Paths(cfg.routes) /\ Alike(job.todo[k].node, NodeAt(cfg.routes, job.todo[k].path))
      BY <2>1, <2>2 DEF Fits
    <3>2. /\ job.todo[k].path \in Paths(cfg'.routes)
          /\ Alike(job.todo[k].node, NodeAt(cfg'.routes, job.todo[k].path))
      BY <1>1, <1>6, <2>2, <3>1, AlikeAt
    <3> QED
      BY <2>2, <3>2 DEF Fits
  <2>3. ASSUME job.clean
        PROVE  Fits(job.todo[k], cfg'.routes, job.remove)
    <3>1. CASE job.todo[k].kind = "patch"
      BY <2>1, <2>2, <2>3, <3>1 DEF Tidy
    <3>2. CASE job.todo[k].kind # "patch"
      BY <2>1, <3>2 DEF Fits
    <3> QED
      BY <3>1, <3>2
  <2> QED
    BY <2>1, <2>3
<1>8. ASSUME NEW i \in DOMAIN job'.todo
      PROVE  /\ WorkCall(job'.todo[i], job') /\ (job'.todo[i].kind = "delpath" => i = 1)
             /\ job'.clean => Fits(job'.todo[i], cfg'.routes, job'.remove)
  <2>1. CASE i \in DOMAIN t /\ job'.todo[i] = t[i]
    <3>1. /\ WorkCall(t[i], job) /\ t[i].kind # "patch"
          /\ t[i].kind = "delpath" => i = 1 /\ (job.clean => Fits(t[i], cfg'.routes, job.remove))
      BY <2>1 DEF NextCalls
    <3>2. job.clean => Fits(t[i], cfg'.routes, job.remove)
      BY <3>1 DEF Fits
    <3> QED
      BY <1>2, <1>3, <2>1, <3>1, <3>2
  <2>2. CASE \E k \in DOMAIN job.todo \ {1} : job'.todo[i] = job.todo[k]
    <3>1. PICK k \in DOMAIN job.todo \ {1} : job'.todo[i] = job.todo[k]
      BY <2>2
    <3> QED
      BY <1>2, <1>3, <1>7, <3>1
  <2> QED
    BY <1>5, <2>1, <2>2
<1>9. ASSUME NEW i \in DOMAIN job'.todo
      PROVE  job'.todo[i].kind = "patch" <=> (Head1.kind = "patch" /\ t = <<>>)
  <2>1. CASE i \in DOMAIN t /\ job'.todo[i] = t[i]
    <3>1. t # <<>> /\ t[i].kind # "patch"
      BY <2>1 DEF NextCalls
    <3> QED
      BY <2>1, <3>1
  <2>2. CASE \E k \in DOMAIN job.todo \ {1} : job'.todo[i] = job.todo[k]
    BY <1>7, <2>2
  <2> QED
    BY <1>5, <2>1, <2>2
<1>10. WorkCalls(job', cfg'.routes)
  BY <1>8, <1>9 DEF WorkCalls
<1> QED
  BY <1>10 DEF WorkInv

\* A job that begins with calls that fit.
Fitting == WorkCalls(job', cfg.routes) /\ cfg' = cfg

\* An operation that begins with fitting calls leaves the tree alone.
LEMMA BeginFits ==
    ASSUME NEW j, Begin(j), WorkCalls(j, cfg.routes)
    PROVE  Fitting
BY DEF Begin, Fitting

\* One that is refused calls nothing.
LEMMA RefuseFits ==
    ASSUME NEW verb, NEW add, NEW remove, Refuse(Job(verb, add, remove, <<>>))
    PROVE  Fitting
<1> DEFINE j == [Job(verb, add, remove, <<>>) EXCEPT !.status = "error", !.todo = <<>>]
<1>1. j.todo = <<>>
  BY DEF Job
<1>2. Begin(j)
  BY DEF Refuse
<1> HIDE DEF j
<1> QED
  BY <1>1, <1>2, NoCalls, BeginFits

\* The calls of an apply.
LEMMA GranularFits ==
    ASSUME NEW j, j.add \in SUBSET Hosts, j.remove \in SUBSET Hosts,
           j.todo = applyGranular(j.add, j.remove), NEW s
    PROVE  WorkCalls(j, s)
<1> DEFINE S == [kind : {"insert"}, host : j.add] \cup [kind : {"delete"}, host : j.remove]
           q == j.todo
<1>1. q \in Seq(S)
  BY GranularType
<1> HIDE DEF S, q
<1>2. \A i \in DOMAIN q : q[i] \in S
  BY <1>1, Elements
<1>3. ASSUME NEW i \in DOMAIN q
      PROVE  \/ q[i].kind = "insert" /\ q[i].host \in j.add
             \/ q[i].kind = "delete" /\ q[i].host \in j.remove
  BY <1>2 DEF S
<1>4. ASSUME NEW i \in DOMAIN q
      PROVE  /\ WorkCall(q[i], j) /\ q[i].kind # "delpath" /\ q[i].kind # "patch"
             /\ Fits(q[i], s, j.remove)
  BY <1>3 DEF WorkCall, Fits
<1> QED
  BY <1>4 DEF WorkCalls, q

\* One call that is no PATCH.
LEMMA OneFits ==
    ASSUME NEW j, NEW k, j.todo = <<k>>, WorkCall(k, j), k.kind \in {"load", "l4"}, NEW s
    PROVE  WorkCalls(j, s)
BY DEF WorkCalls, Fits

\* PATCHes that change an @id, and change it truly.
Stamps(t, s) ==
    \A i \in DOMAIN t : \E p \in Paths(s) : \E id \in NodeIds :
        t[i] = At("patch", p, Stamped(s, p, id)) /\ MarkedTruly(Stamped(s, p, id))

\* PATCHes that change the @id alone fit the tree they were read from.
LEMMA StampsFit ==
    ASSUME NEW j, NEW s \in Seq(TrueNodes), Stamps(j.todo, s)
    PROVE  WorkCalls(j, s)
<1>0. s \in Seq(Node)
  <2>1. TrueNodes \subseteq Node
    BY DEF TrueNodes
  <2> QED
    BY <2>1, SeqWider
<1>1. ASSUME NEW i \in DOMAIN j.todo
      PROVE  j.todo[i].kind = "patch" /\ TrueNode(j.todo[i].node) /\ Fits(j.todo[i], s, j.remove)
  <2>1. PICK p \in Paths(s) : \E id \in NodeIds :
            j.todo[i] = At("patch", p, Stamped(s, p, id)) /\ MarkedTruly(Stamped(s, p, id))
    BY DEF Stamps
  <2>2. PICK id \in NodeIds :
            j.todo[i] = At("patch", p, Stamped(s, p, id)) /\ MarkedTruly(Stamped(s, p, id))
    BY <2>1
  <2> DEFINE m == NodeAt(s, p)
             n == [m EXCEPT !.id = id]
  <2>3. Stamped(s, p, id) = n
    BY DEF Stamped
  <2>4. m \in Node
    BY <1>0, NodeAtIs
  <2>5. \A k \in DOMAIN m.subs : MarkedTruly(m.subs[k])
    <3>1. p \in Path /\ p[1] \in DOMAIN s
      BY <1>0, PathsAre
    <3>2. TrueNode(s[p[1]])
      BY <3>1 DEF TrueNodes
    <3>3. CASE Len(p) = 1
      BY <3>2, <3>3 DEF TrueNode, NodeAt
    <3>4. CASE Len(p) = 2
      <4>1. m.subs = <<>>
        BY <1>0, <3>4, NodeAtIs, SubNodeIs
      <4> QED
        BY <4>1
    <3> QED
      BY <3>1, <3>3, <3>4, PathIs
  <2> HIDE DEF m
  <2>6. n \in Node
    BY <2>4, NodeIs
  <2>7. n.subs = m.subs /\ SameNode(n, m)
    BY <2>4 DEF Node, Route, SameNode
  <2> HIDE DEF n
  <2>8. TrueNode(n)
    BY <2>2, <2>3, <2>5, <2>6, <2>7 DEF TrueNode
  <2>9. Alike(n, m)
    BY <2>7 DEF Alike, SameNode
  <2>10. j.todo[i] = [kind |-> "patch", path |-> p, node |-> n]
    BY <2>2, <2>3 DEF At
  <2>11. j.todo[i].kind = "patch" /\ j.todo[i].path = p /\ j.todo[i].node = n
    BY <2>10
  <2>12. Fits(j.todo[i], s, j.remove)
    BY <2>9, <2>11 DEF Fits, m
  <2> QED
    BY <2>8, <2>11, <2>12
<1>2. ASSUME NEW i \in DOMAIN j.todo
      PROVE  WorkCall(j.todo[i], j)
  BY <1>1 DEF WorkCall
<1> QED
  BY <1>1, <1>2 DEF WorkCalls

\* Expose, unexpose, rename, re-render.
LEMMA ChangeFits ==
    ASSUME NEW add \in SUBSET Hosts, NEW remove \in SUBSET Hosts, NEW g, Change(add, remove, g)
    PROVE  Fitting
<1> DEFINE T == targetRoutes(normalize(cfg), add, remove)
<1>1. CASE Begin([Job("apply", add, remove, applyGranular(add, remove)) EXCEPT !.gate = g])
  <2> DEFINE j == [Job("apply", add, remove, applyGranular(add, remove)) EXCEPT !.gate = g]
  <2>1. j.add = add /\ j.remove = remove /\ j.todo = applyGranular(add, remove)
    BY DEF Job
  <2>2. Begin(j)
    BY <1>1
  <2> HIDE DEF j
  <2>3. WorkCalls(j, cfg.routes)
    BY <2>1, GranularFits
  <2> QED
    BY <2>2, <2>3, BeginFits
<1> HIDE DEF T
<1>2. CASE Begin(Job("load", add, remove, <<[kind |-> "load", target |-> T]>>))
  <2> DEFINE k == [kind |-> "load", target |-> T]
             j == Job("load", add, remove, <<k>>)
  <2>1. k.kind = "load"
    OBVIOUS
  <2> HIDE DEF k
  <2>2. j.verb = "load" /\ j.todo = <<k>>
    BY DEF Job
  <2>3. Begin(j)
    BY <1>2 DEF k
  <2> HIDE DEF j
  <2>4. WorkCall(k, j)
    BY <2>1, <2>2 DEF WorkCall
  <2> QED
    BY <2>1, <2>2, <2>3, <2>4, OneFits, BeginFits
<1>3. \/ Refuse(Job("apply", add, remove, <<>>))
      \/ Begin([Job("apply", add, remove, applyGranular(add, remove)) EXCEPT !.gate = g])
      \/ Begin(Job("load", add, remove, <<[kind |-> "load", target |-> T]>>))
      \/ Refuse(Job("load", add, remove, <<>>))
  BY DEF Change, T
<1> QED
  BY <1>1, <1>2, <1>3, RefuseFits

\* Every verb of an apply.
LEMMA ApplyFits ==
    ASSUME Apply
    PROVE  Fitting
<1>1. \E add \in SUBSET Hosts : \E remove \in SUBSET Hosts : \E g : Change(add, remove, g)
  <2>1. CASE \E h \in Hosts, g \in Gates : Change({h}, {}, g)
    <3>1. PICK h \in Hosts, g \in Gates : Change({h}, {}, g)
      BY <2>1
    <3>2. {h} \in SUBSET Hosts /\ {} \in SUBSET Hosts
      OBVIOUS
    <3> QED
      BY <3>1, <3>2
  <2>2. CASE \E h \in Hosts : Change({}, {h}, "none") \/ Change({h}, {h}, "none")
    <3>1. PICK h \in Hosts : Change({}, {h}, "none") \/ Change({h}, {h}, "none")
      BY <2>2
    <3>2. {h} \in SUBSET Hosts /\ {} \in SUBSET Hosts
      OBVIOUS
    <3> QED
      BY <3>1, <3>2
  <2>3. CASE \E h, new \in Hosts : h # new /\ Change({new}, {h}, "none")
    <3>1. PICK h \in Hosts, new \in Hosts : Change({new}, {h}, "none")
      BY <2>3
    <3>2. {h} \in SUBSET Hosts /\ {new} \in SUBSET Hosts
      OBVIOUS
    <3> QED
      BY <3>1, <3>2
  <2> QED
    BY <2>1, <2>2, <2>3 DEF Apply
<1> QED
  BY <1>1, ChangeFits

\* A passthrough route.
LEMMA ApplyLayer4Fits ==
    ASSUME ApplyLayer4
    PROVE  Fitting
<1>1. PICK h \in Hosts : \/ Begin(Job("l4", {h}, {}, <<Call("l4", h)>>))
                         \/ Refuse(Job("l4", {h}, {}, <<>>))
  BY DEF ApplyLayer4
<1>2. CASE Begin(Job("l4", {h}, {}, <<Call("l4", h)>>))
  <2> DEFINE k == Call("l4", h)
             j == Job("l4", {h}, {}, <<k>>)
  <2>1. k.kind = "l4"
    BY DEF Call
  <2> HIDE DEF k
  <2>2. j.todo = <<k>>
    BY DEF Job
  <2>3. Begin(j)
    BY <1>2 DEF k
  <2> HIDE DEF j
  <2>4. WorkCall(k, j)
    BY <2>1 DEF WorkCall
  <2> QED
    BY <2>1, <2>2, <2>3, <2>4, OneFits, BeginFits
<1> QED
  BY <1>1, <1>2, RefuseFits

\* The PATCHes of an import, and of an acknowledgement.
LEMMA AdoptStamps ==
    ASSUME NEW s \in Seq(Node), NEW want \in SUBSET Hosts
    PROVE  Stamps(adoptCalls(s, want), s)
<1> DEFINE S == AdoptPaths(s, want)
           q == InWalkOrder(S)
           id(i) == routeID(rawRouteHost(NodeAt(s, q[i])))
           t == [i \in DOMAIN q |-> At("patch", q[i], Stamped(s, q[i], id(i)))]
<1>1. S \subseteq Paths(s) /\ \A p \in S : rawRouteHost(NodeAt(s, p)) \in want
  BY DEF AdoptPaths
<1> HIDE DEF S
<1>2. S \in SUBSET Path /\ IsFiniteSet(S)
  BY <1>1, PathsFinite, FS_Subset
<1>3. q \in Seq(S)
  BY <1>2, InWalkOrderLists
<1>4. adoptCalls(s, want) = t
  BY DEF adoptCalls, S
<1> HIDE DEF q
<1>5. ASSUME NEW i \in DOMAIN q
      PROVE  q[i] \in Paths(s) /\ id(i) \in NodeIds /\ MarkedTruly(Stamped(s, q[i], id(i)))
  <2> DEFINE m == NodeAt(s, q[i])
             d == id(i)
             n == [m EXCEPT !.id = d]
  <2>1. q[i] \in S
    BY <1>3
  <2>2. q[i] \in Paths(s) /\ rawRouteHost(m) \in Hosts
    BY <1>1, <2>1
  <2>3. m \in Node
    BY <2>2, NodeAtIs
  <2>4. d \in NodeIds /\ d = routeID(rawRouteHost(m))
    BY <2>2, IdsBuilt
  <2>5. Stamped(s, q[i], d) = n
    BY DEF Stamped
  <2> HIDE DEF m, d
  <2>6. n.id = d /\ n.match = m.match
    BY <2>3 DEF Node, Route
  <2> HIDE DEF n
  <2>7. rawRouteHost(n) = rawRouteHost(m)
    BY <2>6 DEF rawRouteHost, hasHost
  <2>8. MarkedTruly(n)
    BY <2>4, <2>6, <2>7 DEF MarkedTruly
  <2> QED
    BY <2>2, <2>4, <2>5, <2>8 DEF d
<1>6. ASSUME NEW i \in DOMAIN t
      PROVE  \E p \in Paths(s) : \E x \in NodeIds :
                t[i] = At("patch", p, Stamped(s, p, x)) /\ MarkedTruly(Stamped(s, p, x))
  <2>1. i \in DOMAIN q /\ t[i] = At("patch", q[i], Stamped(s, q[i], id(i)))
    OBVIOUS
  <2> HIDE DEF t, id
  <2> QED
    BY <1>5, <2>1
<1> QED
  BY <1>4, <1>6 DEF Stamps

\* Acknowledging a route PATCHes its @id alone.
LEMMA AckStamps ==
    ASSUME NEW s \in Seq(Node), NEW p \in Paths(s), NEW marker \in NodeIds, ~ IsOwned(marker)
    PROVE  Stamps(ackCalls(s, p, marker), s)
<1> DEFINE m == NodeAt(s, p)
           n == [m EXCEPT !.id = marker]
           k == At("patch", p, n)
<1>1. m \in Node
  BY NodeAtIs
<1>2. Stamped(s, p, marker) = n
  BY DEF Stamped
<1> HIDE DEF m
<1>3. n.id = marker
  BY <1>1 DEF Node, Route
<1> HIDE DEF n
<1>4. MarkedTruly(n)
  BY <1>3 DEF MarkedTruly
<1>5. ackCalls(s, p, marker) = <<>> \/ ackCalls(s, p, marker) = <<k>>
  BY <1>2 DEF ackCalls
<1>6. k = At("patch", p, Stamped(s, p, marker)) /\ MarkedTruly(Stamped(s, p, marker))
  BY <1>2, <1>4
<1> HIDE DEF k
<1> QED
  BY <1>5, <1>6 DEF Stamps

\* Import.
LEMMA ImportFits ==
    ASSUME TypeInv, WorkInv, Import
    PROVE  Fitting
<1>1. PICK want \in SUBSET planImport(normalize(cfg)) : Begin(Job("adopt", want, {}, adoptCalls(Routes, want)))
  BY DEF Import
<1> DEFINE j == Job("adopt", want, {}, adoptCalls(Routes, want))
<1>2. want \in SUBSET Hosts /\ Routes = cfg.routes /\ cfg.routes \in Seq(Node) /\ cfg.routes \in Seq(TrueNodes)
  BY DEF planImport, Routes, TypeInv, ConfigType, WorkInv
<1>3. j.todo = adoptCalls(cfg.routes, want)
  BY <1>2 DEF Job
<1>4. Begin(j)
  BY <1>1
<1> HIDE DEF j
<1>5. Stamps(j.todo, cfg.routes)
  BY <1>2, <1>3, AdoptStamps
<1> QED
  BY <1>2, <1>4, <1>5, StampsFit, BeginFits

\* The markers of acknowledgements are not crenel's @ids.
LEMMA MarkersAre ==
    ~ IsOwned(NoId) /\ \A q : ~ IsOwned(AckId(q))
BY DEF IsOwned, AckId, NoId

\* Acknowledging by name, and taking it back.
LEMMA AckFits ==
    ASSUME TypeInv, WorkInv, NEW verb, NEW h \in Hosts, NEW marker \in NodeIds, ~ IsOwned(marker),
           AckOrUnack(verb, h, marker)
    PROVE  Fitting
<1> DEFINE p == AckPath(Routes, h)
<1>1. Routes = cfg.routes /\ cfg.routes \in Seq(Node) /\ cfg.routes \in Seq(TrueNodes)
  BY DEF TypeInv, ConfigType, Routes, WorkInv
<1>2. p = <<>> \/ p \in Paths(cfg.routes)
  BY <1>1, AckPathIs
<1>3. \/ Refuse(Job(verb, {h}, {}, <<>>))
      \/ Begin(Job(verb, {h}, {}, <<>>))
      \/ p # <<>> /\ Begin(Job(verb, {h}, {}, ackCalls(Routes, p, marker)))
  BY DEF AckOrUnack
<1> HIDE DEF p
<1>4. CASE Begin(Job(verb, {h}, {}, <<>>))
  <2> DEFINE j == Job(verb, {h}, {}, <<>>)
  <2>1. j.todo = <<>> /\ Begin(j)
    BY <1>4 DEF Job
  <2> HIDE DEF j
  <2> QED
    BY <2>1, NoCalls, BeginFits
<1>5. CASE p # <<>> /\ Begin(Job(verb, {h}, {}, ackCalls(Routes, p, marker)))
  <2> DEFINE j == Job(verb, {h}, {}, ackCalls(cfg.routes, p, marker))
  <2>1. j.todo = ackCalls(cfg.routes, p, marker) /\ Begin(j)
    BY <1>1, <1>5 DEF Job
  <2> HIDE DEF j
  <2>2. Stamps(j.todo, cfg.routes)
    BY <1>1, <1>2, <1>5, <2>1, AckStamps
  <2> QED
    BY <1>1, <2>1, <2>2, StampsFit, BeginFits
<1> QED
  BY <1>3, <1>4, <1>5, RefuseFits

\* Acknowledging by place, and taking it back.
LEMMA AckLocatorFits ==
    ASSUME TypeInv, WorkInv, NEW verb, NEW on, AckLocator(verb, on)
    PROVE  Fitting
<1>1. PICK loc \in Locators :
        IF Len(loc) = 1 \/ ~ ValidPath(Routes, PathOf(loc)) THEN Refuse(Job(verb, {}, {}, <<>>))
        ELSE IF IsOwned(NodeAt(Routes, PathOf(loc)).id) THEN Refuse(Job(verb, {}, {}, <<>>))
        ELSE Begin([Job(verb, {}, {}, ackCalls(Routes, PathOf(loc),
                        IF on THEN locatorMarker(PathOf(loc)) ELSE NoId)) EXCEPT !.loc = loc])
  BY DEF AckLocator
<1> DEFINE p == PathOf(loc)
           marker == IF on THEN locatorMarker(p) ELSE NoId
<1>2. Routes = cfg.routes /\ cfg.routes \in Seq(Node) /\ cfg.routes \in Seq(TrueNodes)
  BY DEF TypeInv, ConfigType, Routes, WorkInv
<1>3. CASE Len(loc) # 1 /\ ValidPath(Routes, p)
  <2>1. p \in Path
    BY <1>3, ReadTyped DEF Locators, TypeInv
  <2>2. p \in Paths(cfg.routes) /\ marker \in NodeIds /\ ~ IsOwned(marker)
    BY <1>2, <1>3, <2>1, ValidPaths, IdsBuilt, MarkersAre DEF locatorMarker
  <2> HIDE DEF p, marker
  <2> DEFINE j == [Job(verb, {}, {}, ackCalls(cfg.routes, p, marker)) EXCEPT !.loc = loc]
  <2>3. Refuse(Job(verb, {}, {}, <<>>)) \/ Begin(j)
    BY <1>1, <1>2, <1>3 DEF p, marker
  <2>4. j.todo = ackCalls(cfg.routes, p, marker)
    BY DEF Job
  <2> HIDE DEF j
  <2>5. Stamps(j.todo, cfg.routes)
    BY <1>2, <2>2, <2>4, AckStamps
  <2> QED
    BY <1>2, <2>3, <2>5, StampsFit, BeginFits, RefuseFits
<1>4. CASE ~ (Len(loc) # 1 /\ ValidPath(Routes, p))
  BY <1>1, <1>4, RefuseFits
<1> QED
  BY <1>3, <1>4

\* An operation begins with calls that fit the tree it has read.
LEMMA BeginWork ==
    ASSUME TypeInv, WorkInv, Apply \/ ApplyLayer4 \/ Import \/ Ack \/ Unack \/ AckRoute \/ UnackRoute
    PROVE  WorkInv'
<1>1. Fitting
  <2>1. CASE Ack
    <3>1. PICK h \in Hosts : AckOrUnack("ack", h, AckId(h))
      BY <2>1 DEF Ack
    <3> QED
      BY <3>1, AckFits, IdsBuilt, MarkersAre
  <2>2. CASE Unack
    <3>1. PICK h \in Hosts : AckOrUnack("unack", h, NoId)
      BY <2>2 DEF Unack
    <3> QED
      BY <3>1, AckFits, IdsBuilt, MarkersAre
  <2>3. CASE AckRoute \/ UnackRoute
    BY <2>3, AckLocatorFits DEF AckRoute, UnackRoute
  <2> QED
    BY <2>1, <2>2, <2>3, ApplyFits, ApplyLayer4Fits, ImportFits
<1> QED
  BY <1>1 DEF Fitting, WorkInv

\* A true route with other routes in its subroute, true ones too.
LEMMA TrueSubs ==
    ASSUME NEW m \in TrueNodes, HasSub(m), NEW u \in Seq(SubNode), \A k \in DOMAIN u : MarkedTruly(u[k])
    PROVE  [m EXCEPT !.subs = u] \in TrueNodes
<1> DEFINE w == [m EXCEPT !.subs = u]
<1>1. m \in Node /\ MarkedTruly(m)
  BY DEF TrueNodes, TrueNode
<1>2. w \in Node /\ w.subs = u
  BY <1>1, NodeIs
<1>3. w.id = m.id /\ w.match = m.match
  BY <1>1 DEF Node, Route
<1> HIDE DEF w
<1>4. MarkedTruly(w)
  BY <1>1, <1>3 DEF MarkedTruly, rawRouteHost, hasHost
<1>5. w \in TrueNodes
  BY <1>2, <1>4 DEF TrueNodes, TrueNode
<1> QED
  BY <1>5 DEF w

\* The true routes of a tree.
LEMMA TruePart ==
    ASSUME NEW s \in Seq(TrueNodes)
    PROVE  /\ s \in Seq(Node) /\ \A i \in DOMAIN s : s[i] \in TrueNodes /\ s[i] \in Node
           /\ \A i \in DOMAIN s : \A k \in DOMAIN s[i].subs : MarkedTruly(s[i].subs[k])
           /\ \A p \in Paths(s) : MarkedTruly(NodeAt(s, p))
<1>1. TrueNodes \subseteq Node
  BY DEF TrueNodes
<1>2. s \in Seq(Node) /\ \A i \in DOMAIN s : s[i] \in TrueNodes /\ s[i] \in Node
  BY <1>1, SeqWider, Elements
<1>3. \A i \in DOMAIN s : MarkedTruly(s[i]) /\ \A k \in DOMAIN s[i].subs : MarkedTruly(s[i].subs[k])
  BY <1>2 DEF TrueNodes, TrueNode
<1>4. ASSUME NEW p \in Paths(s)
      PROVE  MarkedTruly(NodeAt(s, p))
  <2>1. p \in Path /\ p[1] \in DOMAIN s /\ (Len(p) = 2 => p[2] \in DOMAIN s[p[1]].subs)
    BY <1>2, PathsAre
  <2> QED
    BY <1>3, <2>1, PathIs DEF NodeAt
<1> QED
  BY <1>2, <1>3, <1>4

\* Writes leave true routes.
LEMMA PutTrue ==
    ASSUME NEW s \in Seq(TrueNodes), NEW p \in Path, NEW n \in SubNode, MarkedTruly(n),
           Len(p) = 2 => p[1] \in DOMAIN s /\ HasSub(s[p[1]])
    PROVE  handlePutRoute(s, p, n) \in Seq(TrueNodes)
<1>1. TrueNodes \in SUBSET Node
  BY DEF TrueNodes
<1>2. n \in TrueNodes
  BY SubNodeIs DEF TrueNodes, TrueNode
<1>3. ASSUME Len(p) = 2
      PROVE  p[1] \in DOMAIN s /\ [s[p[1]] EXCEPT !.subs = insertAt(s[p[1]].subs, p[2], n)] \in TrueNodes
  <2> DEFINE m == s[p[1]]
             a == m.subs
             u == insertAt(a, p[2], n)
  <2>1. p[1] \in DOMAIN s /\ HasSub(m) /\ p[2] \in Nat \ {0}
    BY <1>3, PathIs
  <2>2. m \in TrueNodes /\ m \in Node /\ \A k \in DOMAIN a : MarkedTruly(a[k])
    BY <2>1, TruePart
  <2>3. a \in Seq(SubNode)
    BY <2>2, NodeIs
  <2> HIDE DEF a
  <2>4. u \in Seq(SubNode) /\ Among(u, a, n)
    BY <2>1, <2>3, InsertedSeq
  <2>5. \A k \in DOMAIN u : MarkedTruly(u[k])
    BY <2>2, <2>4 DEF Among
  <2> HIDE DEF u, m
  <2>6. [m EXCEPT !.subs = u] \in TrueNodes
    BY <2>1, <2>2, <2>4, <2>5, TrueSubs
  <2> QED
    BY <2>1, <2>6 DEF u, a, m
<1> HIDE DEF TrueNodes
<1> QED
  BY <1>1, <1>2, <1>3, PutWithin

\* Deleting a route leaves true routes.
LEMMA DeleteTrue ==
    ASSUME NEW s \in Seq(TrueNodes), NEW p \in Paths(s)
    PROVE  deleteByPath(s, p) \in Seq(TrueNodes)
<1>1. TrueNodes \in SUBSET Node /\ s \in Seq(Node)
  BY TruePart DEF TrueNodes
<1>2. p \in Path /\ p[1] \in DOMAIN s
  BY <1>1, PathsAre
<1>3. ASSUME Len(p) = 2
      PROVE  [s[p[1]] EXCEPT !.subs = RemoveAt(s[p[1]].subs, p[2])] \in TrueNodes
  <2> DEFINE m == s[p[1]]
             a == m.subs
             j == p[2]
             u == RemoveAt(a, j)
  <2>1. HasSub(m) /\ a \in Seq(SubNode) /\ j \in DOMAIN a
    BY <1>1, <1>3, AboveIs
  <2>2. m \in TrueNodes /\ \A k \in DOMAIN a : MarkedTruly(a[k])
    BY <1>2, TruePart
  <2> HIDE DEF a, j
  <2>3. u \in Seq(SubNode) /\ MovedUp(u, a, j)
    BY <2>1, RemovedUp
  <2> HIDE DEF u
  <2>4. \A k \in DOMAIN u : Up(j, k) \in DOMAIN a /\ u[k] = a[Up(j, k)]
    BY <2>1, <2>3, UpIs
  <2>5. \A k \in DOMAIN u : MarkedTruly(u[k])
    BY <2>2, <2>4
  <2> HIDE DEF m
  <2>6. [m EXCEPT !.subs = u] \in TrueNodes
    BY <2>1, <2>2, <2>3, <2>5, TrueSubs
  <2> QED
    BY <2>6 DEF u, a, j, m
<1> QED
  BY <1>1, <1>2, <1>3, DeleteWithin

\* A PATCH by a true route leaves true routes.
LEMMA PatchTrue ==
    ASSUME NEW s \in Seq(TrueNodes), NEW p \in Paths(s), NEW n, CallNode(p, n), TrueNode(n)
    PROVE  setByPath(s, p, n) \in Seq(TrueNodes)
<1>1. s \in Seq(Node)
  BY TruePart
<1>2. p \in Path /\ p[1] \in DOMAIN s
  BY <1>1, PathsAre
<1>3. n \in TrueNodes /\ MarkedTruly(n)
  BY DEF TrueNodes, TrueNode
<1>4. CASE Len(p) = 1
  <2>1. [s EXCEPT ![p[1]] = n] \in Seq(TrueNodes)
    BY <1>2, <1>3, ReplacedSeq
  <2> QED
    BY <1>4, <2>1 DEF setByPath
<1>5. CASE Len(p) = 2
  <2> DEFINE m == s[p[1]]
             a == m.subs
             j == p[2]
             u == [a EXCEPT ![j] = n]
             w == [m EXCEPT !.subs = u]
  <2>1. HasSub(m) /\ a \in Seq(SubNode) /\ j \in DOMAIN a /\ n \in SubNode
    BY <1>1, <1>5, AboveIs DEF CallNode
  <2>2. m \in TrueNodes /\ \A k \in DOMAIN a : MarkedTruly(a[k])
    BY <1>2, TruePart
  <2>3. setByPath(s, p, n) = [s EXCEPT ![p[1]] = w]
    BY <1>5 DEF setByPath
  <2> HIDE DEF a, j
  <2>4. u \in Seq(SubNode) /\ DOMAIN u = DOMAIN a /\ u[j] = n /\ \A k \in DOMAIN a \ {j} : u[k] = a[k]
    BY <2>1, ReplacedSeq
  <2> HIDE DEF u
  <2>5. \A k \in DOMAIN u : MarkedTruly(u[k])
    BY <1>3, <2>2, <2>4
  <2> HIDE DEF m
  <2>6. w \in TrueNodes
    BY <2>1, <2>2, <2>4, <2>5, TrueSubs
  <2> HIDE DEF w
  <2> QED
    BY <1>2, <2>3, <2>6, ReplacedSeq
<1> QED
  BY <1>4, <1>5, <1>2, PathIs

\* t does for hosts the job is not about what the tree did, one route apart.
Untouched(t) ==
    \A g \in Hosts \ Touched : Grouped(cfg.routes, g) \/ Behaviour(t, g) = Behaviour(cfg.routes, g)

\* Deleting a route of a host of the job.
LEMMA DeleteUntouched ==
    ASSUME cfg.routes \in Seq(Node), NEW p \in Paths(cfg.routes),
           hostMatches(NodeAt(cfg.routes, p)) \cap Touched # {}
    PROVE  Untouched(deleteByPath(cfg.routes, p))
<1>1. ASSUME NEW g \in Hosts \ Touched, ~ Grouped(cfg.routes, g)
      PROVE  Behaviour(deleteByPath(cfg.routes, p), g) = Behaviour(cfg.routes, g)
  <2>1. ~ MatchesHost(NodeAt(cfg.routes, p), g)
    BY <1>1 DEF Grouped
  <2> QED
    BY <2>1, DeleteSame
<1> QED
  BY <1>1 DEF Untouched

\* The call at the head is one of the job's.
LEMMA HeadWork ==
    ASSUME TypeInv, WorkInv, job.todo # <<>>
    PROVE  /\ WorkCall(Head1, job) /\ (job.clean => Fits(Head1, cfg.routes, job.remove))
           /\ cfg.routes \in Seq(TrueNodes) /\ cfg.routes \in Seq(Node) /\ Routes = cfg.routes
<1>1. job.todo \in Seq(Calls) /\ 1 \in DOMAIN job.todo /\ Head1 = job.todo[1]
  BY DEF TypeInv, JobShape, Head1
<1>2. cfg.routes \in Seq(Node) /\ Routes = cfg.routes
  BY DEF TypeInv, ConfigType, Routes
<1> QED
  BY <1>1, <1>2 DEF WorkInv, WorkCalls

\* The route of an expose matches its own host.
LEMMA InsertedMatches ==
    ASSUME NEW h \in Hosts, NEW g \in Hosts, NEW x
    PROVE  /\ MarkedTruly(InsertedRoute(h, x))
           /\ MatchesHost(InsertedRoute(h, x), g) => g = h
<1> DEFINE n == InsertedRoute(h, x)
<1>1. n.id = routeID(h) /\ n.match = <<h>>
  BY DEF InsertedRoute
<1> HIDE DEF n
<1>2. hostMatches(n) = {h} /\ hasHost(n) /\ rawRouteHost(n) = h
  <2>1. \A y : y \in ToSet(<<h>>) <=> y = h
    BY DEF ToSet
  <2> QED
    BY <1>1, <2>1 DEF hostMatches, hasHost, rawRouteHost
<1>3. MarkedTruly(n)
  BY <1>1, <1>2 DEF MarkedTruly
<1>4. ASSUME MatchesHost(n, g)
      PROVE  g = h
  <2>1. ZoneOf[g] \in Zones
    BY CaddyAssumption
  <2>2. ZoneOf[g] # h
    BY <2>1, CaddyAssumption
  <2> QED
    BY <1>2, <1>4, <2>2 DEF MatchesHost, routeHasExactHost, routeWildcardCovers, wildcardCovers
<1> QED
  BY <1>3, <1>4 DEF n

\* The PUT of an expose.
LEMMA PutWork ==
    ASSUME TypeInv, WorkInv, Doing("put"), PutOK(cfg, Head1.path, Head1.node)
    PROVE  /\ handlePutRoute(Routes, Head1.path, Head1.node) \in Seq(TrueNodes)
           /\ Untouched(handlePutRoute(Routes, Head1.path, Head1.node))
<1> DEFINE s == cfg.routes
           p == Head1.path
           n == Head1.node
<1>1. Head1 \in Calls /\ Head1.kind = "put" /\ job.todo # <<>> /\ JobShape(job)
  BY DoingIs
<1>2. p \in Path /\ n \in SubNode
  BY <1>1, CallIs
<1>3. WorkCall(Head1, job) /\ s \in Seq(TrueNodes) /\ s \in Seq(Node) /\ Routes = s
  BY <1>1, HeadWork
<1>4. p[Len(p)] = 1 /\ \E h \in job.add : n = InsertedRoute(h, job.gate)
  BY <1>1, <1>3 DEF WorkCall
<1>5. PICK h \in job.add : n = InsertedRoute(h, job.gate)
  BY <1>4
<1>6. h \in Hosts
  BY <1>1 DEF JobShape
<1>7. Len(p) = 2 => p[1] \in DOMAIN s /\ HasSub(s[p[1]])
  BY DEF PutOK
<1>8. MarkedTruly(n) /\ \A g \in Hosts : MatchesHost(n, g) => g = h
  BY <1>5, <1>6, InsertedMatches
<1> HIDE DEF s, p, n
<1>9. handlePutRoute(s, p, n) \in Seq(TrueNodes)
  BY <1>2, <1>3, <1>7, <1>8, PutTrue
<1>10. ASSUME NEW g \in Hosts \ Touched
       PROVE  Behaviour(handlePutRoute(s, p, n), g) = Behaviour(s, g)
  <2>1. ~ MatchesHost(n, g)
    BY <1>8 DEF Touched
  <2> QED
    BY <1>2, <1>3, <1>4, <1>7, <2>1, PutSame
<1> QED
  BY <1>3, <1>9, <1>10 DEF Untouched, s, p, n

\* The delete by @id.
LEMMA DeleteWork ==
    ASSUME TypeInv, WorkInv, Doing("delete"), WithId(Routes, routeID(Head1.host)) # {}
    PROVE  /\ deleteByPath(Routes, FirstOf(WithId(Routes, routeID(Head1.host)))) \in Seq(TrueNodes)
           /\ Untouched(deleteByPath(Routes, FirstOf(WithId(Routes, routeID(Head1.host)))))
<1> DEFINE s == cfg.routes
           h == Head1.host
           p == FirstOf(WithId(Routes, routeID(h)))
           n == NodeAt(s, p)
<1>1. Head1 \in Calls /\ Head1.kind = "delete" /\ job.todo # <<>> /\ JobShape(job)
  BY DoingIs
<1>2. WorkCall(Head1, job) /\ s \in Seq(TrueNodes) /\ s \in Seq(Node) /\ Routes = s
  BY <1>1, HeadWork
<1>3. h \in job.remove /\ h \in Hosts
  BY <1>1, <1>2, CallIs DEF WorkCall
<1>4. p \in Paths(s) /\ n.id = routeID(h)
  BY <1>2, WithIdIs
<1>5. n \in Node /\ MarkedTruly(n)
  BY <1>2, <1>4, TruePart, NodeAtIs
<1> HIDE DEF n, p, h
<1>6. IsOwned(n.id)
  BY <1>4 DEF IsOwned, routeID, NoId
<1>7. routeID(h) = routeID(rawRouteHost(n))
  BY <1>4, <1>5, <1>6 DEF MarkedTruly
<1>8. rawRouteHost(n) = h
  BY <1>7 DEF routeID
<1>9. h \in hostMatches(n)
  <2>1. h # NoId
    BY <1>3, CaddyAssumption
  <2>2. hasHost(n) /\ n.match[1] = h
    BY <1>8, <2>1 DEF rawRouteHost
  <2>3. n.match \in Seq(Patterns) /\ n.match # <<>>
    BY <1>5, <2>2, NodeIs DEF hasHost
  <2>4. 1 \in DOMAIN n.match
    BY <2>3
  <2> QED
    BY <2>2, <2>4 DEF hostMatches, ToSet
<1>10. hostMatches(n) \cap Touched # {}
  BY <1>3, <1>9 DEF Touched
<1>11. Untouched(deleteByPath(s, p))
  BY <1>2, <1>4, <1>10, DeleteUntouched DEF n
<1>12. deleteByPath(s, p) \in Seq(TrueNodes)
  BY <1>2, <1>4, DeleteTrue
<1> HIDE DEF s
<1> QED
  BY <1>2, <1>11, <1>12 DEF p, h

\* The delete by path, when no other client wrote since the path was found.
LEMMA DeletePathWork ==
    ASSUME TypeInv, WorkInv, Doing("delpath"), ValidPath(Routes, Head1.path)
    PROVE  /\ deleteByPath(Routes, Head1.path) \in Seq(TrueNodes)
           /\ job.clean => Untouched(deleteByPath(Routes, Head1.path))
<1> DEFINE s == cfg.routes
           p == Head1.path
<1>1. Head1 \in Calls /\ Head1.kind = "delpath" /\ job.todo # <<>>
  BY DoingIs
<1>2. s \in Seq(TrueNodes) /\ s \in Seq(Node) /\ Routes = s /\ (job.clean => Fits(Head1, s, job.remove))
  BY <1>1, HeadWork
<1>3. p \in Paths(s)
  BY <1>1, <1>2, CallIs, ValidPaths
<1>4. job.clean => hostMatches(NodeAt(s, p)) \cap Touched # {}
  BY <1>1, <1>2 DEF Fits, Touched
<1>5. job.clean => Untouched(deleteByPath(s, p))
  BY <1>2, <1>3, <1>4, DeleteUntouched
<1>6. deleteByPath(s, p) \in Seq(TrueNodes)
  BY <1>2, <1>3, DeleteTrue
<1> QED
  BY <1>2, <1>5, <1>6

\* The PATCH of an @id.
LEMMA PatchWork ==
    ASSUME TypeInv, WorkInv, Doing("patch"), PatchOK(cfg, Head1.path, Head1.node)
    PROVE  /\ setByPath(Routes, Head1.path, Head1.node) \in Seq(TrueNodes)
           /\ job.clean => AlikeTree(setByPath(Routes, Head1.path, Head1.node), cfg.routes)
           /\ job.clean => Untouched(setByPath(Routes, Head1.path, Head1.node))
<1> DEFINE s == cfg.routes
           p == Head1.path
           n == Head1.node
           t == setByPath(s, p, n)
<1>1. Head1 \in Calls /\ Head1.kind = "patch" /\ job.todo # <<>>
  BY DoingIs
<1>2. /\ s \in Seq(TrueNodes) /\ s \in Seq(Node) /\ Routes = s
      /\ WorkCall(Head1, job) /\ (job.clean => Fits(Head1, s, job.remove))
  BY <1>1, HeadWork
<1>3. p \in Path /\ CallNode(p, n) /\ TrueNode(n) /\ (job.clean => Alike(n, NodeAt(s, p)))
  BY <1>1, <1>2, CallIs DEF WorkCall, Fits
<1>4. p \in Paths(s)
  BY <1>2, <1>3, ValidPaths DEF PatchOK
<1> HIDE DEF p, n, s
<1>5. t \in Seq(TrueNodes) /\ t \in Seq(Node)
  BY <1>2, <1>3, <1>4, PatchTrue, PatchType
<1>6. job.clean => AlikeTree(t, s)
  BY <1>2, <1>3, <1>4, PatchAlike
<1> HIDE DEF t
<1>7. ASSUME AlikeTree(t, s), NEW g
      PROVE  Behaviour(t, g) = Behaviour(s, g)
  BY <1>2, <1>5, <1>7, AlikeSame
<1>8. job.clean => Untouched(t)
  BY <1>6, <1>7 DEF Untouched, s
<1> QED
  BY <1>2, <1>5, <1>6, <1>8 DEF t, s, p, n

\* A call that fails leaves nothing to call.
LEMMA FailWork ==
    ASSUME JobShape(job), Fail, cfg'.routes \in Seq(TrueNodes)
    PROVE  WorkInv'
<1>1. job'.todo = <<>>
  <2> DEFINE i == [job EXCEPT !.status = "error"]
  <2>1. i = [verb |-> job.verb, add |-> job.add, remove |-> job.remove, gate |-> job.gate, loc |-> job.loc,
             todo |-> job.todo, status |-> "error", clean |-> job.clean]
    BY DEF JobShape
  <2>2. job' = [i EXCEPT !.todo = <<>>]
    BY DEF Fail, i
  <2> HIDE DEF i
  <2> QED
    BY <2>1, <2>2
<1> QED
  BY <1>1, NoCalls DEF WorkInv

\* A call after which the job has only its other calls left.
LEMMA NextWork ==
    ASSUME TypeInv, WorkInv, job.status = "running", job.todo # <<>>, Then(<<>>),
           cfg'.routes \in Seq(TrueNodes), Tidy(cfg.routes, cfg'.routes)
    PROVE  WorkInv'
<1>1. <<>> \in Seq(Calls) /\ NextCalls(<<>>, cfg'.routes)
  BY DEF NextCalls
<1> QED
  BY <1>1, WorkGoesOn

\* One that leaves the routes alone and makes another call come first.
LEMMA MoreWork ==
    ASSUME TypeInv, WorkInv, job.status = "running", job.todo # <<>>, Head1.kind # "patch",
           cfg'.routes = cfg.routes, NEW t \in Seq(Calls), Then(t), NextCalls(t, cfg.routes)
    PROVE  WorkInv'
<1>1. cfg'.routes \in Seq(TrueNodes) /\ Tidy(cfg.routes, cfg'.routes) /\ NextCalls(t, cfg'.routes)
  BY DEF WorkInv, Tidy
<1> QED
  BY <1>1, WorkGoesOn

\* httpRouteInsertPath.
LEMMA LocateInsertWork ==
    ASSUME TypeInv, WorkInv, LocateInsert
    PROVE  WorkInv'
<1> DEFINE h == Head1.host
           p == httpRouteInsertPath(Routes, h)
           e == InsertedRoute(h, job.gate)
           k == At("put", p, e)
<1>1. /\ JobShape(job) /\ job.status = "running" /\ job.todo # <<>> /\ Head1 \in Calls
      /\ Head1.kind = "insert" /\ Routes \in Seq(Node) /\ cfg' = cfg
  BY DoingIs DEF LocateInsert
<1>2. WorkCall(Head1, job) /\ cfg.routes \in Seq(TrueNodes)
  BY <1>1, HeadWork
<1>3. h \in job.add /\ h \in Hosts
  BY <1>1, <1>2, CallIs DEF WorkCall
<1>4. CASE p = <<>>
  <2>1. Fail
    BY <1>4 DEF LocateInsert
  <2> QED
    BY <1>1, <1>2, <2>1, FailWork
<1>5. CASE p # <<>>
  <2>1. Then(<<k>>)
    BY <1>5 DEF LocateInsert
  <2>2. e \in SubNode
    BY <1>3, InsertedIs
  <2>3. p \in Path /\ (Len(p) = 2 => p[2] = 1) /\ (Len(p) = 1 => p = <<1>>)
    BY <1>1, <1>5, InsertPathIs
  <2>4. k.kind = "put" /\ k.path = p /\ k.node = e /\ k \in Calls
    BY <2>2, <2>3 DEF At, Calls
  <2>5. p[Len(p)] = 1
    BY <2>3, PathIs
  <2> HIDE DEF k, p
  <2>6. WorkCall(k, job)
    BY <1>3, <2>4, <2>5 DEF WorkCall
  <2>7. <<k>> \in Seq(Calls) /\ NextCalls(<<k>>, cfg.routes)
    BY <2>4, <2>6 DEF NextCalls
  <2> QED
    BY <1>1, <2>1, <2>7, MoreWork
<1> QED
  BY <1>4, <1>5

\* The PUT.
LEMMA InsertRouteWork ==
    ASSUME TypeInv, WorkInv, insertRoute
    PROVE  WorkInv' /\ (cfg'.routes = cfg.routes \/ Untouched(cfg'.routes))
<1>1. /\ JobShape(job) /\ job.status = "running" /\ job.todo # <<>> /\ Head1.kind = "put"
      /\ ConfigType(cfg) /\ Doing("put")
  BY DoingIs DEF insertRoute
<1> DEFINE s == handlePutRoute(Routes, Head1.path, Head1.node)
<1>2. CASE PutOK(cfg, Head1.path, Head1.node)
  <2>1. cfg' = WithRoutes(cfg, s) /\ Then(<<>>)
    BY <1>2 DEF insertRoute
  <2>2. s \in Seq(TrueNodes) /\ Untouched(s)
    BY <1>1, <1>2, PutWork
  <2> HIDE DEF s
  <2>3. s \in Seq(Node)
    BY <2>2, TruePart
  <2>4. cfg'.routes = s
    BY <1>1, <2>1, <2>3, WithRoutesType
  <2>5. Tidy(cfg.routes, cfg'.routes)
    BY <1>1 DEF Tidy
  <2> QED
    BY <1>1, <2>1, <2>2, <2>4, <2>5, NextWork
<1>3. CASE ~ PutOK(cfg, Head1.path, Head1.node)
  <2>1. cfg' = cfg /\ Fail
    BY <1>3 DEF insertRoute
  <2>2. cfg'.routes \in Seq(TrueNodes)
    BY <2>1 DEF WorkInv
  <2> QED
    BY <1>1, <2>1, <2>2, FailWork
<1> QED
  BY <1>2, <1>3

\* The delete by @id.
LEMMA DeleteRouteWork ==
    ASSUME TypeInv, WorkInv, deleteRoute
    PROVE  WorkInv' /\ (cfg'.routes = cfg.routes \/ Untouched(cfg'.routes))
<1> DEFINE h == Head1.host
           own == WithId(Routes, routeID(h))
           s == deleteByPath(Routes, FirstOf(own))
           k == SweepCall(h, 0)
<1>1. /\ JobShape(job) /\ job.status = "running" /\ job.todo # <<>> /\ Head1.kind = "delete"
      /\ Head1 \in Calls /\ ConfigType(cfg) /\ Doing("delete")
  BY DoingIs DEF deleteRoute
<1>2. WorkCall(Head1, job) /\ cfg.routes \in Seq(TrueNodes)
  BY <1>1, HeadWork
<1>3. h \in job.remove /\ h \in Hosts
  BY <1>1, <1>2, CallIs DEF WorkCall
<1>4. CASE own # {}
  <2>1. cfg' = WithoutL4(WithRoutes(cfg, s), h) /\ Then(<<>>)
    BY <1>4 DEF deleteRoute, deleteByID
  <2>2. s \in Seq(TrueNodes) /\ Untouched(s)
    BY <1>1, <1>4, DeleteWork
  <2> HIDE DEF s, h
  <2>3. s \in Seq(Node)
    BY <2>2, TruePart
  <2>4. ConfigType(WithRoutes(cfg, s)) /\ WithRoutes(cfg, s).routes = s
    BY <1>1, <2>3, WithRoutesType
  <2>5. cfg'.routes = s
    BY <2>1, <2>4, WithoutL4Type
  <2>6. Tidy(cfg.routes, cfg'.routes)
    BY <1>1 DEF Tidy
  <2> QED
    BY <1>1, <2>1, <2>2, <2>5, <2>6, NextWork
<1>5. CASE own = {} /\ Durable
  <2>1. cfg' = cfg /\ Then(<<k>>)
    BY <1>5 DEF deleteRoute, deleteByID
  <2>2. k.kind = "sweep" /\ k.host = h /\ k \in Calls
    BY <1>3 DEF SweepCall, Calls
  <2> HIDE DEF k
  <2>3. WorkCall(k, job)
    BY <1>3, <2>2 DEF WorkCall
  <2>4. <<k>> \in Seq(Calls) /\ NextCalls(<<k>>, cfg.routes)
    BY <2>2, <2>3 DEF NextCalls
  <2> QED
    BY <1>1, <2>1, <2>4, MoreWork
<1>6. CASE own = {} /\ ~ Durable
  <2>1. cfg' = WithoutL4(cfg, h) /\ Then(<<>>)
    BY <1>6 DEF deleteRoute, deleteByID
  <2> HIDE DEF h
  <2>2. cfg'.routes = cfg.routes
    BY <1>1, <2>1, WithoutL4Type
  <2>3. Tidy(cfg.routes, cfg'.routes)
    BY <2>2 DEF Tidy
  <2> QED
    BY <1>1, <1>2, <2>1, <2>2, <2>3, NextWork
<1> QED
  BY <1>4, <1>5, <1>6

\* The route the sweep finds is one of the host.
LEMMA FoundMatches ==
    ASSUME NEW s \in Seq(Node), NEW h, findHostRoutePath(s, h) # <<>>
    PROVE  findHostRoutePath(s, h) \in Paths(s) /\ h \in hostMatches(NodeAt(s, findHostRoutePath(s, h)))
<1>1. FlatFor(s, h) \in SUBSET Paths(s) /\ NestedFor(s, h) \in SUBSET Paths(s) /\ Paths(s) \in SUBSET Path
  BY PathsFinite DEF FlatFor, NestedFor
<1>2. FlatFor(s, h) # {} => FirstOf(FlatFor(s, h)) \in FlatFor(s, h)
  BY <1>1, FirstIsIn
<1>3. NestedFor(s, h) # {} => FirstOf(NestedFor(s, h)) \in NestedFor(s, h)
  BY <1>1, FirstIsIn
<1>4. findHostRoutePath(s, h) \in FlatFor(s, h) \cup NestedFor(s, h)
  BY <1>2, <1>3 DEF findHostRoutePath
<1>5. \A p \in FlatFor(s, h) \cup NestedFor(s, h) : p \in Paths(s) /\ h \in hostMatches(NodeAt(s, p))
  BY DEF FlatFor, NestedFor, routeHasExactHost
<1> QED
  BY <1>4, <1>5

\* The sweep.
LEMMA SweepWork ==
    ASSUME TypeInv, WorkInv, Sweep
    PROVE  WorkInv' /\ cfg'.routes = cfg.routes
<1> DEFINE h == Head1.host
           p == findHostRoutePath(Routes, h)
           d == [kind |-> "delpath", path |-> p]
           k == SweepCall(h, Head1.n + 1)
<1>1. /\ JobShape(job) /\ job.status = "running" /\ job.todo # <<>> /\ Head1.kind = "sweep"
      /\ Head1 \in Calls /\ ConfigType(cfg) /\ Routes \in Seq(Node) /\ Routes = cfg.routes
  BY DoingIs DEF Sweep
<1>2. WorkCall(Head1, job) /\ cfg.routes \in Seq(TrueNodes)
  BY <1>1, HeadWork
<1>3. h \in job.remove /\ h \in Hosts /\ Head1.n \in Nat
  BY <1>1, <1>2, CallIs DEF WorkCall
<1>4. \/ cfg' = cfg /\ Fail
      \/ cfg' = WithoutL4(cfg, h) /\ Then(<<>>)
      \/ p # <<>> /\ cfg' = cfg /\ Then(<<d, k>>)
  BY DEF Sweep
<1>5. CASE cfg' = cfg /\ Fail
  BY <1>1, <1>2, <1>5, FailWork
<1>6. CASE cfg' = WithoutL4(cfg, h) /\ Then(<<>>)
  <2>1. cfg'.routes = cfg.routes
    BY <1>1, <1>6, WithoutL4Type
  <2>2. Tidy(cfg.routes, cfg'.routes)
    BY <2>1 DEF Tidy
  <2> QED
    BY <1>1, <1>2, <1>6, <2>1, <2>2, NextWork
<1>7. CASE p # <<>> /\ cfg' = cfg /\ Then(<<d, k>>)
  <2>1. p \in Paths(cfg.routes) /\ h \in hostMatches(NodeAt(cfg.routes, p))
    BY <1>1, <1>7, FoundMatches
  <2>2. p \in Path
    BY <1>1, <2>1, PathsAre
  <2> HIDE DEF p
  <2>3. d.kind = "delpath" /\ d.path = p /\ d \in Calls
    BY <2>2 DEF Calls
  <2>4. k.kind = "sweep" /\ k.host = h /\ k \in Calls
    BY <1>3 DEF SweepCall, Calls
  <2> HIDE DEF d, k
  <2>5. WorkCall(d, job) /\ WorkCall(k, job)
    BY <1>3, <2>3, <2>4 DEF WorkCall
  <2>6. Fits(d, cfg.routes, job.remove)
    BY <1>3, <2>1, <2>3 DEF Fits
  <2>7. <<d, k>> \in Seq(Calls) /\ NextCalls(<<d, k>>, cfg.routes)
    <3> DEFINE t == <<d, k>>
    <3>1. t \in Seq(Calls) /\ DOMAIN t = {1, 2} /\ t[1] = d /\ t[2] = k
      BY <2>3, <2>4
    <3> HIDE DEF t
    <3>2. NextCalls(t, cfg.routes)
      BY <2>3, <2>4, <2>5, <2>6, <3>1 DEF NextCalls
    <3> QED
      BY <3>1, <3>2 DEF t
  <2> QED
    BY <1>1, <1>7, <2>7, MoreWork
<1> QED
  BY <1>4, <1>5, <1>6, <1>7

\* The delete by path.
LEMMA HandleDeletePathWork ==
    ASSUME TypeInv, WorkInv, handleDeletePath
    PROVE  WorkInv' /\ (job.clean => cfg'.routes = cfg.routes \/ Untouched(cfg'.routes))
<1> DEFINE s == deleteByPath(Routes, Head1.path)
<1>1. /\ JobShape(job) /\ job.status = "running" /\ job.todo # <<>> /\ Head1.kind = "delpath"
      /\ ConfigType(cfg) /\ Doing("delpath") /\ Then(<<>>)
  BY DoingIs DEF handleDeletePath
<1>2. CASE ValidPath(Routes, Head1.path)
  <2>1. cfg' = WithRoutes(cfg, s)
    BY <1>2 DEF handleDeletePath
  <2>2. s \in Seq(TrueNodes) /\ (job.clean => Untouched(s))
    BY <1>1, <1>2, DeletePathWork
  <2> HIDE DEF s
  <2>3. s \in Seq(Node)
    BY <2>2, TruePart
  <2>4. cfg'.routes = s
    BY <1>1, <2>1, <2>3, WithRoutesType
  <2>5. Tidy(cfg.routes, cfg'.routes)
    BY <1>1 DEF Tidy
  <2> QED
    BY <1>1, <2>2, <2>4, <2>5, NextWork
<1>3. CASE ~ ValidPath(Routes, Head1.path)
  <2>1. cfg' = cfg
    BY <1>3 DEF handleDeletePath
  <2>2. cfg'.routes \in Seq(TrueNodes) /\ Tidy(cfg.routes, cfg'.routes)
    BY <2>1 DEF WorkInv, Tidy
  <2> QED
    BY <1>1, <2>1, <2>2, NextWork
<1> QED
  BY <1>2, <1>3

\* The PATCH.
LEMMA PatchRouteWork ==
    ASSUME TypeInv, WorkInv, handlePatchRoute
    PROVE  WorkInv' /\ (job.clean => cfg'.routes = cfg.routes \/ Untouched(cfg'.routes))
<1> DEFINE s == setByPath(Routes, Head1.path, Head1.node)
<1>1. /\ JobShape(job) /\ job.status = "running" /\ job.todo # <<>> /\ ConfigType(cfg) /\ Doing("patch")
  BY DoingIs DEF handlePatchRoute
<1>2. CASE PatchOK(cfg, Head1.path, Head1.node)
  <2>1. cfg' = WithRoutes(cfg, s) /\ Then(<<>>)
    BY <1>2 DEF handlePatchRoute
  <2>2. /\ s \in Seq(TrueNodes) /\ (job.clean => AlikeTree(s, cfg.routes))
        /\ job.clean => Untouched(s)
    BY <1>1, <1>2, PatchWork
  <2> HIDE DEF s
  <2>3. s \in Seq(Node)
    BY <2>2, TruePart
  <2>4. cfg'.routes = s
    BY <1>1, <2>1, <2>3, WithRoutesType
  <2>5. Tidy(cfg.routes, cfg'.routes)
    BY <2>2, <2>4 DEF Tidy
  <2> QED
    BY <1>1, <2>1, <2>2, <2>4, <2>5, NextWork
<1>3. CASE ~ PatchOK(cfg, Head1.path, Head1.node)
  <2>1. cfg' = cfg /\ Fail
    BY <1>3 DEF handlePatchRoute
  <2>2. cfg'.routes \in Seq(TrueNodes)
    BY <2>1 DEF WorkInv
  <2> QED
    BY <1>1, <2>1, <2>2, FailWork
<1> QED
  BY <1>2, <1>3

\* POST /load, which is of a job of its own.
LEMMA LoadWork ==
    ASSUME TypeInv, WorkInv, load
    PROVE  WorkInv' /\ job.verb = "load"
<1> DEFINE T == Head1.target
           s == renderCaddyfile(T)
<1>1. /\ JobShape(job) /\ job.status = "running" /\ job.todo # <<>> /\ Head1.kind = "load"
      /\ Head1 \in Calls /\ ConfigType(cfg)
  BY DoingIs DEF load
<1>2. job.verb = "load" /\ cfg.routes \in Seq(TrueNodes)
  <2>1. WorkCall(Head1, job) /\ cfg.routes \in Seq(TrueNodes)
    BY <1>1, HeadWork
  <2> QED
    BY <1>1, <2>1 DEF WorkCall
<1>3. T \in SUBSET Targets
  BY <1>1, CallIs
<1>4. CASE LoadOK(T)
  <2>1. cfg' = [WithRoutes(cfg, s) EXCEPT !.sibling = <<>>, !.l4 = <<>>] /\ Then(<<>>)
    BY <1>4 DEF load
  <2>2. s \in Seq(Node) /\ \A i \in DOMAIN s : s[i].id = NoId /\ s[i].subs = <<>>
    BY <1>3, LoadType
  <2> HIDE DEF s, T
  <2>3. ASSUME NEW i \in DOMAIN s
        PROVE  s[i] \in TrueNodes
    <3>1. s[i] \in Node /\ ~ IsOwned(s[i].id) /\ DOMAIN s[i].subs = {}
      BY <2>2 DEF IsOwned
    <3> QED
      BY <3>1 DEF TrueNodes, TrueNode, MarkedTruly
  <2>4. s \in Seq(TrueNodes)
    BY <2>2, <2>3
  <2>5. WithRoutes(cfg, s).routes = s /\ ConfigType(WithRoutes(cfg, s))
    BY <1>1, <2>2, WithRoutesType
  <2>6. cfg'.routes = s
    <3> DEFINE c == WithRoutes(cfg, s)
               e == [c EXCEPT !.sibling = <<>>]
    <3>1. cfg' = [e EXCEPT !.l4 = <<>>]
      BY <2>1
    <3>2. c.routes = s /\ ConfigType(c)
      BY <2>5
    <3> HIDE DEF c
    <3>3. DOMAIN c = {"routes", "sibling", "l4", "admin", "granular", "ops"}
      BY <3>2 DEF ConfigType
    <3>4. e.routes = s /\ DOMAIN e = DOMAIN c
      BY <3>2, <3>3
    <3> HIDE DEF e
    <3> QED
      BY <3>1, <3>3, <3>4
  <2>7. Tidy(cfg.routes, cfg'.routes)
    BY <1>1 DEF Tidy
  <2> QED
    BY <1>1, <1>2, <2>1, <2>4, <2>6, <2>7, NextWork
<1>5. CASE ~ LoadOK(T)
  <2>1. cfg' = cfg /\ Fail
    BY <1>5 DEF load
  <2> QED
    BY <1>1, <1>2, <2>1, FailWork
<1> QED
  BY <1>4, <1>5

\* The route of the layer4 app.
LEMMA InsertLayer4Work ==
    ASSUME TypeInv, WorkInv, insertLayer4Route
    PROVE  WorkInv' /\ cfg'.routes = cfg.routes
<1>1. /\ JobShape(job) /\ job.status = "running" /\ job.todo # <<>> /\ ConfigType(cfg)
  BY DoingIs DEF insertLayer4Route
<1>2. \A l : [cfg EXCEPT !.l4 = l].routes = cfg.routes
  BY <1>1 DEF ConfigType
<1>3. cfg'.routes = cfg.routes /\ Then(<<>>)
  BY <1>2 DEF insertLayer4Route
<1>4. cfg'.routes \in Seq(TrueNodes) /\ Tidy(cfg.routes, cfg'.routes)
  BY <1>3 DEF WorkInv, Tidy
<1> QED
  BY <1>1, <1>3, <1>4, NextWork

\* The end of an operation.
LEMMA FinishWork ==
    ASSUME TypeInv, WorkInv, Finish
    PROVE  WorkInv' /\ cfg' = cfg
<1>1. JobShape(job) /\ job.todo = <<>> /\ cfg' = cfg
  BY DEF TypeInv, Finish
<1>2. job' = [job EXCEPT !.status = "done"] \/ job' = [job EXCEPT !.status = "error"]
  BY Zenon DEF Finish
<1>3. job'.todo = <<>>
  BY <1>1, <1>2 DEF JobShape
<1> QED
  BY <1>1, <1>3, NoCalls DEF WorkInv

\* A call that fails, before or after it took effect.
LEMMA TroubleWork ==
    ASSUME TypeInv, WorkInv, CallFails \/ LandsThenFails
    PROVE  WorkInv' /\ (job.clean => cfg'.routes = cfg.routes \/ Untouched(cfg'.routes))
<1>1. JobShape(job) /\ Fail /\ ConfigType(cfg) /\ cfg.routes \in Seq(TrueNodes)
  BY DEF TypeInv, CallFails, LandsThenFails, WorkInv
<1>2. cfg' = cfg \/ \E s \in Seq(TrueNodes) : cfg' = WithRoutes(cfg, s) /\ (job.clean => Untouched(s))
  <2>1. CASE CallFails
    BY <2>1 DEF CallFails
  <2>2. CASE /\ Doing("put") /\ PutOK(cfg, Head1.path, Head1.node)
             /\ cfg' = WithRoutes(cfg, handlePutRoute(Routes, Head1.path, Head1.node))
    BY <2>2, PutWork
  <2>3. CASE /\ Doing("patch") /\ PatchOK(cfg, Head1.path, Head1.node)
             /\ cfg' = WithRoutes(cfg, setByPath(Routes, Head1.path, Head1.node))
    BY <2>3, PatchWork
  <2>4. CASE /\ Doing("delete") /\ WithId(Routes, routeID(Head1.host)) # {}
             /\ cfg' = WithRoutes(cfg, deleteByPath(Routes, FirstOf(WithId(Routes, routeID(Head1.host)))))
    BY <2>4, DeleteWork
  <2> QED
    BY <2>1, <2>2, <2>3, <2>4 DEF LandsThenFails
<1>3. CASE cfg' = cfg
  BY <1>1, <1>3, FailWork
<1>4. CASE \E s \in Seq(TrueNodes) : cfg' = WithRoutes(cfg, s) /\ (job.clean => Untouched(s))
  <2>1. PICK s \in Seq(TrueNodes) : cfg' = WithRoutes(cfg, s) /\ (job.clean => Untouched(s))
    BY <1>4
  <2>2. s \in Seq(Node)
    BY TruePart
  <2>3. cfg'.routes = s
    BY <1>1, <2>1, <2>2, WithRoutesType
  <2> QED
    BY <1>1, <2>1, <2>3, FailWork
<1> QED
  BY <1>2, <1>3, <1>4

\* Another client, after which the job can no longer trust its paths.
LEMMA OtherClientWork ==
    ASSUME TypeInv, WorkInv, OtherClient
    PROVE  WorkInv' /\ ~ job'.clean
<1>1. /\ JobShape(job) /\ ConfigType(cfg) /\ cfg.routes \in Seq(TrueNodes) /\ Routes = cfg.routes
      /\ cfg.routes \in Seq(Node)
  BY DEF TypeInv, WorkInv, Routes, ConfigType
<1>2. job' = [job EXCEPT !.clean = FALSE]
  BY DEF OtherClient
<1>3. /\ job'.verb = job.verb /\ job'.add = job.add /\ job'.remove = job.remove /\ job'.gate = job.gate
      /\ job'.todo = job.todo /\ job'.clean = FALSE
  BY <1>1, <1>2 DEF JobShape
<1>4. \E s \in Seq(TrueNodes) : cfg' = WithRoutes(cfg, s)
  <2>1. CASE \E n \in Inserted : cfg' = WithRoutes(cfg, <<n>> \o Routes)
    <3>1. PICK n \in Inserted : cfg' = WithRoutes(cfg, <<n>> \o Routes)
      BY <2>1
    <3>2. n \in TrueNodes
      BY CaddyAssumption DEF TrueNodes, TrueNode
    <3>3. <<n>> \in Seq(TrueNodes)
      BY <3>2
    <3>4. <<n>> \o Routes \in Seq(TrueNodes)
      BY <1>1, <3>3, Joined
    <3> QED
      BY <3>1, <3>4
  <2>2. CASE \E i \in DOMAIN Routes : cfg' = WithRoutes(cfg, RemoveAt(Routes, i))
    <3>1. PICK i \in DOMAIN Routes : cfg' = WithRoutes(cfg, RemoveAt(Routes, i))
      BY <2>2
    <3>2. RemoveAt(Routes, i) \in Seq(TrueNodes)
      BY <1>1, RemovedUp
    <3> QED
      BY <3>1, <3>2
  <2> QED
    BY <2>1, <2>2 DEF OtherClient
<1>5. cfg'.routes \in Seq(TrueNodes)
  <2>1. PICK s \in Seq(TrueNodes) : cfg' = WithRoutes(cfg, s)
    BY <1>4
  <2>2. s \in Seq(Node)
    BY TruePart
  <2>3. cfg'.routes = s
    BY <1>1, <2>1, <2>2, WithRoutesType
  <2> QED
    BY <2>3
<1>6. \A k : WorkCall(k, job') <=> WorkCall(k, job)
  BY <1>3 DEF WorkCall
<1>7. WorkCalls(job', cfg'.routes)
  BY <1>3, <1>6 DEF WorkInv, WorkCalls
<1> QED
  BY <1>3, <1>5, <1>7 DEF WorkInv

\* The initial states.
LEMMA InitWork == Init => WorkInv
<1> SUFFICES ASSUME Init
             PROVE  WorkInv
  OBVIOUS
<1>1. PICK s \in Shapes : \E r \in UNION {[1..n -> Nodes] : n \in 0..MaxRoutes} :
          cfg = [routes |-> r, sibling |-> s.sibling, l4 |-> s.l4, admin |-> s.admin,
                 granular |-> s.granular, ops |-> s.ops]
  BY DEF Init
<1>2. PICK r \in UNION {[1..n -> Nodes] : n \in 0..MaxRoutes} :
          cfg = [routes |-> r, sibling |-> s.sibling, l4 |-> s.l4, admin |-> s.admin,
                 granular |-> s.granular, ops |-> s.ops]
  BY <1>1
<1>3. PICK n \in 0 .. MaxRoutes : r \in [1 .. n -> Nodes]
  OBVIOUS
<1>4. n \in Nat /\ Nodes \subseteq TrueNodes
  BY CaddyAssumption DEF TrueNodes, TrueNode
<1>5. r \in Seq(TrueNodes)
  BY <1>3, <1>4
<1>6. job.todo = <<>>
  BY DEF Init, Idle, Job
<1> QED
  BY <1>2, <1>5, <1>6, NoCalls DEF WorkInv

\* Every step keeps the invariant, and what the calls of a job do to the routes,
\* when no other client came between, they do to the job's own hosts.
LEMMA StepWork ==
    ASSUME TypeInv, WorkInv, [Next]_vars
    PROVE  /\ WorkInv'
           /\ job.status = "running" /\ job.clean /\ job'.clean /\ job.verb # "load" =>
                 cfg'.routes = cfg.routes \/ Untouched(cfg'.routes)
<1>1. CASE /\ job.status # "running" /\ jobs < cfg.ops
           /\ Apply \/ ApplyLayer4 \/ Import \/ Ack \/ Unack \/ AckRoute \/ UnackRoute
  BY <1>1, BeginWork
<1>2. CASE Step
  <2>1. CASE LocateInsert
    BY <2>1, LocateInsertWork DEF LocateInsert
  <2>2. CASE Sweep
    BY <2>2, SweepWork
  <2>3. CASE insertRoute
    BY <2>3, InsertRouteWork
  <2>4. CASE insertLayer4Route
    BY <2>4, InsertLayer4Work
  <2>5. CASE deleteRoute
    BY <2>5, DeleteRouteWork
  <2>6. CASE handleDeletePath
    BY <2>6, HandleDeletePathWork
  <2>7. CASE handlePatchRoute
    BY <2>7, PatchRouteWork
  <2>8. CASE load
    BY <2>8, LoadWork
  <2>9. CASE Finish
    BY <2>9, FinishWork
  <2> QED
    BY <1>2, <2>1, <2>2, <2>3, <2>4, <2>5, <2>6, <2>7, <2>8, <2>9 DEF Step
<1>3. CASE CallFails \/ LandsThenFails
  BY <1>3, TroubleWork
<1>4. CASE OtherClient
  BY <1>4, OtherClientWork
<1>5. CASE UNCHANGED vars
  <2>1. cfg' = cfg /\ job' = job
    BY <1>5 DEF vars
  <2> QED
    BY <2>1 DEF WorkInv
<1> QED
  BY <1>1, <1>2, <1>3, <1>4, <1>5 DEF Next

\* The calls a job has left are about its own hosts, a PATCH or a DELETE by path
\* finds what its job read there as long as no other client wrote, and crenel's
\* @id of a host is only on routes of that host (applyGranular, adoptWalk,
\* findHostRoutePath, deleteByID).
THEOREM WorkInvariant == Spec => [](TypeInv /\ WorkInv)
<1>1. Init => TypeInv /\ WorkInv
  BY InitType, InitWork
<1>2. TypeInv /\ WorkInv /\ [Next]_vars => (TypeInv /\ WorkInv)'
  BY StepType, StepWork
<1> QED
  BY <1>1, <1>2, PTL DEF Spec

\* No call of crenel changes what the data plane does for a host its job is not
\* about, unless one route serves both: the routes an apply puts or deletes match
\* only its own hosts, and a PATCH changes @ids only (applyGranular, Adopt, Ack).
THEOREM OthersKept == Spec => OthersUnaffected
<1>1. TypeInv /\ WorkInv /\ [Next]_vars =>
         [job.status = "running" /\ job.clean /\ job'.clean /\ job.verb # "load"
          /\ cfg'.routes # cfg.routes =>
            \A g \in Hosts \ Touched :
               Grouped(cfg.routes, g) \/ Behaviour(cfg'.routes, g) = Behaviour(cfg.routes, g)]_vars
  BY StepWork DEF Untouched
<1> QED
  BY <1>1, WorkInvariant, PTL DEF Spec, OthersUnaffected
=============================================================================
