---------------------------- MODULE TopologyProofs ----------------------------
(***************************************************************************)
(* Chains of edges: what the recursive function Hop of module Topology     *)
(* computes, for any number of edges.                                      *)
(***************************************************************************)
EXTENDS Topology, FiniteSetTheorems, WellFoundedInduction, TLAPS

-----------------------------------------------------------------------------
(***************************************************************************)
(* Chains: what the recursive function Hop computes.                       *)
(***************************************************************************)
\* A set of numbers that is not empty has a least one.
LEMMA LeastNat ==
    ASSUME NEW T \in SUBSET Nat, T # {}
    PROVE  \E n \in T : \A m \in T : n <= m
<1>1. PICK n \in T : \A m \in T : ~ (<<m, n>> \in OpToRel(<, Nat))
  BY NatLessThanWellFounded, WFMin
<1>2. \A m \in T : ~ (m < n)
  BY <1>1 DEF OpToRel
<1> QED
  BY <1>2

\* One hop further.
Onward(g) == [e \in Edges |-> IF g[e] = NoEdge THEN NoEdge ELSE Downstream[g[e]]]

\* f lists the hops up to the n-th.
HopsUpTo(n, f) == f = [k \in 0..n |-> IF k = 0 THEN [e \in Edges |-> e] ELSE Onward(f[k-1])]

\* There is such a function for every n.
LEMMA HopsExist == \A n \in Nat : \E f : HopsUpTo(n, f)
<1> DEFINE T == {n \in Nat : ~ \E f : HopsUpTo(n, f)}
<1> SUFFICES ASSUME T # {} PROVE FALSE
  OBVIOUS
<1>1. PICK n \in T : \A m \in T : n <= m
  <2>1. T \in SUBSET Nat
    OBVIOUS
  <2> HIDE DEF T
  <2> QED
    BY <2>1, LeastNat
<1>2. n \in Nat /\ ~ \E f : HopsUpTo(n, f)
  BY <1>1
<1>3. CASE n = 0
  <2> DEFINE f == [k \in 0..0 |-> [e \in Edges |-> e]]
  <2>1. f = [k \in 0..0 |-> IF k = 0 THEN [e \in Edges |-> e] ELSE Onward(f[k-1])]
    OBVIOUS
  <2> HIDE DEF f
  <2> QED
    BY <1>2, <1>3, <2>1 DEF HopsUpTo
<1>4. CASE n # 0
  <2>1. n - 1 \in Nat /\ n - 1 \notin T
    BY <1>1, <1>2, <1>4
  <2>2. PICK f : HopsUpTo(n - 1, f)
    BY <2>1
  <2> DEFINE g == [k \in 0..n |-> IF k = n THEN Onward(f[n-1]) ELSE f[k]]
  <2>3. \A k \in 0..n-1 : f[k] = IF k = 0 THEN [e \in Edges |-> e] ELSE Onward(f[k-1])
    BY <2>2 DEF HopsUpTo
  <2>4. ASSUME NEW k \in 0..n
        PROVE  g[k] = IF k = 0 THEN [e \in Edges |-> e] ELSE Onward(g[k-1])
    <3>1. CASE k = n
      BY <1>2, <1>4, <3>1
    <3>2. CASE k # n
      <4>1. k \in 0..n-1 /\ g[k] = f[k] /\ (k # 0 => g[k-1] = f[k-1])
        BY <1>2, <3>2
      <4> HIDE DEF g
      <4> QED
        BY <2>3, <4>1
    <3> QED
      BY <3>1, <3>2
  <2>5. g = [k \in 0..n |-> g[k]]
    OBVIOUS
  <2> HIDE DEF g
  <2>6. HopsUpTo(n, g)
    BY <2>4, <2>5 DEF HopsUpTo
  <2> QED
    BY <1>2, <2>6
<1> QED
  BY <1>3, <1>4

\* The number of edges is a number.
LEMMA EdgesCounted == N \in Nat
  BY TopologyAssumption, FS_CardinalityType DEF N

\* Hop satisfies its defining equation.
LEMMA HopEquation ==
    ASSUME NEW k \in 0..N
    PROVE  Hop[k] = IF k = 0 THEN [e \in Edges |-> e] ELSE Onward(Hop[k-1])
<1>1. \E f : HopsUpTo(N, f)
  BY HopsExist, EdgesCounted
<1>2. Hop = CHOOSE f : HopsUpTo(N, f)
  BY DEF Hop, HopsUpTo, Onward
<1>3. HopsUpTo(N, Hop)
  BY <1>1, <1>2
<1> QED
  BY <1>3 DEF HopsUpTo

\* No hop stays at the edge.
LEMMA HopZero == \A e \in Edges : Hop[0][e] = e
<1>1. 0 \in 0..N
  BY EdgesCounted
<1>2. Hop[0] = [e \in Edges |-> e]
  BY <1>1, HopEquation
<1> QED
  BY <1>2

\* A further hop follows Downstream.
LEMMA HopNext ==
    ASSUME NEW k \in 0..N, k # 0, NEW e \in Edges
    PROVE  Hop[k][e] = IF Hop[k-1][e] = NoEdge THEN NoEdge ELSE Downstream[Hop[k-1][e]]
<1>1. Hop[k] = Onward(Hop[k-1])
  BY HopEquation
<1> QED
  BY <1>1 DEF Onward

\* A hop leads to an edge, or the chain has ended.
LEMMA HopType == \A k \in 0..N, e \in Edges : Hop[k][e] \in Edges \cup {NoEdge}
<1> DEFINE T == {k \in 0..N : \E e \in Edges : Hop[k][e] \notin Edges \cup {NoEdge}}
<1> SUFFICES ASSUME T # {} PROVE FALSE
  OBVIOUS
<1>0. N \in Nat
  BY EdgesCounted
<1>1. PICK k \in T : \A m \in T : k <= m
  <2>1. T \in SUBSET Nat
    BY <1>0
  <2> HIDE DEF T
  <2> QED
    BY <2>1, LeastNat
<1>2. PICK e \in Edges : Hop[k][e] \notin Edges \cup {NoEdge}
  BY <1>1
<1>3. k \in 0..N /\ k \in Nat
  BY <1>0, <1>1
<1>4. k # 0
  BY <1>2, HopZero
<1>5. k - 1 \in 0..N /\ k - 1 \notin T
  BY <1>0, <1>1, <1>3, <1>4
<1>6. Hop[k-1][e] \in Edges \cup {NoEdge}
  BY <1>5
<1>7. Hop[k][e] = IF Hop[k-1][e] = NoEdge THEN NoEdge ELSE Downstream[Hop[k-1][e]]
  BY <1>3, <1>4, HopNext
<1> QED
  BY <1>2, <1>6, <1>7, TopologyAssumption

\* i hops after j hops are i + j hops; a chain that has ended stays so.
LEMMA HopsCompose ==
    ASSUME NEW e \in Edges, NEW j \in 0..N
    PROVE  \A i \in 0..N-j :
             Hop[i+j][e] = IF Hop[j][e] = NoEdge THEN NoEdge ELSE Hop[i][Hop[j][e]]
<1> DEFINE b == Hop[j][e]
           P(i) == Hop[i+j][e] = IF b = NoEdge THEN NoEdge ELSE Hop[i][b]
           T == {i \in 0..N-j : ~ P(i)}
<1> SUFFICES ASSUME T # {} PROVE FALSE
  OBVIOUS
<1>0. N \in Nat /\ j \in Nat /\ b \in Edges \cup {NoEdge}
  BY EdgesCounted, HopType
<1>1. PICK i \in T : \A m \in T : i <= m
  <2>1. T \in SUBSET Nat
    BY <1>0
  <2> HIDE DEF T
  <2> QED
    BY <2>1, LeastNat
<1>2. i \in 0..N-j /\ ~ P(i) /\ i \in Nat
  BY <1>0, <1>1
<1>3. CASE i = 0
  <2>1. b # NoEdge => Hop[0][b] = b
    BY <1>0, HopZero
  <2>2. i + j = j
    BY <1>0, <1>3
  <2> QED
    BY <1>2, <1>3, <2>1, <2>2
<1>4. CASE i # 0
  <2>1. i - 1 \in 0..N-j /\ i - 1 \notin T
    BY <1>0, <1>1, <1>2, <1>4
  <2>2. P(i - 1)
    BY <2>1
  <2>3. i \in 0..N /\ i + j \in 0..N /\ i + j # 0 /\ (i + j) - 1 = (i - 1) + j
    BY <1>0, <1>2, <1>4
  <2>4. Hop[i+j][e] = IF Hop[(i+j)-1][e] = NoEdge THEN NoEdge ELSE Downstream[Hop[(i+j)-1][e]]
    BY <2>3, HopNext
  <2>5. b # NoEdge => Hop[i][b] = IF Hop[i-1][b] = NoEdge THEN NoEdge ELSE Downstream[Hop[i-1][b]]
    BY <1>0, <1>4, <2>3, HopNext
  <2> HIDE DEF b
  <2>6. P(i)
    BY <2>2, <2>3, <2>4, <2>5
  <2> QED
    BY <1>2, <2>6
<1> QED
  BY <1>3, <1>4

\* Every edge of a chain between a participating front and the edge that serves
\* the host participates itself.
LEMMA ChainParticipates ==
    ASSUME NEW e \in Edges, NEW s, NEW k \in 0..N, Hop[k][e] # NoEdge, s \in Fronts[Hop[k][e]],
           k # 0 => ~ internalScoped(s), NEW j \in 0..k
    PROVE  Hop[j][e] \in Edges /\ roleFor(Hop[j][e], s) # "none"
<1> DEFINE b == Hop[j][e]
<1>0. N \in Nat /\ k \in Nat /\ j \in Nat /\ j \in 0..N /\ k - j \in 0..N-j /\ k - j \in 0..N
      /\ (k - j) + j = k
  BY EdgesCounted
<1>1. Hop[(k-j)+j][e] = IF b = NoEdge THEN NoEdge ELSE Hop[k-j][b]
  BY <1>0, HopsCompose
<1>2. b # NoEdge /\ Hop[k-j][b] = Hop[k][e]
  BY <1>0, <1>1
<1>3. b \in Edges
  BY <1>0, <1>2, HopType
<1> HIDE DEF b
<1>4. CASE j = k
  <2>1. Hop[0][b] = b
    BY <1>3, HopZero
  <2>2. s \in Fronts[b]
    BY <1>0, <1>2, <1>4, <2>1
  <2> QED
    BY <1>3, <2>2 DEF roleFor, b
<1>5. CASE j # k
  <2>1. k - j \in 1..N /\ ~ internalScoped(s)
    BY <1>0, <1>5
  <2>2. downstreamParticipates(b, s)
    BY <1>2, <2>1 DEF downstreamParticipates
  <2> QED
    BY <1>3, <2>1, <2>2 DEF roleFor, b
<1> QED
  BY <1>4, <1>5

=============================================================================
