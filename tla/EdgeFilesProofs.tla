--------------------------- MODULE EdgeFilesProofs ---------------------------
(***************************************************************************)
(* The properties of module EdgeFiles for every set of hosts, backends and *)
(* ports, every config an edge may start from, every snippet an operator   *)
(* may paste, and any number of invocations.                               *)
(***************************************************************************)
EXTENDS EdgeFiles, FiniteSetTheorems, WellFoundedInduction, TLAPS

-----------------------------------------------------------------------------
(***************************************************************************)
(* Sequences, tables and recursion.                                        *)
(***************************************************************************)
\* A set of naturals that is not empty has a least element.
LEMMA LeastNatural ==
    ASSUME NEW T \in SUBSET Nat, T # {}
    PROVE  \E n \in T : \A m \in T : n <= m
<1>1. PICK n \in T : \A m \in T : ~ (<<m, n>> \in OpToRel(<, Nat))
  BY NatLessThanWellFounded, WFMin
<1>2. \A m \in T : ~ (m < n)
  BY <1>1 DEF OpToRel
<1> QED
  BY <1>2

\* Min of a set of naturals is its least element.
LEMMA MinIsLeast ==
    ASSUME NEW T \in SUBSET Nat, T # {}
    PROVE  Min(T) \in T /\ \A m \in T : Min(T) <= m
<1>1. \E n \in T : \A m \in T : n <= m
  BY LeastNatural
<1> QED
  BY <1>1 DEF Min

\* Max of a set with one element.
LEMMA MaxOfOne ==
    ASSUME NEW i \in Nat
    PROVE  Max({i}) = i
BY DEF Max

\* f is computed from base by step, n times.
Iterates(f, S, base, step, n) ==
    /\ f \in [0 .. n -> S]
    /\ f[0] = base /\ \A m \in 1 .. n : f[m] = step[<<f[m - 1], m>>]

\* A recursion over 0 .. N that stays within a set has a solution.
LEMMA RecursionExists ==
    ASSUME NEW S, NEW base \in S, NEW step \in [S \X Nat -> S], NEW N \in Nat
    PROVE  \E f : Iterates(f, S, base, step, N)
<1> DEFINE Solved(n) == \E f \in [0 .. n -> S] :
               f[0] = base /\ \A m \in 1 .. n : f[m] = step[<<f[m - 1], m>>]
           T == {n \in Nat : ~ Solved(n)}
<1>1. Solved(0)
  <2> DEFINE f == [m \in 0 .. 0 |-> base]
  <2>1. f \in [0 .. 0 -> S] /\ f[0] = base /\ \A m \in 1 .. 0 : f[m] = step[<<f[m - 1], m>>]
    OBVIOUS
  <2> QED
    BY <2>1
<1>2. ASSUME NEW n \in Nat, n # 0, Solved(n - 1)
      PROVE  Solved(n)
  <2>1. PICK f \in [0 .. (n - 1) -> S] :
            f[0] = base /\ \A m \in 1 .. (n - 1) : f[m] = step[<<f[m - 1], m>>]
    BY <1>2
  <2> DEFINE g == [m \in 0 .. n |-> IF m = n THEN step[<<f[n - 1], n>>] ELSE f[m]]
  <2>2. f[n - 1] \in S /\ step[<<f[n - 1], n>>] \in S
    BY <1>2, <2>1
  <2>3. g \in [0 .. n -> S]
    BY <1>2, <2>1, <2>2
  <2>4. g[0] = base
    BY <1>2, <2>1
  <2>5. ASSUME NEW m \in 1 .. n
        PROVE  g[m] = step[<<g[m - 1], m>>]
    <3>1. m \in Nat /\ m - 1 \in 0 .. (n - 1) /\ m - 1 # n
      BY <1>2
    <3>2. g[m - 1] = f[m - 1]
      BY <1>2, <3>1
    <3>3. CASE m = n
      BY <1>2, <3>2, <3>3
    <3>4. CASE m # n
      <4>1. m \in 1 .. (n - 1)
        BY <1>2, <3>4
      <4>2. g[m] = f[m]
        BY <3>4
      <4> QED
        BY <2>1, <3>2, <4>1, <4>2
    <3> QED
      BY <3>3, <3>4
  <2> HIDE DEF g
  <2> QED
    BY <2>3, <2>4, <2>5
<1>3. T = {}
  <2> SUFFICES ASSUME T # {} PROVE FALSE
    OBVIOUS
  <2>1. T \in SUBSET Nat
    OBVIOUS
  <2> HIDE DEF T
  <2>2. PICK n \in T : \A m \in T : n <= m
    BY <2>1, LeastNatural
  <2> USE DEF T
  <2>3. n \in Nat /\ ~ Solved(n)
    BY <2>2
  <2>4. CASE n = 0
    BY <1>1, <2>3, <2>4
  <2>5. CASE n # 0
    <3> HIDE DEF Solved
    <3>1. n - 1 \in Nat /\ ~ (n <= n - 1)
      BY <2>3, <2>5
    <3>2. Solved(n - 1)
      BY <2>2, <3>1
    <3> QED
      BY <1>2, <2>3, <2>5, <3>2
  <2> QED
    BY <2>4, <2>5
<1>4. Solved(N)
  BY <1>3
<1> QED
  BY <1>4 DEF Iterates

\* The image of a finite set is finite.
LEMMA ImageFinite ==
    ASSUME NEW S, IsFiniteSet(S), NEW T, NEW g \in [S -> T], \A y \in T : \E x \in S : g[x] = y
    PROVE  IsFiniteSet(T)
<1>1. g \in Surjection(S, T)
  BY DEF Surjection
<1> QED
  BY <1>1, FS_Surjection

\* SetToSeq lists every element of a finite set once.
LEMMA SetToSeqLists ==
    ASSUME NEW S, IsFiniteSet(S)
    PROVE  /\ SetToSeq(S) \in Seq(S)
           /\ \A i, j \in DOMAIN SetToSeq(S) : SetToSeq(S)[i] = SetToSeq(S)[j] => i = j
           /\ \A x \in S : \E i \in DOMAIN SetToSeq(S) : SetToSeq(S)[i] = x
<1> DEFINE n == Cardinality(S)
<1>1. n \in Nat /\ ExistsBijection(1 .. n, S)
  BY FS_CardinalityType
<1>2. \E f \in [1 .. n -> S] : IsInjective(f)
  BY <1>1 DEF ExistsBijection, Bijection, Injection
<1> DEFINE s == SetToSeq(S)
<1>3. s \in [1 .. n -> S] /\ IsInjective(s)
  BY <1>2 DEF SetToSeq
<1> HIDE DEF s
<1>4. s \in Injection(1 .. n, S)
  BY <1>3 DEF Injection
<1>5. IsFiniteSet(1 .. n) /\ Cardinality(1 .. n) = n
  BY <1>1, FS_Interval
<1>6. s \in Surjection(1 .. n, S)
  BY <1>4, <1>5, FS_Injection
<1>7. s \in Seq(S) /\ DOMAIN s = 1 .. n
  BY <1>1, <1>3
<1> QED
  BY <1>3, <1>6, <1>7 DEF s, IsInjective, Surjection

-----------------------------------------------------------------------------
(***************************************************************************)
(* nginx: what a write keeps.                                              *)
(***************************************************************************)
\* u holds the blocks of the first n that are not crenel's, each from one place.
KeptFrom(f, n, u, m) ==
    /\ u \in Seq(Block) /\ m \in [1 .. Len(u) -> 1 .. n]
    /\ \A i \in 1 .. Len(u) : u[i] = f[m[i]] /\ ~ Owned(f[m[i]])
    /\ \A i, j \in 1 .. Len(u) : m[i] = m[j] => i = j
    /\ \A k \in 1 .. n : ~ Owned(f[k]) => \E i \in 1 .. Len(u) : m[i] = k

\* One block further.
LEMMA KeptStep ==
    ASSUME NEW f \in Seq(Block), NEW n \in 1 .. Len(f), NEW u, NEW m,
           KeptFrom(f, n - 1, u, m)
    PROVE  \E m2 : KeptFrom(f, n, IF Owned(f[n]) THEN u ELSE Append(u, f[n]), m2)
<1>0. f[n] \in Block /\ n \in Nat /\ u \in Seq(Block) /\ Len(u) \in Nat
  BY DEF KeptFrom
<1>1. CASE Owned(f[n])
  <2>1. m \in [1 .. Len(u) -> 1 .. n]
    BY <1>0 DEF KeptFrom
  <2>2. \A k \in 1 .. n : ~ Owned(f[k]) => \E i \in 1 .. Len(u) : m[i] = k
    BY <1>0, <1>1 DEF KeptFrom
  <2>3. KeptFrom(f, n, u, m)
    BY <2>1, <2>2 DEF KeptFrom
  <2> QED
    BY <1>1, <2>3
<1>2. CASE ~ Owned(f[n])
  <2> DEFINE v  == Append(u, f[n])
             m2 == [i \in 1 .. Len(v) |-> IF i = Len(v) THEN n ELSE m[i]]
  <2>1. v \in Seq(Block) /\ Len(v) = Len(u) + 1 /\ v[Len(v)] = f[n]
        /\ \A i \in 1 .. Len(u) : v[i] = u[i]
    BY <1>0
  <2> HIDE DEF v
  <2>2. \A i \in 1 .. Len(u) : m2[i] = m[i] /\ m[i] \in 1 .. (n - 1)
    BY <1>0, <2>1 DEF KeptFrom
  <2>3. m2[Len(v)] = n
    BY <1>0, <2>1
  <2>4. m2 \in [1 .. Len(v) -> 1 .. n]
    <3>1. ASSUME NEW i \in 1 .. Len(v) PROVE m2[i] \in 1 .. n
      <4>1. CASE i = Len(v)
        BY <1>0, <2>3, <4>1
      <4>2. CASE i # Len(v)
        <5>1. i \in 1 .. Len(u)
          BY <1>0, <2>1, <4>2
        <5>2. m2[i] \in 1 .. (n - 1)
          BY <2>2, <5>1
        <5> HIDE DEF m2
        <5> QED
          BY <1>0, <5>2
      <4> QED
        BY <4>1, <4>2
    <3> QED
      BY <3>1
  <2> HIDE DEF m2
  <2>5. \A i \in 1 .. Len(v) : v[i] = f[m2[i]] /\ ~ Owned(f[m2[i]])
    <3> TAKE i \in 1 .. Len(v)
    <3>1. CASE i = Len(v)
      BY <1>2, <2>1, <2>3, <3>1
    <3>2. CASE i # Len(v)
      <4>1. i \in 1 .. Len(u)
        BY <1>0, <2>1, <3>2
      <4> QED
        BY <2>1, <2>2, <4>1 DEF KeptFrom
    <3> QED
      BY <3>1, <3>2
  <2>6. \A i, j \in 1 .. Len(v) : m2[i] = m2[j] => i = j
    <3>1. \A i \in 1 .. Len(v) : i = Len(v) \/ i \in 1 .. Len(u)
      BY <1>0, <2>1
    <3>2. \A i \in 1 .. Len(u) : m2[i] # n
      BY <1>0, <2>2
    <3> QED
      BY <2>2, <2>3, <3>1, <3>2 DEF KeptFrom
  <2>7. \A k \in 1 .. n : ~ Owned(f[k]) => \E i \in 1 .. Len(v) : m2[i] = k
    <3> TAKE k \in 1 .. n
    <3>1. CASE k = n
      BY <1>0, <2>1, <2>3, <3>1
    <3>2. CASE k # n
      <4>1. k \in 1 .. (n - 1)
        BY <1>0, <3>2
      <4>2. \A i \in 1 .. Len(u) : i \in 1 .. Len(v)
        BY <1>0, <2>1
      <4> QED
        BY <2>2, <4>1, <4>2 DEF KeptFrom
    <3> QED
      BY <3>1, <3>2
  <2>8. KeptFrom(f, n, v, m2)
    BY <2>1, <2>4, <2>5, <2>6, <2>7 DEF KeptFrom
  <2> QED
    BY <1>2, <2>8 DEF v
<1> QED
  BY <1>1, <1>2

\* Unmanaged keeps the blocks that are not crenel's, and each of them once.
LEMMA UnmanagedKeeps ==
    ASSUME NEW f \in Seq(Block)
    PROVE  \E m : KeptFrom(f, Len(f), Unmanaged(f), m)
<1> DEFINE L == Len(f)
           step == [p \in Seq(Block) \X Nat |->
                      IF p[2] \in 1 .. L /\ ~ Owned(f[p[2]]) THEN Append(p[1], f[p[2]]) ELSE p[1]]
           Rec(g) == g = [n \in 0 .. L |->
                            IF n = 0 THEN <<>>
                            ELSE IF Owned(f[n]) THEN g[n - 1] ELSE Append(g[n - 1], f[n])]
<1>1. L \in Nat /\ <<>> \in Seq(Block)
  OBVIOUS
<1>2. step \in [Seq(Block) \X Nat -> Seq(Block)]
  <2>1. \A k \in 1 .. L : f[k] \in Block
    OBVIOUS
  <2> QED
    BY <2>1
<1>3. PICK g \in [0 .. L -> Seq(Block)] :
         g[0] = <<>> /\ \A n \in 1 .. L : g[n] = step[<<g[n - 1], n>>]
  <2> HIDE DEF step, L
  <2>1. \E g : Iterates(g, Seq(Block), <<>>, step, L)
    BY <1>1, <1>2, RecursionExists
  <2> QED
    BY <2>1 DEF Iterates
<1>4. \A n \in 1 .. L : g[n] = IF Owned(f[n]) THEN g[n - 1] ELSE Append(g[n - 1], f[n])
  <2> TAKE n \in 1 .. L
  <2>1. n \in Nat /\ g[n - 1] \in Seq(Block)
    BY <1>1, <1>3
  <2>2. step[<<g[n - 1], n>>] = IF ~ Owned(f[n]) THEN Append(g[n - 1], f[n]) ELSE g[n - 1]
    BY <2>1
  <2> QED
    BY <1>3, <2>2
<1>5. Rec(g)
  <2>1. \A n \in 0 .. L : n # 0 => n \in 1 .. L
    BY <1>1
  <2>2. \A n \in 0 .. L :
           g[n] = IF n = 0 THEN <<>>
                  ELSE IF Owned(f[n]) THEN g[n - 1] ELSE Append(g[n - 1], f[n])
    BY <1>3, <1>4, <2>1
  <2> HIDE DEF L, step
  <2> QED
    BY <1>3, <2>2
<1> DEFINE up == CHOOSE g2 : Rec(g2)
<1>6. Rec(up)
  BY <1>5
<1>7. Unmanaged(f) = up[L]
  BY DEF Unmanaged
<1> DEFINE Good(n) == \E m : KeptFrom(f, n, up[n], m)
           T == {n \in 0 .. L : ~ Good(n)}
<1> HIDE DEF up, step
<1>8. Good(0)
  <2>1. up[0] = <<>>
    BY <1>1, <1>6
  <2>2. KeptFrom(f, 0, <<>>, [i \in 1 .. 0 |-> 0])
    BY DEF KeptFrom
  <2> QED
    BY <2>1, <2>2
<1>9. ASSUME NEW n \in 1 .. L, Good(n - 1)
      PROVE  Good(n)
  <2>1. n \in 0 .. L /\ n # 0
    BY <1>1
  <2>2. up[n] = IF Owned(f[n]) THEN up[n - 1] ELSE Append(up[n - 1], f[n])
    BY <1>6, <2>1
  <2> QED
    BY <1>9, <2>2, KeptStep
<1> HIDE DEF Good
<1>10. T = {}
  <2> SUFFICES ASSUME T # {} PROVE FALSE
    OBVIOUS
  <2>1. T \in SUBSET Nat
    BY <1>1
  <2>2. PICK n \in T : \A k \in T : n <= k
    BY <2>1, LeastNatural
  <2>3. n \in 0 .. L /\ ~ Good(n) /\ n # 0
    BY <1>8, <2>2
  <2>4. n \in 1 .. L /\ n - 1 \in 0 .. L /\ ~ (n <= n - 1)
    BY <1>1, <2>3
  <2> QED
    BY <1>9, <2>2, <2>3, <2>4
<1>11. Good(L)
  BY <1>1, <1>10
<1> QED
  BY <1>7, <1>11 DEF Good

\* Max of a set of places is its greatest element.
LEMMA MaxIsGreatest ==
    ASSUME NEW n \in Nat, NEW T \in SUBSET (1 .. n), T # {}
    PROVE  Max(T) \in T /\ \A m \in T : m <= Max(T)
<1> DEFINE D == {n - m : m \in T}
<1>1. D \in SUBSET Nat /\ D # {}
  <2>1. \A m \in T : m \in 1 .. n
    OBVIOUS
  <2>2. \A m \in T : n - m \in Nat
    BY <2>1
  <2> QED
    BY <2>2
<1>2. PICK d \in D : \A e \in D : d <= e
  BY <1>1, LeastNatural
<1>3. PICK k \in T : d = n - k
  BY <1>2
<1>4. \A m \in T : k >= m
  <2> TAKE m \in T
  <2>1. n - m \in D
    OBVIOUS
  <2> QED
    BY <1>2, <1>3, <2>1
<1>5. Max(T) \in T /\ \A m \in T : Max(T) >= m
  BY <1>3, <1>4 DEF Max
<1> QED
  BY <1>5

\* A change for one host, as Plan and the compensator make them.
AboutHost(c, h) ==
    /\ c \in Change
    /\ c.add = {} \/ \E r \in LiveRoute : c.add = {r} /\ r.host = h
    /\ c.remove \subseteq {h}

\* A change that adds one route of h or removes h.
OneChange(c, h) ==
    /\ c \in Change
    /\ \/ c.remove = {} /\ \E r \in LiveRoute : c.add = {r} /\ r.host = h
       \/ c.add = {} /\ c.remove = {h}

\* Such a change is about h.
LEMMA OneChangeAbout ==
    ASSUME NEW h, NEW c, OneChange(c, h)
    PROVE  AboutHost(c, h)
BY DEF OneChange, AboutHost

\* The names of a block are hosts, and the route of a block with a host is one.
LEMMA BlockNames ==
    ASSUME NEW b \in Block
    PROVE  /\ ToSet(b.names) \subseteq Hosts
           /\ \E n \in 0 .. 2 : b.names \in [1 .. n -> Hosts]
           /\ b.names # <<>> => 1 \in DOMAIN b.names /\ b.names[1] \in Hosts
           /\ hostOf(b) \in Hosts \cup {Nothing}
           /\ hostOf(b) # Nothing => hostOf(b) \in ToSet(b.names)
<1>1. PICK n \in 0 .. 2 : b.names \in [1 .. n -> Hosts]
  BY DEF Block
<1>2. \A i \in DOMAIN b.names : b.names[i] \in Hosts
  BY <1>1
<1>3. b.names # <<>> => 1 \in DOMAIN b.names
  <2>1. CASE n = 0
    BY <1>1, <2>1
  <2>2. CASE n # 0
    BY <1>1, <2>2
  <2> QED
    BY <2>1, <2>2
<1> QED
  BY <1>1, <1>2, <1>3 DEF ToSet, hostOf

\* The route read off a vhost of Block that has a host is a live route.
LEMMA BlockRouteType ==
    ASSUME NEW b \in Block, hostOf(b) # Nothing
    PROVE  BlockRoute(b) \in LiveRoute
<1>1. hostOf(b) \in Hosts
  BY BlockNames
<1>2. AddressOf(b) \in Backends \cup {Nothing}
  BY DEF AddressOf, Block
<1>3. BlockAuth(b) \in {"none", "named", "detected"}
  BY DEF BlockAuth, Block
<1> QED
  BY <1>1, <1>2, <1>3 DEF BlockRoute, LiveRoute

\* What crenel renders for a route is a server block that names its host only.
LEMMA ManagedBlockType ==
    ASSUME NEW r \in LiveRoute
    PROVE  /\ ManagedBlock(r) \in Block
           /\ ManagedBlock(r).names = <<r.host>> /\ ToSet(<<r.host>>) = {r.host}
           /\ isServer(ManagedBlock(r)) /\ ManagedBlock(r).marker = "managed"
           /\ hostOf(ManagedBlock(r)) = r.host
<1>1. r.host \in Hosts /\ r.to \in Backends \cup {Nothing}
      /\ r.auth \in {"none", "named", "detected"}
  BY DEF LiveRoute
<1>2. <<r.host>> \in [1 .. 1 -> Hosts] /\ <<r.host>> # <<>> /\ <<r.host>>[1] = r.host
  BY <1>1
<1>3. <<r.host>> \in UNION {[1 .. n -> Hosts] : n \in 0 .. 2}
  BY <1>2
<1>4. (CASE r.auth = "named" -> "request" [] r.auth = "detected" -> "dangling"
         [] OTHER -> "none") \in {"none", "request", "dangling", "basic"}
  BY <1>1
<1>5. ManagedBlock(r) \in Block
  BY <1>1, <1>3, <1>4, NginxAssumption DEF ManagedBlock, Block
<1>6. ToSet(<<r.host>>) = {r.host}
  BY <1>2 DEF ToSet
<1> QED
  BY <1>2, <1>5, <1>6 DEF ManagedBlock, isServer, hostOf

\* The deny block is a nameless server of Block.
LEMMA DenyBlockType ==
    /\ DenyBlock \in Block
    /\ isServer(DenyBlock) /\ DenyBlock.names = <<>> /\ ToSet(DenyBlock.names) = {}
<1>1. <<>> \in [1 .. 0 -> Hosts]
  OBVIOUS
<1>2. <<>> \in UNION {[1 .. n -> Hosts] : n \in 0 .. 2}
  BY <1>1
<1> QED
  BY <1>2, NginxAssumption DEF DenyBlock, Block, isServer, ToSet

\* The places of crenel's blocks for g, of which the last is carried over.
Places(f, g) ==
    {j \in 1 .. Len(f) : isServer(f[j]) /\ f[j].marker = "managed" /\ hostOf(f[j]) = g}

\* The route carried over for g is that of the last of its places, and a live route.
LEMMA CarriedType ==
    ASSUME NEW f \in Seq(Block), NEW g \in CarriedHosts(f)
    PROVE  /\ g \in Hosts /\ Places(f, g) # {}
           /\ Max(Places(f, g)) \in Places(f, g)
           /\ CarriedRoute(f, g) = [BlockRoute(f[Max(Places(f, g))]) EXCEPT
                   !.auth = IF f[Max(Places(f, g))].auth = "basic" THEN "none" ELSE @]
           /\ CarriedRoute(f, g) \in LiveRoute
           /\ CarriedRoute(f, g).host = g
<1>1. PICK b \in ToSet(f) : isServer(b) /\ b.marker = "managed" /\ hostOf(b) = g /\ g # Nothing
  BY DEF CarriedHosts
<1>2. PICK k \in 1 .. Len(f) : f[k] = b
  BY <1>1 DEF ToSet
<1>3. k \in Places(f, g)
  BY <1>1, <1>2 DEF Places
<1>4. Len(f) \in Nat /\ Places(f, g) \in SUBSET (1 .. Len(f))
  BY DEF Places
<1> DEFINE i == Max(Places(f, g))
<1>5. i \in Places(f, g)
  BY <1>3, <1>4, MaxIsGreatest
<1>6. f[i] \in Block /\ hostOf(f[i]) = g
  BY <1>4, <1>5 DEF Places
<1>7. BlockRoute(f[i]) \in LiveRoute /\ BlockRoute(f[i]).host = g
  BY <1>1, <1>6, BlockRouteType DEF BlockRoute
<1>8. CarriedRoute(f, g) = [BlockRoute(f[i]) EXCEPT
                   !.auth = IF f[i].auth = "basic" THEN "none" ELSE @]
  BY DEF CarriedRoute, Places
<1> HIDE DEF i
<1>9. CarriedRoute(f, g) \in LiveRoute /\ CarriedRoute(f, g).host = g
  BY <1>7, <1>8 DEF LiveRoute
<1>10. g \in Hosts
  BY <1>7 DEF LiveRoute
<1> QED
  BY <1>3, <1>5, <1>8, <1>9, <1>10 DEF i

\* The routes a write renders, and their blocks.
WrittenRoutes(f, c) ==
    {CarriedRoute(f, g) : g \in CarriedHosts(f) \ (c.remove \cup {r.host : r \in c.add})}
        \cup c.add

WrittenBlocks(f, c) == {ManagedBlock(r) : r \in WrittenRoutes(f, c)}

\* They are finitely many, typed, and of the hosts they are meant for.
LEMMA WrittenRoutesType ==
    ASSUME NEW f \in Seq(Block), NEW h \in Hosts, NEW c, AboutHost(c, h)
    PROVE  /\ WrittenRoutes(f, c) \subseteq LiveRoute
           /\ IsFiniteSet(WrittenBlocks(f, c))
           /\ WrittenBlocks(f, c) \subseteq Block
<1> DEFINE H == CarriedHosts(f) \ (c.remove \cup {r.host : r \in c.add})
           C == {CarriedRoute(f, g) : g \in H}
<1>1. H \subseteq Hosts
  BY CarriedType
<1>2. IsFiniteSet(H)
  BY <1>1, FS_Subset, LiveConfigAssumption
<1> HIDE DEF H
<1>3. IsFiniteSet(C)
  <2> DEFINE m == [g \in H |-> CarriedRoute(f, g)]
  <2>1. m \in [H -> C] /\ \A y \in C : \E x \in H : m[x] = y
    OBVIOUS
  <2> HIDE DEF m, C
  <2> QED
    BY <1>2, <2>1, ImageFinite
<1>4. IsFiniteSet(C \cup c.add)
  <2>1. CASE c.add = {}
    BY <1>3, <2>1
  <2>2. ASSUME NEW r, c.add = {r} PROVE IsFiniteSet(C \cup c.add)
    BY <1>3, <2>2, FS_AddElement
  <2> QED
    BY <2>1, <2>2 DEF AboutHost
<1>5. WrittenRoutes(f, c) = C \cup c.add
  BY DEF WrittenRoutes, H
<1> HIDE DEF C
<1>6. IsFiniteSet({ManagedBlock(r) : r \in C \cup c.add})
  <2> DEFINE D == C \cup c.add
             B == {ManagedBlock(r) : r \in D}
             m == [r \in D |-> ManagedBlock(r)]
  <2> HIDE DEF D
  <2>1. m \in [D -> B] /\ \A y \in B : \E x \in D : m[x] = y
    OBVIOUS
  <2>2. IsFiniteSet(D)
    BY <1>4 DEF D
  <2> HIDE DEF m, B
  <2>3. IsFiniteSet(B)
    BY <2>1, <2>2, ImageFinite
  <2> QED
    BY <2>3 DEF B, D
<1>7. c.add \subseteq LiveRoute
  BY DEF AboutHost
<1>8. C \subseteq LiveRoute
  BY CarriedType DEF C, H
<1>9. WrittenRoutes(f, c) \subseteq LiveRoute
  BY <1>5, <1>7, <1>8
<1> QED
  BY <1>5, <1>6, <1>9, ManagedBlockType DEF WrittenBlocks

\* The written file: the unmanaged blocks, the rendered ones, the deny.
WrittenAs(f, c, w, u, s) ==
    /\ w \in Seq(Block) /\ Len(u) \in Nat /\ Len(s) \in Nat
    /\ Len(w) = Len(u) + Len(s) + 1
    /\ \A i \in 1 .. Len(u) : w[i] = u[i]
    /\ \A i \in 1 .. Len(s) : w[Len(u) + i] = s[i]
    /\ w[Len(w)] = DenyBlock

\* What the nginx driver writes has the shape of WrittenAs.
LEMMA ApplyShape ==
    ASSUME NEW f \in Seq(Block), NEW h \in Hosts, NEW c, AboutHost(c, h)
    PROVE  WrittenAs(f, c, applyNginx(f, c), Unmanaged(f), SetToSeq(WrittenBlocks(f, c)))
<1> DEFINE u == Unmanaged(f)
           s == SetToSeq(WrittenBlocks(f, c))
<1>1. u \in Seq(Block)
  BY UnmanagedKeeps DEF KeptFrom
<1>2. s \in Seq(Block)
  <2>1. s \in Seq(WrittenBlocks(f, c)) /\ WrittenBlocks(f, c) \subseteq Block
    BY WrittenRoutesType, SetToSeqLists
  <2> QED
    BY <2>1
<1>3. applyNginx(f, c) = u \o s \o <<DenyBlock>>
  BY DEF applyNginx, renderConfig, WrittenBlocks, WrittenRoutes
<1>4. DenyBlock \in Block
  BY DenyBlockType
<1> HIDE DEF u, s
<1> DEFINE v == u \o s
           d == <<DenyBlock>>
<1>5. v \in Seq(Block) /\ Len(v) = Len(u) + Len(s) /\ Len(u) \in Nat /\ Len(s) \in Nat
      /\ (\A i \in 1 .. Len(u) : v[i] = u[i])
      /\ (\A i \in 1 .. Len(s) : v[Len(u) + i] = s[i])
  BY <1>1, <1>2
<1>6. d \in Seq(Block) /\ Len(d) = 1 /\ d[1] = DenyBlock
  BY <1>4
<1> HIDE DEF v, d
<1> DEFINE w == v \o d
<1>7. w \in Seq(Block) /\ Len(w) = Len(v) + 1 /\ (\A i \in 1 .. Len(v) : w[i] = v[i])
      /\ w[Len(v) + 1] = d[1]
  <2>0. v \in Seq(Block) /\ d \in Seq(Block)
    BY <1>5, <1>6
  <2>1. w \in Seq(Block) /\ Len(w) = Len(v) + Len(d)
    BY <2>0
  <2>2. \A i \in 1 .. Len(v) : w[i] = v[i]
    BY <2>0
  <2>3. \A i \in 1 .. Len(d) : w[Len(v) + i] = d[i]
    BY <2>0
  <2> QED
    BY <1>6, <2>1, <2>2, <2>3
<1> HIDE DEF w
<1>8. /\ \A i \in 1 .. Len(u) : i \in 1 .. Len(v)
      /\ \A i \in 1 .. Len(s) : Len(u) + i \in 1 .. Len(v)
  BY <1>5
<1>9. WrittenAs(f, c, w, u, s)
  BY <1>5, <1>6, <1>7, <1>8 DEF WrittenAs
<1> QED
  BY <1>3, <1>9 DEF w, v, d, u, s

\* A place of the written file holds a kept, a rendered or the deny block.
LEMMA WrittenPlace ==
    ASSUME NEW f, NEW c, NEW w, NEW u, NEW s, WrittenAs(f, c, w, u, s), NEW i \in DOMAIN w
    PROVE  \/ i \in 1 .. Len(u)
           \/ \E j \in 1 .. Len(s) : i = Len(u) + j
           \/ i = Len(w)
<1>1. i \in 1 .. (Len(u) + Len(s) + 1) /\ Len(u) \in Nat /\ Len(s) \in Nat
  BY DEF WrittenAs
<1>2. CASE i > Len(u) /\ i <= Len(u) + Len(s)
  <2>1. i - Len(u) \in 1 .. Len(s) /\ i = Len(u) + (i - Len(u))
    BY <1>1, <1>2
  <2> QED
    BY <2>1
<1> QED
  BY <1>1, <1>2 DEF WrittenAs

\* x is rendered for the route r, which is to be added or is carried over.
RenderedFor(f, c, h, x, r) ==
    /\ x = ManagedBlock(r) /\ x \in Block /\ isServer(x) /\ x.marker = "managed"
    /\ ToSet(x.names) = {r.host} /\ r \in LiveRoute
    /\ \/ r \in c.add /\ r.host = h
       \/ /\ r.host \in CarriedHosts(f) /\ r = CarriedRoute(f, r.host)
          /\ r.host \notin c.remove /\ \A q \in c.add : q.host # r.host

\* Every rendered block stands for a route that is added or carried over.
LEMMA WrittenBlockIs ==
    ASSUME NEW f \in Seq(Block), NEW h \in Hosts, NEW c, AboutHost(c, h),
           NEW x \in WrittenBlocks(f, c)
    PROVE  \E r : RenderedFor(f, c, h, x, r)
<1>1. PICK r \in WrittenRoutes(f, c) : x = ManagedBlock(r)
  BY DEF WrittenBlocks
<1>2. r \in LiveRoute
  BY WrittenRoutesType
<1>3. x \in Block /\ isServer(x) /\ x.names = <<r.host>> /\ ToSet(x.names) = {r.host}
      /\ x.marker = "managed"
  BY <1>1, <1>2, ManagedBlockType
<1>4. CASE r \in c.add
  BY <1>1, <1>2, <1>3, <1>4 DEF AboutHost, RenderedFor
<1>5. CASE r \notin c.add
  <2>1. PICK g \in CarriedHosts(f) \ (c.remove \cup {q.host : q \in c.add}) : r = CarriedRoute(f, g)
    BY <1>5 DEF WrittenRoutes
  <2>2. r.host = g
    BY <2>1, CarriedType
  <2> QED
    BY <1>1, <1>2, <1>3, <2>1, <2>2 DEF RenderedFor
<1> QED
  BY <1>4, <1>5

\* The one block that names another host is in the written file, once.
LEMMA NginxKeeps ==
    ASSUME NEW f \in Seq(Block), NEW h \in Hosts, NEW c, AboutHost(c, h),
           NEW g \in Hosts, g # h, NEW i \in DOMAIN f, NamingBlocks(f, g) = {i},
           f[i].marker # "none" => f[i] = ManagedBlock(BlockRoute(f[i]))
    PROVE  \E j \in DOMAIN applyNginx(f, c) :
              /\ NamingBlocks(applyNginx(f, c), g) = {j}
              /\ applyNginx(f, c)[j] = f[i]
<1> DEFINE u == Unmanaged(f)
           W == WrittenBlocks(f, c)
           s == SetToSeq(W)
           w == applyNginx(f, c)
<1>1. PICK m : KeptFrom(f, Len(f), u, m)
  BY UnmanagedKeeps
<1>2. WrittenAs(f, c, w, u, s)
  BY ApplyShape
<1>3. /\ s \in Seq(W)
      /\ \A p, q \in DOMAIN s : s[p] = s[q] => p = q
      /\ \A x \in W : \E q \in DOMAIN s : s[q] = x
  BY WrittenRoutesType, SetToSeqLists
<1>4. /\ isServer(f[i]) /\ g \in ToSet(f[i].names) /\ f[i] \in Block
      /\ \A k \in 1 .. Len(f) : isServer(f[k]) /\ g \in ToSet(f[k].names) => k = i
  BY DEF NamingBlocks
<1>5. /\ DOMAIN w = 1 .. Len(w) /\ DOMAIN s = 1 .. Len(s)
      /\ Len(u) \in Nat /\ Len(s) \in Nat /\ Len(w) = Len(u) + Len(s) + 1
      /\ \A k \in 1 .. Len(u) : w[k] = u[k] /\ k \in DOMAIN w
      /\ \A q \in 1 .. Len(s) : w[Len(u) + q] = s[q] /\ Len(u) + q \in DOMAIN w
      /\ w[Len(w)] = DenyBlock
  BY <1>2, <1>3 DEF WrittenAs
<1>6. \A q \in 1 .. Len(s) : s[q] \in W
  BY <1>3, <1>5
<1>7. /\ m \in [1 .. Len(u) -> 1 .. Len(f)]
      /\ \A k \in 1 .. Len(u) : u[k] = f[m[k]] /\ ~ Owned(f[m[k]])
      /\ \A k, l \in 1 .. Len(u) : m[k] = m[l] => k = l
      /\ \A k \in 1 .. Len(f) : ~ Owned(f[k]) => \E l \in 1 .. Len(u) : m[l] = k
  BY <1>1 DEF KeptFrom
<1>8. \A k \in DOMAIN w : k \in 1 .. Len(u) \/ (\E q \in 1 .. Len(s) : k = Len(u) + q) \/ k = Len(w)
  BY <1>2, WrittenPlace
<1>9. ASSUME NEW k \in 1 .. Len(u), k \in NamingBlocks(w, g)
      PROVE  m[k] = i
  <2>1. w[k] = f[m[k]] /\ m[k] \in 1 .. Len(f)
    BY <1>5, <1>7
  <2> QED
    BY <1>4, <1>9, <2>1 DEF NamingBlocks
<1>10. ASSUME NEW q \in 1 .. Len(s), Len(u) + q \in NamingBlocks(w, g)
       PROVE  /\ g \in CarriedHosts(f) /\ s[q] = ManagedBlock(CarriedRoute(f, g))
              /\ i \in Places(f, g)
  <2>1. PICK r : RenderedFor(f, c, h, s[q], r)
    BY <1>6, WrittenBlockIs
  <2>2. g \in ToSet(s[q].names)
    BY <1>5, <1>10 DEF NamingBlocks
  <2>3. r.host = g
    BY <2>1, <2>2 DEF RenderedFor
  <2>4. g \in CarriedHosts(f) /\ r = CarriedRoute(f, g) /\ s[q] = ManagedBlock(r)
    BY <2>1, <2>3 DEF RenderedFor
  <2>5. PICK p : p \in Places(f, g)
    BY <2>4, CarriedType
  <2>6. p \in 1 .. Len(f) /\ isServer(f[p]) /\ hostOf(f[p]) = g /\ f[p] \in Block
    BY <2>5 DEF Places
  <2>7. g # Nothing
    BY LiveConfigAssumption
  <2>8. g \in ToSet(f[p].names)
    BY <2>6, <2>7, BlockNames
  <2>9. p = i
    BY <1>4, <2>6, <2>8
  <2> QED
    BY <2>4, <2>5, <2>9
<1>11. Len(w) \notin NamingBlocks(w, g)
  BY <1>5, DenyBlockType DEF NamingBlocks
<1>12. CASE ~ Owned(f[i])
  <2>1. PICK j \in 1 .. Len(u) : m[j] = i
    BY <1>7, <1>12
  <2>2. w[j] = f[i] /\ j \in DOMAIN w
    BY <1>5, <1>7, <2>1
  <2>3. j \in NamingBlocks(w, g)
    BY <1>4, <2>2 DEF NamingBlocks
  <2>4. ASSUME NEW k \in NamingBlocks(w, g) PROVE k = j
    <3>1. k \in DOMAIN w
      BY DEF NamingBlocks
    <3>2. CASE k \in 1 .. Len(u)
      BY <1>7, <1>9, <2>1, <2>4, <3>2
    <3>3. ASSUME NEW q \in 1 .. Len(s), k = Len(u) + q PROVE FALSE
      <4>1. i \in Places(f, g)
        BY <1>10, <2>4, <3>3
      <4> QED
        BY <1>12, <4>1 DEF Places, Owned
    <3> QED
      BY <1>8, <1>11, <2>4, <3>1, <3>2, <3>3
  <2>5. NamingBlocks(w, g) = {j}
    BY <2>3, <2>4
  <2> QED
    BY <2>2, <2>5
<1>13. CASE Owned(f[i])
  <2>1. f[i] = ManagedBlock(BlockRoute(f[i]))
    BY <1>13 DEF Owned
  <2>2. /\ f[i].names = <<hostOf(f[i])>> /\ f[i].marker = "managed" /\ f[i].auth # "basic"
    BY <2>1 DEF ManagedBlock, BlockRoute
  <2>3. ToSet(f[i].names) = {hostOf(f[i])}
    BY <2>2 DEF ToSet
  <2>4. hostOf(f[i]) = g
    BY <1>4, <2>3
  <2>5. g \in CarriedHosts(f)
    <3>1. f[i] \in ToSet(f)
      BY DEF ToSet
    <3> QED
      BY <1>4, <2>2, <2>4, <3>1, LiveConfigAssumption DEF CarriedHosts
  <2>6. Places(f, g) = {i}
    <3>1. i \in Places(f, g)
      BY <1>4, <2>2, <2>4 DEF Places
    <3>2. ASSUME NEW p \in Places(f, g) PROVE p = i
      <4>1. p \in 1 .. Len(f) /\ isServer(f[p]) /\ hostOf(f[p]) = g /\ f[p] \in Block
        BY DEF Places
      <4>2. g \in ToSet(f[p].names)
        BY <4>1, LiveConfigAssumption, BlockNames
      <4> QED
        BY <1>4, <4>1, <4>2
    <3> QED
      BY <3>1, <3>2
  <2>7. CarriedRoute(f, g) = BlockRoute(f[i])
    <3>1. i \in Nat /\ Max({i}) = i
      BY MaxOfOne
    <3>2. CarriedRoute(f, g) = [BlockRoute(f[i]) EXCEPT
                   !.auth = IF f[i].auth = "basic" THEN "none" ELSE @]
      BY <2>5, <2>6, <3>1, CarriedType
    <3> QED
      BY <2>2, <3>2 DEF BlockRoute
  <2>8. f[i] \in W
    <3>1. g \notin c.remove /\ g \notin {r.host : r \in c.add}
      BY DEF AboutHost
    <3>2. CarriedRoute(f, g) \in WrittenRoutes(f, c)
      BY <2>5, <3>1 DEF WrittenRoutes
    <3> QED
      BY <2>1, <2>7, <3>2 DEF WrittenBlocks
  <2>9. PICK q \in 1 .. Len(s) : s[q] = f[i]
    BY <1>3, <1>5, <2>8
  <2> DEFINE j == Len(u) + q
  <2>10. w[j] = f[i] /\ j \in DOMAIN w
    BY <1>5, <2>9
  <2>11. j \in NamingBlocks(w, g)
    BY <1>4, <2>10 DEF NamingBlocks
  <2>12. ASSUME NEW k \in NamingBlocks(w, g) PROVE k = j
    <3>1. k \in DOMAIN w
      BY DEF NamingBlocks
    <3>2. CASE k \in 1 .. Len(u)
      BY <1>7, <1>9, <1>13, <2>12, <3>2
    <3>3. ASSUME NEW p \in 1 .. Len(s), k = Len(u) + p PROVE k = j
      <4>1. s[p] = f[i]
        BY <1>10, <2>1, <2>7, <2>12, <3>3
      <4>2. p = q
        BY <1>3, <1>5, <2>9, <4>1
      <4> QED
        BY <3>3, <4>2
    <3> QED
      BY <1>8, <1>11, <2>12, <3>1, <3>2, <3>3
  <2>13. NamingBlocks(w, g) = {j}
    BY <2>11, <2>12
  <2> QED
    BY <2>10, <2>13
<1> QED
  BY <1>12, <1>13

-----------------------------------------------------------------------------
(***************************************************************************)
(* nginx: who answers.                                                     *)
(***************************************************************************)
OnPort(f, p) == {i \in DOMAIN f : isServer(f[i]) /\ f[i].port = p}
NamingOn(f, p, h) == {i \in OnPort(f, p) : h \in ToSet(f[i].names)}
DefaultOn(f, p) == {i \in OnPort(f, p) : f[i].default = "flag"}

\* The block that answers is the first to name the host, a default server if
\* none does, any block of the port if there is no default server.
LEMMA AnsweringIs ==
    ASSUME NEW f \in Seq(Block), NEW p, NEW h
    PROVE  /\ NamingOn(f, p, h) # {} =>
                 /\ Answering(f, p, h) \in NamingOn(f, p, h)
                 /\ \A i \in NamingOn(f, p, h) : Answering(f, p, h) <= i
           /\ NamingOn(f, p, h) = {} /\ DefaultOn(f, p) # {} =>
                 Answering(f, p, h) \in DefaultOn(f, p)
           /\ NamingOn(f, p, h) = {} /\ DefaultOn(f, p) = {} /\ OnPort(f, p) # {} =>
                 Answering(f, p, h) \in OnPort(f, p)
           /\ OnPort(f, p) = {} => Answering(f, p, h) = 0
<1>1. OnPort(f, p) \in SUBSET Nat
  BY DEF OnPort
<1>2. NamingOn(f, p, h) \in SUBSET Nat /\ DefaultOn(f, p) \in SUBSET Nat
  BY <1>1 DEF NamingOn, DefaultOn
<1>3. Answering(f, p, h) =
         IF NamingOn(f, p, h) # {} THEN Min(NamingOn(f, p, h))
         ELSE IF DefaultOn(f, p) # {} THEN Min(DefaultOn(f, p))
         ELSE IF OnPort(f, p) # {} THEN Min(OnPort(f, p)) ELSE 0
  BY DEF Answering, NamingOn, DefaultOn, OnPort
<1>4. OnPort(f, p) = {} => NamingOn(f, p, h) = {} /\ DefaultOn(f, p) = {}
  BY DEF NamingOn, DefaultOn
<1>5. /\ NamingOn(f, p, h) # {} => Min(NamingOn(f, p, h)) \in NamingOn(f, p, h)
            /\ \A i \in NamingOn(f, p, h) : Min(NamingOn(f, p, h)) <= i
      /\ DefaultOn(f, p) # {} => Min(DefaultOn(f, p)) \in DefaultOn(f, p)
      /\ OnPort(f, p) # {} => Min(OnPort(f, p)) \in OnPort(f, p)
  BY <1>1, <1>2, MinIsLeast
<1> QED
  BY <1>3, <1>4, <1>5

BlockAnswer(b) == [port |-> b.port, to |-> b.to, gate |-> b.auth, paths |-> b.paths]

\* An answer comes from the block that answers on its port.
LEMMA NginxAnswers ==
    ASSUME NEW f \in Seq(Block), NEW h, NEW a
    PROVE  a \in nginxServes(f, h) <=>
              \E p \in Ports : LET i == Answering(f, p, h)
                               IN i \in DOMAIN f /\ forwards(f[i]) /\ a = BlockAnswer(f[i])
                                  /\ a.port = p
<1>1. ASSUME NEW p \in Ports
      PROVE  LET i == Answering(f, p, h)
             IN i = 0 \/ (i \in DOMAIN f /\ f[i].port = p)
  <2> DEFINE i == Answering(f, p, h)
  <2>1. i = 0 \/ i \in OnPort(f, p)
    BY AnsweringIs DEF NamingOn, DefaultOn
  <2> HIDE DEF i
  <2> QED
    BY <2>1 DEF OnPort, i
<1>2. 0 \notin DOMAIN f
  OBVIOUS
<1> DEFINE From(p) == LET i == Answering(f, p, h)
                      IN IF i = 0 \/ ~ forwards(f[i]) THEN {}
                         ELSE {[port |-> p, to |-> f[i].to, gate |-> f[i].auth,
                                paths |-> f[i].paths]}
<1>3. nginxServes(f, h) = UNION {From(p) : p \in Ports}
  BY DEF nginxServes
<1>4. ASSUME NEW p \in Ports
      PROVE  a \in From(p) <=>
                LET i == Answering(f, p, h)
                IN i \in DOMAIN f /\ forwards(f[i]) /\ a = BlockAnswer(f[i]) /\ a.port = p
  <2> DEFINE i == Answering(f, p, h)
  <2>1. i = 0 \/ (i \in DOMAIN f /\ f[i].port = p)
    BY <1>1
  <2>2. From(p) = IF i = 0 \/ ~ forwards(f[i]) THEN {}
                  ELSE {[port |-> p, to |-> f[i].to, gate |-> f[i].auth,
                         paths |-> f[i].paths]}
    OBVIOUS
  <2> HIDE DEF i, From
  <2>3. a \in From(p) <=> i \in DOMAIN f /\ forwards(f[i]) /\ a = BlockAnswer(f[i]) /\ a.port = p
    <3>1. CASE i = 0
      BY <1>2, <2>2, <3>1
    <3>2. CASE i # 0
      BY <2>1, <2>2, <3>2 DEF BlockAnswer
    <3> QED
      BY <3>1, <3>2
  <2> QED
    BY <2>3 DEF i
<1> HIDE DEF From
<1> QED
  BY <1>3, <1>4

\* A host is answered by the first block that names it, on the port of those.
LEMMA FirstBlockAnswers ==
    ASSUME NEW f \in Seq(Block), NEW g, NEW i \in NamingBlocks(f, g),
           \A k \in NamingBlocks(f, g) : i <= k /\ f[k].port = f[i].port
    PROVE  OwnAnswers("nginx", f, g) = IF forwards(f[i]) THEN {BlockAnswer(f[i])} ELSE {}
<1>0. i \in DOMAIN f /\ i \in Nat
  BY DEF NamingBlocks
<1>1. f[i] \in Block /\ f[i].port \in Ports
  <2>1. f[i] \in Block
    BY <1>0
  <2> QED
    BY <2>1 DEF Block
<1> DEFINE p == f[i].port
<1>2. i \in NamingOn(f, p, g) /\ NamingOn(f, p, g) \subseteq NamingBlocks(f, g)
  BY DEF NamingOn, OnPort, NamingBlocks
<1>3. Answering(f, p, g) = i
  <2>1. Answering(f, p, g) \in NamingBlocks(f, g) /\ Answering(f, p, g) <= i
    BY <1>2, AnsweringIs
  <2>2. Answering(f, p, g) \in Nat /\ i <= Answering(f, p, g)
    BY <2>1 DEF NamingBlocks
  <2> QED
    BY <1>0, <2>1, <2>2
<1>4. \A a : a \in OwnAnswers("nginx", f, g) <=> a \in nginxServes(f, g) /\ a.port = p
  BY DEF OwnAnswers, Serves
<1>5. ASSUME NEW a
      PROVE  a \in OwnAnswers("nginx", f, g) <=> forwards(f[i]) /\ a = BlockAnswer(f[i])
  <2>1. ASSUME a \in OwnAnswers("nginx", f, g)
        PROVE  forwards(f[i]) /\ a = BlockAnswer(f[i])
    <3>1. PICK q \in Ports : LET k == Answering(f, q, g)
                             IN k \in DOMAIN f /\ forwards(f[k]) /\ a = BlockAnswer(f[k])
                                /\ a.port = q
      BY <1>4, <2>1, NginxAnswers
    <3>2. q = p
      BY <1>4, <2>1, <3>1
    <3> QED
      BY <1>3, <3>1, <3>2
  <2>2. ASSUME forwards(f[i]), a = BlockAnswer(f[i])
        PROVE  a \in OwnAnswers("nginx", f, g)
    <3>1. a.port = p
      BY <2>2 DEF BlockAnswer
    <3>2. a \in nginxServes(f, g)
      BY <1>0, <1>1, <1>3, <2>2, <3>1, NginxAnswers
    <3> QED
      BY <1>4, <3>1, <3>2
  <2> QED
    BY <2>1, <2>2
<1> QED
  BY <1>5

\* A host that one block names is answered by that block on the port naming it.
LEMMA OneBlockAnswers ==
    ASSUME NEW f \in Seq(Block), NEW g, NEW i \in DOMAIN f, NamingBlocks(f, g) = {i}
    PROVE  OwnAnswers("nginx", f, g) = IF forwards(f[i]) THEN {BlockAnswer(f[i])} ELSE {}
<1>1. i \in NamingBlocks(f, g) /\ \A k \in NamingBlocks(f, g) : i <= k /\ f[k].port = f[i].port
  OBVIOUS
<1> HIDE DEF NamingBlocks
<1> QED
  BY <1>1, FirstBlockAnswers

-----------------------------------------------------------------------------
(***************************************************************************)
(* A default-deny that is reported enforced.                               *)
(***************************************************************************)
\* A set of blocks in which nothing forwards by default: no default server
\* does, every forwarding server is a plain vhost, and its port is denied.
Closed(bs) ==
    /\ \A b \in bs : b.default # "underscore"
    /\ \A b \in bs : catchAll(b) => ~ forwards(b)
    /\ \A b \in bs : forwards(b) => Modelled(b)
    /\ \A b \in bs : Modelled(b) =>
          \E d \in bs : catchAll(d) /\ ~ forwards(d) /\ d.port = b.port

\* A closed config forwards no stranger, on any port.
LEMMA ClosedServesNobody ==
    ASSUME NEW f \in Seq(Block), Closed(ToSet(f))
    PROVE  nginxServes(f, Stranger) = {}
<1> SUFFICES ASSUME NEW a \in nginxServes(f, Stranger) PROVE FALSE
  OBVIOUS
<1>1. PICK p \in Ports : LET k == Answering(f, p, Stranger)
                         IN k \in DOMAIN f /\ forwards(f[k]) /\ a = BlockAnswer(f[k]) /\ a.port = p
  BY NginxAnswers
<1> DEFINE i == Answering(f, p, Stranger)
<1>2. i \in DOMAIN f /\ forwards(f[i]) /\ f[i].port = p /\ f[i] \in ToSet(f)
  BY <1>1 DEF BlockAnswer, ToSet
<1>3. NamingOn(f, p, Stranger) = {}
  <2>1. \A k \in DOMAIN f : f[k] \in Block
    OBVIOUS
  <2>2. \A k \in DOMAIN f : Stranger \notin ToSet(f[k].names)
    BY <2>1, BlockNames, LiveConfigAssumption
  <2> QED
    BY <2>2 DEF NamingOn, OnPort
<1>4. Modelled(f[i]) /\ ~ catchAll(f[i])
  BY <1>2 DEF Closed
<1>5. PICK d \in ToSet(f) : catchAll(d) /\ ~ forwards(d) /\ d.port = p /\ d.default # "underscore"
  BY <1>2, <1>4 DEF Closed
<1>6. PICK k \in DOMAIN f : f[k] = d
  BY <1>5 DEF ToSet
<1>7. f[k] \in Block /\ f[k].default \in {"no", "flag", "underscore"}
  <2>1. f[k] \in Block
    OBVIOUS
  <2> QED
    BY <2>1 DEF Block
<1>8. k \in DefaultOn(f, p)
  BY <1>5, <1>6, <1>7 DEF DefaultOn, OnPort, catchAll
<1>9. i \in DefaultOn(f, p)
  BY <1>3, <1>8, AnsweringIs
<1> HIDE DEF i
<1> QED
  BY <1>4, <1>9 DEF DefaultOn, OnPort, catchAll

\* Enforced, in terms of what was read.
LEMMA EnforcedMeans ==
    ASSUME NEW s, DenyState(s) = "enforced"
    PROVE  s.deny /\ s.unparsed \subseteq {"acknowledged"}
BY DEF DenyState, FullyParsed

\* A server block that forwards and is not declared unparsed is modelled.
LEMMA ForwardsModelled ==
    ASSUME NEW b, BlockUnparsed(b) \subseteq {"acknowledged"}, ~ b.ack,
           forwards(b), ~ catchAll(b)
    PROVE  Modelled(b)
<1>1. isServer(b)
  BY DEF forwards
<1>2. hostOf(b) # Nothing
  <2> SUFFICES ASSUME hostOf(b) = Nothing PROVE FALSE
    OBVIOUS
  <2>1. ~ Vhost(b)
    BY DEF Vhost
  <2>2. BlockUnparsed(b) = {"matcher"}
    BY <1>1, <2>1 DEF BlockUnparsed
  <2> QED
    BY <2>2
<1>3. Vhost(b)
  BY <1>1, <1>2 DEF Vhost
<1>4. b.paths => BlockUnparsed(b) = {"matcher"}
  BY <1>1, <1>2, <1>3 DEF BlockUnparsed, ackAware
<1> QED
  BY <1>3, <1>4 DEF Modelled

\* An nginx file that reads as enforced forwards no stranger.
LEMMA NginxEnforced ==
    ASSUME NEW f \in Seq(Block), Legible("nginx", f),
           DenyState(normalizeNginx(f)) = "enforced"
    PROVE  nginxServes(f, Stranger) = {}
<1> DEFINE bs == ToSet(f)
<1>1. normalizeNginx(f).deny = DenyCatchAllPresent(bs)
      /\ normalizeNginx(f).unparsed = UNION {BlockUnparsed(b) : b \in bs}
  BY DEF normalizeNginx
<1>2. ~ permissiveCatchAll(bs) /\ forwardingPorts(bs) \subseteq denyPorts(bs)
  BY <1>1, EnforcedMeans DEF DenyCatchAllPresent
<1>3. \A b \in bs : BlockUnparsed(b) \subseteq {"acknowledged"}
  BY <1>1, EnforcedMeans
<1>4. \A b \in bs : ~ b.ack /\ b.default # "underscore"
  BY DEF Legible, ToSet
<1>5. \A b \in bs : catchAll(b) => ~ forwards(b)
  BY <1>2 DEF permissiveCatchAll
<1>6. \A b \in bs : forwards(b) => Modelled(b)
  BY <1>3, <1>4, <1>5, ForwardsModelled
<1>7. ASSUME NEW b \in bs, Modelled(b)
      PROVE  \E d \in bs : catchAll(d) /\ ~ forwards(d) /\ d.port = b.port
  <2>1. b.port \in forwardingPorts(bs)
    BY <1>7 DEF forwardingPorts
  <2>2. b.port \in denyPorts(bs)
    BY <1>2, <2>1
  <2> QED
    BY <2>2 DEF denyPorts
<1> HIDE DEF bs
<1>8. Closed(bs)
  BY <1>4, <1>5, <1>6, <1>7 DEF Closed
<1> QED
  BY <1>8, ClosedServesNobody DEF bs

\* A tree that reads as enforced forwards no stranger, whatever order it is loaded in.
LEMMA TreeEnforced ==
    ASSUME NEW t \in SUBSET TreeFile, IsFiniteSet(t), Legible("npm", t),
           DenyState(ReadTree(t)) = "enforced"
    PROVE  nginxServes(TreeConfig(t), Stranger) = {}
<1> DEFINE parsed == {f \in t : f.dir # "stream"}
           readable == {g \in parsed : g.readable}
           bs == {ReadBlock(f) : f \in readable}
           saw == \E b \in bs : catchAll(b)
<1>1. ReadTree(t).deny = (saw => DenyCatchAllPresent(bs))
  BY DEF ReadTree
<1>2. /\ UNION {resolveIncludes(f) : f \in readable} \subseteq ReadTree(t).unparsed
      /\ UNION {BlockUnparsed(b) : b \in {c \in bs : c.kind # "map"}} \subseteq ReadTree(t).unparsed
      /\ ~ (saw /\ \A f \in t : f.readable /\ f.dir # "stream") =>
            "server_block" \in ReadTree(t).unparsed
  <2> DEFINE A  == UNION {resolveIncludes(f) : f \in readable}
             B2 == UNION {BlockUnparsed(b) : b \in {c \in bs : c.kind # "map"}}
             D  == IF saw /\ \A f \in t : f.readable /\ f.dir # "stream"
                   THEN {} ELSE {"server_block"}
  <2>1. ReadTree(t).unparsed = A \cup B2 \cup D
    BY DEF ReadTree
  <2>2. ~ (saw /\ \A f \in t : f.readable /\ f.dir # "stream") => "server_block" \in D
    OBVIOUS
  <2> HIDE DEF A, B2, D
  <2>3. /\ A \subseteq ReadTree(t).unparsed /\ B2 \subseteq ReadTree(t).unparsed
        /\ D \subseteq ReadTree(t).unparsed
    BY <2>1
  <2> QED
    BY <2>2, <2>3 DEF A, B2
<1>3. ReadTree(t).deny /\ ReadTree(t).unparsed \subseteq {"acknowledged"}
  BY EnforcedMeans
<1> HIDE DEF saw
<1>4. saw /\ \A f \in t : f.readable /\ f.dir # "stream"
  BY <1>2, <1>3
<1>5. readable = t
  BY <1>4
<1>6. \A f \in t : resolveIncludes(f) \subseteq {"acknowledged"}
  <2> HIDE DEF readable
  <2> QED
    BY <1>2, <1>3, <1>5
<1>7. ASSUME NEW f \in t
      PROVE  /\ f.block \in Block /\ ReadBlock(f) = [f.block EXCEPT !.ack = FALSE]
             /\ ReadBlock(f) \in bs
  <2>1. f \in TreeFile
    OBVIOUS
  <2>2. f.block \in Block
    BY <2>1 DEF TreeFile
  <2>3. f.include # "unset"
    BY <1>6 DEF resolveIncludes
  <2>4. ReadBlock(f) = [f.block EXCEPT !.ack = FALSE]
    BY <2>2, <2>3 DEF ReadBlock, Block
  <2> QED
    BY <1>5, <2>2, <2>4
<1> DEFINE B == {f.block : f \in {g \in t : g.dir # "stream" /\ g.block.kind = "server"}}
<1>8. ASSUME NEW b \in B
      PROVE  /\ b \in Block /\ b.kind = "server" /\ [b EXCEPT !.ack = FALSE] \in bs
             /\ b.default # "underscore"
  BY <1>7 DEF Legible
<1> DEFINE unacked(b) == [b EXCEPT !.ack = FALSE]
<1>9. ASSUME NEW b \in Block
      PROVE  /\ unacked(b).ack = FALSE /\ unacked(b).kind = b.kind /\ unacked(b).port = b.port
             /\ catchAll(unacked(b)) = catchAll(b) /\ forwards(unacked(b)) = forwards(b)
             /\ Modelled(unacked(b)) = Modelled(b)
  BY DEF Block, catchAll, forwards, isServer, Modelled, Vhost, hostOf
<1>10. ~ permissiveCatchAll(bs) /\ forwardingPorts(bs) \subseteq denyPorts(bs)
  BY <1>1, <1>3, <1>4 DEF DenyCatchAllPresent
<1>11. \A x \in bs : \E b \in Block : b \in {f.block : f \in t} /\ x = unacked(b)
  BY <1>5, <1>7
<1> HIDE DEF bs, unacked
<1>12. \A x \in bs : x.kind # "map" => BlockUnparsed(x) \subseteq {"acknowledged"}
  BY <1>2, <1>3
<1>13. \A b \in B : catchAll(b) => ~ forwards(b)
  <2> TAKE b \in B
  <2>1. unacked(b) \in bs /\ b \in Block
    BY <1>8 DEF unacked
  <2> HIDE DEF B
  <2> QED
    BY <1>9, <1>10, <2>1 DEF permissiveCatchAll
<1>14. \A b \in B : forwards(b) => Modelled(b)
  <2> TAKE b \in B
  <2>1. unacked(b) \in bs /\ b \in Block /\ b.kind = "server"
    BY <1>8 DEF unacked
  <2>2. catchAll(b) => ~ forwards(b)
    BY <1>13
  <2> HIDE DEF B
  <2>3. unacked(b).kind # "map" /\ ~ unacked(b).ack
    BY <1>9, <2>1
  <2>4. BlockUnparsed(unacked(b)) \subseteq {"acknowledged"}
    BY <1>12, <2>1, <2>3
  <2>5. forwards(unacked(b)) /\ ~ catchAll(unacked(b)) => Modelled(unacked(b))
    BY <2>3, <2>4, ForwardsModelled
  <2> QED
    BY <1>9, <2>1, <2>2, <2>5
<1>15. ASSUME NEW b \in B, Modelled(b)
       PROVE  \E d \in B : catchAll(d) /\ ~ forwards(d) /\ d.port = b.port
  <2>1. unacked(b) \in bs /\ b \in Block
    BY <1>8 DEF unacked
  <2> HIDE DEF B
  <2>2. unacked(b).port \in forwardingPorts(bs)
    BY <1>9, <1>15, <2>1 DEF forwardingPorts
  <2>3. b.port \in denyPorts(bs)
    BY <1>9, <1>10, <2>1, <2>2
  <2>4. PICK x \in bs : catchAll(x) /\ ~ forwards(x) /\ x.port = b.port
    BY <2>3 DEF denyPorts
  <2>5. PICK d \in Block : d \in {f.block : f \in t} /\ x = unacked(d)
    BY <1>11
  <2>6. catchAll(d) /\ ~ forwards(d) /\ d.port = b.port
    BY <1>9, <2>4, <2>5
  <2>7. d.kind = "server"
    BY <2>6 DEF catchAll, isServer
  <2>8. d \in B
    BY <1>4, <2>5, <2>7 DEF B
  <2> QED
    BY <2>6, <2>8
<1>16. \A b \in B : b.default # "underscore" /\ b \in Block
  BY <1>8
<1>17. IsFiniteSet(B)
  <2> DEFINE S == {g \in t : g.dir # "stream" /\ g.block.kind = "server"}
             m == [f \in S |-> f.block]
  <2>1. IsFiniteSet(S)
    BY FS_Subset
  <2>2. m \in [S -> B] /\ \A y \in B : \E x \in S : m[x] = y
    OBVIOUS
  <2> HIDE DEF m, S, B
  <2> QED
    BY <2>1, <2>2, ImageFinite
<1>18. TreeConfig(t) = SetToSeq(B)
  BY DEF TreeConfig
<1> HIDE DEF B
<1>19. Closed(B)
  BY <1>13, <1>14, <1>15, <1>16 DEF Closed
<1> DEFINE s == SetToSeq(B)
<1>20. /\ s \in Seq(B)
       /\ \A x \in B : \E q \in DOMAIN s : s[q] = x
  BY <1>17, SetToSeqLists
<1> HIDE DEF s
<1>21. s \in Seq(Block)
  BY <1>16, <1>20
<1>22. ToSet(s) = B
  BY <1>20 DEF ToSet
<1> QED
  BY <1>18, <1>19, <1>21, <1>22, ClosedServesNobody DEF s

-----------------------------------------------------------------------------
(***************************************************************************)
(* Traefik: tables, and what a write does to them.                         *)
(***************************************************************************)
\* The names crenel uses are apart from each other and from every other name.
LEMMA NamesApart ==
    ASSUME NEW h \in Hosts, NEW g \in Hosts
    PROVE  /\ managedRouterID(h) \in ManagedNames /\ denyKey \in ManagedNames
           /\ managedRouterID(h) \in Names /\ tcpRouterID(h) \in TcpNames
           /\ managedRouterID(h) # denyKey
           /\ managedRouterID(h)[2] = h /\ tcpRouterID(h)[2] = h
           /\ h # g => managedRouterID(h) # managedRouterID(g)
           /\ h # g => tcpRouterID(h) # tcpRouterID(g)
           /\ isManaged(managedRouterID(h)) /\ isManaged(tcpRouterID(h))
BY NamesAssumption DEF managedRouterID, tcpRouterID, denyKey, ManagedNames, TcpNames, Names, isManaged

\* A router name that is not one of crenel's is not one of its TCP names either.
LEMMA ForeignName ==
    ASSUME NEW n \in Names, n \notin ManagedNames
    PROVE  ~ isManaged(n)
BY NamesAssumption DEF Names, isManaged

\* The empty table has every type.
LEMMA EmptyTableType ==
    ASSUME NEW K, NEW V
    PROVE  IsTable(EmptyTable, K, V)
BY DEF IsTable, EmptyTable

\* Laying one table over another gives a table.
LEMMA OverType ==
    ASSUME NEW K, NEW V, NEW f, NEW g, IsTable(f, K, V), IsTable(g, K, V)
    PROVE  IsTable(Over(f, g), K, V)
<1>1. DOMAIN Over(f, g) = DOMAIN f \cup DOMAIN g
  BY DEF Over
<1>2. ASSUME NEW k \in DOMAIN f \cup DOMAIN g
      PROVE  Over(f, g)[k] \in V
  BY DEF Over, IsTable
<1>3. Over(f, g) \in [DOMAIN f \cup DOMAIN g -> V]
  BY <1>2 DEF Over
<1> QED
  BY <1>1, <1>3 DEF IsTable

\* Removing keys from a table gives a table.
LEMMA WithoutType ==
    ASSUME NEW K, NEW V, NEW f, IsTable(f, K, V), NEW D
    PROVE  IsTable(Without(f, D), K, V)
BY DEF Without, IsTable

\* A config is a record of its four parts, each of its type.
LEMMA ConfigParts ==
    ASSUME NEW c, IsConfig(c)
    PROVE  /\ DOMAIN c.routers \subseteq Names /\ DOMAIN c.services \subseteq Names
           /\ \A n \in DOMAIN c.routers : c.routers[n] \in Router
           /\ \A n \in DOMAIN c.services : c.services[n] \in Service
           /\ \A n \in DOMAIN c.tcp : c.tcp[n] \in TcpRouter
           /\ c.defs \in BOOLEAN
BY DEF IsConfig, IsTable

\* The router crenel writes for a route is a router that names its host only.
LEMMA ManagedRouterType ==
    ASSUME NEW r, r.host \in Hosts
    PROVE  /\ ManagedRouter(r) \in Router /\ ManagedRouter(r).hosts = <<r.host>>
           /\ ToSet(ManagedRouter(r).hosts) = {r.host}
           /\ ~ hostless(ManagedRouter(r))
<1>1. <<r.host>> \in [1 .. 1 -> Hosts] /\ <<r.host>> # <<>> /\ <<r.host>>[1] = r.host
  OBVIOUS
<1>2. <<r.host>> \in UNION {[1 .. n -> Hosts] : n \in 0 .. 2}
  BY <1>1
<1>3. (CASE r.auth = "named" -> "auth" [] r.auth = "detected" -> "lost" [] OTHER -> "none")
         \in {"none", "auth", "headers", "badger", "lost"}
  OBVIOUS
<1>4. ManagedRouter(r) \in Router
  BY <1>2, <1>3, NamesApart DEF ManagedRouter, Router
<1>5. ToSet(<<r.host>>) = {r.host}
  BY <1>1 DEF ToSet
<1> QED
  BY <1>1, <1>4, <1>5 DEF ManagedRouter, hostless

\* What a write for h does to the tables: w is f but for crenel's own entries.
TraefikWrite(f, h, w) ==
    /\ w = [routers |-> w.routers, services |-> w.services, tcp |-> w.tcp, defs |-> FALSE]
    /\ \A n : n # managedRouterID(h) /\ n # denyKey =>
          /\ n \in DOMAIN w.routers <=> n \in DOMAIN f.routers
          /\ n \in DOMAIN w.services <=> n \in DOMAIN f.services
          /\ n \in DOMAIN f.routers => w.routers[n] = f.routers[n]
          /\ n \in DOMAIN f.services => w.services[n] = f.services[n]
    /\ denyKey \notin DOMAIN w.routers /\ denyKey \notin DOMAIN w.services
    /\ \A n : n # tcpRouterID(h) =>
          /\ n \in DOMAIN w.tcp <=> n \in DOMAIN f.tcp
          /\ n \in DOMAIN f.tcp => w.tcp[n] = f.tcp[n]

\* crenel's own entries for h after the write.
HttpAdded(w, h, r) ==
    /\ managedRouterID(h) \in DOMAIN w.routers /\ managedRouterID(h) \in DOMAIN w.services
    /\ w.routers[managedRouterID(h)] = ManagedRouter(r)
    /\ w.services[managedRouterID(h)] = [shape |-> "servers", to |-> r.to]

TcpAdded(w, h, r) ==
    /\ tcpRouterID(h) \in DOMAIN w.tcp
    /\ w.tcp[tcpRouterID(h)] = [sni |-> {h}, to |-> r.to]

HttpKept(f, w, h) ==
    LET n == managedRouterID(h)
    IN /\ n \in DOMAIN w.routers <=> n \in DOMAIN f.routers
       /\ n \in DOMAIN w.services <=> n \in DOMAIN f.services
       /\ n \in DOMAIN f.routers => w.routers[n] = f.routers[n]
       /\ n \in DOMAIN f.services => w.services[n] = f.services[n]

TcpKept(f, w, h) ==
    LET n == tcpRouterID(h)
    IN /\ n \in DOMAIN w.tcp <=> n \in DOMAIN f.tcp
       /\ n \in DOMAIN f.tcp => w.tcp[n] = f.tcp[n]

HttpGone(w, h) ==
    managedRouterID(h) \notin DOMAIN w.routers /\ managedRouterID(h) \notin DOMAIN w.services

TcpGone(w, h) == tcpRouterID(h) \notin DOMAIN w.tcp

\* The keys a write removes and adds, and the route behind an added key.
Gone(c) == {managedRouterID(h) : h \in c.remove} \cup {denyKey}
OwnKeys(c) == {managedRouterID(r.host) : r \in {q \in c.add : q.mode = "http"}}
RawKeys(c) == {tcpRouterID(r.host) : r \in {q \in c.add : q.mode = "tcp"}}
RouteOf(c, k) == CHOOSE r \in c.add : r.host = k[2]

\* The entries a write lays over what it keeps.
OwnRouters(c) == [k \in OwnKeys(c) |-> ManagedRouter(RouteOf(c, k))]
OwnServices(c) == [k \in OwnKeys(c) |-> [shape |-> "servers", to |-> RouteOf(c, k).to]]
OwnTcp(c) == [k \in RawKeys(c) |-> [sni |-> {k[2]}, to |-> RouteOf(c, k).to]]

\* Apply, table by table.
LEMMA ApplyTraefikIs ==
    ASSUME NEW f, NEW c
    PROVE  applyTraefik(f, c) =
             [routers  |-> Over(OwnRouters(c), Without(f.routers, Gone(c))),
              services |-> Over(OwnServices(c), Without(f.services, Gone(c))),
              tcp      |-> Over(OwnTcp(c), Without(f.tcp, {tcpRouterID(h) : h \in c.remove})),
              defs     |-> FALSE]
BY Zenon DEF applyTraefik, Gone, OwnKeys, RawKeys, RouteOf, OwnRouters, OwnServices, OwnTcp

\* The tables after a write, entry by entry.
LEMMA ApplyTraefikEntries ==
    ASSUME NEW f, NEW c
    PROVE  LET w == applyTraefik(f, c)
           IN /\ w = [routers |-> w.routers, services |-> w.services, tcp |-> w.tcp, defs |-> FALSE]
              /\ DOMAIN w.routers = OwnKeys(c) \cup (DOMAIN f.routers \ Gone(c))
              /\ DOMAIN w.services = OwnKeys(c) \cup (DOMAIN f.services \ Gone(c))
              /\ DOMAIN w.tcp = RawKeys(c) \cup (DOMAIN f.tcp \ {tcpRouterID(h) : h \in c.remove})
              /\ \A k \in OwnKeys(c) :
                    /\ w.routers[k] = ManagedRouter(RouteOf(c, k))
                    /\ w.services[k] = [shape |-> "servers", to |-> RouteOf(c, k).to]
              /\ \A k \in RawKeys(c) : w.tcp[k] = [sni |-> {k[2]}, to |-> RouteOf(c, k).to]
              /\ \A k \in (DOMAIN f.routers \ Gone(c)) \ OwnKeys(c) : w.routers[k] = f.routers[k]
              /\ \A k \in (DOMAIN f.services \ Gone(c)) \ OwnKeys(c) : w.services[k] = f.services[k]
              /\ \A k \in (DOMAIN f.tcp \ {tcpRouterID(h) : h \in c.remove}) \ RawKeys(c) :
                    w.tcp[k] = f.tcp[k]
<1> DEFINE w  == applyTraefik(f, c)
           rt == OwnRouters(c)
           sv == OwnServices(c)
           tc == OwnTcp(c)
           gt == {tcpRouterID(h) : h \in c.remove}
<1>1. w = [routers  |-> Over(rt, Without(f.routers, Gone(c))),
           services |-> Over(sv, Without(f.services, Gone(c))),
           tcp      |-> Over(tc, Without(f.tcp, gt)),
           defs     |-> FALSE]
  BY ApplyTraefikIs
<1>2. /\ w = [routers |-> w.routers, services |-> w.services, tcp |-> w.tcp, defs |-> FALSE]
      /\ w.routers = Over(rt, Without(f.routers, Gone(c)))
      /\ w.services = Over(sv, Without(f.services, Gone(c)))
      /\ w.tcp = Over(tc, Without(f.tcp, gt))
  <2> HIDE DEF w, rt, sv, tc, gt
  <2> QED
    BY <1>1
<1>3. /\ DOMAIN rt = OwnKeys(c) /\ \A k \in OwnKeys(c) : rt[k] = ManagedRouter(RouteOf(c, k))
      /\ DOMAIN sv = OwnKeys(c)
      /\ \A k \in OwnKeys(c) : sv[k] = [shape |-> "servers", to |-> RouteOf(c, k).to]
      /\ DOMAIN tc = RawKeys(c)
      /\ \A k \in RawKeys(c) : tc[k] = [sni |-> {k[2]}, to |-> RouteOf(c, k).to]
  BY DEF OwnRouters, OwnServices, OwnTcp
<1> HIDE DEF w, rt, sv, tc, gt
<1>4. /\ DOMAIN w.routers = OwnKeys(c) \cup (DOMAIN f.routers \ Gone(c))
      /\ \A k \in OwnKeys(c) : w.routers[k] = ManagedRouter(RouteOf(c, k))
      /\ \A k \in (DOMAIN f.routers \ Gone(c)) \ OwnKeys(c) : w.routers[k] = f.routers[k]
  <2> DEFINE o == Over(rt, Without(f.routers, Gone(c)))
  <2>1. /\ DOMAIN o = DOMAIN rt \cup (DOMAIN f.routers \ Gone(c))
        /\ \A k \in DOMAIN rt : o[k] = rt[k]
        /\ \A k \in (DOMAIN f.routers \ Gone(c)) \ DOMAIN rt : o[k] = f.routers[k]
    BY DEF Over, Without
  <2> HIDE DEF o
  <2>2. w.routers = o
    BY <1>2 DEF o
  <2> QED
    BY <1>3, <2>1, <2>2
<1>5. /\ DOMAIN w.services = OwnKeys(c) \cup (DOMAIN f.services \ Gone(c))
      /\ \A k \in OwnKeys(c) : w.services[k] = [shape |-> "servers", to |-> RouteOf(c, k).to]
      /\ \A k \in (DOMAIN f.services \ Gone(c)) \ OwnKeys(c) : w.services[k] = f.services[k]
  <2> DEFINE o == Over(sv, Without(f.services, Gone(c)))
  <2>1. /\ DOMAIN o = DOMAIN sv \cup (DOMAIN f.services \ Gone(c))
        /\ \A k \in DOMAIN sv : o[k] = sv[k]
        /\ \A k \in (DOMAIN f.services \ Gone(c)) \ DOMAIN sv : o[k] = f.services[k]
    BY DEF Over, Without
  <2> HIDE DEF o
  <2>2. w.services = o
    BY <1>2 DEF o
  <2> QED
    BY <1>3, <2>1, <2>2
<1>6. /\ DOMAIN w.tcp = RawKeys(c) \cup (DOMAIN f.tcp \ gt)
      /\ \A k \in RawKeys(c) : w.tcp[k] = [sni |-> {k[2]}, to |-> RouteOf(c, k).to]
      /\ \A k \in (DOMAIN f.tcp \ gt) \ RawKeys(c) : w.tcp[k] = f.tcp[k]
  <2> DEFINE o == Over(tc, Without(f.tcp, gt))
  <2>1. /\ DOMAIN o = DOMAIN tc \cup (DOMAIN f.tcp \ gt)
        /\ \A k \in DOMAIN tc : o[k] = tc[k]
        /\ \A k \in (DOMAIN f.tcp \ gt) \ DOMAIN tc : o[k] = f.tcp[k]
    BY DEF Over, Without
  <2> HIDE DEF o
  <2>2. w.tcp = o
    BY <1>2 DEF o
  <2> QED
    BY <1>3, <2>1, <2>2
<1> QED
  BY <1>2, <1>4, <1>5, <1>6 DEF w, gt

\* A write that adds an HTTP route.
LEMMA TraefikAddsHttp ==
    ASSUME NEW f, NEW h \in Hosts, NEW c, NEW r,
           c.add = {r}, r.host = h, r.mode = "http", c.remove = {}
    PROVE  LET w == applyTraefik(f, c)
           IN TraefikWrite(f, h, w) /\ HttpAdded(w, h, r) /\ TcpKept(f, w, h)
<1> DEFINE w == applyTraefik(f, c)
<1>1. Gone(c) = {denyKey} /\ {tcpRouterID(g) : g \in c.remove} = {}
  BY DEF Gone
<1>2. OwnKeys(c) = {managedRouterID(h)} /\ RawKeys(c) = {}
  BY DEF OwnKeys, RawKeys
<1>3. managedRouterID(h) # denyKey /\ managedRouterID(h)[2] = h
  BY NamesApart
<1>4. RouteOf(c, managedRouterID(h)) = r
  BY <1>3 DEF RouteOf
<1>5. TraefikWrite(f, h, w)
  BY <1>1, <1>2, <1>3, ApplyTraefikEntries DEF TraefikWrite
<1>6. HttpAdded(w, h, r)
  BY <1>1, <1>2, <1>4, ApplyTraefikEntries DEF HttpAdded
<1>7. TcpKept(f, w, h)
  BY <1>1, <1>2, ApplyTraefikEntries DEF TcpKept
<1> QED
  BY <1>5, <1>6, <1>7

\* A write that adds a TCP route.
LEMMA TraefikAddsTcp ==
    ASSUME NEW f, NEW h \in Hosts, NEW c, NEW r,
           c.add = {r}, r.host = h, r.mode = "tcp", c.remove = {}
    PROVE  LET w == applyTraefik(f, c)
           IN TraefikWrite(f, h, w) /\ HttpKept(f, w, h) /\ TcpAdded(w, h, r)
<1> DEFINE w == applyTraefik(f, c)
<1>1. Gone(c) = {denyKey} /\ {tcpRouterID(g) : g \in c.remove} = {}
  BY DEF Gone
<1>2. OwnKeys(c) = {} /\ RawKeys(c) = {tcpRouterID(h)}
  BY DEF OwnKeys, RawKeys
<1>3. managedRouterID(h) # denyKey /\ tcpRouterID(h)[2] = h
  BY NamesApart
<1>4. RouteOf(c, tcpRouterID(h)) = r
  BY <1>3 DEF RouteOf
<1>5. TraefikWrite(f, h, w)
  BY <1>1, <1>2, <1>3, ApplyTraefikEntries DEF TraefikWrite
<1>6. HttpKept(f, w, h)
  BY <1>1, <1>2, <1>3, ApplyTraefikEntries DEF HttpKept
<1>7. TcpAdded(w, h, r)
  BY <1>1, <1>2, <1>3, <1>4, ApplyTraefikEntries DEF TcpAdded
<1> QED
  BY <1>5, <1>6, <1>7

\* A write that removes a host.
LEMMA TraefikRemoves ==
    ASSUME NEW f, NEW h \in Hosts, NEW c, c.add = {}, c.remove = {h}
    PROVE  LET w == applyTraefik(f, c)
           IN TraefikWrite(f, h, w) /\ HttpGone(w, h) /\ TcpGone(w, h)
<1> DEFINE w == applyTraefik(f, c)
<1>1. Gone(c) = {managedRouterID(h), denyKey}
      /\ {tcpRouterID(g) : g \in c.remove} = {tcpRouterID(h)}
  BY DEF Gone
<1>2. OwnKeys(c) = {} /\ RawKeys(c) = {}
  BY DEF OwnKeys, RawKeys
<1>3. TraefikWrite(f, h, w)
  BY <1>1, <1>2, ApplyTraefikEntries DEF TraefikWrite
<1>4. HttpGone(w, h) /\ TcpGone(w, h)
  BY <1>1, <1>2, ApplyTraefikEntries DEF HttpGone, TcpGone
<1> QED
  BY <1>3, <1>4

\* A write turns a config into a config.
LEMMA TraefikWriteType ==
    ASSUME NEW f, IsConfig(f), NEW h \in Hosts, NEW c, OneChange(c, h),
           \A r \in c.add : r.mode = "http" => r.to # Nothing
    PROVE  IsConfig(applyTraefik(f, c))
<1> DEFINE w == applyTraefik(f, c)
           gt == {tcpRouterID(g) : g \in c.remove}
<1>1. ASSUME NEW k \in OwnKeys(c)
      PROVE  /\ k \in Names /\ ManagedRouter(RouteOf(c, k)) \in Router
             /\ [shape |-> "servers", to |-> RouteOf(c, k).to] \in Service
  <2>1. PICK r \in c.add : k = managedRouterID(r.host) /\ r.mode = "http"
    BY DEF OwnKeys
  <2>2. c.add = {r} /\ r \in LiveRoute /\ r.host = h
    BY <2>1 DEF OneChange
  <2>3. k[2] = h /\ k \in Names
    BY <2>1, <2>2, NamesApart
  <2>4. RouteOf(c, k) = r
    BY <2>2, <2>3 DEF RouteOf
  <2>5. r.to \in Backends
    BY <2>1, <2>2 DEF LiveRoute
  <2>6. [shape |-> "servers", to |-> r.to] \in Service
    BY <2>5 DEF Service
  <2> QED
    BY <2>2, <2>3, <2>4, <2>6, ManagedRouterType
<1>2. ASSUME NEW k \in RawKeys(c)
      PROVE  k \in TcpNames /\ [sni |-> {k[2]}, to |-> RouteOf(c, k).to] \in TcpRouter
  <2>1. PICK r \in c.add : k = tcpRouterID(r.host)
    BY DEF RawKeys
  <2>2. c.add = {r} /\ r \in LiveRoute /\ r.host = h
    BY <2>1 DEF OneChange
  <2>3. k[2] = h /\ k \in TcpNames
    BY <2>1, <2>2, NamesApart
  <2>4. RouteOf(c, k) = r
    BY <2>2, <2>3 DEF RouteOf
  <2>5. r.to \in Backends \cup {Nothing}
    BY <2>2 DEF LiveRoute
  <2> QED
    BY <2>3, <2>4, <2>5 DEF TcpRouter
<1>3. /\ IsTable(OwnRouters(c), Names, Router) /\ IsTable(OwnServices(c), Names, Service)
      /\ IsTable(OwnTcp(c), OtherNames \cup TcpNames, TcpRouter)
  <2>1. IsTable(OwnRouters(c), Names, Router)
    BY <1>1 DEF OwnRouters, IsTable
  <2>2. IsTable(OwnServices(c), Names, Service)
    BY <1>1 DEF OwnServices, IsTable
  <2>3. IsTable(OwnTcp(c), OtherNames \cup TcpNames, TcpRouter)
    BY <1>2 DEF OwnTcp, IsTable
  <2> QED
    BY <2>1, <2>2, <2>3
<1>4. /\ IsTable(Without(f.routers, Gone(c)), Names, Router)
      /\ IsTable(Without(f.services, Gone(c)), Names, Service)
      /\ IsTable(Without(f.tcp, gt), OtherNames \cup TcpNames, TcpRouter)
  BY WithoutType DEF IsConfig
<1>5. /\ w.routers = Over(OwnRouters(c), Without(f.routers, Gone(c)))
      /\ w.services = Over(OwnServices(c), Without(f.services, Gone(c)))
      /\ w.tcp = Over(OwnTcp(c), Without(f.tcp, gt))
      /\ w.defs = FALSE
      /\ w = [routers |-> w.routers, services |-> w.services, tcp |-> w.tcp, defs |-> w.defs]
  BY ApplyTraefikIs
<1> HIDE DEF w, gt
<1>6. IsTable(w.routers, Names, Router) /\ IsTable(w.services, Names, Service)
      /\ IsTable(w.tcp, OtherNames \cup TcpNames, TcpRouter)
  BY <1>3, <1>4, <1>5, OverType
<1>7. IsConfig(w)
  BY <1>5, <1>6 DEF IsConfig
<1> QED
  BY <1>7 DEF w

-----------------------------------------------------------------------------
(***************************************************************************)
(* Types of what is read, planned, pasted and adopted.                     *)
(***************************************************************************)
\* The first route of a host is one of its routes.
LEMMA FirstRouteIs ==
    ASSUME NEW s \in LiveState, NEW h, LiveHasHost(s, h)
    PROVE  /\ FirstRoute(s, h) \in s.routes /\ FirstRoute(s, h) \in LiveRoute
           /\ FirstRoute(s, h).host = h
<1> DEFINE F == RoutesFor(s, h)
<1>1. F # {} /\ F \subseteq s.routes /\ s.routes \subseteq LiveRoute
      /\ \A r \in F : r.host = h
  BY DEF LiveHasHost, RoutesFor, LiveState
<1>2. \E r \in F : r.managed => \A q \in F : q.managed
  BY <1>1
<1>3. FirstRoute(s, h) \in F
  BY <1>2 DEF FirstRoute
<1> QED
  BY <1>1, <1>3

\* The nginx reader returns a live state.
LEMMA NginxReadType ==
    ASSUME NEW f \in Seq(Block)
    PROVE  normalizeNginx(f) \in LiveState
<1> DEFINE bs == ToSet(f)
<1>1. \A b \in bs : b \in Block
  BY DEF ToSet
<1> HIDE DEF bs
<1>2. {BlockRoute(b) : b \in {x \in bs : Modelled(x)}} \subseteq LiveRoute
  BY <1>1, BlockRouteType DEF Modelled, Vhost
<1>3. \A b : BlockUnparsed(b) \subseteq UnknownKinds
  BY DEF BlockUnparsed, UnknownKinds, ackAware
<1>4. UNION {BlockUnparsed(b) : b \in bs} \in SUBSET UnknownKinds
  BY <1>3
<1>5. DenyCatchAllPresent(bs) \in BOOLEAN
  BY DEF DenyCatchAllPresent, permissiveCatchAll
<1>6. normalizeNginx(f) = [routes    |-> {BlockRoute(b) : b \in {x \in bs : Modelled(x)}},
                           deny      |-> DenyCatchAllPresent(bs),
                           unparsed  |-> UNION {BlockUnparsed(b) : b \in bs},
                           generator |-> FALSE]
  BY DEF normalizeNginx, bs
<1> QED
  BY <1>2, <1>4, <1>5, <1>6 DEF LiveState

\* The hosts of a router are hosts.
LEMMA RouterHosts ==
    ASSUME NEW r \in Router
    PROVE  /\ ToSet(r.hosts) \subseteq Hosts
           /\ \E n \in 0 .. 2 : r.hosts \in [1 .. n -> Hosts]
           /\ hostless(r) <=> ToSet(r.hosts) = {}
<1>1. PICK n \in 0 .. 2 : r.hosts \in [1 .. n -> Hosts]
  BY DEF Router
<1>2. \A i \in DOMAIN r.hosts : r.hosts[i] \in Hosts
  BY <1>1
<1>3. hostless(r) => ToSet(r.hosts) = {}
  BY DEF hostless, ToSet
<1>4. ToSet(r.hosts) = {} => DOMAIN r.hosts = {}
  BY DEF ToSet
<1>5. DOMAIN r.hosts = {} => r.hosts = <<>>
  <2>1. CASE n = 0
    BY <1>1, <2>1
  <2>2. CASE n # 0
    <3>1. 1 \in 1 .. n /\ DOMAIN r.hosts = 1 .. n
      BY <1>1, <2>2
    <3> QED
      BY <3>1
  <2> QED
    BY <2>1, <2>2
<1> QED
  BY <1>1, <1>2, <1>3, <1>4, <1>5 DEF ToSet, hostless

\* What the reader makes of one HTTP router, and when it is a route.
LEMMA RouterRoutesType ==
    ASSUME NEW c, IsConfig(c), NEW k \in DOMAIN c.routers, NEW q \in RouterRoutes(k, c.routers[k], c.services)
    PROVE  /\ q \in LiveRoute /\ q.to # Nothing /\ q.mode = "http"
           /\ q.host \in ToSet(c.routers[k].hosts) /\ ~ c.routers[k].cond
           /\ hasUpstream(c.services, c.routers[k].service)
           /\ q.to = c.services[c.routers[k].service].to
           /\ q.auth = authForRouter(isManaged(k), c.routers[k])
           /\ q.managed = isManaged(k)
<1> DEFINE r == c.routers[k]
<1>1. r \in Router
  BY ConfigParts
<1> HIDE DEF r
<1>2. q \in RouterRoutes(k, r, c.services)
  BY DEF r
<1>3. ~ hostless(r) /\ ~ r.cond /\ hasUpstream(c.services, r.service)
  BY <1>2 DEF RouterRoutes, nonHostPredicates
<1>4. PICK h \in ToSet(r.hosts) :
         q = [host |-> h, to |-> c.services[r.service].to, mode |-> "http",
              auth |-> authForRouter(isManaged(k), r), managed |-> isManaged(k)]
  BY <1>2, <1>3 DEF RouterRoutes, nonHostPredicates
<1>5. c.services[r.service] \in Service /\ c.services[r.service].to \in Backends
  <2>1. c.services[r.service] \in Service
    BY <1>3, ConfigParts DEF hasUpstream
  <2> QED
    BY <2>1 DEF Service
<1>6. authForRouter(isManaged(k), r) \in {"none", "named", "detected"}
  BY DEF authForRouter
<1>7. h \in Hosts
  BY <1>1, RouterHosts
<1>8. isManaged(k) \in BOOLEAN
  BY DEF isManaged
<1> QED
  BY <1>3, <1>4, <1>5, <1>6, <1>7, <1>8, LiveConfigAssumption DEF LiveRoute, r

\* What the reader makes of one TCP router.
LEMMA TcpRoutesType ==
    ASSUME NEW c, IsConfig(c), NEW k \in DOMAIN c.tcp, NEW q \in TcpRoutes(k, c.tcp[k])
    PROVE  /\ q \in LiveRoute /\ q.to # Nothing /\ q.mode = "tcp"
           /\ q.host \in c.tcp[k].sni /\ q.to = c.tcp[k].to /\ q.auth = "none"
           /\ q.managed = isManaged(k)
<1> DEFINE r == c.tcp[k]
<1>1. r \in TcpRouter
  BY ConfigParts
<1> HIDE DEF r
<1>2. q \in TcpRoutes(k, r)
  BY DEF r
<1>3. PICK h \in r.sni : r.to # Nothing /\
         q = [host |-> h, to |-> r.to, mode |-> "tcp", auth |-> "none", managed |-> isManaged(k)]
  BY <1>2 DEF TcpRoutes
<1>4. h \in Hosts /\ r.to \in Backends \cup {Nothing}
  BY <1>1 DEF TcpRouter
<1>5. isManaged(k) \in BOOLEAN
  BY DEF isManaged
<1> QED
  BY <1>3, <1>4, <1>5 DEF LiveRoute, r

\* The routes read from a config that no generator owns.
ReadRoutes(c) ==
    (UNION {RouterRoutes(k, c.routers[k], c.services) : k \in DOMAIN c.routers})
    \cup (UNION {TcpRoutes(k, c.tcp[k]) : k \in DOMAIN c.tcp})

\* The Traefik reader returns a live state, whose routes all have an address.
LEMMA TraefikReadType ==
    ASSUME NEW c, IsConfig(c)
    PROVE  /\ normalizeTraefik(c) \in LiveState
           /\ \A q \in ReadRoutes(c) : q \in LiveRoute /\ q.to # Nothing
           /\ ~ normalizeTraefik(c).generator => normalizeTraefik(c).routes = ReadRoutes(c)
           /\ \A h : LiveHasHost(normalizeTraefik(c), h) <=> \E q \in ReadRoutes(c) : q.host = h
<1> DEFINE R == ReadRoutes(c)
           M == {[r EXCEPT !.managed = FALSE] : r \in R}
           n == normalizeTraefik(c)
           U == UNION {RouterUnparsed(c.routers[k], c.services) : k \in DOMAIN c.routers}
           D == \A k \in DOMAIN c.routers : ~ OpensAll(c.routers[k], c.services)
<1>1. \A q \in R : q \in LiveRoute /\ q.to # Nothing
  BY RouterRoutesType, TcpRoutesType DEF ReadRoutes
<1>2. n = [routes    |-> IF detectGenerator(c) THEN M ELSE R,
           deny      |-> D, unparsed  |-> U, generator |-> detectGenerator(c)]
  BY Zenon DEF normalizeTraefik, ReadRoutes
<1> HIDE DEF R, n
<1>3. \A q \in R : [q EXCEPT !.managed = FALSE] \in LiveRoute
                   /\ [q EXCEPT !.managed = FALSE].host = q.host
  BY <1>1 DEF LiveRoute
<1>4. R \subseteq LiveRoute /\ M \subseteq LiveRoute
  BY <1>1, <1>3
<1>5. \A h : (\E q \in M : q.host = h) <=> (\E q \in R : q.host = h)
  BY <1>3
<1>6. \A r : RouterUnparsed(r, c.services) \subseteq UnknownKinds
  BY DEF RouterUnparsed, UnknownKinds, ackAware
<1>7. U \in SUBSET UnknownKinds
  BY <1>6
<1>8. D \in BOOLEAN /\ detectGenerator(c) \in BOOLEAN
  BY DEF detectGenerator
<1> HIDE DEF U, D, M
<1>9. /\ n.routes = IF detectGenerator(c) THEN M ELSE R
      /\ n.generator = detectGenerator(c)
  BY <1>2
<1>10. n \in LiveState
  BY <1>2, <1>4, <1>7, <1>8 DEF LiveState
<1>11. \A h : LiveHasHost(n, h) <=> \E q \in R : q.host = h
  BY <1>5, <1>9 DEF LiveHasHost, RoutesFor
<1> QED
  BY <1>1, <1>9, <1>10, <1>11 DEF R, n

\* What a driver that writes reads back.
LEMMA ReadType ==
    ASSUME NEW k \in {"nginx", "traefik"}, NEW f, IsFile(k, f)
    PROVE  Read(k, f) \in LiveState
<1>1. CASE k = "nginx"
  BY <1>1, NginxReadType DEF IsFile, Read
<1>2. CASE k = "traefik"
  BY <1>2, TraefikReadType DEF IsFile, Read
<1> QED
  BY <1>1, <1>2

\* A plan changes one host, and only where there is something to do.
LEMMA PlanIs ==
    ASSUME NEW o \in Ops, NEW s \in LiveState, Plan(o, s) # NoChange
    PROVE  /\ OneChange(Plan(o, s), o.host) /\ o.host \in Hosts
           /\ \/ /\ o.verb = "expose" /\ ~ LiveHasHost(s, o.host)
                 /\ Plan(o, s) = [add |-> {[host |-> o.host, to |-> Origin[o.host], mode |-> o.mode,
                                            auth |-> o.auth, managed |-> TRUE]},
                                  remove |-> {}]
              \/ /\ o.verb = "unexpose" /\ LiveHasHost(s, o.host)
                 /\ Plan(o, s) = [add |-> {}, remove |-> {o.host}]
<1>0. o \in Op
  BY EdgeFilesAssumption
<1>1. o.verb \in {"expose", "unexpose"} /\ o.host \in Hosts /\ o.mode \in {"http", "tcp"}
      /\ o.auth \in {"none", "named"}
  BY <1>0 DEF Op
<1>2. Origin[o.host] \in Backends
  BY <1>1, EdgeFilesAssumption
<1> DEFINE r == [host |-> o.host, to |-> Origin[o.host], mode |-> o.mode,
                 auth |-> o.auth, managed |-> TRUE]
<1>3. r \in LiveRoute /\ r.host = o.host
  BY <1>1, <1>2 DEF LiveRoute
<1>4. CASE o.verb = "expose"
  <2>1. ~ LiveHasHost(s, o.host)
    BY <1>4 DEF Plan, NoChange
  <2>2. Plan(o, s) = [add |-> {r}, remove |-> {}]
    BY <1>4, <2>1 DEF Plan
  <2> HIDE DEF r
  <2>3. [add |-> {r}, remove |-> {}] \in Change
    BY <1>3 DEF Change
  <2>4. OneChange(Plan(o, s), o.host)
    BY <1>3, <2>2, <2>3 DEF OneChange
  <2> QED
    BY <1>1, <1>4, <2>1, <2>2, <2>4 DEF r
<1>5. CASE o.verb = "unexpose"
  <2>1. LiveHasHost(s, o.host)
    BY <1>5 DEF Plan, NoChange
  <2>2. Plan(o, s) = [add |-> {}, remove |-> {o.host}]
    BY <1>5, <2>1 DEF Plan
  <2>3. [add |-> {}, remove |-> {o.host}] \in Change
    BY <1>1 DEF Change
  <2>4. OneChange(Plan(o, s), o.host)
    BY <1>1, <2>2, <2>3 DEF OneChange
  <2> QED
    BY <1>1, <1>5, <2>1, <2>2, <2>4
<1> QED
  BY <1>1, <1>4, <1>5

\* The compensation changes the same host: it removes what was added, or adds
\* the first route of what was removed.
LEMMA InverseIs ==
    ASSUME NEW o \in Ops, NEW s \in LiveState, Plan(o, s) # NoChange
    PROVE  LET v == invertChange(Plan(o, s), s)
           IN /\ OneChange(v, o.host)
              /\ o.verb = "expose" => v.add = {} /\ v.remove = {o.host}
              /\ o.verb = "unexpose" => v.add = {FirstRoute(s, o.host)} /\ v.remove = {}
<1> DEFINE v == invertChange(Plan(o, s), s)
           h == o.host
<1>1. h \in Hosts
  BY PlanIs
<1>2. CASE o.verb = "expose"
  <2> DEFINE r == [host |-> o.host, to |-> Origin[o.host], mode |-> o.mode,
                   auth |-> o.auth, managed |-> TRUE]
  <2>1. Plan(o, s) = [add |-> {r}, remove |-> {}] /\ r.host = h
    BY <1>2, PlanIs
  <2> HIDE DEF r
  <2>2. v = [add |-> {}, remove |-> {h}]
    BY <2>1 DEF invertChange
  <2>3. v \in Change
    BY <1>1, <2>2 DEF Change
  <2> QED
    BY <1>2, <2>2, <2>3 DEF OneChange
<1>3. CASE o.verb = "unexpose"
  <2>1. Plan(o, s) = [add |-> {}, remove |-> {h}] /\ LiveHasHost(s, h)
    BY <1>3, PlanIs
  <2>2. v = [add |-> {FirstRoute(s, h)}, remove |-> {}]
    BY <2>1 DEF invertChange
  <2>3. FirstRoute(s, h) \in LiveRoute /\ FirstRoute(s, h).host = h
    BY <2>1, FirstRouteIs
  <2>4. v \in Change
    BY <2>2, <2>3 DEF Change
  <2> QED
    BY <1>3, <2>2, <2>3, <2>4 DEF OneChange
<1>4. o.verb \in {"expose", "unexpose"}
  BY PlanIs
<1> QED
  BY <1>2, <1>3, <1>4

\* What a driver writes for one host is a file again.
LEMMA WrittenType ==
    ASSUME NEW k \in {"nginx", "traefik"}, NEW f, IsFile(k, f), NEW h \in Hosts, NEW c,
           OneChange(c, h), k = "traefik" => \A r \in c.add : r.to # Nothing
    PROVE  IsFile(k, Written(k, f, c))
<1>1. CASE k = "nginx"
  <2>1. f \in Seq(Block) /\ AboutHost(c, h)
    BY <1>1, OneChangeAbout DEF IsFile
  <2>2. applyNginx(f, c) \in Seq(Block)
    BY <2>1, ApplyShape DEF WrittenAs
  <2> QED
    BY <1>1, <2>2 DEF IsFile, Written
<1>2. CASE k = "traefik"
  <2>1. IsConfig(applyTraefik(f, c))
    BY <1>2, TraefikWriteType DEF IsFile
  <2> QED
    BY <1>2, <2>1 DEF IsFile, Written
<1> QED
  BY <1>1, <1>2

\* What an operator pastes leaves a file.
LEMMA PastedType ==
    ASSUME NEW k \in {"nginx", "traefik"}, NEW f, IsFile(k, f), NEW s \in Snippets[k]
    PROVE  IsFile(k, Pasted(k, f, s))
<1>1. CASE k = "nginx"
  <2>1. f \in Seq(Block) /\ s \in Block
    BY <1>1, EdgeFilesAssumption DEF IsFile
  <2>2. Append(f, s) \in Seq(Block)
    BY <2>1
  <2> QED
    BY <1>1, <2>2 DEF IsFile, Pasted
<1>2. CASE k = "traefik"
  <2>1. IsConfig(f) /\ IsConfig(s)
    BY <1>2, EdgeFilesAssumption DEF IsFile
  <2> DEFINE w == Pasted("traefik", f, s)
  <2>2. f = [routers |-> f.routers, services |-> f.services, tcp |-> f.tcp, defs |-> f.defs]
    BY <2>1 DEF IsConfig
  <2>3. w = [routers |-> Over(s.routers, f.routers), services |-> Over(s.services, f.services),
             tcp |-> Over(s.tcp, f.tcp), defs |-> f.defs \/ s.defs]
    BY <2>2 DEF Pasted
  <2>4. /\ IsTable(Over(s.routers, f.routers), Names, Router)
        /\ IsTable(Over(s.services, f.services), Names, Service)
        /\ IsTable(Over(s.tcp, f.tcp), OtherNames \cup TcpNames, TcpRouter)
    BY <2>1, OverType DEF IsConfig
  <2> HIDE DEF w
  <2>5. IsConfig(w)
    BY <2>3, <2>4 DEF IsConfig
  <2> QED
    BY <1>2, <2>5 DEF IsFile, w
<1> QED
  BY <1>1, <1>2

\* Adopting in an nginx file touches markers only.
LEMMA AdoptNginxIs ==
    ASSUME NEW f \in Seq(Block), NEW H
    PROVE  LET w == adoptNginx(f, H)
           IN /\ w \in Seq(Block) /\ DOMAIN w = DOMAIN f
              /\ \A i \in DOMAIN f :
                    w[i] = f[i] \/ w[i] = [f[i] EXCEPT !.marker = "managed"]
<1> DEFINE w == adoptNginx(f, H)
<1>1. DOMAIN w = DOMAIN f /\ DOMAIN f = 1 .. Len(f) /\ Len(f) \in Nat
  BY DEF adoptNginx
<1>2. \A i \in DOMAIN f : w[i] = f[i] \/ w[i] = [f[i] EXCEPT !.marker = "managed"]
  BY DEF adoptNginx
<1>3. \A i \in DOMAIN f : f[i] \in Block
  OBVIOUS
<1>4. \A b \in Block : [b EXCEPT !.marker = "managed"] \in Block
  BY DEF Block
<1>5. \A i \in DOMAIN f : w[i] \in Block
  BY <1>2, <1>3, <1>4
<1>6. w = [i \in 1 .. Len(f) |-> w[i]]
  BY <1>1 DEF adoptNginx
<1> HIDE DEF w
<1>7. w \in [1 .. Len(f) -> Block]
  BY <1>1, <1>5, <1>6
<1>8. w \in Seq(Block)
  BY <1>1, <1>7
<1> QED
  BY <1>1, <1>2, <1>8 DEF w

\* The first wanted host, when one is wanted.
LEMMA FirstWantedIs ==
    ASSUME NEW r \in Router, NEW h \in ToSet(r.hosts)
    PROVE  FirstWanted(r, {h}) = h
<1> DEFINE T == {i \in DOMAIN r.hosts : r.hosts[i] \in {h}}
<1>1. PICK n \in 0 .. 2 : r.hosts \in [1 .. n -> Hosts]
  BY RouterHosts
<1>2. T \in SUBSET Nat /\ T # {}
  BY <1>1 DEF ToSet
<1>3. Min(T) \in T
  BY <1>2, MinIsLeast
<1> QED
  BY <1>3 DEF FirstWanted

\* Adopt gives router k the name of its host h, and takes the service along.
ReKeyed(c, k, h, w) ==
    LET new == managedRouterID(h)
        s   == c.routers[k].service
    IN /\ w = [routers |-> w.routers, services |-> w.services, tcp |-> c.tcp, defs |-> c.defs]
       /\ DOMAIN w.routers = {new} \cup (DOMAIN c.routers \ {k})
       /\ w.routers[new] = [c.routers[k] EXCEPT !.service = new]
       /\ \A n \in DOMAIN c.routers \ {k, new} : w.routers[n] = c.routers[n]
       /\ IF s \in DOMAIN c.services
          THEN /\ DOMAIN w.services = ({new} \cup DOMAIN c.services) \ {s}
               /\ new # s => w.services[new] = c.services[s]
               /\ \A n \in DOMAIN c.services \ {s, new} : w.services[n] = c.services[n]
          ELSE w.services = c.services

\* One adoption, for a router that names the host.
LEMMA AdoptRouterIs ==
    ASSUME NEW c, IsConfig(c), NEW h \in Hosts, NEW k \in DOMAIN c.routers,
           h \in ToSet(c.routers[k].hosts)
    PROVE  LET w == AdoptRouter(c, k, {h})
           IN IsConfig(w) /\ ReKeyed(c, k, h, w)
<1> DEFINE w   == AdoptRouter(c, k, {h})
           r   == c.routers[k]
           new == managedRouterID(h)
           rt  == [x \in {new} |-> [r EXCEPT !.service = new]]
           sv  == [x \in {new} |-> c.services[r.service]]
           fr  == Without(c.routers, {k})
           fs  == Without(Over(sv, c.services), {r.service})
<1>1. r \in Router /\ new \in Names
  BY ConfigParts, NamesApart
<1>2. FirstWanted(r, {h}) = h
  BY <1>1, FirstWantedIs
<1>3. c = [routers |-> c.routers, services |-> c.services, tcp |-> c.tcp, defs |-> c.defs]
  BY DEF IsConfig
<1>4. w = [c EXCEPT !.routers = Over(rt, fr),
                    !.services = IF r.service \in DOMAIN c.services THEN fs ELSE c.services]
  BY <1>2, Zenon DEF AdoptRouter
<1>5. w = [routers |-> Over(rt, fr),
           services |-> IF r.service \in DOMAIN c.services THEN fs ELSE c.services,
           tcp |-> c.tcp, defs |-> c.defs]
  <2> HIDE DEF w, rt, fr, fs, sv, r
  <2> QED
    BY <1>3, <1>4
<1>6. [r EXCEPT !.service = new] \in Router
  BY <1>1 DEF Router
<1>7. IsTable(rt, Names, Router) /\ IsTable(fr, Names, Router)
  <2>1. IsTable(rt, Names, Router)
    BY <1>1, <1>6 DEF IsTable
  <2> QED
    BY <2>1, WithoutType DEF IsConfig
<1>8. r.service \in DOMAIN c.services => IsTable(fs, Names, Service)
  <2> SUFFICES ASSUME r.service \in DOMAIN c.services
               PROVE  IsTable(fs, Names, Service)
    OBVIOUS
  <2>1. c.services[r.service] \in Service
    BY ConfigParts
  <2>2. IsTable(sv, Names, Service)
    BY <1>1, <2>1 DEF IsTable
  <2>3. IsTable(Over(sv, c.services), Names, Service)
    BY <2>2, OverType DEF IsConfig
  <2> QED
    BY <2>3, WithoutType
<1>12. w.routers = Over(rt, fr) /\ w.tcp = c.tcp /\ w.defs = c.defs
       /\ w.services = IF r.service \in DOMAIN c.services THEN fs ELSE c.services
  <2> HIDE DEF w, rt, fr, fs, r
  <2> QED
    BY <1>5
<1>9. IsTable(w.routers, Names, Router)
  <2>1. IsTable(Over(rt, fr), Names, Router)
    BY <1>7, OverType
  <2> HIDE DEF w, rt, fr
  <2> QED
    BY <1>12, <2>1
<1>10. IsTable(w.services, Names, Service)
  <2> HIDE DEF w, fs, r
  <2> QED
    BY <1>8, <1>12 DEF IsConfig
<1>11. IsConfig(w)
  <2> HIDE DEF rt, fr, fs, r
  <2>1. w.tcp = c.tcp /\ w.defs = c.defs
        /\ w = [routers |-> w.routers, services |-> w.services, tcp |-> w.tcp, defs |-> w.defs]
    BY <1>5
  <2> QED
    BY <1>9, <1>10, <2>1 DEF IsConfig

<1>13. /\ DOMAIN Over(rt, fr) = {new} \cup (DOMAIN c.routers \ {k})
       /\ Over(rt, fr)[new] = [r EXCEPT !.service = new]
       /\ \A n \in DOMAIN c.routers \ {k, new} : Over(rt, fr)[n] = c.routers[n]
  <2> HIDE DEF r, new
  <2> QED
    BY DEF Over, Without
<1>14. /\ DOMAIN fs = ({new} \cup DOMAIN c.services) \ {r.service}
       /\ new # r.service => fs[new] = c.services[r.service]
       /\ \A n \in DOMAIN c.services \ {r.service, new} : fs[n] = c.services[n]
  <2> HIDE DEF r, new
  <2> QED
    BY DEF Over, Without
<1>15. ReKeyed(c, k, h, w)
  <2> HIDE DEF w, rt, fr, fs
  <2> QED
    BY <1>5, <1>12, <1>13, <1>14 DEF ReKeyed
<1> QED
  BY <1>11, <1>15

\* There are finitely many names.
LEMMA NamesFinite == IsFiniteSet(Names)
<1> DEFINE M == {managedRouterID(h) : h \in Hosts}
           m == [h \in Hosts |-> managedRouterID(h)]
<1>1. m \in [Hosts -> M] /\ \A y \in M : \E x \in Hosts : m[x] = y
  OBVIOUS
<1>2. IsFiniteSet(M)
  <2> HIDE DEF m, M
  <2> QED
    BY <1>1, ImageFinite, LiveConfigAssumption
<1>3. IsFiniteSet(M \cup {denyKey})
  BY <1>2, FS_AddElement
<1>4. IsFiniteSet(OtherNames \cup (M \cup {denyKey}))
  BY <1>3, FS_Union, TraefikAssumption
<1> QED
  BY <1>4 DEF Names, ManagedNames

\* A visit lists the adoptable routers, each once.
LEMMA OrderLists ==
    ASSUME NEW c, IsConfig(c), NEW H, NEW order \in SetToSeqs(Adoptable(c, H))
    PROVE  /\ Len(order) \in Nat /\ order \in [1 .. Len(order) -> Adoptable(c, H)]
           /\ Len(order) = Cardinality(Adoptable(c, H))
           /\ \A i, j \in 1 .. Len(order) : i # j => order[i] # order[j]
<1> DEFINE A == Adoptable(c, H)
<1>1. A \subseteq Names
  BY ConfigParts DEF Adoptable
<1>2. Cardinality(A) \in Nat
  BY <1>1, NamesFinite, FS_Subset, FS_CardinalityType
<1> HIDE DEF A
<1>3. order \in [1 .. Cardinality(A) -> A]
      /\ \A i, j \in 1 .. Cardinality(A) : i # j => order[i] # order[j]
  BY DEF SetToSeqs, A
<1>4. Len(order) = Cardinality(A)
  BY <1>2, <1>3
<1> QED
  BY <1>2, <1>3, <1>4 DEF A

\* All configs, as a set.
Tables(K, V) == UNION {[D -> V] : D \in SUBSET K}
Configs == [routers : Tables(Names, Router), services : Tables(Names, Service),
            tcp : Tables(OtherNames \cup TcpNames, TcpRouter), defs : BOOLEAN]

\* IsConfig is membership in that set.
LEMMA ConfigSet ==
    ASSUME NEW c
    PROVE  IsConfig(c) <=> c \in Configs
<1>1. \A f, K, V : IsTable(f, K, V) <=> f \in Tables(K, V)
  BY DEF IsTable, Tables
<1>2. c \in Configs <=>
         /\ c = [routers |-> c.routers, services |-> c.services, tcp |-> c.tcp, defs |-> c.defs]
         /\ c.routers \in Tables(Names, Router) /\ c.services \in Tables(Names, Service)
         /\ c.tcp \in Tables(OtherNames \cup TcpNames, TcpRouter) /\ c.defs \in BOOLEAN
  BY DEF Configs
<1> QED
  BY <1>1, <1>2 DEF IsConfig

\* After n visits d is a config in which the routers still to visit are as in c.
AfterVisits(c, order, n, d) ==
    /\ IsConfig(d)
    /\ \A j \in 1 .. Len(order) :
          j > n => /\ order[j] \in DOMAIN d.routers
                   /\ d.routers[order[j]] = c.routers[order[j]]

\* One visit more.
LEMMA VisitStep ==
    ASSUME NEW c, IsConfig(c), NEW h \in Hosts, NEW order \in SetToSeqs(Adoptable(c, {h})),
           NEW n \in 1 .. Len(order), NEW d, AfterVisits(c, order, n - 1, d)
    PROVE  AfterVisits(c, order, n, AdoptRouter(d, order[n], {h}))
<1> DEFINE k == order[n]
           w == AdoptRouter(d, k, {h})
<1>1. /\ Len(order) \in Nat /\ order \in [1 .. Len(order) -> Adoptable(c, {h})]
      /\ \A i, j \in 1 .. Len(order) : i # j => order[i] # order[j]
  BY OrderLists
<1>2. n \in Nat /\ n > n - 1
  BY <1>1
<1>3. k \in DOMAIN d.routers /\ d.routers[k] = c.routers[k] /\ IsConfig(d)
  BY <1>2 DEF AfterVisits
<1>4. \A j \in 1 .. Len(order) :
         order[j] \notin ManagedNames /\ h \in ToSet(c.routers[order[j]].hosts)
  BY <1>1 DEF Adoptable
<1>5. IsConfig(w) /\ ReKeyed(d, k, h, w)
  BY <1>3, <1>4, AdoptRouterIs
<1>6. ASSUME NEW j \in 1 .. Len(order), j > n
      PROVE  order[j] \in DOMAIN w.routers /\ w.routers[order[j]] = c.routers[order[j]]
  <2>1. j > n - 1 /\ j # n
    BY <1>1, <1>2, <1>6
  <2>2. order[j] \in DOMAIN d.routers /\ d.routers[order[j]] = c.routers[order[j]]
    BY <2>1 DEF AfterVisits
  <2>3. order[j] # k /\ order[j] # managedRouterID(h)
    BY <1>1, <1>4, <2>1, NamesApart
  <2> HIDE DEF w, k
  <2> QED
    BY <1>5, <2>2, <2>3 DEF ReKeyed
<1> HIDE DEF w
<1>7. AfterVisits(c, order, n, w)
  BY <1>5, <1>6 DEF AfterVisits
<1> QED
  BY <1>7 DEF w

\* f takes the visits as far as they stay configs.
Visiting(c, order, h, f) ==
    /\ f[0] = c
    /\ \A n \in 1 .. Len(order) :
          IsConfig(AdoptRouter(f[n - 1], order[n], {h})) =>
             f[n] = AdoptRouter(f[n - 1], order[n], {h})

\* And they always do.
LEMMA VisitsGood ==
    ASSUME NEW c, IsConfig(c), NEW h \in Hosts, NEW order \in SetToSeqs(Adoptable(c, {h})),
           NEW f, Visiting(c, order, h, f), NEW N \in 0 .. Len(order)
    PROVE  AfterVisits(c, order, N, f[N])
<1> DEFINE Good(n) == AfterVisits(c, order, n, f[n])
           T == {n \in 0 .. Len(order) : ~ Good(n)}
<1>1. /\ Len(order) \in Nat /\ order \in [1 .. Len(order) -> Adoptable(c, {h})]
  BY OrderLists
<1>2. Good(0)
  <2>1. \A j \in 1 .. Len(order) : order[j] \in DOMAIN c.routers
    BY <1>1 DEF Adoptable
  <2> QED
    BY <2>1 DEF AfterVisits, Visiting
<1>3. ASSUME NEW n \in 1 .. Len(order), Good(n - 1)
      PROVE  Good(n)
  <2> DEFINE w == AdoptRouter(f[n - 1], order[n], {h})
  <2>1. AfterVisits(c, order, n, w)
    BY <1>3, VisitStep
  <2>2. f[n] = w
    BY <2>1 DEF AfterVisits, Visiting
  <2> QED
    BY <2>1, <2>2
<1> HIDE DEF Good
<1>4. T = {}
  <2> SUFFICES ASSUME T # {} PROVE FALSE
    OBVIOUS
  <2>1. T \in SUBSET Nat
    BY <1>1
  <2>2. PICK n \in T : \A k \in T : n <= k
    BY <2>1, LeastNatural
  <2>3. n \in 0 .. Len(order) /\ ~ Good(n) /\ n # 0
    BY <1>2, <2>2
  <2>4. n \in 1 .. Len(order) /\ n - 1 \in 0 .. Len(order) /\ ~ (n <= n - 1)
    BY <1>1, <2>3
  <2> QED
    BY <1>3, <2>2, <2>3, <2>4
<1> QED
  BY <1>4 DEF Good

\* f is the recursion of Visited.
VisitsBy(c, order, h, f) ==
    /\ Visiting(c, order, h, f)
    /\ Visited(c, order, {h}) = f[Len(order)]
    /\ \A n \in 1 .. Len(order) : f[n] = AdoptRouter(f[n - 1], order[n], {h})

\* That recursion has a solution, which Visited therefore is.
LEMMA VisitedIs ==
    ASSUME NEW c, IsConfig(c), NEW h \in Hosts, NEW order \in SetToSeqs(Adoptable(c, {h}))
    PROVE  \E f : VisitsBy(c, order, h, f)
<1> DEFINE L == Len(order)
           A(d, n) == AdoptRouter(d, order[n], {h})
           step == [p \in Configs \X Nat |-> IF A(p[1], p[2]) \in Configs THEN A(p[1], p[2]) ELSE p[1]]
           Rec(g) == g = [n \in 0 .. L |-> IF n = 0 THEN c ELSE AdoptRouter(g[n - 1], order[n], {h})]
<1>1. L \in Nat /\ c \in Configs
  BY OrderLists, ConfigSet
<1>2. step \in [Configs \X Nat -> Configs]
  OBVIOUS
<1>3. PICK g \in [0 .. L -> Configs] :
         g[0] = c /\ \A n \in 1 .. L : g[n] = step[<<g[n - 1], n>>]
  <2> HIDE DEF step, L
  <2>1. \E g : Iterates(g, Configs, c, step, L)
    BY <1>1, <1>2, RecursionExists
  <2> QED
    BY <2>1 DEF Iterates
<1>4. \A n \in 1 .. L : A(g[n - 1], n) \in Configs => g[n] = A(g[n - 1], n)
  <2> TAKE n \in 1 .. L
  <2>1. n \in Nat /\ g[n - 1] \in Configs
    BY <1>1, <1>3
  <2>2. step[<<g[n - 1], n>>] = IF A(g[n - 1], n) \in Configs THEN A(g[n - 1], n) ELSE g[n - 1]
    BY <2>1
  <2> HIDE DEF step, A
  <2> QED
    BY <1>3, <2>2
<1>5. Visiting(c, order, h, g)
  BY <1>3, <1>4, ConfigSet DEF Visiting
<1>6. \A n \in 1 .. L : g[n] = A(g[n - 1], n)
  <2> TAKE n \in 1 .. L
  <2>1. n - 1 \in 0 .. L
    BY <1>1
  <2>2. AfterVisits(c, order, n - 1, g[n - 1])
    BY <1>5, <2>1, VisitsGood
  <2>3. AfterVisits(c, order, n, A(g[n - 1], n))
    BY <2>2, VisitStep
  <2>4. A(g[n - 1], n) \in Configs
    BY <2>3, ConfigSet DEF AfterVisits
  <2> QED
    BY <1>4, <2>4
<1>7. Rec(g)
  <2>1. \A n \in 0 .. L : n # 0 => n \in 1 .. L
    BY <1>1
  <2>2. \A n \in 0 .. L : g[n] = IF n = 0 THEN c ELSE AdoptRouter(g[n - 1], order[n], {h})
    BY <1>3, <1>6, <2>1
  <2> HIDE DEF L, step
  <2> QED
    BY <1>3, <2>2
<1> DEFINE up == CHOOSE g2 : Rec(g2)
<1>8. Rec(up)
  BY <1>7
<1>9. Visited(c, order, {h}) = up[L]
  BY DEF Visited
<1> HIDE DEF up, step
<1>10. up[0] = c /\ \A n \in 1 .. L : up[n] = AdoptRouter(up[n - 1], order[n], {h})
  <2>1. \A n \in 1 .. L : n \in 0 .. L /\ n # 0
    BY <1>1
  <2>2. 0 \in 0 .. L
    BY <1>1
  <2> QED
    BY <1>8, <2>1, <2>2
<1>11. Visiting(c, order, h, up)
  BY <1>10 DEF Visiting
<1>12. VisitsBy(c, order, h, up)
  BY <1>9, <1>10, <1>11 DEF VisitsBy
<1> QED
  BY <1>12

\* What Adopt may write is a config.
LEMMA AdoptTraefikType ==
    ASSUME NEW c, IsConfig(c), NEW h \in Hosts, NEW w \in adoptTraefik(c, {h})
    PROVE  IsConfig(w)
<1>1. PICK order \in SetToSeqs(Adoptable(c, {h})) :
         w = [Visited(c, order, {h}) EXCEPT !.defs = FALSE]
  BY DEF adoptTraefik
<1>2. Len(order) \in Nat
  BY OrderLists
<1> DEFINE v == Visited(c, order, {h})
<1>3. PICK f : VisitsBy(c, order, h, f)
  BY VisitedIs
<1>4. AfterVisits(c, order, Len(order), v)
  BY <1>2, <1>3, VisitsGood DEF VisitsBy
<1> HIDE DEF v
<1>5. v \in Configs
  BY <1>4, ConfigSet DEF AfterVisits
<1>6. [v EXCEPT !.defs = FALSE] \in Configs
  BY <1>5 DEF Configs
<1> QED
  BY <1>1, <1>6, ConfigSet DEF v

-----------------------------------------------------------------------------
(***************************************************************************)
(* The inductive invariant: what a report, and an invocation under way,    *)
(* say about the file, the snapshot and the change.                        *)
(***************************************************************************)
\* The config file of a Traefik edge always loads, and whatever runs is a config.
FileLoads ==
    /\ kind = "traefik" => Accepts(file)
    /\ kind # "nginx" => IsFile(kind, running)

Confirmed == {"verified", "unconfirmed", "rolled_back"}

\* An invocation under way, or reported done, planned from the file it found.
PlannedFrom ==
    pc # "idle" \/ report.result \in Confirmed =>
        /\ kind # "npm" /\ op \in Ops
        /\ snap = Read(kind, before) /\ ~ snap.generator
        /\ change = Plan(op, snap) /\ change # NoChange

\* Until the compensation the file is what Apply made of the one it found.
Applied ==
    /\ file = Written(kind, before, change)
    /\ kind = "nginx" /\ probed => nginxTest(file)

InFlight == pc # "idle" => Applied

\* What "verified" means: the file was read back, and the daemon had converged
\* or runs the file by now.
VerifiedMeans ==
    report.result = "verified" =>
        /\ report.host = op.host /\ probed /\ Applied
        /\ running = Down \/ running = file \/ Converged(kind, running, op)

\* What "rolled back" means: the inverse was applied to what Apply had written.
RolledBackMeans ==
    report.result = "rolled_back" =>
        /\ report.host = op.host
        /\ file = Written(kind, Written(kind, before, change), invertChange(change, snap))

\* The routers the API reader holds are those of one config that ran meanwhile.
OneRouterAnswer ==
    /\ \A c \in seen : IsConfig(c)
    /\ \/ got = EmptyTable
       \/ /\ "routers" \in DOMAIN got
          /\ \E c \in seen : got["routers"] = ApiAnswer(c, "routers")

IInv ==
    /\ TypeOK /\ FileLoads /\ PlannedFrom /\ InFlight /\ VerifiedMeans
    /\ RolledBackMeans /\ OneRouterAnswer

\* The invariant holds initially.
LEMMA InitIInv == Init => IInv
<1> SUFFICES ASSUME Init PROVE IInv
  OBVIOUS
<1> USE DEF Init
<1>1. IsFile(kind, file)
  BY EdgeFilesAssumption
<1>2. NoChange \in Change /\ NoLive \in LiveState
  BY DEF NoChange, NoLive, Change, LiveState
<1>3. TypeOK
  <2>1. kind \in Kinds /\ probed \in BOOLEAN /\ pending \in BOOLEAN
    OBVIOUS
  <2>2. 0 \in 0 .. MaxEdits /\ 0 \in 0 .. MaxRuns
    BY EdgeFilesAssumption
  <2>3. report.host \in Hosts \cup {Nothing} /\ op \in Ops \cup {NoOp}
    BY DEF NoReport
  <2> QED
    BY <1>1, <1>2, <2>1, <2>2, <2>3 DEF TypeOK
<1>4. FileLoads
  BY <1>1 DEF FileLoads, Loads
<1>5. PlannedFrom /\ InFlight /\ VerifiedMeans /\ RolledBackMeans
  BY DEF PlannedFrom, InFlight, VerifiedMeans, RolledBackMeans, NoReport, Confirmed
<1>6. OneRouterAnswer
  BY DEF OneRouterAnswer
<1> QED
  BY <1>3, <1>4, <1>5, <1>6 DEF IInv

\* The report of an invocation that ended without a confirmed change.
LEMMA Unconfirmed ==
    ASSUME pc' = "idle", report'.result \notin Confirmed
    PROVE  PlannedFrom' /\ InFlight' /\ VerifiedMeans' /\ RolledBackMeans'
BY DEF PlannedFrom, InFlight, VerifiedMeans, RolledBackMeans, Confirmed

\* Traefik accepts what the write validated.
LEMMA ValidLoads ==
    ASSUME NEW c, validate(c)
    PROVE  Accepts(c)
BY DEF validate, Accepts

\* A planned change, applied to the file it was planned from.
LEMMA PlannedWrite ==
    ASSUME NEW k \in {"nginx", "traefik"}, NEW f, IsFile(k, f), NEW o \in Ops,
           Plan(o, Read(k, f)) # NoChange
    PROVE  /\ IsFile(k, Written(k, f, Plan(o, Read(k, f))))
           /\ Plan(o, Read(k, f)) \in Change /\ Read(k, f) \in LiveState
<1> DEFINE c == Plan(o, Read(k, f))
<1>1. Read(k, f) \in LiveState
  BY ReadType
<1>2. OneChange(c, o.host) /\ o.host \in Hosts
  BY <1>1, PlanIs
<1>3. \A r \in c.add : r.to # Nothing
  <2> SUFFICES ASSUME NEW r \in c.add PROVE r.to # Nothing
    OBVIOUS
  <2>1. r.to = Origin[o.host]
    BY <1>1, PlanIs
  <2> QED
    BY <1>2, <2>1, EdgeFilesAssumption, LiveConfigAssumption
<1>4. c \in Change
  BY <1>2 DEF OneChange
<1> HIDE DEF c
<1>5. IsFile(k, Written(k, f, c))
  BY <1>2, <1>3, WrittenType
<1> QED
  BY <1>1, <1>4, <1>5 DEF c

\* The invocation plans, gates, writes and asks for the reload.
LEMMA StartIInv ==
    ASSUME IInv, NEW o \in Ops, Start(o)
    PROVE  IInv'
<1> USE DEF IInv
<1>1. /\ pc = "idle" /\ kind \in {"nginx", "traefik"} /\ kind' = kind /\ probed' = probed
      /\ running' = running /\ op' = o /\ before' = file /\ got' = got /\ seen' = seen
      /\ edits' = edits
  BY DEF Start, TypeOK, Kinds
<1>2. o.host \in Hosts /\ kind \in Kinds /\ IsFile(kind, file)
  <2>1. o \in Op
    BY EdgeFilesAssumption
  <2> QED
    BY <2>1 DEF Op, TypeOK
<1>3. runs' \in 0 .. MaxRuns
  BY EdgeFilesAssumption DEF Start, TypeOK
<1> DEFINE live == Read(kind, file)
           c    == Plan(o, live)
<1>4. CASE PlanRefused(kind, o) \/ c = NoChange \/ live.generator \/ WriteRefused(kind, file, c)
  <2>1. /\ report' = [result |-> "nothing", host |-> o.host]
        /\ file' = file /\ pending' = pending /\ pc' = pc /\ change' = change /\ snap' = snap
    BY <1>4, Zenon DEF Start
  <2>2. TypeOK'
    BY <1>1, <1>2, <1>3, <2>1 DEF TypeOK
  <2>3. FileLoads' /\ OneRouterAnswer'
    BY <1>1, <2>1 DEF FileLoads, OneRouterAnswer
  <2>4. pc' = "idle" /\ report'.result \notin Confirmed
    BY <1>1, <2>1 DEF Confirmed
  <2> QED
    BY <2>2, <2>3, <2>4, Unconfirmed
<1>5. CASE ~ (PlanRefused(kind, o) \/ c = NoChange \/ live.generator \/ WriteRefused(kind, file, c))
  <2>1. /\ file' = Written(kind, file, c) /\ change' = c /\ snap' = live
        /\ \/ /\ pc' = "idle" /\ report' = [result |-> "apply_failed", host |-> o.host]
              /\ pending' = pending
           \/ /\ ~ ApplyFails(kind, file')
              /\ pc' = "verify" /\ pending' = (pending \/ LoadAsked(kind))
              /\ report' = NoReport
    BY <1>5, Zenon DEF Start
  <2>2. c # NoChange /\ ~ live.generator /\ ~ WriteRefused(kind, file, c)
    BY <1>5
  <2>3. IsFile(kind, file') /\ c \in Change /\ live \in LiveState
    BY <1>1, <1>2, <2>1, <2>2, PlannedWrite
  <2> HIDE DEF c, live
  <2>4. pending' \in BOOLEAN /\ report'.host \in Hosts \cup {Nothing}
    <3>1. pending \in BOOLEAN /\ (pending \/ LoadAsked(kind)) \in BOOLEAN
      BY DEF TypeOK
    <3>2. pending' \in BOOLEAN
      BY <2>1, <3>1
    <3>3. report'.host \in Hosts \cup {Nothing}
      BY <1>2, <2>1 DEF NoReport
    <3> QED
      BY <3>2, <3>3
  <2>5. TypeOK'
    BY <1>1, <1>2, <1>3, <2>1, <2>3, <2>4 DEF TypeOK
  <2>6. kind = "traefik" => Accepts(file')
    BY <2>1, <2>2, ValidLoads DEF WriteRefused, Written
  <2>7. FileLoads' /\ OneRouterAnswer'
    BY <1>1, <2>6 DEF FileLoads, OneRouterAnswer
  <2>8. PlannedFrom'
    BY <1>1, <2>1, <2>2 DEF PlannedFrom, c, live
  <2>9. InFlight'
    <3>1. pc' # "idle" => ~ ApplyFails(kind, file')
      BY <2>1
    <3>2. file' = Written(kind', before', change')
      BY <1>1, <2>1
    <3> QED
      BY <1>1, <3>1, <3>2 DEF InFlight, Applied, ApplyFails
  <2>10. VerifiedMeans' /\ RolledBackMeans'
    BY <2>1 DEF VerifiedMeans, RolledBackMeans, NoReport
  <2> QED
    BY <2>5, <2>7, <2>8, <2>9, <2>10
<1> QED
  BY <1>4, <1>5

\* A kill leaves an empty file and no report.
LEMMA KillIInv ==
    ASSUME IInv, NEW o \in Ops, Kill(o)
    PROVE  IInv'
<1> USE DEF IInv
<1>1. /\ pc = "idle" /\ pc' = pc /\ kind \in {"nginx", "traefik"} /\ kind' = kind
      /\ probed' = probed /\ running' = running /\ got' = got /\ seen' = seen
      /\ edits' = edits /\ file' = EmptyFile(kind) /\ before' = file' /\ change' = change
      /\ snap' = snap /\ report' = NoReport /\ op' = NoOp
      /\ pending' = (pending \/ kind = "traefik")
  BY DEF Kill, TypeOK, Kinds
<1>2. runs' \in 0 .. MaxRuns
  BY EdgeFilesAssumption DEF Kill, TypeOK
<1>3. IsFile(kind, file') /\ (kind = "traefik" => Accepts(file'))
  <2>1. CASE kind = "nginx"
    BY <1>1, <2>1 DEF IsFile, EmptyFile
  <2>2. CASE kind = "traefik"
    <3>1. IsConfig(EmptyConfig)
      BY EmptyTableType DEF EmptyConfig, IsConfig
    <3>2. Accepts(EmptyConfig)
      BY DEF Accepts, EmptyConfig, EmptyTable
    <3> QED
      BY <1>1, <2>2, <3>1, <3>2 DEF IsFile, EmptyFile
  <2> QED
    BY <1>1, <2>1, <2>2
<1>4. TypeOK'
  BY <1>1, <1>2, <1>3 DEF TypeOK, NoReport, NoOp
<1>5. FileLoads' /\ OneRouterAnswer'
  BY <1>1, <1>3 DEF FileLoads, OneRouterAnswer
<1>6. pc' = "idle" /\ report'.result \notin Confirmed
  BY <1>1 DEF NoReport, Confirmed
<1> QED
  BY <1>4, <1>5, <1>6, Unconfirmed

\* The daemon loads the file, or stays with what it has.
LEMMA LoadIInv ==
    ASSUME IInv, Load
    PROVE  IInv'
<1> USE DEF IInv
<1>1. /\ UNCHANGED <<kind, probed, file, pc, op, change, snap, before, report, edits, runs, got, seen>>
      /\ pending' = FALSE /\ (running' = running \/ running' = file)
  BY DEF Load
<1>2. TypeOK'
  BY <1>1 DEF TypeOK
<1>3. FileLoads' /\ OneRouterAnswer'
  BY <1>1 DEF FileLoads, OneRouterAnswer, TypeOK
<1>4. PlannedFrom' /\ InFlight' /\ RolledBackMeans'
  BY <1>1 DEF PlannedFrom, InFlight, RolledBackMeans, Applied
<1>5. VerifiedMeans'
  BY <1>1 DEF VerifiedMeans, Applied
<1> QED
  BY <1>2, <1>3, <1>4, <1>5

\* The daemon is started again, from the file or not at all.
LEMMA RestartIInv ==
    ASSUME IInv, Restart
    PROVE  IInv'
<1> USE DEF IInv
<1>1. /\ UNCHANGED <<kind, probed, file, pc, op, change, snap, before, report, edits, runs, got, seen>>
      /\ pending' = FALSE
      /\ running' = file \/ (running' = Down /\ kind = "nginx")
  BY DEF Restart, FileLoads, Loads, TypeOK, Kinds
<1>2. TypeOK'
  BY <1>1 DEF TypeOK
<1>3. FileLoads' /\ OneRouterAnswer'
  BY <1>1 DEF FileLoads, OneRouterAnswer, TypeOK
<1>4. PlannedFrom' /\ InFlight' /\ RolledBackMeans'
  BY <1>1 DEF PlannedFrom, InFlight, RolledBackMeans, Applied
<1>5. VerifiedMeans'
  BY <1>1 DEF VerifiedMeans, Applied
<1> QED
  BY <1>2, <1>3, <1>4, <1>5

\* The read-back and the poll decide.
LEMMA VerifyIInv ==
    ASSUME IInv, Verify
    PROVE  IInv'
<1> USE DEF IInv
<1>1. /\ UNCHANGED <<kind, probed, file, running, pending, op, change, snap, before, edits, runs, got, seen>>
      /\ pc = "verify"
      /\ \/ /\ probed /\ Converged(kind, running, op)
            /\ pc' = "idle" /\ report' = [result |-> "verified", host |-> op.host]
         \/ /\ pc' = "idle" /\ report' = [result |-> "unconfirmed", host |-> op.host]
         \/ /\ pc' = "undo" /\ report' = report
  BY DEF Verify
<1>2. /\ kind # "npm" /\ op \in Ops /\ snap = Read(kind, before) /\ ~ snap.generator
      /\ change = Plan(op, snap) /\ change # NoChange /\ Applied
  BY <1>1 DEF PlannedFrom, InFlight
<1>3. op.host \in Hosts
  BY <1>2, EdgeFilesAssumption DEF Op
<1>4. TypeOK'
  BY <1>1, <1>3 DEF TypeOK
<1>5. FileLoads' /\ OneRouterAnswer'
  BY <1>1 DEF FileLoads, OneRouterAnswer
<1>6. PlannedFrom' /\ Applied'
  BY <1>1, <1>2 DEF PlannedFrom, Applied
<1>7. InFlight'
  BY <1>6 DEF InFlight
<1>8. VerifiedMeans'
  <2>1. CASE report' = report
    <3>1. report.result = "verified" => VerifiedMeans'
      BY <1>1, <1>6, <2>1 DEF VerifiedMeans
    <3> QED
      BY <2>1, <3>1 DEF VerifiedMeans
  <2>2. CASE report' # report
    BY <1>1, <1>6, <2>2 DEF VerifiedMeans
  <2> QED
    BY <2>1, <2>2
<1>9. RolledBackMeans'
  BY <1>1 DEF RolledBackMeans
<1> QED
  BY <1>4, <1>5, <1>6, <1>7, <1>8, <1>9

\* The compensation writes the inverse, of the type of a file.
LEMMA UndoIInv ==
    ASSUME IInv, Undo
    PROVE  IInv'
<1> USE DEF IInv
<1> DEFINE c == invertChange(change, snap)
<1>1. /\ UNCHANGED <<kind, probed, running, op, change, snap, before, edits, runs, got, seen>>
      /\ pc = "undo" /\ pc' = "idle"
      /\ file' = IF WriteRefused(kind, file, c) THEN file ELSE Written(kind, file, c)
      /\ \/ /\ ~ WriteRefused(kind, file, c)
            /\ pending' = (pending \/ LoadAsked(kind))
            /\ report' = [result |-> "rolled_back", host |-> op.host]
         \/ /\ report' = [result |-> "rollback_failed", host |-> op.host]
            /\ pending' = pending
  BY DEF Undo
<1>2. /\ kind # "npm" /\ op \in Ops /\ snap = Read(kind, before) /\ ~ snap.generator
      /\ change = Plan(op, snap) /\ change # NoChange /\ file = Written(kind, before, change)
  BY <1>1 DEF PlannedFrom, InFlight, Applied
<1>3. kind \in {"nginx", "traefik"} /\ IsFile(kind, before) /\ IsFile(kind, file) /\ snap \in LiveState
  BY <1>2 DEF TypeOK, Kinds
<1>4. op.host \in Hosts /\ OneChange(c, op.host)
  BY <1>2, <1>3, PlanIs, InverseIs
<1>5. kind = "traefik" => \A r \in c.add : r.to # Nothing
  <2> SUFFICES ASSUME kind = "traefik", NEW r \in c.add PROVE r.to # Nothing
    OBVIOUS
  <2>1. op.verb = "unexpose" /\ r = FirstRoute(snap, op.host) /\ LiveHasHost(snap, op.host)
    BY <1>2, <1>3, InverseIs, PlanIs
  <2>2. r \in snap.routes
    BY <1>3, <2>1, FirstRouteIs
  <2>3. IsConfig(before) /\ snap = normalizeTraefik(before)
    BY <1>2, <1>3 DEF IsFile, Read
  <2>4. r \in ReadRoutes(before)
    BY <1>2, <2>2, <2>3, TraefikReadType
  <2> QED
    BY <2>3, <2>4, TraefikReadType
<1> HIDE DEF c
<1>6. IsFile(kind, Written(kind, file, c))
  BY <1>3, <1>4, <1>5, WrittenType
<1>7. IsFile(kind, file') /\ (kind = "traefik" => Accepts(file'))
  BY <1>1, <1>3, <1>6, ValidLoads DEF FileLoads, WriteRefused, Written
<1>8. pending' \in BOOLEAN /\ report'.host \in Hosts
  <2>1. pending \in BOOLEAN /\ (pending \/ LoadAsked(kind)) \in BOOLEAN
    BY DEF TypeOK
  <2>2. pending' \in BOOLEAN
    BY <1>1, <2>1
  <2>3. report'.host \in Hosts
    BY <1>1, <1>4
  <2> QED
    BY <2>2, <2>3
<1>9. TypeOK'
  BY <1>1, <1>7, <1>8 DEF TypeOK
<1>10. FileLoads' /\ OneRouterAnswer'
  BY <1>1, <1>7 DEF FileLoads, OneRouterAnswer
<1>11. PlannedFrom'
  BY <1>1, <1>2 DEF PlannedFrom
<1>12. InFlight' /\ VerifiedMeans'
  BY <1>1 DEF InFlight, VerifiedMeans
<1>13. RolledBackMeans'
  BY <1>1, <1>2 DEF RolledBackMeans, c
<1> QED
  BY <1>9, <1>10, <1>11, <1>12, <1>13

\* An import rewrites the file and confirms nothing.
LEMMA ImportIInv ==
    ASSUME IInv, NEW h \in Hosts, Import(h)
    PROVE  IInv'
<1> USE DEF IInv
<1>1. /\ pc = "idle" /\ kind \in {"nginx", "traefik"}
      /\ UNCHANGED <<kind, probed, running, pc, change, snap, edits, got, seen>>
      /\ before' = file /\ op' = NoOp
  BY DEF Import, TypeOK, Kinds
<1>2. runs' \in 0 .. MaxRuns
  BY EdgeFilesAssumption DEF Import, TypeOK
<1>3. PICK f \in Adopted(kind, file, h) :
          IF kind = "traefik" /\ ~ validate(f)
          THEN /\ report' = [result |-> "nothing", host |-> h]
               /\ UNCHANGED <<file, pending>>
          ELSE /\ file' = f /\ pending' = (pending \/ kind = "traefik")
               /\ report' = [result |-> IF /\ managedRoute(Read(kind, f), h)
                                           /\ LiveReachable(Read(kind, f), h)
                                        THEN "imported" ELSE "import_failed",
                             host |-> h]
  BY DEF Import
<1>4. IsFile(kind, f) /\ IsFile(kind, file)
  <2>1. CASE kind = "nginx"
    BY <2>1, AdoptNginxIs DEF IsFile, Adopted, TypeOK
  <2>2. CASE kind = "traefik"
    BY <2>2, AdoptTraefikType DEF IsFile, Adopted, TypeOK
  <2> QED
    BY <1>1, <2>1, <2>2
<1>5. /\ file' = file \/ (file' = f /\ (kind = "traefik" => validate(f)))
      /\ pending' \in BOOLEAN
      /\ report'.host = h /\ report'.result \in {"nothing", "imported", "import_failed"}
  <2>1. pending \in BOOLEAN /\ (pending \/ kind = "traefik") \in BOOLEAN
    BY DEF TypeOK
  <2>2. CASE kind = "traefik" /\ ~ validate(f)
    BY <1>3, <2>1, <2>2
  <2>3. CASE ~ (kind = "traefik" /\ ~ validate(f))
    <3>1. /\ file' = f /\ pending' = (pending \/ kind = "traefik")
          /\ report' = [result |-> IF /\ managedRoute(Read(kind, f), h)
                                      /\ LiveReachable(Read(kind, f), h)
                                   THEN "imported" ELSE "import_failed",
                        host |-> h]
      BY <1>3, <2>3, Zenon
    <3>2. pending' \in BOOLEAN
      BY <2>1, <3>1
    <3>3. report'.host = h /\ report'.result \in {"imported", "import_failed"}
      BY <3>1
    <3> QED
      BY <2>3, <3>1, <3>2, <3>3
  <2> QED
    BY <2>2, <2>3
<1>6. IsFile(kind, file') /\ (kind = "traefik" => Accepts(file'))
  BY <1>4, <1>5, ValidLoads DEF FileLoads
<1>7. TypeOK'
  BY <1>1, <1>2, <1>4, <1>5, <1>6 DEF TypeOK
<1>8. FileLoads' /\ OneRouterAnswer'
  BY <1>1, <1>6 DEF FileLoads, OneRouterAnswer
<1>9. pc' = "idle" /\ report'.result \notin Confirmed
  BY <1>1, <1>5 DEF Confirmed
<1> QED
  BY <1>7, <1>8, <1>9, Unconfirmed

\* The operator pastes a snippet that loads.
LEMMA EditIInv ==
    ASSUME IInv, Edit
    PROVE  IInv'
<1> USE DEF IInv
<1>1. /\ pc = "idle" /\ kind \in {"nginx", "traefik"}
      /\ UNCHANGED <<kind, probed, running, pc, change, snap, runs, got, seen>>
      /\ before' = file' /\ report' = NoReport /\ op' = NoOp /\ pending' = TRUE
  BY DEF Edit, TypeOK, Kinds
<1>2. edits' \in 0 .. MaxEdits
  BY EdgeFilesAssumption DEF Edit, TypeOK
<1>3. PICK s \in Snippets[kind] : Loads(kind, file') /\ file' = Pasted(kind, file, s)
  BY DEF Edit
<1>4. IsFile(kind, file') /\ (kind = "traefik" => Accepts(file'))
  BY <1>1, <1>3, PastedType DEF TypeOK, Loads
<1>5. TypeOK'
  BY <1>1, <1>2, <1>4 DEF TypeOK, NoReport, NoOp
<1>6. FileLoads' /\ OneRouterAnswer'
  BY <1>1, <1>4 DEF FileLoads, OneRouterAnswer
<1>7. pc' = "idle" /\ report'.result \notin Confirmed
  BY <1>1 DEF NoReport, Confirmed
<1> QED
  BY <1>5, <1>6, <1>7, Unconfirmed

\* A save in the interface of Nginx Proxy Manager, at an edge nothing writes to.
LEMMA RegenerateIInv ==
    ASSUME IInv, Regenerate
    PROVE  IInv'
<1> USE DEF IInv
<1>1. /\ kind = "npm" /\ file' \in StartFiles["npm"] /\ running' = file' /\ before' = file'
      /\ UNCHANGED <<kind, probed, pending, pc, op, change, snap, report, runs, got, seen>>
  BY DEF Regenerate
<1>2. edits' \in 0 .. MaxEdits
  BY EdgeFilesAssumption DEF Regenerate, TypeOK
<1>3. IsFile("npm", file')
  BY <1>1, EdgeFilesAssumption DEF Kinds
<1>4. pc = "idle" /\ report.result \notin Confirmed
  BY <1>1 DEF PlannedFrom
<1>5. TypeOK'
  BY <1>1, <1>2, <1>3 DEF TypeOK
<1>6. FileLoads' /\ OneRouterAnswer'
  BY <1>1, <1>3 DEF FileLoads, OneRouterAnswer
<1>7. pc' = "idle" /\ report'.result \notin Confirmed
  BY <1>1, <1>4
<1> QED
  BY <1>5, <1>6, <1>7, Unconfirmed

\* The entries of the first table are those of the result.
LEMMA OverKeeps ==
    ASSUME NEW f, NEW g
    PROVE  /\ DOMAIN Over(f, g) = DOMAIN f \cup DOMAIN g
           /\ \A k \in DOMAIN f : Over(f, g)[k] = f[k]
BY DEF Over

\* The reader asks for the routers first, and never again.
LEMMA FetchIInv ==
    ASSUME IInv, Fetch
    PROVE  IInv'
<1> USE DEF IInv
<1> DEFINE ep == Endpoints[Cardinality(DOMAIN got) + 1]
           one == [x \in {ep} |-> ApiAnswer(running, ep)]
<1>1. /\ kind = "traefik" /\ got' = Over(got, one) /\ seen' = seen \cup {running}
      /\ UNCHANGED <<kind, probed, file, running, pending, pc, op, change, snap, before,
                     report, edits, runs>>
  BY DEF Fetch
<1>2. IsConfig(running)
  BY <1>1 DEF FileLoads, IsFile
<1>3. TypeOK' /\ FileLoads'
  BY <1>1 DEF TypeOK, FileLoads
<1>4. PlannedFrom' /\ InFlight' /\ RolledBackMeans' /\ VerifiedMeans'
  BY <1>1 DEF PlannedFrom, InFlight, RolledBackMeans, VerifiedMeans, Applied
<1>5. "routers" \in DOMAIN got' /\ \E c \in seen' : got'["routers"] = ApiAnswer(c, "routers")
  <2>1. CASE got = EmptyTable
    <3>1. DOMAIN got = {} /\ Cardinality(DOMAIN got) = 0
      BY <2>1, FS_EmptySet DEF EmptyTable
    <3>2. ep = "routers"
      BY <3>1 DEF Endpoints
    <3>3. DOMAIN one = {ep} /\ one[ep] = ApiAnswer(running, ep)
      OBVIOUS
    <3>4. DOMAIN got' = {ep} /\ got'[ep] = one[ep]
      <4> HIDE DEF one, ep
      <4> QED
        BY <1>1, <3>1, <3>3 DEF Over
    <3> QED
      BY <1>1, <3>2, <3>3, <3>4
  <2>2. CASE got # EmptyTable
    <3>1. "routers" \in DOMAIN got /\ \E c \in seen : got["routers"] = ApiAnswer(c, "routers")
      BY <2>2 DEF OneRouterAnswer
    <3>2. "routers" \in DOMAIN got' /\ got'["routers"] = got["routers"]
      <4> HIDE DEF one
      <4> QED
        BY <1>1, <3>1, OverKeeps
    <3> QED
      BY <1>1, <3>1, <3>2
  <2> QED
    BY <2>1, <2>2
<1>6. OneRouterAnswer'
  BY <1>1, <1>2, <1>5 DEF OneRouterAnswer
<1> QED
  BY <1>3, <1>4, <1>6

\* A step that changes nothing.
LEMMA StutterIInv ==
    ASSUME IInv, UNCHANGED vars
    PROVE  IInv'
BY DEF IInv, vars, TypeOK, FileLoads, PlannedFrom, InFlight, VerifiedMeans, RolledBackMeans,
       OneRouterAnswer, Applied

\* The invariant is inductive.
LEMMA NextIInv == IInv /\ [Next]_vars => IInv'
<1> SUFFICES ASSUME IInv, [Next]_vars PROVE IInv'
  OBVIOUS
<1>1. ASSUME NEW o \in Ops, Start(o) PROVE IInv'
  BY <1>1, StartIInv
<1>2. ASSUME NEW o \in Ops, Kill(o) PROVE IInv'
  BY <1>2, KillIInv
<1>3. ASSUME NEW h \in Hosts, Import(h) PROVE IInv'
  BY <1>3, ImportIInv
<1>4. CASE Load
  BY <1>4, LoadIInv
<1>5. CASE Restart
  BY <1>5, RestartIInv
<1>6. CASE Verify
  BY <1>6, VerifyIInv
<1>7. CASE Undo
  BY <1>7, UndoIInv
<1>8. CASE Edit
  BY <1>8, EditIInv
<1>9. CASE Regenerate
  BY <1>9, RegenerateIInv
<1>10. CASE Fetch
  BY <1>10, FetchIInv
<1>11. CASE UNCHANGED vars
  BY <1>11, StutterIInv
<1> QED
  BY <1>1, <1>2, <1>3, <1>4, <1>5, <1>6, <1>7, <1>8, <1>9, <1>10, <1>11 DEF Next

\* The inductive invariant holds in every state.
THEOREM InvariantCorrect == Spec => []IInv
<1>1. Init => IInv
  BY InitIInv
<1>2. IInv /\ [Next]_vars => IInv'
  BY NextIInv
<1> QED
  BY <1>1, <1>2, PTL DEF Spec

\* Every driver writes a file that its own reader can read back, whatever it
\* started from and in whatever order the routers of an import are visited, and
\* the snapshot and the change of an invocation stay well formed.
THEOREM TypeCorrect == Spec => []TypeOK
<1>1. IInv => TypeOK
  BY DEF IInv
<1> QED
  BY <1>1, InvariantCorrect, PTL

-----------------------------------------------------------------------------
(***************************************************************************)
(* Enforced is closed, and nothing goes unread.                            *)
(***************************************************************************)
\* A Traefik config that is read as enforced hands no stranger to a backend.
LEMMA TraefikEnforced ==
    ASSUME NEW c, IsConfig(c), Accepts(c), Legible("traefik", c),
           DenyState(normalizeTraefik(c)) = "enforced"
    PROVE  traefikServes(c, Stranger) = {}
<1>1. \A k \in DOMAIN c.routers : ~ OpensAll(c.routers[k], c.services)
  <2>1. normalizeTraefik(c).deny
    BY EnforcedMeans
  <2> QED
    BY <2>1 DEF normalizeTraefik
<1>2. \A k \in DOMAIN c.services : c.services[k].shape = "servers"
  <2> TAKE k \in DOMAIN c.services
  <2>1. c.services[k] \in Service
    BY ConfigParts
  <2>2. c.services[k].shape # "weighted" /\ c.services[k].shape # "empty"
    BY DEF Legible, Accepts
  <2> QED
    BY <2>1, <2>2 DEF Service
<1>3. \A k \in DOMAIN c.routers : Enabled(c, k) => ~ hostless(c.routers[k])
  BY <1>1, <1>2 DEF OpensAll, hasUpstream, Enabled
<1>4. \A k \in DOMAIN c.routers : Stranger \notin ToSet(c.routers[k].hosts)
  BY ConfigParts, RouterHosts, LiveConfigAssumption
<1>5. \A k \in DOMAIN c.tcp : Stranger \notin c.tcp[k].sni
  BY ConfigParts, LiveConfigAssumption DEF TcpRouter
<1> QED
  BY <1>3, <1>4, <1>5 DEF traefikServes

\* A default-deny that a driver reports enforced is true of what it read, for
\* every file of every kind: nobody unconfigured reaches a backend.
THEOREM EnforcedClosed == Spec => []EnforcedIsClosed
<1>1. IInv => EnforcedIsClosed
  <2> SUFFICES ASSUME IInv, DenyState(Read(kind, file)) = "enforced", Legible(kind, file)
               PROVE  Serves(kind, file, Stranger) = {}
    BY DEF EnforcedIsClosed, Answers
  <2>1. kind \in Kinds /\ IsFile(kind, file)
    BY DEF IInv, TypeOK
  <2>2. CASE kind = "nginx"
    BY <2>1, <2>2, NginxEnforced DEF IsFile, Read, Serves
  <2>3. CASE kind = "traefik"
    BY <2>1, <2>3, TraefikEnforced DEF IsFile, Read, Serves, IInv, FileLoads
  <2>4. CASE kind = "npm"
    BY <2>1, <2>4, TreeEnforced DEF IsFile, Read, Serves
  <2> QED
    BY <2>1, <2>2, <2>3, <2>4 DEF Kinds
<1> QED
  BY <1>1, InvariantCorrect, PTL

\* A router that names a host and is enabled is a route of the API read, or is
\* declared by it.
LEMMA ReadOrDeclared ==
    ASSUME NEW r \in Router, NEW k, NEW g \in ToSet(r.hosts), NEW services
    PROVE  \/ \E q \in RouterRoutes(k, r, services) : q.host = g
           \/ ApiUnparsed([r |-> r, enabled |-> TRUE], services) # {}
<1> DEFINE s == [r EXCEPT !.ack = FALSE]
<1>1. ~ hostless(r)
  BY RouterHosts
<1>2. s.hosts = r.hosts /\ s.cond = r.cond /\ s.service = r.service /\ s.ack = FALSE
  BY DEF Router
<1>3. ApiUnparsed([r |-> r, enabled |-> TRUE], services) = RouterUnparsed(s, services)
  BY DEF ApiUnparsed
<1> HIDE DEF s
<1>4. CASE r.cond
  BY <1>1, <1>2, <1>3, <1>4 DEF RouterUnparsed, nonHostPredicates, hostless, ackAware
<1>5. CASE ~ r.cond /\ ~ hasUpstream(services, r.service)
  BY <1>1, <1>2, <1>3, <1>5 DEF RouterUnparsed, nonHostPredicates, hostless, ackAware
<1>6. CASE ~ r.cond /\ hasUpstream(services, r.service)
  <2> DEFINE q == [host |-> g, to |-> services[r.service].to, mode |-> "http",
                   auth |-> authForRouter(isManaged(k), r), managed |-> isManaged(k)]
  <2>1. q \in RouterRoutes(k, r, services)
    BY <1>1, <1>6, Zenon DEF RouterRoutes, nonHostPredicates
  <2>2. q.host = g
    OBVIOUS
  <2> QED
    BY <2>1, <2>2
<1> QED
  BY <1>4, <1>5, <1>6

\* A host that answered through a router throughout an API read is in the
\* result, or the result says that it is incomplete: the services may come from
\* another config than the routers, and what they then do not resolve is declared.
THEOREM NothingGoesUnread == Spec => []NothingUnread
<1>1. IInv => NothingUnread
  <2> SUFFICES ASSUME IInv, ApiRead, NEW g \in Hosts,
                      \A c \in seen : \E n \in NamingRouters(c, g) : Enabled(c, n)
               PROVE  LiveHasHost(normalizeAPI(got), g) \/ normalizeAPI(got).unparsed # {}
    BY DEF NothingUnread
  <2>1. got # EmptyTable
    <3>1. DOMAIN EmptyTable = {} /\ Len(Endpoints) = 5
      BY DEF EmptyTable, Endpoints
    <3> QED
      BY <3>1, FS_EmptySet DEF ApiRead
  <2>2. PICK c \in seen : got["routers"] = ApiAnswer(c, "routers") /\ IsConfig(c)
    BY <2>1 DEF IInv, OneRouterAnswer
  <2>3. PICK n \in NamingRouters(c, g) : Enabled(c, n)
    OBVIOUS
  <2> DEFINE rs   == got["routers"]
             r    == c.routers[n]
             svcs == got["services"]
             R    == {[q EXCEPT !.managed = FALSE, !.auth = authForAPIRouter(rs[n].r)] :
                         q \in RouterRoutes(n, rs[n].r, svcs)}
             U    == ApiUnparsed(rs[n], svcs)
  <2>4. n \in DOMAIN c.routers /\ g \in ToSet(r.hosts) /\ r \in Router
    BY <2>2, <2>3, ConfigParts DEF NamingRouters
  <2>5. rs = [k \in DOMAIN c.routers |-> [r |-> c.routers[k], enabled |-> Enabled(c, k)]]
    BY <2>2 DEF ApiAnswer
  <2>6. Enabled(c, n) = TRUE
    BY <2>3 DEF Enabled
  <2>7. n \in DOMAIN rs /\ rs[n] = [r |-> r, enabled |-> TRUE]
    <3> HIDE DEF rs, r
    <3>1. rs[n] = [r |-> c.routers[n], enabled |-> Enabled(c, n)]
      BY <2>4, <2>5
    <3> QED
      BY <2>4, <2>5, <2>6, <3>1 DEF r
  <2> HIDE DEF rs, r, svcs
  <2>8. (\E q \in RouterRoutes(n, r, svcs) : q.host = g) \/ U # {}
    BY <2>4, <2>7, ReadOrDeclared
  <2>9. CASE U # {}
    <3>1. normalizeAPI(got).unparsed =
             (UNION {ApiUnparsed(rs[k], svcs) : k \in DOMAIN rs})
             \cup (UNION {ApiTcpUnparsed(ApiTcp(got, k)) : k \in DOMAIN got["tcp_routers"]})
      BY DEF normalizeAPI, rs, svcs
    <3> HIDE DEF U
    <3>2. U \subseteq UNION {ApiUnparsed(rs[k], svcs) : k \in DOMAIN rs}
      BY <2>7 DEF U
    <3> QED
      BY <2>9, <3>1, <3>2
  <2>10. ASSUME NEW q \in RouterRoutes(n, r, svcs), q.host = g
         PROVE  LiveHasHost(normalizeAPI(got), g)
    <3> DEFINE x == [q EXCEPT !.managed = FALSE, !.auth = authForAPIRouter(rs[n].r)]
    <3>1. normalizeAPI(got).routes =
            (UNION {{[p EXCEPT !.managed = FALSE, !.auth = authForAPIRouter(rs[k].r)] :
                        p \in RouterRoutes(k, rs[k].r, svcs)} : k \in {l \in DOMAIN rs : rs[l].enabled}})
            \cup (UNION {{[p EXCEPT !.managed = FALSE] : p \in TcpRoutes(k, ApiTcp(got, k))} :
                            k \in DOMAIN got["tcp_routers"]})
      BY DEF normalizeAPI, rs, svcs
    <3>2. n \in {l \in DOMAIN rs : rs[l].enabled} /\ rs[n].r = r
      BY <2>7
    <3>3. x \in UNION {{[p EXCEPT !.managed = FALSE, !.auth = authForAPIRouter(rs[k].r)] :
                        p \in RouterRoutes(k, rs[k].r, svcs)} : k \in {l \in DOMAIN rs : rs[l].enabled}}
      <4> DEFINE F(k) == {[p EXCEPT !.managed = FALSE, !.auth = authForAPIRouter(rs[k].r)] :
                            p \in RouterRoutes(k, rs[k].r, svcs)}
                 live == {l \in DOMAIN rs : rs[l].enabled}
      <4>1. q \in RouterRoutes(n, rs[n].r, svcs)
        BY <3>2
      <4>2. x \in F(n)
        BY <4>1
      <4>3. n \in live
        BY <3>2
      <4> HIDE DEF F, live, x
      <4>4. x \in UNION {F(k) : k \in live}
        BY <4>2, <4>3
      <4> QED
        BY <4>4 DEF F, live
    <3>4. x.host = g
      BY <2>10 DEF RouterRoutes
    <3> HIDE DEF x
    <3>5. x \in normalizeAPI(got).routes
      BY <3>1, <3>3, Zenon
    <3> QED
      BY <3>4, <3>5 DEF LiveHasHost, RoutesFor
  <2> QED
    BY <2>8, <2>9, <2>10
<1> QED
  BY <1>1, InvariantCorrect, PTL

-----------------------------------------------------------------------------
(***************************************************************************)
(* A write for one host leaves every other host answered as it was.        *)
(***************************************************************************)
\* crenel's own entries of a written config name its host, or were there before.
OwnEntries(f, h, w) ==
    /\ managedRouterID(h) \in DOMAIN w.routers =>
          \/ ToSet(w.routers[managedRouterID(h)].hosts) = {h}
          \/ /\ managedRouterID(h) \in DOMAIN f.routers
             /\ w.routers[managedRouterID(h)] = f.routers[managedRouterID(h)]
    /\ tcpRouterID(h) \in DOMAIN w.tcp =>
          \/ w.tcp[tcpRouterID(h)].sni = {h}
          \/ /\ tcpRouterID(h) \in DOMAIN f.tcp
             /\ w.tcp[tcpRouterID(h)] = f.tcp[tcpRouterID(h)]

\* Whatever the one change, only crenel's entries for h differ.
LEMMA TraefikOneChange ==
    ASSUME NEW f, NEW h \in Hosts, NEW c, OneChange(c, h)
    PROVE  TraefikWrite(f, h, applyTraefik(f, c)) /\ OwnEntries(f, h, applyTraefik(f, c))
<1> DEFINE w == applyTraefik(f, c)
<1>1. ASSUME NEW r \in LiveRoute, c.add = {r}, r.host = h, c.remove = {}, r.mode = "http"
      PROVE  TraefikWrite(f, h, w) /\ OwnEntries(f, h, w)
  <2>1. TraefikWrite(f, h, w) /\ HttpAdded(w, h, r) /\ TcpKept(f, w, h)
    BY <1>1, TraefikAddsHttp
  <2>2. ToSet(ManagedRouter(r).hosts) = {h}
    BY <1>1, ManagedRouterType
  <2> HIDE DEF w
  <2> QED
    BY <2>1, <2>2 DEF OwnEntries, HttpAdded, TcpKept
<1>2. ASSUME NEW r \in LiveRoute, c.add = {r}, r.host = h, c.remove = {}, r.mode = "tcp"
      PROVE  TraefikWrite(f, h, w) /\ OwnEntries(f, h, w)
  <2>1. TraefikWrite(f, h, w) /\ HttpKept(f, w, h) /\ TcpAdded(w, h, r)
    BY <1>2, TraefikAddsTcp
  <2> HIDE DEF w
  <2> QED
    BY <2>1 DEF OwnEntries, HttpKept, TcpAdded
<1>3. ASSUME c.add = {}, c.remove = {h}
      PROVE  TraefikWrite(f, h, w) /\ OwnEntries(f, h, w)
  <2>1. TraefikWrite(f, h, w) /\ HttpGone(w, h) /\ TcpGone(w, h)
    BY <1>3, TraefikRemoves
  <2> HIDE DEF w
  <2> QED
    BY <2>1 DEF OwnEntries, HttpGone, TcpGone
<1>4. \A r \in LiveRoute : r.mode \in {"http", "tcp"}
  BY DEF LiveRoute
<1> QED
  BY <1>1, <1>2, <1>3, <1>4 DEF OneChange

\* A host that one router names, and no TCP router, is answered by that router.
LEMMA OneRouterAnswers ==
    ASSUME NEW f, NEW g, NEW n, NamingRouters(f, g) = {n}, NamingTcp(f, g) = {}
    PROVE  OwnAnswers("traefik", f, g) = IF Enabled(f, n) THEN {RouterAnswer(f, n)} ELSE {}
<1> DEFINE raw    == {k \in DOMAIN f.tcp : g \in f.tcp[k].sni /\ f.tcp[k].to # Nothing}
           on     == {k \in DOMAIN f.routers : Enabled(f, k)}
           naming == {k \in on : g \in ToSet(f.routers[k].hosts)}
           anyone == {k \in on : hostless(f.routers[k])}
<1>1. raw = {} /\ naming = IF Enabled(f, n) THEN {n} ELSE {}
  BY DEF NamingRouters, NamingTcp
<1>2. traefikServes(f, g) = {RouterAnswer(f, k) : k \in IF naming # {} THEN naming ELSE anyone}
  BY <1>1 DEF traefikServes
<1>3. OwnAnswers("traefik", f, g) = IF Enabled(f, n) THEN traefikServes(f, g) ELSE {}
  BY DEF OwnAnswers, Serves
<1> HIDE DEF raw, on, naming, anyone
<1> QED
  BY <1>1, <1>2, <1>3

\* A host that TCP routers name, and no HTTP router, is answered by those.
TcpAnswer(to) == [port |-> 443, to |-> to, gate |-> "none", paths |-> FALSE]

\* Where no HTTP router names g and all TCP routers of g agree, their target answers.
LEMMA TcpRouterAnswers ==
    ASSUME NEW f, NEW g, NEW to, NamingRouters(f, g) = {}, NamingTcp(f, g) # {},
           \A k \in NamingTcp(f, g) : f.tcp[k].to = to
    PROVE  OwnAnswers("traefik", f, g) = IF to # Nothing THEN {TcpAnswer(to)} ELSE {}
<1> DEFINE raw == {k \in DOMAIN f.tcp : g \in f.tcp[k].sni /\ f.tcp[k].to # Nothing}
<1>1. raw = IF to # Nothing THEN NamingTcp(f, g) ELSE {}
  BY DEF NamingTcp
<1>2. to # Nothing => traefikServes(f, g) =
         {[port |-> 443, to |-> f.tcp[k].to, gate |-> "none", paths |-> FALSE] : k \in raw}
  BY <1>1 DEF traefikServes
<1>3. OwnAnswers("traefik", f, g) = IF to # Nothing THEN traefikServes(f, g) ELSE {}
  BY DEF OwnAnswers, Serves
<1> HIDE DEF raw
<1>4. to # Nothing =>
         {[port |-> 443, to |-> f.tcp[k].to, gate |-> "none", paths |-> FALSE] : k \in raw}
             = {TcpAnswer(to)}
  BY <1>1 DEF TcpAnswer
<1> QED
  BY <1>2, <1>3, <1>4

\* Enabling and answering are the same where router, service and middlewares are.
LEMMA SameAnswer ==
    ASSUME NEW f, NEW w, NEW n, NEW s, f.routers[n] = w.routers[n], s = f.routers[n].service,
           s \in DOMAIN f.services <=> s \in DOMAIN w.services,
           s \in DOMAIN f.services => f.services[s] = w.services[s],
           f.defs => DefsElsewhere, w.defs => DefsElsewhere
    PROVE  /\ Enabled(f, n) <=> Enabled(w, n)
           /\ Enabled(f, n) => RouterAnswer(f, n) = RouterAnswer(w, n)
BY DEF Enabled, RouterAnswer

\* A Traefik write for h keeps what reaches another host.
LEMMA TraefikKeeps ==
    ASSUME NEW f, IsConfig(f), NEW h \in Hosts, NEW g \in Hosts, g # h, NEW w,
           TraefikWrite(f, h, w), OwnEntries(f, h, w), Plain("traefik", f, g)
    PROVE  /\ Plain("traefik", w, g)
           /\ OwnAnswers("traefik", w, g) = OwnAnswers("traefik", f, g)
<1> DEFINE id == managedRouterID(h)
           tid == tcpRouterID(h)
<1>0. /\ managedRouterID(g) # id /\ managedRouterID(g) # denyKey /\ tcpRouterID(g) # tid
      /\ id \in ManagedNames /\ denyKey \in ManagedNames /\ tid \in TcpNames
  BY NamesApart
<1>1. f.defs => DefsElsewhere
  BY DEF Plain
<1>2. w.defs = FALSE
  BY DEF TraefikWrite
<1>3. \A k : k \in NamingTcp(w, g) => k \in NamingTcp(f, g) /\ w.tcp[k] = f.tcp[k]
  <2> TAKE k
  <2> HAVE k \in NamingTcp(w, g)
  <2>1. CASE k = tid
    BY <2>1 DEF NamingTcp, OwnEntries
  <2>2. CASE k # tid
    BY <2>2 DEF NamingTcp, TraefikWrite
  <2> QED
    BY <2>1, <2>2
<1>4. \A k : k \in NamingRouters(w, g) => k \in NamingRouters(f, g) /\ w.routers[k] = f.routers[k]
  <2> TAKE k
  <2> HAVE k \in NamingRouters(w, g)
  <2>1. CASE k = id
    BY <2>1 DEF NamingRouters, OwnEntries
  <2>2. CASE k # id
    BY <2>2 DEF NamingRouters, TraefikWrite
  <2> QED
    BY <2>1, <2>2
<1>5. ASSUME NEW n \in DOMAIN f.routers, NamingTcp(f, g) = {}, NamingRouters(f, g) = {n},
             PlainRouter(f, n, g)
      PROVE  /\ Plain("traefik", w, g)
             /\ OwnAnswers("traefik", w, g) = OwnAnswers("traefik", f, g)
  <2> DEFINE s == f.routers[n].service
  <2>1. n # id /\ n # denyKey
    BY <1>0, <1>5 DEF PlainRouter
  <2>2. n \in DOMAIN w.routers /\ w.routers[n] = f.routers[n]
    BY <2>1 DEF TraefikWrite
  <2>3. NamingTcp(w, g) = {}
    BY <1>3, <1>5
  <2>4. NamingRouters(w, g) = {n}
    <3>1. n \in NamingRouters(w, g)
      BY <1>5, <2>2 DEF NamingRouters
    <3> QED
      BY <1>4, <1>5, <3>1
  <2>5. s # id /\ s # denyKey
    <3>1. CASE n \notin ManagedNames /\ s \notin ManagedNames
      BY <1>0, <3>1
    <3>2. CASE n = managedRouterID(g) /\ \E a : f.routers[n] = ManagedRouter([host |-> g, auth |-> a])
      <4>1. s = managedRouterID(g)
        BY <3>2 DEF ManagedRouter
      <4> QED
        BY <1>0, <4>1
    <3> QED
      BY <1>5, <3>1, <3>2 DEF PlainRouter
  <2>6. /\ s \in DOMAIN f.services <=> s \in DOMAIN w.services
        /\ s \in DOMAIN f.services => f.services[s] = w.services[s]
    BY <2>5 DEF TraefikWrite
  <2>7. PlainRouter(w, n, g)
    <3>1. CASE n \notin ManagedNames /\ s \notin ManagedNames
      BY <2>2, <3>1 DEF PlainRouter
    <3>2. CASE /\ n = managedRouterID(g) /\ hasUpstream(f.services, n)
               /\ \E a \in {"none", "named", "detected"} :
                     f.routers[n] = ManagedRouter([host |-> g, auth |-> a])
      <4>1. hasUpstream(w.services, n)
        BY <2>1, <3>2 DEF TraefikWrite, hasUpstream
      <4> QED
        BY <2>2, <3>2, <4>1 DEF PlainRouter
    <3> QED
      BY <1>5, <3>1, <3>2 DEF PlainRouter
  <2>8. Plain("traefik", w, g)
    BY <1>2, <2>2, <2>3, <2>4, <2>7 DEF Plain
  <2>9. /\ Enabled(f, n) <=> Enabled(w, n)
        /\ Enabled(f, n) => RouterAnswer(f, n) = RouterAnswer(w, n)
    BY <1>1, <1>2, <2>2, <2>6, SameAnswer
  <2> QED
    BY <1>5, <2>3, <2>4, <2>8, <2>9, OneRouterAnswers
<1>6. ASSUME NEW n \in DOMAIN f.tcp, NamingRouters(f, g) = {}, NamingTcp(f, g) = {n},
             PlainTcp(f, n, g)
      PROVE  /\ Plain("traefik", w, g)
             /\ OwnAnswers("traefik", w, g) = OwnAnswers("traefik", f, g)
  <2>1. n # tid
    BY <1>0, <1>6 DEF PlainTcp
  <2>2. n \in DOMAIN w.tcp /\ w.tcp[n] = f.tcp[n]
    BY <2>1 DEF TraefikWrite
  <2>3. NamingRouters(w, g) = {}
    BY <1>4, <1>6
  <2>4. NamingTcp(w, g) = {n}
    <3>1. n \in NamingTcp(w, g)
      BY <1>6, <2>2 DEF NamingTcp
    <3> QED
      BY <1>3, <1>6, <3>1
  <2>5. PlainTcp(w, n, g)
    BY <1>6, <2>2 DEF PlainTcp
  <2>6. Plain("traefik", w, g)
    BY <1>2, <2>2, <2>3, <2>4, <2>5 DEF Plain
  <2> DEFINE to == f.tcp[n].to
  <2>7. OwnAnswers("traefik", w, g) = IF to # Nothing THEN {TcpAnswer(to)} ELSE {}
    BY <2>2, <2>3, <2>4, TcpRouterAnswers
  <2>8. OwnAnswers("traefik", f, g) = IF to # Nothing THEN {TcpAnswer(to)} ELSE {}
    BY <1>6, TcpRouterAnswers
  <2> QED
    BY <2>6, <2>7, <2>8
<1> QED
  BY <1>5, <1>6 DEF Plain

\* A write for h keeps what reaches another host, at either kind of edge.
LEMMA WriteKeeps ==
    ASSUME NEW k \in {"nginx", "traefik"}, NEW f, IsFile(k, f), NEW h \in Hosts, NEW c,
           OneChange(c, h), NEW g \in Hosts, g # h, Plain(k, f, g)
    PROVE  /\ Plain(k, Written(k, f, c), g)
           /\ OwnAnswers(k, Written(k, f, c), g) = OwnAnswers(k, f, g)
<1>1. CASE k = "nginx"
  <2> DEFINE w == applyNginx(f, c)
  <2>1. f \in Seq(Block) /\ AboutHost(c, h)
    BY <1>1, OneChangeAbout DEF IsFile
  <2>2. w \in Seq(Block)
    BY <2>1, ApplyShape DEF WrittenAs
  <2>3. PICK i \in DOMAIN f : NamingBlocks(f, g) = {i}
                              /\ (f[i].marker # "none" => f[i] = ManagedBlock(BlockRoute(f[i])))
    BY <1>1 DEF Plain
  <2>4. PICK j \in DOMAIN w : NamingBlocks(w, g) = {j} /\ w[j] = f[i]
    BY <2>1, <2>3, NginxKeeps
  <2> HIDE DEF w
  <2>5. Plain("nginx", w, g)
    BY <2>3, <2>4 DEF Plain
  <2>6. OwnAnswers("nginx", w, g) = OwnAnswers("nginx", f, g)
    <3>1. OwnAnswers("nginx", w, g) = IF forwards(w[j]) THEN {BlockAnswer(w[j])} ELSE {}
      BY <2>2, <2>4, OneBlockAnswers
    <3>2. OwnAnswers("nginx", f, g) = IF forwards(f[i]) THEN {BlockAnswer(f[i])} ELSE {}
      BY <2>1, <2>3, OneBlockAnswers
    <3> QED
      BY <2>4, <3>1, <3>2
  <2> QED
    BY <1>1, <2>5, <2>6 DEF Written, w
<1>2. CASE k = "traefik"
  <2>1. IsConfig(f)
    BY <1>2 DEF IsFile
  <2> QED
    BY <1>2, <2>1, TraefikOneChange, TraefikKeeps DEF Written
<1> QED
  BY <1>1, <1>2

\* A write and a compensation rewrite the whole file, and leave every host they
\* are not about answered as it was: same backend, same gate.
THEOREM OthersAreKept == Spec => OthersKept
<1> DEFINE Keeps == (pc = "undo" \/ (runs' # runs /\ op' # NoOp)) =>
                       \A g \in Hosts \ {op'.host} :
                          Plain(kind, file, g) => OwnAnswers(kind, file', g) = OwnAnswers(kind, file, g)
<1>1. ASSUME IInv, [Next]_vars PROVE [Keeps]_vars
  <2> USE <1>1
  <2>1. ASSUME file' = file PROVE Keeps
    BY <2>1
  <2>2. ASSUME NEW o \in Ops, Start(o), file' # file PROVE Keeps
    <3> DEFINE c == Plan(o, Read(kind, file))
    <3>1. kind \in {"nginx", "traefik"} /\ IsFile(kind, file) /\ op' = o
      BY <2>2 DEF Start, IInv, TypeOK, Kinds
    <3>2. c # NoChange /\ file' = Written(kind, file, c)
      BY <2>2, Zenon DEF Start
    <3>3. OneChange(c, o.host) /\ o.host \in Hosts
      <4>1. Read(kind, file) \in LiveState
        BY <3>1, ReadType
      <4> QED
        BY <3>2, <4>1, PlanIs
    <3> HIDE DEF c
    <3>4. \A g \in Hosts \ {o.host} :
             Plain(kind, file, g) => OwnAnswers(kind, file', g) = OwnAnswers(kind, file, g)
      BY <3>1, <3>2, <3>3, WriteKeeps
    <3> QED
      BY <3>1, <3>4
  <2>3. ASSUME Undo, file' # file PROVE Keeps
    <3> DEFINE c == invertChange(change, snap)
    <3>1. /\ kind # "npm" /\ op \in Ops /\ snap = Read(kind, before) /\ change = Plan(op, snap)
          /\ change # NoChange /\ op' = op
      BY <2>3 DEF Undo, IInv, PlannedFrom
    <3>2. file' = Written(kind, file, c)
      BY <2>3 DEF Undo
    <3>3. kind \in {"nginx", "traefik"} /\ IsFile(kind, file) /\ snap \in LiveState
      BY <3>1 DEF IInv, TypeOK, Kinds
    <3>4. OneChange(c, op.host) /\ op.host \in Hosts
      BY <3>1, <3>3, PlanIs, InverseIs
    <3> HIDE DEF c
    <3>5. \A g \in Hosts \ {op.host} :
             Plain(kind, file, g) => OwnAnswers(kind, file', g) = OwnAnswers(kind, file, g)
      BY <3>2, <3>3, <3>4, WriteKeeps
    <3> QED
      BY <3>1, <3>5
  <2>4. ASSUME NEW o \in Ops, Kill(o) PROVE Keeps
    BY <2>4 DEF Kill
  <2>5. ASSUME NEW h \in Hosts, Import(h) PROVE Keeps
    BY <2>5 DEF Import
  <2>6. CASE Load \/ Restart \/ Verify \/ Fetch
    BY <2>1, <2>6 DEF Load, Restart, Verify, Fetch
  <2>7. CASE Edit
    BY <2>7 DEF Edit
  <2>8. CASE Regenerate
    BY <2>8 DEF Regenerate, IInv, PlannedFrom
  <2>9. CASE UNCHANGED vars
    BY <2>9
  <2> HIDE DEF Keeps
  <2> QED
    BY <2>1, <2>2, <2>3, <2>4, <2>5, <2>6, <2>7, <2>8, <2>9 DEF Next
<1> QED
  BY <1>1, InvariantCorrect, PTL DEF Spec, OthersKept

-----------------------------------------------------------------------------
(***************************************************************************)
(* A rollback restores the host of the request as well.                    *)
(***************************************************************************)
\* w's blocks of the host written for: those of f that are not crenel's, before
\* the one rendered for the added route, if there is one.
OwnBlocks(f, h, c, w) ==
    /\ w \in Seq(Block)
    /\ \A j \in NamingBlocks(w, h) :
          \/ ~ Owned(w[j]) /\ \E i \in NamingBlocks(f, h) : w[j] = f[i]
          \/ \E r \in c.add : w[j] = ManagedBlock(r)
    /\ \A i \in NamingBlocks(f, h) : ~ Owned(f[i]) =>
          \E j \in NamingBlocks(w, h) :
              /\ w[j] = f[i]
              /\ \A l \in NamingBlocks(w, h) : Owned(w[l]) => j <= l
    /\ \A r \in c.add : \E j \in NamingBlocks(w, h) : w[j] = ManagedBlock(r)

\* What the nginx driver writes names h as OwnBlocks says.
LEMMA NginxOwn ==
    ASSUME NEW f \in Seq(Block), NEW h \in Hosts, NEW c, OneChange(c, h)
    PROVE  OwnBlocks(f, h, c, applyNginx(f, c))
<1> DEFINE u == Unmanaged(f)
           W == WrittenBlocks(f, c)
           s == SetToSeq(W)
           w == applyNginx(f, c)
<1>0. AboutHost(c, h)
  BY OneChangeAbout
<1>1. PICK m : KeptFrom(f, Len(f), u, m)
  BY UnmanagedKeeps
<1>2. WrittenAs(f, c, w, u, s)
  BY <1>0, ApplyShape
<1>3. /\ s \in Seq(W)
      /\ \A p, q \in DOMAIN s : s[p] = s[q] => p = q
      /\ \A x \in W : \E q \in DOMAIN s : s[q] = x
  BY <1>0, WrittenRoutesType, SetToSeqLists
<1>5. /\ DOMAIN w = 1 .. Len(w) /\ DOMAIN s = 1 .. Len(s) /\ w \in Seq(Block)
      /\ Len(u) \in Nat /\ Len(s) \in Nat /\ Len(w) = Len(u) + Len(s) + 1
      /\ \A k \in 1 .. Len(u) : w[k] = u[k] /\ k \in DOMAIN w
      /\ \A q \in 1 .. Len(s) : w[Len(u) + q] = s[q] /\ Len(u) + q \in DOMAIN w
      /\ w[Len(w)] = DenyBlock
  BY <1>2, <1>3 DEF WrittenAs
<1>6. \A q \in 1 .. Len(s) : s[q] \in W
  BY <1>3, <1>5
<1>7. /\ m \in [1 .. Len(u) -> 1 .. Len(f)]
      /\ \A k \in 1 .. Len(u) : u[k] = f[m[k]] /\ ~ Owned(f[m[k]])
      /\ \A k, l \in 1 .. Len(u) : m[k] = m[l] => k = l
      /\ \A k \in 1 .. Len(f) : ~ Owned(f[k]) => \E l \in 1 .. Len(u) : m[l] = k
  BY <1>1 DEF KeptFrom
<1>8. \A k \in DOMAIN w : k \in 1 .. Len(u) \/ (\E q \in 1 .. Len(s) : k = Len(u) + q) \/ k = Len(w)
  BY <1>2, WrittenPlace
<1>9. ASSUME NEW k \in 1 .. Len(u), k \in NamingBlocks(w, h)
      PROVE  ~ Owned(w[k]) /\ m[k] \in NamingBlocks(f, h) /\ w[k] = f[m[k]]
  <2>0. w[k] = f[m[k]] /\ m[k] \in 1 .. Len(f) /\ ~ Owned(f[m[k]])
    <3> HIDE DEF w, u
    <3> QED
      BY <1>5, <1>7
  <2>1. w[k] = f[m[k]] /\ m[k] \in DOMAIN f /\ ~ Owned(f[m[k]])
    BY <2>0
  <2> QED
    BY <1>9, <2>1 DEF NamingBlocks
<1>10. ASSUME NEW q \in 1 .. Len(s), Len(u) + q \in NamingBlocks(w, h)
       PROVE  /\ Owned(w[Len(u) + q]) /\ w[Len(u) + q] = s[q]
              /\ \E r \in c.add : s[q] = ManagedBlock(r)
  <2>1. PICK r : RenderedFor(f, c, h, s[q], r)
    BY <1>0, <1>6, WrittenBlockIs
  <2>2. w[Len(u) + q] = s[q] /\ h \in ToSet(s[q].names)
    BY <1>5, <1>10 DEF NamingBlocks
  <2>3. r.host = h
    BY <2>1, <2>2 DEF RenderedFor
  <2>4. r \in c.add
    <3>1. c.remove = {h} \/ \E p \in c.add : p.host = h
      BY DEF OneChange
    <3> QED
      BY <2>1, <2>3, <3>1 DEF RenderedFor
  <2> QED
    BY <2>1, <2>2, <2>4 DEF RenderedFor, Owned
<1>11. Len(w) \notin NamingBlocks(w, h)
  BY <1>5, DenyBlockType DEF NamingBlocks
<1>12. \A k \in NamingBlocks(w, h) : k \in 1 .. Len(u) \/ \E q \in 1 .. Len(s) : k = Len(u) + q
  BY <1>8, <1>11 DEF NamingBlocks
<1> HIDE DEF w, s, u, W
<1>13. ASSUME NEW j \in NamingBlocks(w, h)
       PROVE  \/ ~ Owned(w[j]) /\ \E i \in NamingBlocks(f, h) : w[j] = f[i]
              \/ \E r \in c.add : w[j] = ManagedBlock(r)
  BY <1>9, <1>10, <1>12
<1>14. ASSUME NEW i \in NamingBlocks(f, h), ~ Owned(f[i])
       PROVE  \E j \in NamingBlocks(w, h) :
                 /\ w[j] = f[i]
                 /\ \A l \in NamingBlocks(w, h) : Owned(w[l]) => j <= l
  <2>1. i \in 1 .. Len(f) /\ isServer(f[i]) /\ h \in ToSet(f[i].names)
    BY DEF NamingBlocks
  <2>2. PICK j \in 1 .. Len(u) : m[j] = i
    BY <1>7, <1>14, <2>1
  <2>3. w[j] = f[i] /\ j \in NamingBlocks(w, h)
    BY <1>5, <1>7, <2>1, <2>2 DEF NamingBlocks
  <2>4. ASSUME NEW l \in NamingBlocks(w, h), Owned(w[l]) PROVE j <= l
    <3>1. PICK q \in 1 .. Len(s) : l = Len(u) + q
      BY <1>9, <1>12, <2>4
    <3> QED
      BY <1>5, <3>1
  <2> QED
    BY <2>3, <2>4
<1>16. ASSUME NEW r \in c.add
       PROVE  \E j \in NamingBlocks(w, h) : w[j] = ManagedBlock(r)
  <2>1. r \in LiveRoute /\ r.host = h
    BY DEF OneChange
  <2>2. ManagedBlock(r) \in W
    BY DEF W, WrittenBlocks, WrittenRoutes
  <2>3. PICK q \in 1 .. Len(s) : s[q] = ManagedBlock(r)
    BY <1>3, <1>5, <2>2
  <2>4. isServer(s[q]) /\ h \in ToSet(s[q].names)
    BY <2>1, <2>3, ManagedBlockType
  <2>5. Len(u) + q \in NamingBlocks(w, h) /\ w[Len(u) + q] = ManagedBlock(r)
    BY <1>5, <2>3, <2>4 DEF NamingBlocks
  <2> QED
    BY <2>5
<1>18. OwnBlocks(f, h, c, w)
  BY <1>5, <1>13, <1>14, <1>16 DEF OwnBlocks
<1> QED
  BY <1>18 DEF w

\* What a block that crenel rendered for a route forwards to.
LEMMA RenderedForwards ==
    ASSUME NEW r
    PROVE  forwards(ManagedBlock(r)) /\ Owned(ManagedBlock(r)) /\ ManagedBlock(r).port = ListenPort
           /\ Modelled(ManagedBlock(r)) = (r.host # Nothing)
<1>1. (IF r.to = Nothing THEN Void ELSE r.to) # Nothing
  BY NginxAssumption
<1>2. hostOf(ManagedBlock(r)) = r.host
  <2>1. <<r.host>> # <<>> /\ <<r.host>>[1] = r.host
    OBVIOUS
  <2> QED
    BY <2>1 DEF ManagedBlock, hostOf
<1> QED
  BY <1>1, <1>2 DEF forwards, isServer, Owned, ManagedBlock, Modelled, Vhost, catchAll

\* A modelled block with a host is a route of it, and no other block is.
LEMMA NginxHasHost ==
    ASSUME NEW f, NEW h
    PROVE  /\ \A b \in ToSet(f) : Modelled(b) /\ hostOf(b) = h => LiveHasHost(normalizeNginx(f), h)
           /\ \A r \in RoutesFor(normalizeNginx(f), h) :
                 \E b \in ToSet(f) : Modelled(b) /\ hostOf(b) = h /\ r = BlockRoute(b)
<1>1. normalizeNginx(f).routes = {BlockRoute(b) : b \in {x \in ToSet(f) : Modelled(x)}}
  BY DEF normalizeNginx
<1>2. \A b : BlockRoute(b).host = hostOf(b)
  BY DEF BlockRoute
<1> QED
  BY <1>1, <1>2 DEF LiveHasHost, RoutesFor

\* The rollback of a change of h, applied to a file whose one block for h is
\* crenel's, or a vhost on crenel's port.
LEMMA NginxRollback ==
    ASSUME NEW f \in Seq(Block), NEW o \in Ops, NEW s, s = normalizeNginx(f), NEW c,
           c = Plan(o, s), c # NoChange,
           Plain("nginx", f, o.host), OwnAnswers("nginx", f, o.host) # {},
           \A i \in NamingBlocks(f, o.host) : f[i].marker = "none" => f[i].port = ListenPort
    PROVE  OwnAnswers("nginx", applyNginx(applyNginx(f, c), invertChange(c, s)), o.host)
             = OwnAnswers("nginx", f, o.host)
<1> DEFINE h  == o.host
           v  == invertChange(c, s)
           w1 == applyNginx(f, c)
           w2 == applyNginx(w1, v)
<1> SUFFICES OwnAnswers("nginx", w2, h) = OwnAnswers("nginx", f, h)
  OBVIOUS
<1>1. s \in LiveState /\ h \in Hosts /\ OneChange(c, h) /\ OneChange(v, h) /\ h # Nothing
  BY NginxReadType, PlanIs, InverseIs, LiveConfigAssumption
<1>2. PICK i \in DOMAIN f : /\ NamingBlocks(f, h) = {i}
                            /\ f[i].marker # "none" => f[i] = ManagedBlock(BlockRoute(f[i]))
  BY DEF Plain
<1> DEFINE b == f[i]
<1>3. b \in Block /\ isServer(b) /\ h \in ToSet(b.names) /\ b \in ToSet(f)
  BY <1>2 DEF NamingBlocks, ToSet
<1>4. OwnAnswers("nginx", f, h) = {BlockAnswer(b)} /\ forwards(b)
  BY <1>2, OneBlockAnswers
<1>5. OwnBlocks(f, h, c, w1)
  BY <1>1, NginxOwn
<1>6. w1 \in Seq(Block)
  BY <1>5 DEF OwnBlocks
<1> HIDE DEF w1
<1>7. OwnBlocks(w1, h, v, w2)
  BY <1>1, <1>6, NginxOwn
<1>8. Owned(b) => Modelled(b) /\ hostOf(b) = h
  <2> SUFFICES ASSUME Owned(b) PROVE Modelled(b) /\ hostOf(b) = h
    OBVIOUS
  <2>1. b = ManagedBlock(BlockRoute(b)) /\ BlockRoute(b).host = hostOf(b)
    BY <1>2 DEF Owned, BlockRoute
  <2>2. b.names = <<hostOf(b)>> /\ ToSet(<<hostOf(b)>>) = {hostOf(b)}
    BY <2>1 DEF ManagedBlock, ToSet
  <2>3. hostOf(b) = h
    BY <1>3, <2>2
  <2> QED
    BY <1>1, <2>1, <2>3, RenderedForwards
<1>12. ASSUME NEW j2 \in NamingBlocks(w2, h), w2[j2] = b,
              \A l \in NamingBlocks(w2, h) : Owned(w2[l]) => j2 <= l,
              \A l \in NamingBlocks(w2, h) : w2[l] = b \/ (Owned(w2[l]) /\ w2[l].port = b.port)
       PROVE  OwnAnswers("nginx", w2, h) = OwnAnswers("nginx", f, h)
  <2>1. w2 \in Seq(Block)
    BY <1>7 DEF OwnBlocks
  <2> HIDE DEF w2, b
  <2>2. NamingBlocks(w2, h) \in SUBSET Nat
    BY <2>1 DEF NamingBlocks
  <2>3. PICK j \in NamingBlocks(w2, h) : \A l \in NamingBlocks(w2, h) : j <= l
    BY <2>2, LeastNatural
  <2>4. w2[j] = b
    <3>1. Owned(w2[j]) => j = j2
      BY <1>12, <2>2, <2>3
    <3> QED
      BY <1>12, <3>1
  <2>5. \A l \in NamingBlocks(w2, h) : j <= l /\ w2[l].port = w2[j].port
    BY <1>12, <2>3, <2>4
  <2>6. OwnAnswers("nginx", w2, h) = IF forwards(w2[j]) THEN {BlockAnswer(w2[j])} ELSE {}
    BY <2>1, <2>5, FirstBlockAnswers
  <2> QED
    BY <1>4, <2>4, <2>6
<1>10. ASSUME \A l \in NamingBlocks(w2, h) : w2[l] = b, NamingBlocks(w2, h) # {}
       PROVE  OwnAnswers("nginx", w2, h) = OwnAnswers("nginx", f, h)
  <2>1. w2 \in Seq(Block)
    BY <1>7 DEF OwnBlocks
  <2> HIDE DEF w2, b
  <2>2. NamingBlocks(w2, h) \in SUBSET Nat
    BY <2>1 DEF NamingBlocks
  <2>3. PICK j \in NamingBlocks(w2, h) : \A l \in NamingBlocks(w2, h) : j <= l
    BY <1>10, <2>2, LeastNatural
  <2>4. w2[j] = b /\ \A l \in NamingBlocks(w2, h) : j <= l /\ w2[l].port = w2[j].port
    BY <1>10, <2>3
  <2>5. OwnAnswers("nginx", w2, h) = IF forwards(w2[j]) THEN {BlockAnswer(w2[j])} ELSE {}
    BY <2>1, <2>4, FirstBlockAnswers
  <2> QED
    BY <1>4, <2>4, <2>5
<1> HIDE DEF v, w2, b
<1>9. CASE o.verb = "expose"
  <2>1. ~ LiveHasHost(s, h) /\ v.add = {}
    BY <1>1, <1>9, PlanIs, InverseIs DEF v
  <2>2. ~ Owned(b)
    BY <1>3, <1>8, <2>1, NginxHasHost
  <2>3. PICK j1 \in NamingBlocks(w1, h) : w1[j1] = b
    BY <1>2, <1>5, <2>2 DEF OwnBlocks, b
  <2>5. ASSUME NEW l \in NamingBlocks(w2, h) PROVE w2[l] = b
    <3>1. PICK k \in NamingBlocks(w1, h) : w2[l] = w1[k] /\ ~ Owned(w1[k])
      BY <1>7, <2>1 DEF OwnBlocks
    <3>3. ~ \E q \in c.add : w1[k] = ManagedBlock(q)
      BY <3>1, RenderedForwards
    <3>4. \E p \in NamingBlocks(f, h) : w1[k] = f[p]
      BY <1>5, <3>3 DEF OwnBlocks
    <3> QED
      BY <1>2, <3>1, <3>4 DEF b
  <2>6. NamingBlocks(w2, h) # {}
    BY <1>7, <2>2, <2>3 DEF OwnBlocks
  <2> QED
    BY <2>5, <2>6, <1>10
<1>11. CASE o.verb = "unexpose"
  <2> DEFINE R == FirstRoute(s, h)
  <2>1. LiveHasHost(s, h) /\ c.add = {} /\ v.add = {R} /\ R \in RoutesFor(s, h)
    <3>1. LiveHasHost(s, h) /\ c.add = {} /\ v.add = {R}
      BY <1>1, <1>11, PlanIs, InverseIs DEF v
    <3>2. R \in s.routes /\ R.host = h
      BY <1>1, <3>1, FirstRouteIs
    <3> QED
      BY <3>1, <3>2 DEF RoutesFor
  <2> HIDE DEF R
  <2>2. R = BlockRoute(b)
    <3>1. PICK x \in ToSet(f) : Modelled(x) /\ hostOf(x) = h /\ R = BlockRoute(x)
      BY <2>1, NginxHasHost
    <3>2. PICK k \in DOMAIN f : f[k] = x
      BY DEF ToSet
    <3>3. f[k] \in Block
      OBVIOUS
    <3>4. isServer(x) /\ h \in ToSet(x.names)
      BY <1>1, <3>1, <3>2, <3>3, BlockNames DEF Modelled, Vhost
    <3>5. k \in NamingBlocks(f, h)
      BY <3>2, <3>4 DEF NamingBlocks
    <3> QED
      BY <1>2, <3>1, <3>2, <3>5 DEF b
  <2>3. CASE Owned(b)
    <3>1. b = ManagedBlock(R)
      BY <1>2, <2>2, <2>3 DEF b, Owned
    <3>2. ASSUME NEW k \in NamingBlocks(w1, h) PROVE FALSE
      BY <1>2, <1>5, <2>1, <2>3 DEF OwnBlocks, b
    <3>3. ASSUME NEW l \in NamingBlocks(w2, h) PROVE w2[l] = b
      BY <1>7, <2>1, <3>1, <3>2 DEF OwnBlocks
    <3>4. NamingBlocks(w2, h) # {}
      BY <1>7, <2>1 DEF OwnBlocks
    <3> QED
      BY <1>10, <3>3, <3>4
  <2>4. CASE ~ Owned(b)
    <3>1. b.marker = "none" /\ b.port = ListenPort
      BY <1>2, <1>3, <2>4 DEF Owned, b
    <3>2. PICK j1 \in NamingBlocks(w1, h) : w1[j1] = b
      BY <1>2, <1>5, <2>4 DEF OwnBlocks, b
    <3>3. PICK j2 \in NamingBlocks(w2, h) :
             w2[j2] = b /\ \A l \in NamingBlocks(w2, h) : Owned(w2[l]) => j2 <= l
      BY <1>7, <2>4, <3>2 DEF OwnBlocks
    <3>4. ASSUME NEW l \in NamingBlocks(w2, h)
          PROVE  w2[l] = b \/ (Owned(w2[l]) /\ w2[l].port = ListenPort)
      <4>1. CASE w2[l] = ManagedBlock(R)
        BY <4>1, RenderedForwards
      <4>2. ASSUME NEW k \in NamingBlocks(w1, h), w2[l] = w1[k]
            PROVE  w2[l] = b
        <5>1. \E p \in NamingBlocks(f, h) : w1[k] = f[p]
          BY <1>5, <2>1 DEF OwnBlocks
        <5> QED
          BY <1>2, <4>2, <5>1 DEF b
      <4> QED
        BY <1>7, <2>1, <4>1, <4>2 DEF OwnBlocks
    <3> QED
      BY <1>12, <3>1, <3>3, <3>4
  <2> QED
    BY <2>3, <2>4
<1> QED
  BY <1>1, <1>9, <1>11, PlanIs

\* Two writes for h are one: only crenel's entries for h differ.
LEMMA WriteTwice ==
    ASSUME NEW f, NEW h, NEW w, NEW x, TraefikWrite(f, h, w), TraefikWrite(w, h, x)
    PROVE  TraefikWrite(f, h, x)
BY DEF TraefikWrite

\* What a change for h and its inverse leave of crenel's entries for h: nothing
\* after an expose, the first route of the snapshot after an unexpose.
LEMMA TraefikUndone ==
    ASSUME NEW f, IsConfig(f), NEW o \in Ops, NEW s \in LiveState, Plan(o, s) # NoChange
    PROVE  LET h == o.host
               x == applyTraefik(applyTraefik(f, Plan(o, s)), invertChange(Plan(o, s), s))
           IN /\ TraefikWrite(f, h, x)
              /\ o.verb = "expose" => HttpGone(x, h) /\ TcpGone(x, h)
              /\ o.verb = "unexpose" =>
                    LET R == FirstRoute(s, h)
                    IN \/ R.mode = "http" /\ HttpAdded(x, h, R) /\ TcpGone(x, h)
                       \/ R.mode = "tcp" /\ TcpAdded(x, h, R) /\ HttpGone(x, h)
<1> DEFINE h == o.host
           c == Plan(o, s)
           v == invertChange(c, s)
           w == applyTraefik(f, c)
           x == applyTraefik(w, v)
           R == FirstRoute(s, h)
<1>1. OneChange(c, h) /\ OneChange(v, h) /\ h \in Hosts
  BY PlanIs, InverseIs
<1>2. TraefikWrite(f, h, w) /\ TraefikWrite(w, h, x)
  <2> HIDE DEF c, v
  <2> QED
    BY <1>1, TraefikOneChange
<1>3. TraefikWrite(f, h, x)
  <2> HIDE DEF w, x
  <2> QED
    BY <1>2, WriteTwice
<1>4. ASSUME o.verb = "expose" PROVE HttpGone(x, h) /\ TcpGone(x, h)
  <2>1. v.add = {} /\ v.remove = {h}
    BY <1>4, InverseIs
  <2> HIDE DEF v, w
  <2> QED
    BY <1>1, <2>1, TraefikRemoves
<1>5. ASSUME o.verb = "unexpose"
      PROVE  \/ R.mode = "http" /\ HttpAdded(x, h, R) /\ TcpGone(x, h)
             \/ R.mode = "tcp" /\ TcpAdded(x, h, R) /\ HttpGone(x, h)
  <2>1. v.add = {R} /\ v.remove = {}
    BY <1>5, InverseIs
  <2>2. LiveHasHost(s, h) /\ c.add = {} /\ c.remove = {h}
    BY <1>5, PlanIs
  <2>3. R.host = h /\ R.mode \in {"http", "tcp"}
    <3>1. R \in LiveRoute /\ R.host = h
      BY <2>2, FirstRouteIs
    <3> QED
      BY <3>1 DEF LiveRoute
  <2> HIDE DEF v, c, R
  <2>4. HttpGone(w, h) /\ TcpGone(w, h)
    BY <1>1, <2>2, TraefikRemoves
  <2> HIDE DEF w
  <2>5. CASE R.mode = "http"
    <3>1. HttpAdded(x, h, R) /\ TcpKept(w, x, h)
      BY <1>1, <2>1, <2>3, <2>5, TraefikAddsHttp
    <3> HIDE DEF x
    <3> QED
      BY <2>4, <2>5, <3>1 DEF TcpKept, TcpGone
  <2>6. CASE R.mode = "tcp"
    <3>1. TcpAdded(x, h, R) /\ HttpKept(w, x, h)
      BY <1>1, <2>1, <2>3, <2>6, TraefikAddsTcp
    <3> HIDE DEF x
    <3> QED
      BY <2>4, <2>6, <3>1 DEF HttpKept, HttpGone
  <2> QED
    BY <2>3, <2>5, <2>6
<1> QED
  BY <1>3, <1>4, <1>5

\* A host whose enabled routers agree is answered as they do.
LEMMA AgreeingRouters ==
    ASSUME NEW f, NEW g, NEW n \in NamingRouters(f, g), NamingTcp(f, g) = {}, Enabled(f, n),
           \A k \in NamingRouters(f, g) : Enabled(f, k) => RouterAnswer(f, k) = RouterAnswer(f, n)
    PROVE  OwnAnswers("traefik", f, g) = {RouterAnswer(f, n)}
<1> DEFINE raw    == {k \in DOMAIN f.tcp : g \in f.tcp[k].sni /\ f.tcp[k].to # Nothing}
           on     == {k \in DOMAIN f.routers : Enabled(f, k)}
           naming == {k \in on : g \in ToSet(f.routers[k].hosts)}
           anyone == {k \in on : hostless(f.routers[k])}
<1>1. raw = {} /\ n \in naming /\ \A k \in naming : RouterAnswer(f, k) = RouterAnswer(f, n)
  BY DEF NamingRouters, NamingTcp
<1>2. traefikServes(f, g) = {RouterAnswer(f, k) : k \in IF naming # {} THEN naming ELSE anyone}
  BY <1>1 DEF traefikServes
<1>3. OwnAnswers("traefik", f, g) = traefikServes(f, g)
  BY DEF OwnAnswers, Serves
<1> HIDE DEF raw, on, naming, anyone
<1> QED
  BY <1>1, <1>2, <1>3

\* A route of h that was read comes from a router that names h.
LEMMA RouteOrigin ==
    ASSUME NEW f, IsConfig(f), NEW q \in ReadRoutes(f)
    PROVE  \/ \E k \in NamingRouters(f, q.host) :
                 /\ q \in LiveRoute /\ q.mode = "http" /\ ~ f.routers[k].cond
                 /\ hasUpstream(f.services, f.routers[k].service)
                 /\ q.to = f.services[f.routers[k].service].to
                 /\ q.auth = authForRouter(isManaged(k), f.routers[k])
           \/ \E k \in NamingTcp(f, q.host) :
                 q.mode = "tcp" /\ q.to = f.tcp[k].to /\ q.to # Nothing
<1>1. ASSUME NEW k \in DOMAIN f.routers, q \in RouterRoutes(k, f.routers[k], f.services)
      PROVE  /\ k \in NamingRouters(f, q.host) /\ q \in LiveRoute /\ q.mode = "http"
             /\ ~ f.routers[k].cond /\ hasUpstream(f.services, f.routers[k].service)
             /\ q.to = f.services[f.routers[k].service].to
             /\ q.auth = authForRouter(isManaged(k), f.routers[k])
  BY <1>1, RouterRoutesType DEF NamingRouters
<1>2. ASSUME NEW k \in DOMAIN f.tcp, q \in TcpRoutes(k, f.tcp[k])
      PROVE  k \in NamingTcp(f, q.host) /\ q.mode = "tcp" /\ q.to = f.tcp[k].to /\ q.to # Nothing
  BY <1>2, TcpRoutesType DEF NamingTcp
<1> QED
  BY <1>1, <1>2 DEF ReadRoutes

\* A router with an upstream and no other predicate makes its hosts live.
LEMMA RouterIsRoute ==
    ASSUME NEW f, IsConfig(f), NEW h, NEW n \in NamingRouters(f, h), ~ f.routers[n].cond,
           hasUpstream(f.services, f.routers[n].service)
    PROVE  LiveHasHost(normalizeTraefik(f), h)
<1> DEFINE r == f.routers[n]
           q == [host |-> h, to |-> f.services[r.service].to, mode |-> "http",
                 auth |-> authForRouter(isManaged(n), r), managed |-> isManaged(n)]
<1>1. n \in DOMAIN f.routers /\ h \in ToSet(r.hosts)
  BY DEF NamingRouters
<1>2. ~ hostless(r)
  BY <1>1 DEF hostless, ToSet
<1>3. q \in RouterRoutes(n, r, f.services) /\ q.host = h
  BY <1>1, <1>2 DEF RouterRoutes, nonHostPredicates
<1>4. q \in ReadRoutes(f)
  BY <1>1, <1>3 DEF ReadRoutes
<1> HIDE DEF q
<1> QED
  BY <1>3, <1>4, TraefikReadType

\* So does a TCP router with an address.
LEMMA TcpIsRoute ==
    ASSUME NEW f, IsConfig(f), NEW h, NEW n \in NamingTcp(f, h), f.tcp[n].to # Nothing
    PROVE  LiveHasHost(normalizeTraefik(f), h)
<1> DEFINE q == [host |-> h, to |-> f.tcp[n].to, mode |-> "tcp", auth |-> "none",
                 managed |-> isManaged(n)]
<1>1. n \in DOMAIN f.tcp /\ h \in f.tcp[n].sni
  BY DEF NamingTcp
<1>2. q \in TcpRoutes(n, f.tcp[n]) /\ q.host = h
  BY <1>1 DEF TcpRoutes
<1>3. q \in ReadRoutes(f)
  BY <1>1, <1>2 DEF ReadRoutes
<1> HIDE DEF q
<1> QED
  BY <1>2, <1>3, TraefikReadType

\* After a rollback of a change of h, what names h is what named it before, and
\* crenel's own entry if the compensation added one.
LEMMA NamingAfter ==
    ASSUME NEW f, NEW h \in Hosts, NEW x, TraefikWrite(f, h, x)
    PROVE  /\ \A k : k # managedRouterID(h) =>
                 (k \in NamingRouters(x, h) <=> k \in NamingRouters(f, h) /\ k # denyKey)
           /\ \A k : k # managedRouterID(h) /\ k \in NamingRouters(x, h) =>
                 x.routers[k] = f.routers[k]
           /\ \A k : k # tcpRouterID(h) =>
                 (k \in NamingTcp(x, h) <=> k \in NamingTcp(f, h))
           /\ \A k : k # tcpRouterID(h) /\ k \in NamingTcp(x, h) => x.tcp[k] = f.tcp[k]
           /\ HttpGone(x, h) => managedRouterID(h) \notin NamingRouters(x, h)
           /\ TcpGone(x, h) => tcpRouterID(h) \notin NamingTcp(x, h)
           /\ x.defs = FALSE
BY DEF TraefikWrite, NamingRouters, NamingTcp, HttpGone, TcpGone

\* A rollback restores a host that one HTTP router named.
LEMMA RouterRollback ==
    ASSUME NEW f, IsConfig(f), NEW o \in Ops, NEW s \in LiveState, s = normalizeTraefik(f),
           ~ s.generator, Plan(o, s) # NoChange, f.defs => DefsElsewhere,
           NEW n \in DOMAIN f.routers, NamingTcp(f, o.host) = {},
           NamingRouters(f, o.host) = {n}, PlainRouter(f, n, o.host), Enabled(f, n)
    PROVE  OwnAnswers("traefik",
                      applyTraefik(applyTraefik(f, Plan(o, s)), invertChange(Plan(o, s), s)), o.host)
             = {RouterAnswer(f, n)}
<1> DEFINE h == o.host
           x == applyTraefik(applyTraefik(f, Plan(o, s)), invertChange(Plan(o, s), s))
           R == FirstRoute(s, h)
           id == managedRouterID(h)
           r == f.routers[n]
           sv == r.service
<1> SUFFICES OwnAnswers("traefik", x, h) = {RouterAnswer(f, n)}
  OBVIOUS
<1>1. /\ TraefikWrite(f, h, x)
      /\ o.verb = "expose" => HttpGone(x, h) /\ TcpGone(x, h)
      /\ o.verb = "unexpose" => \/ R.mode = "http" /\ HttpAdded(x, h, R) /\ TcpGone(x, h)
                                \/ R.mode = "tcp" /\ TcpAdded(x, h, R) /\ HttpGone(x, h)
  BY TraefikUndone
<1>2. /\ h \in Hosts /\ id # denyKey /\ id \in ManagedNames /\ denyKey \in ManagedNames
      /\ isManaged(id) /\ o.verb \in {"expose", "unexpose"}
      /\ o.verb = "expose" => ~ LiveHasHost(s, h)
      /\ o.verb = "unexpose" => LiveHasHost(s, h)
  BY PlanIs, NamesApart
<1>0. r \in Router /\ DOMAIN f.routers \subseteq Names
  BY ConfigParts
<1> HIDE DEF x
<1>3. x.defs = FALSE
  BY <1>1 DEF TraefikWrite
<1>9. /\ \A k : k # id => (k \in NamingRouters(x, h) <=> k \in NamingRouters(f, h) /\ k # denyKey)
      /\ \A k : k # id /\ k \in NamingRouters(x, h) => x.routers[k] = f.routers[k]
      /\ \A k \in NamingTcp(x, h) : k # tcpRouterID(h) => k \in NamingTcp(f, h)
      /\ HttpGone(x, h) => id \notin NamingRouters(x, h)
      /\ TcpGone(x, h) => tcpRouterID(h) \notin NamingTcp(x, h)
  <2> HIDE DEF h
  <2> QED
    BY <1>1, <1>2, NamingAfter
<1>4. ASSUME TcpGone(x, h) PROVE NamingTcp(x, h) = {}
  BY <1>4, <1>9
<1>5. ASSUME n \notin ManagedNames, sv \notin ManagedNames
      PROVE  /\ n \in NamingRouters(x, h) /\ x.routers[n] = r /\ Enabled(x, n)
             /\ RouterAnswer(x, n) = RouterAnswer(f, n)
             /\ NamingRouters(x, h) \subseteq {n, id}
  <2>1. n # id /\ n # denyKey /\ sv # id /\ sv # denyKey
    BY <1>2, <1>5
  <2>2. n \in NamingRouters(x, h) /\ x.routers[n] = r
    BY <1>9, <2>1
  <2>3. /\ sv \in DOMAIN f.services <=> sv \in DOMAIN x.services
        /\ sv \in DOMAIN f.services => f.services[sv] = x.services[sv]
    BY <1>1, <2>1 DEF TraefikWrite
  <2>4. Enabled(x, n) /\ RouterAnswer(x, n) = RouterAnswer(f, n)
    <3> HIDE DEF r
    <3> QED
      BY <1>3, <2>2, <2>3, SameAnswer DEF r
  <2>5. NamingRouters(x, h) \subseteq {n, id}
    BY <1>9
  <2> QED
    BY <2>2, <2>4, <2>5
<1>6. CASE o.verb = "expose"
  <2>1. HttpGone(x, h) /\ TcpGone(x, h) /\ ~ LiveHasHost(s, h)
    BY <1>1, <1>2, <1>6
  <2>2. n \notin ManagedNames /\ sv \notin ManagedNames
    <3>1. ASSUME NEW a, n = id, hasUpstream(f.services, n),
                 r = ManagedRouter([host |-> h, auth |-> a])
          PROVE  FALSE
      <4>1. sv = n /\ ~ r.cond
        BY <3>1 DEF ManagedRouter
      <4>2. n \in NamingRouters(f, h)
        OBVIOUS
      <4> QED
        BY <2>1, <3>1, <4>1, <4>2, RouterIsRoute
    <3> QED
      BY <3>1 DEF PlainRouter
  <2>3. id \notin NamingRouters(x, h)
    BY <1>9, <2>1
  <2>4. NamingRouters(x, h) = {n}
    BY <1>5, <2>2, <2>3
  <2> QED
    BY <1>4, <1>5, <2>1, <2>2, <2>4, OneRouterAnswers
<1>7. CASE o.verb = "unexpose"
  <2>1. R \in ReadRoutes(f) /\ R.host = h
    <3>1. R \in s.routes /\ R.host = h
      BY <1>2, <1>7, FirstRouteIs
    <3> QED
      BY <3>1, TraefikReadType
  <2>2. /\ R \in LiveRoute /\ R.mode = "http" /\ ~ r.cond /\ hasUpstream(f.services, sv)
        /\ R.to = f.services[sv].to /\ R.auth = authForRouter(isManaged(n), r)
    <3> HIDE DEF R
    <3> QED
      BY <2>1, RouteOrigin
  <2> HIDE DEF R
  <2>3. HttpAdded(x, h, R) /\ TcpGone(x, h)
    BY <1>1, <1>7, <2>2
  <2>4. /\ id \in NamingRouters(x, h) /\ x.routers[id] = ManagedRouter(R)
        /\ id \in DOMAIN x.services /\ x.services[id] = [shape |-> "servers", to |-> R.to]
    <3>1. ToSet(ManagedRouter(R).hosts) = {h}
      BY <1>2, <2>1, ManagedRouterType
    <3> QED
      BY <2>3, <3>1 DEF HttpAdded, NamingRouters
  <2>5. CASE n \notin ManagedNames /\ sv \notin ManagedNames
    <3>1. ~ isManaged(n)
      BY <1>0, <2>5, ForeignName
    <3>2. Enabled(x, id) => RouterAnswer(x, id) = RouterAnswer(f, n)
      <4> SUFFICES ASSUME Enabled(x, id) PROVE RouterAnswer(x, id) = RouterAnswer(f, n)
        OBVIOUS
      <4>1. R.auth # "detected"
        BY <2>4 DEF Enabled, ManagedRouter
      <4>2. r.mw # "auth" /\ R.auth = "none"
        BY <2>2, <3>1, <4>1 DEF authForRouter
      <4>3. r.mw # "badger"
        <5>1. ~ detectGenerator(f)
          BY DEF normalizeTraefik
        <5> QED
          BY <5>1 DEF detectGenerator
      <4>4. /\ ManagedRouter(R).mw = "none" /\ ManagedRouter(R).cond = FALSE
            /\ ManagedRouter(R).service = id
        BY <2>1, <4>2 DEF ManagedRouter
      <4>5. GateOf(ManagedRouter(R)) = "none" /\ GateOf(r) = "none"
        BY <4>2, <4>3, <4>4 DEF GateOf
      <4>6. r.cond = FALSE
        <5>1. r.cond \in BOOLEAN
          BY <1>0 DEF Router
        <5> QED
          BY <2>2, <5>1
      <4> HIDE DEF r
      <4>7. RouterAnswer(f, n) = [port |-> 443, to |-> R.to, gate |-> "none", paths |-> FALSE]
        BY <2>2, <4>5, <4>6 DEF RouterAnswer, r
      <4>8. RouterAnswer(x, id) = [port |-> 443, to |-> R.to, gate |-> "none", paths |-> FALSE]
        <5>1. /\ x.services[x.routers[id].service].to = R.to
              /\ GateOf(x.routers[id]) = "none" /\ x.routers[id].cond = FALSE
          BY <2>4, <4>4, <4>5
        <5> HIDE DEF id
        <5> QED
          BY <5>1 DEF RouterAnswer
      <4> QED
        BY <4>7, <4>8
    <3> QED
      BY <1>4, <1>5, <2>3, <2>5, <3>2, AgreeingRouters
  <2>6. ASSUME NEW a \in {"none", "named", "detected"}, n = id, hasUpstream(f.services, n),
               r = ManagedRouter([host |-> h, auth |-> a])
        PROVE  OwnAnswers("traefik", x, h) = {RouterAnswer(f, n)}
    <3>1. /\ r.mw = (CASE a = "named" -> "auth" [] a = "detected" -> "lost" [] OTHER -> "none")
          /\ sv = n
      BY <2>6 DEF ManagedRouter
    <3>2. R.auth = a
      <4>1. isManaged(n) /\ R.auth = authForRouter(isManaged(n), r)
        BY <1>2, <2>2, <2>6
      <4>2. /\ a = "named" => r.mw = "auth"
            /\ a = "detected" => r.mw = "lost"
            /\ a = "none" => r.mw = "none"
        <5> HIDE DEF r
        <5> QED
          BY <3>1
      <4> HIDE DEF r
      <4>3. CASE a = "named"
        BY <4>1, <4>2, <4>3 DEF authForRouter
      <4>4. CASE a = "detected"
        BY <4>1, <4>2, <4>4 DEF authForRouter
      <4>5. CASE a = "none"
        BY <4>1, <4>2, <4>5 DEF authForRouter
      <4> QED
        BY <4>3, <4>4, <4>5
    <3>3. ManagedRouter(R) = r
      BY <2>1, <2>6, <3>2 DEF ManagedRouter
    <3>4. f.services[n] = [shape |-> "servers", to |-> R.to] /\ n \in DOMAIN f.services
      <4>1. n \in DOMAIN f.services /\ f.services[n] \in Service
        BY <2>6, ConfigParts DEF hasUpstream
      <4>2. f.services[n].shape = "servers" /\ f.services[n].to = R.to
        BY <2>2, <2>6, <3>1 DEF hasUpstream
      <4> QED
        BY <4>1, <4>2 DEF Service
    <3>5. NamingRouters(x, h) = {n}
      BY <1>9, <2>4, <2>6
    <3>6. Enabled(x, n) /\ RouterAnswer(x, n) = RouterAnswer(f, n)
      <4> HIDE DEF r
      <4>1. x.routers[n] = f.routers[n] /\ f.routers[n].service = n
        BY <2>4, <2>6, <3>1, <3>3 DEF r
      <4>2. n \in DOMAIN x.services /\ x.services[n] = f.services[n]
        BY <2>4, <2>6, <3>4
      <4> QED
        BY <1>3, <3>4, <4>1, <4>2, SameAnswer
    <3> QED
      BY <1>4, <2>3, <3>5, <3>6, OneRouterAnswers
  <2> QED
    BY <2>5, <2>6 DEF PlainRouter
<1> QED
  BY <1>2, <1>6, <1>7

\* A rollback restores a host that one TCP router named.
LEMMA TcpRollback ==
    ASSUME NEW f, IsConfig(f), NEW o \in Ops, NEW s \in LiveState, s = normalizeTraefik(f),
           ~ s.generator, Plan(o, s) # NoChange, NEW n \in DOMAIN f.tcp,
           NamingRouters(f, o.host) = {}, NamingTcp(f, o.host) = {n}, f.tcp[n].to # Nothing
    PROVE  OwnAnswers("traefik",
                      applyTraefik(applyTraefik(f, Plan(o, s)), invertChange(Plan(o, s), s)), o.host)
             = {TcpAnswer(f.tcp[n].to)}
<1> DEFINE h == o.host
           x == applyTraefik(applyTraefik(f, Plan(o, s)), invertChange(Plan(o, s), s))
           R == FirstRoute(s, h)
           tid == tcpRouterID(h)
<1> SUFFICES OwnAnswers("traefik", x, h) = {TcpAnswer(f.tcp[n].to)}
  OBVIOUS
<1>1. /\ TraefikWrite(f, h, x)
      /\ o.verb = "unexpose" => \/ R.mode = "http" /\ HttpAdded(x, h, R) /\ TcpGone(x, h)
                                \/ R.mode = "tcp" /\ TcpAdded(x, h, R) /\ HttpGone(x, h)
  BY TraefikUndone
<1> HIDE DEF x
<1>2. o.verb = "unexpose" /\ h \in Hosts /\ LiveHasHost(s, h)
  <2>1. LiveHasHost(s, h)
    <3>1. n \in NamingTcp(f, h)
      OBVIOUS
    <3> QED
      BY <3>1, TcpIsRoute
  <2> QED
    BY <2>1, PlanIs
<1>3. R \in ReadRoutes(f) /\ R.host = h
  <2>1. R \in s.routes /\ R.host = h
    BY <1>2, FirstRouteIs
  <2> QED
    BY <2>1, TraefikReadType
<1>4. R.mode = "tcp" /\ R.to = f.tcp[n].to
  <2> HIDE DEF R
  <2> QED
    BY <1>3, RouteOrigin
<1> HIDE DEF R
<1>5. TcpAdded(x, h, R) /\ HttpGone(x, h)
  BY <1>1, <1>2, <1>4
<1>6. /\ NamingRouters(x, h) = {}
      /\ \A k \in NamingTcp(x, h) : k # tid => k \in NamingTcp(f, h) /\ x.tcp[k] = f.tcp[k]
  <2> HIDE DEF h
  <2>1. managedRouterID(h) \notin NamingRouters(x, h)
    BY <1>5 DEF HttpGone, NamingRouters
  <2>2. \A k \in NamingRouters(x, h) : k # managedRouterID(h) => k \in NamingRouters(f, h)
    BY <1>1, <1>2, NamingAfter
  <2>3. \A k \in NamingTcp(x, h) : k # tid => k \in NamingTcp(f, h)
    BY <1>1, <1>2, NamingAfter
  <2>4. \A k \in NamingTcp(x, h) : k # tid => x.tcp[k] = f.tcp[k]
    BY <1>1, <2>3 DEF TraefikWrite, NamingTcp
  <2> QED
    BY <2>1, <2>2, <2>3, <2>4 DEF h
<1>7. tid \in NamingTcp(x, h) /\ x.tcp[tid].to = R.to
  BY <1>5 DEF TcpAdded, NamingTcp
<1>8. \A k \in NamingTcp(x, h) : x.tcp[k].to = f.tcp[n].to
  BY <1>4, <1>6, <1>7
<1>9. NamingTcp(x, h) # {}
  BY <1>7
<1> HIDE DEF h
<1> QED
  BY <1>6, <1>8, <1>9, TcpRouterAnswers

\* The rollback of a change of h at a Traefik edge restores a plain host.
LEMMA TraefikRollback ==
    ASSUME NEW f, IsConfig(f), NEW o \in Ops, NEW s \in LiveState, s = normalizeTraefik(f),
           ~ s.generator, Plan(o, s) # NoChange,
           Plain("traefik", f, o.host), OwnAnswers("traefik", f, o.host) # {}
    PROVE  OwnAnswers("traefik",
                      applyTraefik(applyTraefik(f, Plan(o, s)), invertChange(Plan(o, s), s)), o.host)
             = OwnAnswers("traefik", f, o.host)
<1> DEFINE h == o.host
<1>1. f.defs => DefsElsewhere
  BY DEF Plain
<1>2. ASSUME NEW n \in DOMAIN f.routers, NamingTcp(f, h) = {}, NamingRouters(f, h) = {n},
             PlainRouter(f, n, h)
      PROVE  OwnAnswers("traefik", applyTraefik(applyTraefik(f, Plan(o, s)), invertChange(Plan(o, s), s)), h)
               = OwnAnswers("traefik", f, h)
  <2>1. OwnAnswers("traefik", f, h) = IF Enabled(f, n) THEN {RouterAnswer(f, n)} ELSE {}
    BY <1>2, OneRouterAnswers
  <2>2. Enabled(f, n)
    BY <2>1
  <2> QED
    BY <1>1, <1>2, <2>1, <2>2, RouterRollback
<1>3. ASSUME NEW n \in DOMAIN f.tcp, NamingRouters(f, h) = {}, NamingTcp(f, h) = {n}
      PROVE  OwnAnswers("traefik", applyTraefik(applyTraefik(f, Plan(o, s)), invertChange(Plan(o, s), s)), h)
               = OwnAnswers("traefik", f, h)
  <2> DEFINE to == f.tcp[n].to
  <2>1. OwnAnswers("traefik", f, h) = IF to # Nothing THEN {TcpAnswer(to)} ELSE {}
    BY <1>3, TcpRouterAnswers
  <2>2. to # Nothing
    BY <2>1
  <2>3. OwnAnswers("traefik",
                   applyTraefik(applyTraefik(f, Plan(o, s)), invertChange(Plan(o, s), s)), o.host)
          = {TcpAnswer(f.tcp[n].to)}
    BY <1>3, <2>2, TcpRollback
  <2> QED
    BY <2>1, <2>2, <2>3
<1> QED
  BY <1>2, <1>3 DEF Plain

\* A rollback keeps the plain hosts it is not about, and restores its own.
LEMMA Restored ==
    ASSUME NEW k \in {"nginx", "traefik"}, NEW f, IsFile(k, f), NEW o \in Ops, NEW s,
           s = Read(k, f), ~ s.generator, Plan(o, s) # NoChange,
           NEW g \in Hosts, Plain(k, f, g), OwnAnswers(k, f, g) # {},
           g = o.host /\ k = "nginx" =>
              \A i \in NamingBlocks(f, g) : f[i].marker = "none" => f[i].port = ListenPort
    PROVE  OwnAnswers(k, Written(k, Written(k, f, Plan(o, s)), invertChange(Plan(o, s), s)), g)
             = OwnAnswers(k, f, g)
<1> DEFINE c == Plan(o, s)
           v == invertChange(c, s)
           w == Written(k, f, c)
<1>1. s \in LiveState
  BY ReadType
<1>2. /\ OneChange(c, o.host) /\ OneChange(v, o.host) /\ o.host \in Hosts
      /\ \A r \in c.add : r.to # Nothing
  <2>1. OneChange(c, o.host) /\ OneChange(v, o.host) /\ o.host \in Hosts
    BY <1>1, PlanIs, InverseIs
  <2>2. \A r \in c.add : r.to = Origin[o.host]
    BY <1>1, PlanIs
  <2>3. Origin[o.host] # Nothing
    BY <2>1, EdgeFilesAssumption, LiveConfigAssumption
  <2> QED
    BY <2>1, <2>2, <2>3
<1>3. CASE g # o.host
  <2> HIDE DEF c, v
  <2>1. Plain(k, w, g) /\ OwnAnswers(k, w, g) = OwnAnswers(k, f, g)
    BY <1>2, <1>3, WriteKeeps
  <2>2. IsFile(k, w)
    BY <1>2, WrittenType
  <2> HIDE DEF w
  <2>3. OwnAnswers(k, Written(k, w, v), g) = OwnAnswers(k, w, g)
    BY <1>2, <1>3, <2>1, <2>2, WriteKeeps
  <2> QED
    BY <2>1, <2>3 DEF w, c, v
<1>4. CASE g = o.host /\ k = "nginx"
  <2>1. f \in Seq(Block) /\ s = normalizeNginx(f)
    BY <1>4 DEF IsFile, Read
  <2>2. OwnAnswers("nginx", applyNginx(applyNginx(f, c), v), g) = OwnAnswers("nginx", f, g)
    BY <1>4, <2>1, NginxRollback
  <2> HIDE DEF c, v
  <2> QED
    BY <1>4, <2>2 DEF Written, c, v
<1>5. CASE g = o.host /\ k = "traefik"
  <2>1. IsConfig(f) /\ s = normalizeTraefik(f)
    BY <1>5 DEF IsFile, Read
  <2>2. OwnAnswers("traefik", applyTraefik(applyTraefik(f, c), v), g) = OwnAnswers("traefik", f, g)
    BY <1>1, <1>5, <2>1, TraefikRollback
  <2> HIDE DEF c, v
  <2> QED
    BY <1>5, <2>2 DEF Written, c, v
<1> QED
  BY <1>3, <1>4, <1>5

\* A change reported rolled back has left every host answered as before it.
THEOREM CompensationRestores == Spec => []RollbackRestores
<1>1. ASSUME IInv PROVE RollbackRestores
  <2> SUFFICES ASSUME report.result = "rolled_back", NEW g \in Hosts,
                      OwnAnswers(kind, before, g) # {}, Plain(kind, before, g),
                      g = report.host /\ kind = "nginx" =>
                         \A i \in NamingBlocks(before, g) :
                            before[i].marker = "none" => before[i].port = ListenPort
               PROVE  OwnAnswers(kind, file, g) = OwnAnswers(kind, before, g)
    BY DEF RollbackRestores
  <2>1. /\ kind # "npm" /\ op \in Ops /\ snap = Read(kind, before) /\ ~ snap.generator
        /\ change = Plan(op, snap) /\ change # NoChange
    BY <1>1 DEF IInv, PlannedFrom, Confirmed
  <2>2. kind \in {"nginx", "traefik"} /\ IsFile(kind, before)
    BY <1>1, <2>1 DEF IInv, TypeOK, Kinds
  <2>3. /\ report.host = op.host
        /\ file = Written(kind, Written(kind, before, change), invertChange(change, snap))
    BY <1>1 DEF IInv, RolledBackMeans
  <2> QED
    BY <2>1, <2>2, <2>3, Restored
<1> QED
  BY <1>1, InvariantCorrect, PTL

-----------------------------------------------------------------------------
(***************************************************************************)
(* Import changes ownership only.                                          *)
(***************************************************************************)
\* Markers do not change what nginx answers.
LEMMA AdoptNginxServes ==
    ASSUME NEW f \in Seq(Block), NEW H, NEW g
    PROVE  nginxServes(adoptNginx(f, H), g) = nginxServes(f, g)
<1> DEFINE w == adoptNginx(f, H)
<1>1. /\ w \in Seq(Block) /\ DOMAIN w = DOMAIN f
      /\ \A i \in DOMAIN f : w[i] = f[i] \/ w[i] = [f[i] EXCEPT !.marker = "managed"]
  BY AdoptNginxIs
<1> HIDE DEF w
<1>2. ASSUME NEW i \in DOMAIN f
      PROVE  /\ w[i].kind = f[i].kind /\ w[i].port = f[i].port /\ w[i].names = f[i].names
             /\ w[i].default = f[i].default /\ w[i].to = f[i].to /\ w[i].auth = f[i].auth
             /\ w[i].paths = f[i].paths
  <2> DEFINE b == f[i]
  <2>1. b \in Block
    OBVIOUS
  <2>2. w[i] = b \/ w[i] = [b EXCEPT !.marker = "managed"]
    BY <1>1
  <2> HIDE DEF b
  <2>3. LET m == [b EXCEPT !.marker = "managed"]
        IN /\ m.kind = b.kind /\ m.port = b.port /\ m.names = b.names /\ m.default = b.default
           /\ m.to = b.to /\ m.auth = b.auth /\ m.paths = b.paths
    BY <2>1 DEF Block
  <2>4. w[i].kind = b.kind /\ w[i].port = b.port /\ w[i].names = b.names /\ w[i].default = b.default
        /\ w[i].to = b.to /\ w[i].auth = b.auth /\ w[i].paths = b.paths
    BY <2>2, <2>3
  <2> QED
    BY <2>4 DEF b
<1>3. \A i \in DOMAIN f : isServer(w[i]) <=> isServer(f[i])
  BY <1>2 DEF isServer
<1>4. \A p : OnPort(w, p) = OnPort(f, p)
  BY <1>1, <1>2, <1>3 DEF OnPort
<1>5. \A p : /\ NamingOn(w, p, g) = NamingOn(f, p, g)
             /\ DefaultOn(w, p) = DefaultOn(f, p)
  <2> TAKE p
  <2>1. \A i \in OnPort(f, p) : w[i].names = f[i].names /\ w[i].default = f[i].default
    BY <1>2 DEF OnPort
  <2> QED
    BY <1>4, <2>1 DEF NamingOn, DefaultOn
<1>6. \A x, p : Answering(x, p, g) =
         IF NamingOn(x, p, g) # {} THEN Min(NamingOn(x, p, g))
         ELSE IF DefaultOn(x, p) # {} THEN Min(DefaultOn(x, p))
         ELSE IF OnPort(x, p) # {} THEN Min(OnPort(x, p)) ELSE 0
  BY DEF Answering, NamingOn, DefaultOn, OnPort
<1>7. \A p : Answering(w, p, g) = Answering(f, p, g)
  BY <1>4, <1>5, <1>6
<1>8. \A i \in DOMAIN f : (forwards(w[i]) <=> forwards(f[i])) /\ BlockAnswer(w[i]) = BlockAnswer(f[i])
  BY <1>2, <1>3 DEF forwards, BlockAnswer
<1>9. \A a : a \in nginxServes(w, g) <=> a \in nginxServes(f, g)
  <2> TAKE a
  <2>1. \A x \in Seq(Block) :
           a \in nginxServes(x, g) <=>
              \E p \in Ports : LET i == Answering(x, p, g)
                               IN i \in DOMAIN x /\ forwards(x[i]) /\ a = BlockAnswer(x[i])
                                  /\ a.port = p
    BY NginxAnswers
  <2> QED
    BY <1>1, <1>7, <1>8, <2>1
<1> QED
  BY <1>9 DEF w

\* Router m of w stands in for router n of c.
StandsFor(c, n, w, m) ==
    /\ n \in DOMAIN c.routers /\ m \in DOMAIN w.routers
    /\ w.routers[m].hosts = c.routers[n].hosts
    /\ Enabled(w, m) <=> Enabled(c, n)
    /\ Enabled(c, n) => RouterAnswer(w, m) = RouterAnswer(c, n)

\* Configs whose routers stand in for each other answer alike.
LEMMA SameServes ==
    ASSUME NEW c, NEW w, NEW g, w.tcp = c.tcp,
           \A n \in DOMAIN c.routers : \E m : StandsFor(c, n, w, m),
           \A m \in DOMAIN w.routers : \E n : StandsFor(c, n, w, m)
    PROVE  traefikServes(w, g) = traefikServes(c, g)
<1> DEFINE raw(x)    == {k \in DOMAIN x.tcp : g \in x.tcp[k].sni /\ x.tcp[k].to # Nothing}
           on(x)     == {k \in DOMAIN x.routers : Enabled(x, k)}
           naming(x) == {k \in on(x) : g \in ToSet(x.routers[k].hosts)}
           anyone(x) == {k \in on(x) : hostless(x.routers[k])}
           tcp(x)    == {[port |-> 443, to |-> x.tcp[k].to, gate |-> "none", paths |-> FALSE] :
                            k \in raw(x)}
           http(x)   == {RouterAnswer(x, k) : k \in IF naming(x) # {} THEN naming(x) ELSE anyone(x)}
<1>1. \A x : traefikServes(x, g) = IF raw(x) # {} THEN tcp(x) ELSE http(x)
  BY DEF traefikServes
<1>2. raw(w) = raw(c) /\ tcp(w) = tcp(c)
  OBVIOUS
<1>3. \A n \in naming(c) : \E m \in naming(w) : RouterAnswer(w, m) = RouterAnswer(c, n)
  BY DEF StandsFor
<1>4. \A m \in naming(w) : \E n \in naming(c) : RouterAnswer(w, m) = RouterAnswer(c, n)
  BY DEF StandsFor
<1>5. \A n \in anyone(c) : \E m \in anyone(w) : RouterAnswer(w, m) = RouterAnswer(c, n)
  BY DEF StandsFor, hostless
<1>6. \A m \in anyone(w) : \E n \in anyone(c) : RouterAnswer(w, m) = RouterAnswer(c, n)
  BY DEF StandsFor, hostless
<1> HIDE DEF naming, anyone, raw, tcp
<1>7. http(w) = http(c)
  <2>1. CASE naming(c) # {}
    BY <1>3, <1>4, <2>1
  <2>2. CASE naming(c) = {}
    <3>1. naming(w) = {}
      BY <1>4, <2>2
    <3> QED
      BY <1>5, <1>6, <2>2, <3>1
  <2> QED
    BY <2>1, <2>2
<1> HIDE DEF http
<1> QED
  BY <1>1, <1>2, <1>7

\* In an orderly config at most one router is visited for a host.
LEMMA OneVisit ==
    ASSUME NEW c, IsConfig(c), Orderly(c), NEW h \in Hosts, NEW w \in adoptTraefik(c, {h})
    PROVE  \/ w = [c EXCEPT !.defs = FALSE]
           \/ \E k \in DOMAIN c.routers : \E d :
                 /\ k \notin ManagedNames /\ h \in ToSet(c.routers[k].hosts)
                 /\ IsConfig(d) /\ ReKeyed(c, k, h, d) /\ w = [d EXCEPT !.defs = FALSE]
<1>1. PICK order \in SetToSeqs(Adoptable(c, {h})) :
         w = [Visited(c, order, {h}) EXCEPT !.defs = FALSE]
  BY DEF adoptTraefik
<1>2. PICK f : VisitsBy(c, order, h, f)
  BY <1>1, VisitedIs
<1>3. /\ Len(order) \in Nat /\ order \in [1 .. Len(order) -> Adoptable(c, {h})]
      /\ \A i, j \in 1 .. Len(order) : i # j => order[i] # order[j]
  BY OrderLists
<1>4. \A k \in Adoptable(c, {h}) :
         k \in DOMAIN c.routers /\ k \notin ManagedNames /\ h \in ToSet(c.routers[k].hosts)
  BY DEF Adoptable
<1>5. \A k, l \in Adoptable(c, {h}) : k = l
  BY <1>4 DEF Orderly
<1>6. Len(order) \in {0, 1}
  <2> SUFFICES ASSUME Len(order) \notin {0, 1} PROVE FALSE
    OBVIOUS
  <2>1. 1 \in 1 .. Len(order) /\ 2 \in 1 .. Len(order)
    BY <1>3
  <2>2. order[1] \in Adoptable(c, {h}) /\ order[2] \in Adoptable(c, {h})
    <3> DEFINE A == Adoptable(c, {h})
               L == Len(order)
    <3>1. order \in [1 .. L -> A]
      BY <1>3
    <3> HIDE DEF A, L
    <3>2. order[1] \in A /\ order[2] \in A
      BY <2>1, <3>1 DEF L
    <3> QED
      BY <3>2 DEF A
  <2>3. order[1] # order[2]
    BY <1>3, <2>1
  <2> QED
    BY <1>5, <2>2, <2>3
<1>7. CASE Len(order) = 0
  <2>1. Visited(c, order, {h}) = c
    BY <1>2, <1>7 DEF VisitsBy, Visiting
  <2> QED
    BY <1>1, <2>1
<1>8. CASE Len(order) = 1
  <2> DEFINE k == order[1]
             d == AdoptRouter(c, k, {h})
  <2>1. k \in Adoptable(c, {h})
    BY <1>3, <1>8
  <2>2. f[0] = c /\ f[1] = AdoptRouter(f[1 - 1], k, {h}) /\ Visited(c, order, {h}) = f[1]
    BY <1>2, <1>8 DEF VisitsBy, Visiting
  <2>3. Visited(c, order, {h}) = d
    BY <2>2
  <2>4. IsConfig(d) /\ ReKeyed(c, k, h, d)
    BY <1>4, <2>1, AdoptRouterIs
  <2> HIDE DEF d, k
  <2> QED
    BY <1>1, <1>4, <2>1, <2>3, <2>4
<1> QED
  BY <1>6, <1>7, <1>8

\* Dropping the definitions of middlewares that live elsewhere changes nothing.
LEMMA DefsStand ==
    ASSUME NEW c, IsConfig(c), c.defs => DefsElsewhere, NEW g
    PROVE  traefikServes([c EXCEPT !.defs = FALSE], g) = traefikServes(c, g)
<1> DEFINE w == [c EXCEPT !.defs = FALSE]
<1>1. c = [routers |-> c.routers, services |-> c.services, tcp |-> c.tcp, defs |-> c.defs]
  BY DEF IsConfig
<1>2. w.routers = c.routers /\ w.services = c.services /\ w.tcp = c.tcp /\ w.defs = FALSE
  BY <1>1
<1> HIDE DEF w
<1>3. \A n \in DOMAIN c.routers : StandsFor(c, n, w, n)
  BY <1>2 DEF StandsFor, Enabled, RouterAnswer
<1>4. traefikServes(w, g) = traefikServes(c, g)
  BY <1>2, <1>3, SameServes
<1> QED
  BY <1>4 DEF w

\* Re-keying one router of an orderly config, with its service, changes no answer.
LEMMA ReKeyServes ==
    ASSUME NEW c, IsConfig(c), Orderly(c), NEW h \in Hosts, NEW k \in DOMAIN c.routers,
           k \notin ManagedNames, h \in ToSet(c.routers[k].hosts),
           NEW d, ReKeyed(c, k, h, d), NEW g
    PROVE  traefikServes([d EXCEPT !.defs = FALSE], g) = traefikServes(c, g)
<1> DEFINE new == managedRouterID(h)
           s == c.routers[k].service
           w == [d EXCEPT !.defs = FALSE]
<1>1. /\ w.routers = d.routers /\ w.services = d.services /\ w.tcp = c.tcp /\ w.defs = FALSE
  BY DEF ReKeyed
<1>2. new \in ManagedNames /\ c.routers[k] \in Router
  BY NamesApart, ConfigParts
<1>3. new \notin DOMAIN c.routers
  <2> SUFFICES ASSUME new \in DOMAIN c.routers PROVE FALSE
    OBVIOUS
  <2>1. h \in ToSet(c.routers[new].hosts)
    BY DEF Orderly, NamingRouters
  <2>2. new # k
    BY <1>2
  <2>3. ToSet(c.routers[new].hosts) \cap ToSet(c.routers[k].hosts) = {}
    BY <2>2 DEF Orderly
  <2> QED
    BY <2>1, <2>3
<1>4. new \notin DOMAIN c.services
  BY <1>2, <1>3 DEF Orderly
<1>5. s \notin ManagedNames /\ s # new
  BY <1>2 DEF Orderly
<1>6. ASSUME NEW n \in DOMAIN c.routers, n # k
      PROVE  c.routers[n].service # s /\ c.routers[n].service # new
  <2>1. c.routers[n].service # s
    BY <1>6 DEF Orderly
  <2>2. c.routers[n].service = new => n = new
    BY <1>2 DEF Orderly
  <2> QED
    BY <1>3, <2>1, <2>2
<1>7. /\ DOMAIN w.routers = {new} \cup (DOMAIN c.routers \ {k})
      /\ w.routers[new] = [c.routers[k] EXCEPT !.service = new]
      /\ \A n \in DOMAIN c.routers \ {k, new} : w.routers[n] = c.routers[n]
  BY <1>1 DEF ReKeyed
<1>8. s \in DOMAIN c.services =>
         /\ DOMAIN w.services = ({new} \cup DOMAIN c.services) \ {s}
         /\ w.services[new] = c.services[s]
         /\ \A n \in DOMAIN c.services \ {s, new} : w.services[n] = c.services[n]
  BY <1>1, <1>5 DEF ReKeyed
<1>9. s \notin DOMAIN c.services => w.services = c.services
  BY <1>1 DEF ReKeyed
<1>10. c.defs => DefsElsewhere
  BY DEF Orderly
<1> DEFINE rn == w.routers[new]
<1>11. /\ rn.hosts = c.routers[k].hosts /\ rn.cond = c.routers[k].cond
       /\ rn.mw = c.routers[k].mw /\ rn.service = new
  <2> DEFINE r == c.routers[k]
  <2> HIDE DEF r, w, new
  <2>1. r \in Router /\ w.routers[new] = [r EXCEPT !.service = new]
    BY <1>2, <1>7 DEF r
  <2>2. w.routers[new].hosts = r.hosts /\ w.routers[new].cond = r.cond
        /\ w.routers[new].mw = r.mw /\ w.routers[new].service = new
    BY <2>1 DEF Router
  <2> QED
    BY <2>2 DEF r
<1> HIDE DEF w, new, s, rn
<1>12. StandsFor(c, k, w, new)
  <2>1. /\ new \in DOMAIN w.services <=> s \in DOMAIN c.services
        /\ s \in DOMAIN c.services => w.services[new] = c.services[s]
    BY <1>4, <1>5, <1>8, <1>9
  <2>2. Enabled(w, new) <=> Enabled(c, k)
    BY <1>1, <1>10, <1>11, <2>1 DEF Enabled, rn, s
  <2>3. Enabled(c, k) => RouterAnswer(w, new) = RouterAnswer(c, k)
    <3>1. GateOf(rn) = GateOf(c.routers[k])
      BY <1>11 DEF GateOf
    <3> QED
      BY <1>11, <2>1, <3>1 DEF Enabled, RouterAnswer, rn, s
  <2> QED
    BY <1>7, <1>11, <2>2, <2>3 DEF StandsFor, rn
<1>13. ASSUME NEW n \in DOMAIN c.routers, n # k
       PROVE  StandsFor(c, n, w, n)
  <2> DEFINE t == c.routers[n].service
  <2>1. n \in DOMAIN w.routers /\ w.routers[n] = c.routers[n]
    BY <1>3, <1>7, <1>13
  <2>2. t # s /\ t # new
    BY <1>6, <1>13
  <2>3. /\ t \in DOMAIN c.services <=> t \in DOMAIN w.services
        /\ t \in DOMAIN c.services => c.services[t] = w.services[t]
    BY <1>8, <1>9, <2>2
  <2>4. /\ Enabled(c, n) <=> Enabled(w, n)
        /\ Enabled(c, n) => RouterAnswer(c, n) = RouterAnswer(w, n)
    BY <1>1, <1>10, <2>1, <2>3, SameAnswer
  <2> QED
    BY <2>1, <2>4 DEF StandsFor
<1>14. \A n \in DOMAIN c.routers : \E m : StandsFor(c, n, w, m)
  BY <1>12, <1>13
<1>15. \A m \in DOMAIN w.routers : \E n : StandsFor(c, n, w, m)
  BY <1>7, <1>12, <1>13
<1>16. traefikServes(w, g) = traefikServes(c, g)
  BY <1>1, <1>14, <1>15, SameServes
<1> QED
  BY <1>16 DEF w

\* Import changes ownership only: every host is answered as before, same backend
\* and same gate, though at a Traefik edge Adopt re-keys the router and moves the
\* service it names.
THEOREM ImportOnlyAdopts == Spec => ImportChangesNothing
<1> DEFINE Same == Imported => \A g \in Hosts :
                      (kind = "traefik" => Orderly(file))
                      => Serves(kind, file', g) = Serves(kind, file, g)
<1>1. ASSUME IInv, [Next]_vars PROVE [Same]_vars
  <2> USE <1>1
  <2>1. ASSUME NEW o \in Ops, Start(o) PROVE Same
    <3>1. report'.result \in {"nothing", "apply_failed", "none"}
      <4>1. \/ report' = [result |-> "nothing", host |-> o.host]
            \/ report' = [result |-> "apply_failed", host |-> o.host]
            \/ report' = NoReport
        BY <2>1, Zenon DEF Start
      <4> QED
        BY <4>1 DEF NoReport
    <3> QED
      BY <3>1 DEF Imported
  <2>2. ASSUME NEW o \in Ops, Kill(o) PROVE Same
    BY <2>2 DEF Kill, NoReport, Imported
  <2>3. ASSUME NEW h \in Hosts, Import(h) PROVE Same
    <3> SUFFICES ASSUME Imported, NEW g \in Hosts, kind = "traefik" => Orderly(file)
                 PROVE  Serves(kind, file', g) = Serves(kind, file, g)
      OBVIOUS
    <3>1. kind \in {"nginx", "traefik"} /\ IsFile(kind, file)
      BY <2>3 DEF Import, IInv, TypeOK, Kinds
    <3>2. file' \in Adopted(kind, file, h)
      <4>1. PICK f \in Adopted(kind, file, h) :
               \/ report' = [result |-> "nothing", host |-> h]
               \/ file' = f
        BY <2>3, Zenon DEF Import
      <4>2. report' # [result |-> "nothing", host |-> h]
        BY DEF Imported
      <4> QED
        BY <4>1, <4>2
    <3>3. CASE kind = "nginx"
      <4>1. file' = adoptNginx(file, {h}) /\ file \in Seq(Block)
        BY <3>1, <3>2, <3>3 DEF Adopted, IsFile
      <4> QED
        BY <3>3, <4>1, AdoptNginxServes DEF Serves
    <3>4. CASE kind = "traefik"
      <4>1. file' \in adoptTraefik(file, {h}) /\ IsConfig(file) /\ Orderly(file)
        BY <3>1, <3>2, <3>4 DEF Adopted, IsFile
      <4>2. file.defs => DefsElsewhere
        BY <4>1 DEF Orderly
      <4>3. traefikServes(file', g) = traefikServes(file, g)
        BY <4>1, <4>2, OneVisit, DefsStand, ReKeyServes
      <4> QED
        BY <3>4, <4>3 DEF Serves
    <3> QED
      BY <3>1, <3>3, <3>4
  <2>4. CASE Load \/ Restart \/ Verify \/ Undo \/ Edit \/ Regenerate \/ Fetch
    BY <2>4 DEF Load, Restart, Verify, Undo, Edit, Regenerate, Fetch, Imported
  <2>5. CASE UNCHANGED vars
    BY <2>5
  <2> HIDE DEF Same
  <2> QED
    BY <2>1, <2>2, <2>3, <2>4, <2>5 DEF Next
<1> QED
  BY <1>1, InvariantCorrect, PTL DEF Spec, ImportChangesNothing

-----------------------------------------------------------------------------
(***************************************************************************)
(* A change reported verified is a fact about what runs.                   *)
(***************************************************************************)
\* The answers of a host on one port of nginx.
LEMMA NginxPortAnswers ==
    ASSUME NEW f \in Seq(Block), NEW h, NEW p \in Ports
    PROVE  LET i == Answering(f, p, h)
           IN /\ {a \in nginxServes(f, h) : a.port = p} =
                    IF i # 0 /\ forwards(f[i]) THEN {BlockAnswer(f[i])} ELSE {}
              /\ i # 0 => i \in DOMAIN f /\ f[i].port = p
<1> DEFINE i == Answering(f, p, h)
<1>1. i # 0 => i \in DOMAIN f /\ f[i].port = p
  <2>1. i = 0 \/ i \in OnPort(f, p)
    BY AnsweringIs DEF NamingOn, DefaultOn
  <2> HIDE DEF i
  <2> QED
    BY <2>1 DEF OnPort
<1>2. 0 \notin DOMAIN f
  OBVIOUS
<1>3. ASSUME NEW a
      PROVE  (a \in nginxServes(f, h) /\ a.port = p)
               <=> (i # 0 /\ forwards(f[i]) /\ a = BlockAnswer(f[i]))
  <2>1. a \in nginxServes(f, h) <=>
           \E q \in Ports : LET k == Answering(f, q, h)
                            IN k \in DOMAIN f /\ forwards(f[k]) /\ a = BlockAnswer(f[k])
                               /\ a.port = q
    BY NginxAnswers
  <2>2. BlockAnswer(f[i]).port = f[i].port
    BY DEF BlockAnswer
  <2> QED
    BY <1>1, <1>2, <2>1, <2>2
<1> HIDE DEF i
<1>4. {a \in nginxServes(f, h) : a.port = p} =
         IF i # 0 /\ forwards(f[i]) THEN {BlockAnswer(f[i])} ELSE {}
  BY <1>3
<1> QED
  BY <1>1, <1>4 DEF i

\* A file that a change of h was written to answers h on crenel's port from the
\* block rendered for the added route, or not at all, where nobody else names h.
LEMMA NginxFileVerified ==
    ASSUME NEW f \in Seq(Block), NEW o \in Ops, NEW s \in LiveState, Plan(o, s) # NoChange,
           NEW w, w = applyNginx(f, Plan(o, s)), nginxTest(w), Solitary("nginx", w, o.host)
    PROVE  {a \in nginxServes(w, o.host) : a.port = ListenPort} =
              IF o.verb = "expose"
              THEN {[port |-> ListenPort, to |-> Origin[o.host],
                     gate |-> IF o.auth = "named" THEN "request" ELSE "none",
                     paths |-> FALSE]}
              ELSE {}
<1> DEFINE h == o.host
           c == Plan(o, s)
           r == [host |-> h, to |-> Origin[h], mode |-> o.mode, auth |-> o.auth, managed |-> TRUE]
           i == Answering(w, ListenPort, h)
<1>1. /\ OneChange(c, h) /\ h \in Hosts
      /\ \/ o.verb = "expose" /\ c.add = {r}
         \/ o.verb = "unexpose" /\ c.add = {}
  BY PlanIs
<1>2. OwnBlocks(f, h, c, w)
  <2> HIDE DEF c
  <2> QED
    BY <1>1, NginxOwn DEF c
<1>3. w \in Seq(Block)
  BY <1>2 DEF OwnBlocks
<1>4. ListenPort \in Ports
  BY NginxAssumption
<1>5. \A j \in NamingBlocks(w, h) : Owned(w[j])
  BY DEF Solitary, NamingBlocks, Owned
<1>6. \A j \in NamingBlocks(w, h) : \E q \in c.add : w[j] = ManagedBlock(q)
  BY <1>2, <1>5 DEF OwnBlocks
<1>7. NamingOn(w, ListenPort, h) \subseteq NamingBlocks(w, h)
  BY DEF NamingOn, OnPort, NamingBlocks
<1>8. /\ {a \in nginxServes(w, h) : a.port = ListenPort} =
            IF i # 0 /\ forwards(w[i]) THEN {BlockAnswer(w[i])} ELSE {}
      /\ i # 0 => i \in DOMAIN w
  BY <1>3, <1>4, NginxPortAnswers
<1>9. 0 \notin DOMAIN w
  BY <1>3
<1> HIDE DEF c
<1>10. CASE o.verb = "expose"
  <2>1. c.add = {r}
    BY <1>1, <1>10
  <2>2. PICK j \in NamingBlocks(w, h) : w[j] = ManagedBlock(r)
    BY <1>2, <2>1 DEF OwnBlocks
  <2> HIDE DEF r
  <2>3. j \in NamingOn(w, ListenPort, h)
    BY <2>2, RenderedForwards DEF NamingOn, OnPort, NamingBlocks
  <2>4. i \in NamingOn(w, ListenPort, h)
    BY <1>3, <2>3, AnsweringIs
  <2> HIDE DEF i
  <2>5. i \in NamingBlocks(w, h) /\ i \in DOMAIN w
    BY <1>7, <2>4 DEF NamingBlocks
  <2>6. w[i] = ManagedBlock(r) /\ forwards(w[i]) /\ i # 0
    BY <1>6, <1>9, <2>1, <2>5, RenderedForwards
  <2>7. Origin[h] # Nothing
    BY <1>1, EdgeFilesAssumption, LiveConfigAssumption
  <2>8. o.auth \in {"none", "named"}
    BY EdgeFilesAssumption DEF Op
  <2>9. BlockAnswer(ManagedBlock(r)) =
           [port |-> ListenPort, to |-> Origin[h],
            gate |-> IF o.auth = "named" THEN "request" ELSE "none", paths |-> FALSE]
    <3>1. r.to = Origin[h] /\ r.auth = o.auth
      BY DEF r
    <3>2. (CASE r.auth = "named" -> "request" [] r.auth = "detected" -> "dangling"
             [] OTHER -> "none") = (IF o.auth = "named" THEN "request" ELSE "none")
      BY <2>8, <3>1
    <3>3. /\ ManagedBlock(r).port = ListenPort /\ ManagedBlock(r).to = Origin[h]
          /\ ManagedBlock(r).paths = FALSE
          /\ ManagedBlock(r).auth = IF o.auth = "named" THEN "request" ELSE "none"
      BY <2>7, <3>1, <3>2 DEF ManagedBlock
    <3> QED
      BY <3>3 DEF BlockAnswer
  <2> QED
    BY <1>8, <1>10, <2>6, <2>9
<1>11. CASE o.verb = "unexpose"
  <2>1. NamingBlocks(w, h) = {}
    BY <1>1, <1>6, <1>11
  <2>2. NamingOn(w, ListenPort, h) = {}
    BY <1>7, <2>1
  <2>3. Len(w) \in DOMAIN w /\ w[Len(w)] = DenyBlock
    <3>1. AboutHost(c, h)
      BY <1>1, OneChangeAbout
    <3>2. WrittenAs(f, c, w, Unmanaged(f), SetToSeq(WrittenBlocks(f, c)))
      BY <1>1, <3>1, ApplyShape DEF c
    <3> QED
      BY <1>3, <3>2 DEF WrittenAs
  <2>4. Len(w) \in DefaultOn(w, ListenPort) /\ ~ forwards(DenyBlock)
    BY <2>3 DEF DefaultOn, OnPort, DenyBlock, isServer, forwards
  <2>5. i \in DefaultOn(w, ListenPort)
    BY <1>3, <2>2, <2>4, AnsweringIs
  <2> HIDE DEF i
  <2>6. i = Len(w)
    <3>1. /\ i \in DOMAIN w /\ w[i].default = "flag" /\ w[i].port = ListenPort
          /\ w[Len(w)].default = "flag" /\ w[Len(w)].port = ListenPort
      BY <2>4, <2>5 DEF DefaultOn, OnPort
    <3>2. i <= Len(w) /\ i \in Nat /\ Len(w) \in Nat
      BY <1>3, <3>1
    <3>3. ~ (i < Len(w))
      BY <2>3, <3>1 DEF nginxTest
    <3> QED
      BY <3>2, <3>3
  <2> QED
    BY <1>8, <1>11, <2>3, <2>4, <2>6
<1> QED
  BY <1>1, <1>10, <1>11

\* What a converged nginx answers for h on crenel's port, where nobody else names h.
LEMMA NginxProbeVerified ==
    ASSUME NEW x \in Seq(Block), NEW o \in Ops, Converged("nginx", x, o), x # Down,
           Solitary("nginx", x, o.host)
    PROVE  LET own == {a \in nginxServes(x, o.host) : a.port = ListenPort}
           IN IF o.verb = "expose" THEN \E a \in own : a.to = Origin[o.host] ELSE own = {}
<1> DEFINE h == o.host
           i == Answering(x, ListenPort, h)
           own == {a \in nginxServes(x, h) : a.port = ListenPort}
<1>1. h \in Hosts /\ Origin[h] # Nothing /\ ListenPort \in Ports
  BY EdgeFilesAssumption, LiveConfigAssumption, NginxAssumption DEF Op
<1>2. /\ own = IF i # 0 /\ forwards(x[i]) THEN {BlockAnswer(x[i])} ELSE {}
      /\ i # 0 => i \in DOMAIN x /\ x[i].port = ListenPort
  BY <1>1, NginxPortAnswers
<1>3. /\ probeHost(x, h) <=> o.verb = "expose"
      /\ ~ probeHost(x, Stranger)
  BY DEF Converged
<1>4. \A g : probeHost(x, g) <=>
         LET j == Answering(x, ListenPort, g)
         IN j # 0 /\ ~ (catchAll(x[j]) /\ ~ forwards(x[j]))
  BY DEF probeHost
<1> HIDE DEF own
<1>5. CASE o.verb = "expose"
  <2>1. NamingOn(x, ListenPort, h) # {}
    <3> SUFFICES ASSUME NamingOn(x, ListenPort, h) = {} PROVE FALSE
      OBVIOUS
    <3>1. NamingOn(x, ListenPort, Stranger) = {}
      <4>1. \A j \in DOMAIN x : ToSet(x[j].names) \subseteq Hosts
        BY BlockNames
      <4> QED
        BY <4>1, LiveConfigAssumption DEF NamingOn, OnPort
    <3>2. Answering(x, ListenPort, Stranger) = i
      BY <3>1 DEF Answering, NamingOn, DefaultOn, OnPort
    <3> QED
      BY <1>3, <1>4, <1>5, <3>2
  <2>2. i \in NamingOn(x, ListenPort, h)
    BY <2>1, AnsweringIs
  <2> HIDE DEF i
  <2>3. i \in NamingBlocks(x, h) /\ i \in DOMAIN x /\ isServer(x[i])
    BY <2>2 DEF NamingOn, OnPort, NamingBlocks
  <2>4. x[i].to = Origin[h] /\ i # 0
    BY <2>3 DEF Solitary
  <2>5. forwards(x[i]) /\ BlockAnswer(x[i]).to = Origin[h]
    BY <1>1, <2>3, <2>4 DEF forwards, BlockAnswer
  <2>6. BlockAnswer(x[i]) \in own
    BY <1>2, <2>4, <2>5
  <2> QED
    BY <1>5, <2>5, <2>6 DEF own
<1>6. CASE o.verb # "expose"
  <2>1. i = 0 \/ ~ forwards(x[i])
    BY <1>3, <1>4, <1>6
  <2>2. own = {}
    BY <1>2, <2>1
  <2> QED
    BY <1>6, <2>2 DEF own
<1> QED
  BY <1>5, <1>6

\* What Traefik answers for a host that at most its managed router names.
LEMMA ManagedAnswers ==
    ASSUME NEW x, NEW h \in Hosts,
           NamingRouters(x, h) = DOMAIN x.routers \cap {managedRouterID(h)},
           \A n \in DOMAIN x.routers : ~ hostless(x.routers[n]),
           \A n \in NamingTcp(x, h) : x.tcp[n].to = Origin[h]
    PROVE  /\ NamingTcp(x, h) # {} => traefikServes(x, h) = {TcpAnswer(Origin[h])}
           /\ NamingTcp(x, h) = {} =>
                 traefikServes(x, h) =
                    IF managedRouterLive(x, h) THEN {RouterAnswer(x, managedRouterID(h))} ELSE {}
<1> DEFINE raw    == {k \in DOMAIN x.tcp : h \in x.tcp[k].sni /\ x.tcp[k].to # Nothing}
           on     == {k \in DOMAIN x.routers : Enabled(x, k)}
           naming == {k \in on : h \in ToSet(x.routers[k].hosts)}
           anyone == {k \in on : hostless(x.routers[k])}
           tcp    == {[port |-> 443, to |-> x.tcp[k].to, gate |-> "none", paths |-> FALSE] : k \in raw}
           id     == managedRouterID(h)
<1>1. traefikServes(x, h) =
         IF raw # {} THEN tcp
         ELSE {RouterAnswer(x, k) : k \in IF naming # {} THEN naming ELSE anyone}
  BY DEF traefikServes
<1>2. Origin[h] # Nothing
  BY EdgeFilesAssumption, LiveConfigAssumption
<1>3. raw = NamingTcp(x, h)
  BY <1>2 DEF NamingTcp
<1>4. tcp = {TcpAnswer(x.tcp[k].to) : k \in NamingTcp(x, h)}
  BY <1>3 DEF TcpAnswer
<1>5. anyone = {} /\ naming = {k \in NamingRouters(x, h) : Enabled(x, k)}
  BY DEF NamingRouters
<1>6. naming = IF managedRouterLive(x, h) THEN {id} ELSE {}
  BY <1>5 DEF managedRouterLive
<1> HIDE DEF raw, on, naming, anyone, tcp, id
<1>7. NamingTcp(x, h) # {} => tcp = {TcpAnswer(Origin[h])}
  BY <1>4
<1>8. NamingTcp(x, h) = {} =>
         traefikServes(x, h) = IF managedRouterLive(x, h) THEN {RouterAnswer(x, id)} ELSE {}
  BY <1>1, <1>3, <1>5, <1>6
<1>9. NamingTcp(x, h) # {} => traefikServes(x, h) = {TcpAnswer(Origin[h])}
  BY <1>1, <1>3, <1>7
<1> QED
  BY <1>8, <1>9 DEF id

\* A Traefik config that a change of h was written to, where nobody else names h,
\* answers h from its origin and with its gate, or not at all.
LEMMA TraefikFileVerified ==
    ASSUME NEW f, IsConfig(f), NEW o \in Ops, NEW s \in LiveState, s = normalizeTraefik(f),
           Plan(o, s) # NoChange, NEW w, w = applyTraefik(f, Plan(o, s)),
           Solitary("traefik", w, o.host), o.auth = "named" => DefsElsewhere,
           o.verb = "unexpose" => NamingTcp(w, o.host) = {}
    PROVE  LET own == traefikServes(w, o.host)
           IN IF o.verb = "expose"
              THEN /\ \E a \in own : a.to = Origin[o.host]
                   /\ o.mode = "http" =>
                        own = {[port |-> 443, to |-> Origin[o.host],
                                gate |-> IF o.auth = "named" THEN "request" ELSE "none",
                                paths |-> FALSE]}
              ELSE own = {}
<1> DEFINE h == o.host
           c == Plan(o, s)
           r == [host |-> h, to |-> Origin[h], mode |-> o.mode, auth |-> o.auth, managed |-> TRUE]
           id == managedRouterID(h)
           tid == tcpRouterID(h)
           own == traefikServes(w, h)
<1>1. /\ h \in Hosts /\ o.mode \in {"http", "tcp"} /\ o.auth \in {"none", "named"}
      /\ \/ o.verb = "expose" /\ ~ LiveHasHost(s, h) /\ c.add = {r} /\ c.remove = {}
         \/ o.verb = "unexpose" /\ c.add = {} /\ c.remove = {h}
  BY PlanIs, EdgeFilesAssumption DEF Op
<1>2. /\ NamingRouters(w, h) = DOMAIN w.routers \cap {id}
      /\ \A n \in NamingTcp(w, h) : n = tid /\ w.tcp[n].to = Origin[h]
      /\ \A n \in DOMAIN w.routers : ~ hostless(w.routers[n])
  BY DEF Solitary
<1>3. /\ NamingTcp(w, h) # {} => own = {TcpAnswer(Origin[h])}
      /\ NamingTcp(w, h) = {} =>
            own = IF managedRouterLive(w, h) THEN {RouterAnswer(w, id)} ELSE {}
  BY <1>1, <1>2, ManagedAnswers
<1>4. Origin[h] # Nothing
  BY <1>1, EdgeFilesAssumption, LiveConfigAssumption
<1>5. r.host = h /\ r.to = Origin[h] /\ r.mode = o.mode /\ r.auth = o.auth
  OBVIOUS
<1>6. w = applyTraefik(f, c)
  OBVIOUS
<1> HIDE DEF own, c, r, id, tid
<1>7. CASE o.verb = "expose" /\ o.mode = "http"
  <2>1. TraefikWrite(f, h, w) /\ HttpAdded(w, h, r) /\ TcpKept(f, w, h)
    <3> HIDE DEF h
    <3> QED
      BY <1>1, <1>5, <1>6, <1>7, TraefikAddsHttp
  <2>2. NamingTcp(w, h) = {}
    <3> SUFFICES ASSUME NEW n \in NamingTcp(w, h) PROVE FALSE
      OBVIOUS
    <3>1. n = tid /\ w.tcp[n].to # Nothing
      BY <1>2, <1>4
    <3>2. n \in NamingTcp(f, h) /\ f.tcp[n] = w.tcp[n]
      BY <2>1, <3>1 DEF TcpKept, NamingTcp, tid
    <3> QED
      BY <1>1, <1>7, <3>1, <3>2, TcpIsRoute
  <2> DEFINE m == ManagedRouter(r)
  <2>3. /\ id \in DOMAIN w.routers /\ id \in DOMAIN w.services /\ w.routers[id] = m
        /\ w.services[id] = [shape |-> "servers", to |-> Origin[h]]
    BY <1>5, <2>1 DEF HttpAdded, id
  <2>4. m.service = id /\ m.cond = FALSE /\ m.mw = IF o.auth = "named" THEN "auth" ELSE "none"
    <3>1. (CASE r.auth = "named" -> "auth" [] r.auth = "detected" -> "lost" [] OTHER -> "none")
            = (IF o.auth = "named" THEN "auth" ELSE "none")
      BY <1>1, <1>5
    <3> QED
      BY <1>5, <3>1 DEF ManagedRouter, id
  <2> HIDE DEF m
  <2>5. Enabled(w, id)
    BY <2>3, <2>4 DEF Enabled
  <2>6. managedRouterLive(w, h)
    BY <2>3, <2>5 DEF managedRouterLive, id
  <2>7. own = {RouterAnswer(w, id)}
    BY <1>3, <2>2, <2>6
  <2>8. GateOf(m) = IF o.auth = "named" THEN "request" ELSE "none"
    BY <2>4 DEF GateOf
  <2>9. RouterAnswer(w, id) = [port |-> 443, to |-> Origin[h],
                               gate |-> IF o.auth = "named" THEN "request" ELSE "none",
                               paths |-> FALSE]
    <3>1. /\ w.services[w.routers[id].service].to = Origin[h]
          /\ GateOf(w.routers[id]) = (IF o.auth = "named" THEN "request" ELSE "none")
          /\ w.routers[id].cond = FALSE
      BY <2>3, <2>4, <2>8
    <3> HIDE DEF h
    <3> QED
      BY <3>1 DEF RouterAnswer
  <2>10. RouterAnswer(w, id).to = Origin[h]
    BY <2>9
  <2> QED
    BY <1>7, <2>7, <2>9, <2>10 DEF own
<1>8. CASE o.verb = "expose" /\ o.mode = "tcp"
  <2>1. TcpAdded(w, h, r)
    <3> HIDE DEF h
    <3> QED
      BY <1>1, <1>5, <1>6, <1>8, TraefikAddsTcp
  <2>2. tid \in NamingTcp(w, h)
    BY <2>1 DEF TcpAdded, NamingTcp, tid
  <2>3. own = {TcpAnswer(Origin[h])} /\ TcpAnswer(Origin[h]).to = Origin[h]
    BY <1>3, <2>2 DEF TcpAnswer
  <2> QED
    BY <1>8, <2>3 DEF own
<1>9. CASE o.verb = "unexpose"
  <2>1. HttpGone(w, h)
    <3> HIDE DEF h
    <3> QED
      BY <1>1, <1>6, <1>9, TraefikRemoves
  <2>2. ~ managedRouterLive(w, h)
    BY <2>1 DEF HttpGone, managedRouterLive
  <2> QED
    BY <1>3, <1>9, <2>2 DEF own
<1> QED
  BY <1>1, <1>7, <1>8, <1>9

\* What a converged Traefik answers for h, where nobody else names h.
LEMMA TraefikProbeVerified ==
    ASSUME NEW x, NEW o \in Ops, Converged("traefik", x, o), Solitary("traefik", x, o.host),
           o.verb = "unexpose" => NamingTcp(x, o.host) = {}
    PROVE  LET own == traefikServes(x, o.host)
           IN IF o.verb = "expose" THEN \E a \in own : a.to = Origin[o.host] ELSE own = {}
<1> DEFINE h == o.host
           id == managedRouterID(h)
           own == traefikServes(x, h)
<1>1. h \in Hosts /\ o.verb \in {"expose", "unexpose"}
  BY EdgeFilesAssumption DEF Op
<1>2. /\ NamingTcp(x, h) # {} => own = {TcpAnswer(Origin[h])}
      /\ NamingTcp(x, h) = {} =>
            own = IF managedRouterLive(x, h) THEN {RouterAnswer(x, id)} ELSE {}
  BY <1>1, ManagedAnswers DEF Solitary
<1>3. managedRouterLive(x, h) <=> o.verb = "expose"
  BY DEF Converged
<1>4. TcpAnswer(Origin[h]).to = Origin[h]
  BY DEF TcpAnswer
<1>5. managedRouterLive(x, h) => RouterAnswer(x, id).to = Origin[h]
  <2> SUFFICES ASSUME managedRouterLive(x, h) PROVE RouterAnswer(x, id).to = Origin[h]
    OBVIOUS
  <2>1. id \in DOMAIN x.routers /\ Enabled(x, id)
    BY DEF managedRouterLive
  <2>2. id \in NamingRouters(x, h)
    BY <2>1 DEF Solitary
  <2>3. x.services[x.routers[id].service].to = Origin[h]
    BY <2>1, <2>2 DEF Solitary
  <2> HIDE DEF id
  <2> QED
    BY <2>3 DEF RouterAnswer
<1> HIDE DEF own, id
<1>6. CASE o.verb = "expose"
  <2>1. \E a \in own : a.to = Origin[h]
    <3>1. CASE NamingTcp(x, h) # {}
      BY <1>2, <1>4, <3>1
    <3>2. CASE NamingTcp(x, h) = {}
      BY <1>2, <1>3, <1>5, <1>6, <3>2
    <3> QED
      BY <3>1, <3>2
  <2> QED
    BY <1>6, <2>1 DEF own
<1>7. CASE o.verb = "unexpose"
  <2>1. own = {}
    BY <1>2, <1>3, <1>7
  <2> QED
    BY <1>7, <2>1 DEF own
<1> QED
  BY <1>1, <1>6, <1>7

\* Every answer of Traefik is on its one port.
LEMMA TraefikPort ==
    ASSUME NEW x, NEW g
    PROVE  {a \in traefikServes(x, g) : a.port = 443} = traefikServes(x, g)
<1>1. \A a \in traefikServes(x, g) : a.port = 443
  BY DEF traefikServes, RouterAnswer
<1> QED
  BY <1>1

\* A change reported verified is a fact about the daemon, although the probe
\* polls for it and the file was only read back.
THEOREM VerifiedIsTrue == Spec => []VerifiedIsLive
<1>1. ASSUME IInv PROVE VerifiedIsLive
  <2> DEFINE port == IF kind = "nginx" THEN ListenPort ELSE 443
             own  == {a \in Serves(kind, running, report.host) : a.port = port}
             full == [port |-> port, to |-> Origin[report.host],
                      gate |-> IF op.auth = "named" THEN "request" ELSE "none", paths |-> FALSE]
  <2> SUFFICES ASSUME report.result = "verified", running # Down,
                      Solitary(kind, file, report.host), Solitary(kind, running, report.host),
                      kind = "traefik" =>
                         /\ op.auth = "named" => DefsElsewhere
                         /\ op.verb = "unexpose" => NamingTcp(running, report.host) = {}
               PROVE  IF op.verb = "expose"
                      THEN /\ \E a \in own : a.to = Origin[report.host]
                           /\ running = file /\ op.mode = "http" => own = {full}
                      ELSE own = {}
    BY DEF VerifiedIsLive
  <2>1. /\ kind # "npm" /\ op \in Ops /\ snap = Read(kind, before) /\ ~ snap.generator
        /\ change = Plan(op, snap) /\ change # NoChange
    BY <1>1 DEF IInv, PlannedFrom, Confirmed
  <2>2. /\ kind \in {"nginx", "traefik"} /\ IsFile(kind, before) /\ IsFile(kind, running)
        /\ snap \in LiveState
    BY <1>1, <2>1 DEF IInv, TypeOK, Kinds
  <2>3. /\ report.host = op.host /\ probed /\ Applied
        /\ running = file \/ Converged(kind, running, op)
    BY <1>1 DEF IInv, VerifiedMeans
  <2>4. file = Written(kind, before, change) /\ (kind = "nginx" => nginxTest(file))
    BY <2>3 DEF Applied
  <2> USE <2>1
  <2>5. CASE kind = "nginx"
    <3>1. /\ before \in Seq(Block) /\ running \in Seq(Block)
          /\ file = applyNginx(before, Plan(op, snap))
      BY <2>2, <2>4, <2>5 DEF IsFile, Written
    <3>2. own = {a \in nginxServes(running, op.host) : a.port = ListenPort}
      BY <2>3, <2>5 DEF Serves
    <3>3. CASE running = file
      <4>1. own = IF op.verb = "expose" THEN {full} ELSE {}
        BY <2>2, <2>3, <2>4, <2>5, <3>1, <3>2, <3>3, NginxFileVerified
      <4>2. full.to = Origin[report.host]
        OBVIOUS
      <4> HIDE DEF own, full
      <4> QED
        BY <4>1, <4>2
    <3>4. CASE running # file
      <4>1. IF op.verb = "expose" THEN \E a \in own : a.to = Origin[op.host] ELSE own = {}
        BY <2>3, <2>5, <3>1, <3>2, <3>4, NginxProbeVerified
      <4> HIDE DEF own, full
      <4> QED
        BY <2>3, <3>4, <4>1
    <3> QED
      BY <3>3, <3>4
  <2>6. CASE kind = "traefik"
    <3>1. /\ IsConfig(before) /\ file = applyTraefik(before, Plan(op, snap))
          /\ snap = normalizeTraefik(before)
      BY <2>2, <2>4, <2>6 DEF IsFile, Written, Read
    <3>2. own = traefikServes(running, op.host)
      BY <2>3, <2>6, TraefikPort DEF Serves
    <3>3. CASE running = file
      <4>1. IF op.verb = "expose"
            THEN /\ \E a \in own : a.to = Origin[op.host]
                 /\ op.mode = "http" => own = {full}
            ELSE own = {}
        BY <2>2, <2>3, <2>6, <3>1, <3>2, <3>3, TraefikFileVerified
      <4> HIDE DEF own, full
      <4> QED
        BY <2>3, <4>1
    <3>4. CASE running # file
      <4>1. IF op.verb = "expose" THEN \E a \in own : a.to = Origin[op.host] ELSE own = {}
        BY <2>3, <2>6, <3>2, <3>4, TraefikProbeVerified
      <4> HIDE DEF own, full
      <4> QED
        BY <2>3, <3>4, <4>1
    <3> QED
      BY <3>3, <3>4
  <2> QED
    BY <2>2, <2>5, <2>6
<1> QED
  BY <1>1, InvariantCorrect, PTL
=============================================================================
