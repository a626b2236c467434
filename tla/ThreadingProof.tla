---------------------------- MODULE ThreadingProof ----------------------------
(***************************************************************************)
(* The two graph structures of the threading algorithm, for mailboxes of   *)
(* any size and headers forged in any way: the forest of reply parents,    *)
(* in which nothing is its own ancestor, and the union-find of deliveries, *)
(* which joins what links connect and nothing else.                        *)
(***************************************************************************)
EXTENDS Threading, FiniteSetTheorems, WellFoundedInduction, TLAPS

-------------------------------------------------------------------------------
(* Least numbers: what induction over rounds and over sets needs.          *)

LEMMA LeastNumber == ASSUME NEW S, S \subseteq Nat, S # {} PROVE \E x \in S : \A y \in S : x <= y
  <1> DEFINE Below(x) == 0..(x - 1)
  <1> DEFINE T == {Below(x) : x \in S}
  <1>1. T \subseteq FiniteSubsetsOf(Nat)
    <2> SUFFICES ASSUME NEW x \in S PROVE Below(x) \in FiniteSubsetsOf(Nat) OBVIOUS
    <2>1. IsFiniteSet(Below(x)) BY FS_Interval
    <2>2. Below(x) \subseteq Nat OBVIOUS
    <2> QED BY <2>1, <2>2 DEF FiniteSubsetsOf
  <1>2. T # {} OBVIOUS
  <1>3. PICK t \in T : \A u \in T : ~(<<u, t>> \in StrictSubsetOrdering(Nat))
    <2> HIDE DEF T
    <2> QED BY <1>1, <1>2, WFMin, FS_StrictSubsetOrderingWellFounded
  <1>4. PICK x \in S : t = Below(x) BY <1>3
  <1>5. ASSUME NEW y \in S, y < x PROVE FALSE
    <2>1. Below(y) \subseteq Below(x) /\ y - 0 \in Below(x) /\ y \notin Below(y) BY <1>5
    <2>2. Below(y) # Below(x) BY <2>1
    <2>3. Below(y) \in SUBSET Nat /\ Below(x) \in SUBSET Nat OBVIOUS
    <2>4. <<Below(y), Below(x)>> \in StrictSubsetOrdering(Nat) BY <2>1, <2>2, <2>3 DEF StrictSubsetOrdering
    <2> QED BY <1>3, <1>4, <2>4
  <1> QED BY <1>5

(* A set that holds 0 and with each number the next holds every number.    *)
LEMMA AllNumbers ==
  ASSUME NEW n \in Nat, NEW S, 0 \in S, \A k \in Nat : k < n /\ k \in S => k + 1 \in S
  PROVE  \A k \in 0..n : k \in S
  <1> DEFINE T == {k \in 0..n : k \notin S}
  <1>1. ASSUME T # {} PROVE FALSE
    <2>1. PICK k \in T : \A j \in T : k <= j
      <3> HIDE DEF T
      <3>1. T \subseteq Nat BY DEF T
      <3> QED BY <1>1, <3>1, LeastNumber
    <2>2. k # 0 /\ k - 1 \in Nat /\ k - 1 < n BY <2>1
    <2>3. k - 1 \in S BY <2>1, <2>2
    <2> QED BY <2>1, <2>2, <2>3
  <1> QED BY <1>1

-------------------------------------------------------------------------------
(* The ancestors of a node.                                                *)

(* A table of parents: every node has one of the nodes, or none.           *)
Forest(p) == IsFiniteSet(DOMAIN p) /\ p \in [DOMAIN p -> DOMAIN p \cup {None}]
Up(p, S) == S \cup ({p[n] : n \in S} \ {None})
Closed(p, S) == Up(p, S) = S
Rises(p, node, n, g) == g = [k \in 0..n |-> IF k = 0 THEN {node} ELSE Up(p, g[k - 1])]

LEMMA RiseExists == ASSUME NEW p, NEW node, NEW n \in Nat PROVE \E g : Rises(p, node, n, g)
  <1> DEFINE S == {k \in Nat : \E g : Rises(p, node, k, g)}
  <1>1. 0 \in S
    <2>1. Rises(p, node, 0, [k \in 0..0 |-> {node}]) BY DEF Rises
    <2> QED BY <2>1
  <1>2. ASSUME NEW k \in Nat, k \in S PROVE k + 1 \in S
    <2>1. PICK g : Rises(p, node, k, g) BY <1>2
    <2> DEFINE h == [i \in 0..(k + 1) |-> IF i <= k THEN g[i] ELSE Up(p, g[k])]
    <2>2. \A i \in 0..k : g[i] = IF i = 0 THEN {node} ELSE Up(p, g[i - 1]) BY <2>1 DEF Rises
    <2>3. \A i \in 0..(k + 1) : h[i] = IF i = 0 THEN {node} ELSE Up(p, h[i - 1])
      <3> TAKE i \in 0..(k + 1)
      <3>1. CASE i <= k BY <2>2, <3>1
      <3>2. CASE i = k + 1
        <4>1. h[k + 1] = Up(p, g[k]) /\ h[k] = g[k] OBVIOUS
        <4> QED BY <3>2, <4>1
      <3> QED BY <3>1, <3>2
    <2>4. h = [i \in 0..(k + 1) |-> IF i = 0 THEN {node} ELSE Up(p, h[i - 1])]
      <3>1. h = [i \in 0..(k + 1) |-> h[i]] OBVIOUS
      <3> HIDE DEF h
      <3> QED BY <2>3, <3>1
    <2> HIDE DEF h
    <2>5. Rises(p, node, k + 1, h) BY <2>4 DEF Rises
    <2> QED BY <2>5
  <1> HIDE DEF S
  <1>3. n \in S BY <1>1, <1>2, AllNumbers
  <1> QED BY <1>3 DEF S

Climbs(p, node, n, g) == g[0] = {node} /\ \A k \in 1..n : g[k] = Up(p, g[k - 1])
LEMMA AboveRises ==
  ASSUME NEW p, IsFiniteSet(DOMAIN p), NEW node
  PROVE  \E g : Climbs(p, node, Cardinality(DOMAIN p), g) /\ Above(p, node) = g[Cardinality(DOMAIN p)]
  <1> DEFINE N == Cardinality(DOMAIN p)
  <1> DEFINE up == CHOOSE g : Rises(p, node, N, g)
  <1>1. N \in Nat BY FS_CardinalityType
  <1>2. Rises(p, node, N, up) BY <1>1, RiseExists
  <1>3. Above(p, node) = up[N] BY DEF Above, Rises, Up
  <1> HIDE DEF up
  <1>4. Climbs(p, node, N, up)
    <2> HIDE DEF N
    <2>1. \A k \in 0..N : up[k] = IF k = 0 THEN {node} ELSE Up(p, up[k - 1]) BY <1>2 DEF Rises
    <2> QED BY <1>1, <2>1 DEF Climbs
  <1> QED BY <1>3, <1>4

(* The ancestors are the least set that holds the node and every parent of *)
(* its members.                                                            *)
LEMMA AboveLeast ==
  ASSUME NEW p, IsFiniteSet(DOMAIN p), NEW node, NEW S, node \in S, Closed(p, S)
  PROVE  Above(p, node) \subseteq S
  <1> DEFINE N == Cardinality(DOMAIN p)
  <1>1. N \in Nat BY FS_CardinalityType
  <1>2. PICK g : Climbs(p, node, N, g) /\ Above(p, node) = g[N] BY AboveRises
  <1> HIDE DEF N
  <1> DEFINE T == {k \in Nat : g[k] \subseteq S}
  <1>3. 0 \in T BY <1>2 DEF Climbs
  <1>4. ASSUME NEW k \in Nat, k < N, k \in T PROVE k + 1 \in T
    <2>1. g[k + 1] = Up(p, g[k]) BY <1>1, <1>2, <1>4 DEF Climbs
    <2>2. Up(p, g[k]) \subseteq Up(p, S) BY <1>4 DEF Up
    <2> QED BY <2>1, <2>2 DEF Closed
  <1> HIDE DEF T
  <1>5. \A k \in 0..N : k \in T BY <1>1, <1>3, <1>4, AllNumbers
  <1> QED BY <1>1, <1>2, <1>5 DEF T
LEMMA AboveHolds ==
  ASSUME NEW p, Forest(p), NEW node \in DOMAIN p
  PROVE  node \in Above(p, node) /\ Above(p, node) \subseteq DOMAIN p
  <1> DEFINE N == Cardinality(DOMAIN p)
  <1>1. N \in Nat /\ IsFiniteSet(DOMAIN p) BY FS_CardinalityType DEF Forest
  <1>2. PICK g : Climbs(p, node, N, g) /\ Above(p, node) = g[N] BY <1>1, AboveRises
  <1> HIDE DEF N
  <1> DEFINE T == {k \in Nat : node \in g[k]}
  <1>3. 0 \in T BY <1>2 DEF Climbs
  <1>4. ASSUME NEW k \in Nat, k < N, k \in T PROVE k + 1 \in T
    <2>1. g[k + 1] = Up(p, g[k]) BY <1>1, <1>2, <1>4 DEF Climbs
    <2> QED BY <1>4, <2>1 DEF Up
  <1> HIDE DEF T
  <1>5. \A k \in 0..N : k \in T BY <1>1, <1>3, <1>4, AllNumbers
  <1>6. node \in Above(p, node) BY <1>1, <1>2, <1>5 DEF T
  <1>7. Closed(p, DOMAIN p) BY DEF Closed, Up, Forest
  <1>8. Above(p, node) \subseteq DOMAIN p BY <1>1, <1>7, AboveLeast
  <1> QED BY <1>6, <1>8

(* As many rounds as there are nodes reach every ancestor: a round that    *)
(* adds nothing is the last, and every other adds a node.                  *)
LEMMA AboveClosed ==
  ASSUME NEW p, Forest(p), NEW node \in DOMAIN p
  PROVE  Closed(p, Above(p, node))
  <1> DEFINE N == Cardinality(DOMAIN p)
  <1>1. N \in Nat /\ IsFiniteSet(DOMAIN p) BY FS_CardinalityType DEF Forest
  <1>2. PICK g : Climbs(p, node, N, g) /\ Above(p, node) = g[N] BY <1>1, AboveRises
  <1>3. \A S \in SUBSET DOMAIN p : IsFiniteSet(S) /\ Cardinality(S) <= N /\ Cardinality(S) \in Nat
    BY <1>1, FS_Subset, FS_CardinalityType
  <1> HIDE DEF N
  <1>4. ASSUME NEW k \in 0..N, Closed(p, g[k]) PROVE Closed(p, g[N])
    <2> DEFINE T == {i \in Nat : k + i <= N => g[k + i] = g[k]}
    <2>1. 0 \in T BY <1>1
    <2>2. ASSUME NEW i \in Nat, i < N - k, i \in T PROVE i + 1 \in T
      <3>1. k + i + 1 \in 1..N /\ g[k + i] = g[k] BY <1>1, <2>2
      <3>2. g[k + i + 1] = Up(p, g[k]) BY <1>2, <3>1 DEF Climbs
      <3> QED BY <1>4, <3>1, <3>2 DEF Closed
    <2> HIDE DEF T
    <2>3. N - k \in Nat BY <1>1
    <2>4. \A i \in 0..(N - k) : i \in T BY <2>1, <2>2, <2>3, AllNumbers
    <2>5. g[k + (N - k)] = g[k] BY <1>1, <2>3, <2>4 DEF T
    <2>6. k + (N - k) = N BY <1>1
    <2> QED BY <1>4, <2>5, <2>6
  <1>5. ASSUME ~Closed(p, g[N]) PROVE FALSE
    <2> DEFINE T == {k \in Nat : g[k] \in SUBSET DOMAIN p /\ k + 1 <= Cardinality(g[k])}
    <2>1. 0 \in T
      <3>1. g[0] = {node} BY <1>2 DEF Climbs
      <3>2. Cardinality({node}) = 1 BY FS_Singleton
      <3> QED BY <3>1, <3>2
    <2>2. ASSUME NEW k \in Nat, k < N, k \in T PROVE k + 1 \in T
      <3>1. k \in 0..N /\ k + 1 \in 1..N BY <1>1, <2>2
      <3>2. g[k + 1] = Up(p, g[k]) BY <1>2, <3>1 DEF Climbs
      <3>3. g[k] \subseteq g[k + 1] /\ g[k + 1] # g[k] BY <1>4, <1>5, <3>1, <3>2 DEF Up, Closed
      <3>4. g[k + 1] \in SUBSET DOMAIN p BY <2>2, <3>2 DEF Up, Forest
      <3>5. IsFiniteSet(g[k + 1]) /\ Cardinality(g[k + 1]) \in Nat /\ Cardinality(g[k]) \in Nat BY <1>3, <2>2, <3>4
      <3>6. Cardinality(g[k]) <= Cardinality(g[k + 1]) /\ Cardinality(g[k]) # Cardinality(g[k + 1])
        BY <3>3, <3>5, FS_Subset
      <3> QED BY <2>2, <3>4, <3>5, <3>6
    <2> HIDE DEF T
    <2>3. \A k \in 0..N : k \in T BY <1>1, <2>1, <2>2, AllNumbers
    <2>4. N \in T BY <1>1, <2>3
    <2> QED BY <1>1, <1>3, <2>4 DEF T
  <1> QED BY <1>2, <1>5

-------------------------------------------------------------------------------
(* Links are attached one at a time.                                       *)

Acyclic(p) == \A n \in DOMAIN p : p[n] = None \/ n \notin Above(p, p[n])
Grown(p, nodes) == Forest(p) /\ DOMAIN p = nodes /\ Acyclic(p)

(* A link that wouldCreateCycle lets pass closes no circle.                *)
LEMMA AttachKeeps ==
  ASSUME NEW nodes, NEW p, Grown(p, nodes), NEW up \in nodes, NEW down \in nodes
  PROVE  Grown(Attach(p, up, down), nodes)
  <1>1. CASE WouldCreateCycle(p, up, down) BY <1>1 DEF Attach
  <1>2. CASE ~WouldCreateCycle(p, up, down)
    <2> DEFINE q == [p EXCEPT ![down] = up]
    <2>1. Attach(p, up, down) = q BY <1>2 DEF Attach
    <2>2. down \notin Above(p, up) BY <1>2 DEF WouldCreateCycle
    <2>3. Forest(q) /\ DOMAIN q = nodes BY DEF Grown, Forest
    <2>4. \A n \in nodes : q[n] = IF n = down THEN up ELSE p[n] BY DEF Grown, Forest
    <2>5. Above(p, up) \subseteq nodes /\ up \in Above(p, up) /\ Closed(p, Above(p, up)) BY AboveHolds, AboveClosed DEF Grown
    <2> HIDE DEF q
    <2>6. Closed(q, Above(p, up)) BY <2>2, <2>4, <2>5 DEF Closed, Up
    <2>7. ASSUME NEW n \in nodes, q[n] # None, n \in Above(q, q[n]) PROVE FALSE
      <3>1. q[n] \in nodes BY <2>3, <2>7 DEF Forest
      <3>2. CASE n = down
        <4>1. q[n] = up BY <2>4, <3>2
        <4>2. Above(q, up) \subseteq Above(p, up) BY <2>3, <2>5, <2>6, AboveLeast DEF Forest
        <4> QED BY <2>2, <2>7, <3>2, <4>1, <4>2
      <3>3. CASE n # down
        <4> DEFINE m == p[n]
        <4>1. q[n] = m /\ m \in nodes BY <2>4, <3>1, <3>3
        <4>2. n \notin Above(p, m) BY <2>7, <4>1 DEF Grown, Acyclic
        <4>3. Above(p, m) \subseteq nodes /\ m \in Above(p, m) /\ Closed(p, Above(p, m)) BY <4>1, AboveHolds, AboveClosed DEF Grown
        <4>4. CASE down \notin Above(p, m)
          <5>1. Closed(q, Above(p, m)) BY <2>4, <4>3, <4>4 DEF Closed, Up
          <5>2. Above(q, m) \subseteq Above(p, m) BY <2>3, <4>3, <5>1, AboveLeast DEF Forest
          <5> QED BY <2>7, <4>1, <4>2, <5>2
        <4>5. CASE down \in Above(p, m)
          <5> DEFINE S == Above(p, m) \cup Above(p, up)
          <5>1. Closed(q, S) BY <2>4, <2>5, <4>3 DEF Closed, Up
          <5>2. Above(q, m) \subseteq S BY <2>3, <4>3, <5>1, AboveLeast DEF Forest
          <5>3. n \in Above(p, up) BY <2>7, <4>1, <4>2, <5>2
          <5>4. m \in Above(p, up) BY <2>5, <2>7, <4>1, <5>3 DEF Closed, Up
          <5>5. Above(p, m) \subseteq Above(p, up) BY <2>5, <5>4, AboveLeast DEF Grown, Forest
          <5> QED BY <2>2, <4>5, <5>5
        <4> QED BY <4>4, <4>5
      <3> QED BY <3>2, <3>3
    <2>8. Acyclic(q) BY <2>3, <2>7 DEF Acyclic
    <2> QED BY <2>1, <2>3, <2>8 DEF Grown
  <1> QED BY <1>1, <1>2

-------------------------------------------------------------------------------
(* One delivery's chain of references.                                     *)

LEMMA MaxIn == ASSUME NEW n \in Nat, NEW S, S \subseteq 1..n, S # {} PROVE Max(S) \in S
  <1> DEFINE T == {n - x : x \in S}
  <1>1. T \subseteq Nat /\ T # {}
    <2>1. T \subseteq Nat OBVIOUS
    <2>2. PICK y : y \in S OBVIOUS
    <2>3. n - y \in T BY <2>2
    <2> QED BY <2>1, <2>3
  <1>2. PICK t \in T : \A u \in T : t <= u
    <2> HIDE DEF T
    <2> QED BY <1>1, LeastNumber
  <1>3. PICK x \in S : t = n - x BY <1>2
  <1>4. ASSUME NEW y \in S PROVE x >= y
    <2>1. n - x <= n - y BY <1>2, <1>3
    <2> QED BY <2>1
  <1> QED BY <1>4 DEF Max

(* What FoldLeft does with the nodes of a chain, from the first on.        *)
Step(forwards, acc, node) ==
  [prior |-> node,
   parents |-> IF acc.prior # None /\ acc.parents[node] = None /\ node \notin forwards
               THEN Attach(acc.parents, acc.prior, node) ELSE acc.parents]
Partial(chain, forwards, p, f, s) ==
  IF s = {} THEN [prior |-> None, parents |-> p] ELSE Step(forwards, f[s \ {Max(s)}], chain[Max(s)])
Small(S, k) == {s \in SUBSET S : Cardinality(s) <= k}
FoldsTo(chain, forwards, p, k, f) == f = [s \in Small(DOMAIN chain, k) |-> Partial(chain, forwards, p, f, s)]
Folded(chain, forwards, p, f) == f = [s \in SUBSET DOMAIN chain |-> Partial(chain, forwards, p, f, s)]

LEMMA SmallSets ==
  ASSUME NEW S, IsFiniteSet(S)
  PROVE  /\ \A s \in SUBSET S : IsFiniteSet(s) /\ Cardinality(s) \in Nat /\ Cardinality(s) <= Cardinality(S)
         /\ \A s \in SUBSET S : \A x \in s : Cardinality(s \ {x}) = Cardinality(s) - 1
         /\ \A s \in SUBSET S : Cardinality(s) = 0 <=> s = {}
         /\ Small(S, Cardinality(S)) = SUBSET S
  <1>1. \A s \in SUBSET S : IsFiniteSet(s) /\ Cardinality(s) \in Nat /\ Cardinality(s) <= Cardinality(S)
    BY FS_Subset, FS_CardinalityType
  <1> QED BY <1>1, FS_RemoveElement, FS_EmptySet DEF Small
LEMMA FoldExists ==
  ASSUME NEW n \in Nat, NEW chain, DOMAIN chain = 1..n, NEW forwards, NEW p
  PROVE  \E f : Folded(chain, forwards, p, f)
  <1> DEFINE D == DOMAIN chain
  <1> DEFINE K == {k \in Nat : \E f : FoldsTo(chain, forwards, p, k, f)}
  <1>1. IsFiniteSet(D) BY FS_Interval
  <1>2. \A s \in SUBSET D : s # {} => Max(s) \in s BY MaxIn
  <1> HIDE DEF D
  <1>3. 0 \in K
    <2> DEFINE f == [s \in Small(D, 0) |-> [prior |-> None, parents |-> p]]
    <2>1. \A s \in Small(D, 0) : s = {} BY <1>1, SmallSets DEF Small
    <2>2. f = [s \in Small(D, 0) |-> Partial(chain, forwards, p, f, s)]
      <3> HIDE DEF f
      <3>1. \A s \in Small(D, 0) : Partial(chain, forwards, p, f, s) = [prior |-> None, parents |-> p] BY <2>1 DEF Partial
      <3> QED BY <3>1 DEF f
    <2> HIDE DEF f
    <2>3. FoldsTo(chain, forwards, p, 0, f) BY <2>2 DEF FoldsTo, D
    <2> QED BY <2>3
  <1>4. ASSUME NEW k \in Nat, k \in K PROVE k + 1 \in K
    <2>1. PICK f : FoldsTo(chain, forwards, p, k, f) BY <1>4
    <2> DEFINE g == [s \in Small(D, k + 1) |-> Partial(chain, forwards, p, f, s)]
    <2>2. f = [s \in Small(D, k) |-> Partial(chain, forwards, p, f, s)] BY <2>1 DEF FoldsTo, D
    <2>3. Small(D, k) \subseteq Small(D, k + 1) BY <1>1, SmallSets DEF Small
    <2>4. \A s \in Small(D, k) : g[s] = f[s]
      <3> TAKE s \in Small(D, k)
      <3>1. g[s] = Partial(chain, forwards, p, f, s) BY <2>3
      <3> HIDE DEF g
      <3> QED BY <2>2, <3>1
    <2>5. \A s \in Small(D, k + 1) : s # {} => s \ {Max(s)} \in Small(D, k)
      <3> TAKE s \in Small(D, k + 1)
      <3> HAVE s # {}
      <3>1. s \in SUBSET D /\ Cardinality(s) <= k + 1 /\ Max(s) \in s BY <1>2 DEF Small
      <3>2. Cardinality(s \ {Max(s)}) = Cardinality(s) - 1 /\ Cardinality(s) \in Nat BY <1>1, <3>1, SmallSets
      <3> QED BY <3>1, <3>2 DEF Small
    <2> HIDE DEF g
    <2>6. \A s \in Small(D, k + 1) : Partial(chain, forwards, p, f, s) = Partial(chain, forwards, p, g, s)
      BY <2>4, <2>5 DEF Partial
    <2>7. g = [s \in Small(D, k + 1) |-> Partial(chain, forwards, p, g, s)] BY <2>6 DEF g
    <2>8. FoldsTo(chain, forwards, p, k + 1, g) BY <2>7 DEF FoldsTo, D
    <2> QED BY <2>8
  <1> HIDE DEF K
  <1>5. Cardinality(D) \in Nat BY <1>1, FS_CardinalityType
  <1>6. \A k \in 0..Cardinality(D) : k \in K BY <1>3, <1>4, <1>5, AllNumbers
  <1>7. PICK f : FoldsTo(chain, forwards, p, Cardinality(D), f) BY <1>5, <1>6 DEF K
  <1>8. Small(D, Cardinality(D)) = SUBSET D BY <1>1, SmallSets
  <1>9. Folded(chain, forwards, p, f) BY <1>7, <1>8 DEF FoldsTo, Folded, D
  <1> QED BY <1>9
LEMMA ChainFolds ==
  ASSUME NEW n \in Nat, NEW d, DOMAIN d.chain = 1..n, NEW forwards, NEW p
  PROVE  \E f : /\ Folded(d.chain, forwards, p, f)
                /\ Chain(d, forwards, p) = IF f[DOMAIN d.chain].prior = None THEN p
                                           ELSE Attach(f[DOMAIN d.chain].parents, f[DOMAIN d.chain].prior, d.node)
  <1> DEFINE f == CHOOSE f : Folded(d.chain, forwards, p, f)
  <1>1. Folded(d.chain, forwards, p, f) BY FoldExists
  <1>2. Chain(d, forwards, p) = IF f[DOMAIN d.chain].prior = None THEN p
                               ELSE Attach(f[DOMAIN d.chain].parents, f[DOMAIN d.chain].prior, d.node)
    BY DEF Chain, FoldLeft, MapThenFoldSet, Folded, Partial, Step
  <1> HIDE DEF f
  <1> QED BY <1>1, <1>2

(* A delivery's chain and its own last reference leave no circle.          *)
LEMMA ChainKeeps ==
  ASSUME NEW n \in Nat, NEW d, DOMAIN d.chain = 1..n, NEW forwards, NEW nodes, NEW p, Grown(p, nodes),
         \A k \in 1..n : d.chain[k] \in nodes, d.node \in nodes
  PROVE  Grown(Chain(d, forwards, p), nodes)
  <1> DEFINE D == DOMAIN d.chain
  <1>1. PICK f : /\ Folded(d.chain, forwards, p, f)
                 /\ Chain(d, forwards, p) = IF f[D].prior = None THEN p ELSE Attach(f[D].parents, f[D].prior, d.node)
    BY ChainFolds
  <1>2. IsFiniteSet(D) BY FS_Interval
  <1>3. \A s \in SUBSET D : s # {} => Max(s) \in s BY MaxIn
  <1>4. \A k \in D : d.chain[k] \in nodes OBVIOUS
  <1>5. \A s \in SUBSET D : f[s] = Partial(d.chain, forwards, p, f, s) BY <1>1 DEF Folded
  <1> HIDE DEF D
  <1> DEFINE Held(acc) == acc.prior \in nodes \cup {None} /\ Grown(acc.parents, nodes)
  <1> DEFINE K == {k \in Nat : \A s \in SUBSET D : Cardinality(s) <= k => Held(f[s])}
  <1>6. 0 \in K
    <2> SUFFICES ASSUME NEW s \in SUBSET D, Cardinality(s) <= 0 PROVE Held(f[s]) OBVIOUS
    <2>1. s = {} BY <1>2, SmallSets
    <2>2. f[s] = [prior |-> None, parents |-> p] BY <1>5, <2>1 DEF Partial
    <2> QED BY <2>2
  <1>7. ASSUME NEW k \in Nat, k \in K PROVE k + 1 \in K
    <2> SUFFICES ASSUME NEW s \in SUBSET D, Cardinality(s) <= k + 1, s # {} PROVE Held(f[s])
      BY <1>2, <1>6, SmallSets
    <2> DEFINE x == Max(s)
    <2> DEFINE acc == f[s \ {x}]
    <2>1. x \in s /\ Cardinality(s \ {x}) <= k BY <1>2, <1>3, SmallSets
    <2>2. Held(acc) BY <1>7, <2>1
    <2>3. f[s] = Step(forwards, acc, d.chain[x]) BY <1>5 DEF Partial
    <2>4. d.chain[x] \in nodes BY <1>4, <2>1
    <2> HIDE DEF x, acc
    <2>5. acc.prior # None => Grown(Attach(acc.parents, acc.prior, d.chain[x]), nodes) BY <2>2, <2>4, AttachKeeps
    <2> QED BY <2>2, <2>3, <2>4, <2>5 DEF Step
  <1> HIDE DEF K
  <1>8. Cardinality(D) \in Nat BY <1>2, FS_CardinalityType
  <1>9. \A k \in 0..Cardinality(D) : k \in K BY <1>6, <1>7, <1>8, AllNumbers
  <1>10. Held(f[D]) BY <1>8, <1>9 DEF K
  <1> QED BY <1>1, <1>10, AttachKeeps

-------------------------------------------------------------------------------
(* All deliveries, from the earliest on.                                   *)

Sortable(ds) == IsFiniteSet(DOMAIN ds) /\ DOMAIN ds \subseteq Nat /\ \A d \in DOMAIN ds : ds[d].time \in Int \cup {None}
Latest(ds, done) == CHOOSE d \in done : \A e \in done : NotLater(ds, e, d)
LEMMA NotLaterOrders ==
  ASSUME NEW ds, Sortable(ds), NEW a \in DOMAIN ds, NEW b \in DOMAIN ds, NEW c \in DOMAIN ds
  PROVE  /\ NotLater(ds, a, b) \/ NotLater(ds, b, a)
         /\ NotLater(ds, a, b) /\ NotLater(ds, b, c) => NotLater(ds, a, c)
  <1>1. a \in Nat /\ b \in Nat /\ c \in Nat BY DEF Sortable
  <1>2. ds[a].time \in Int \cup {None} /\ ds[b].time \in Int \cup {None} /\ ds[c].time \in Int \cup {None} BY DEF Sortable
  <1> QED BY <1>1, <1>2 DEF NotLater
LEMMA LatestIn == ASSUME NEW ds, Sortable(ds), NEW S \in SUBSET DOMAIN ds, S # {} PROVE Latest(ds, S) \in S
  <1> DEFINE D == DOMAIN ds
  <1> DEFINE Has(s) == \E d \in s : \A e \in s : NotLater(ds, e, d)
  <1> DEFINE K == {k \in Nat : \A s \in SUBSET D : Cardinality(s) <= k /\ s # {} => Has(s)}
  <1>1. IsFiniteSet(D) BY DEF Sortable
  <1>2. 0 \in K
    <2>1. \A s \in SUBSET D : Cardinality(s) <= 0 => s = {} BY <1>1, SmallSets
    <2> QED BY <2>1
  <1>3. ASSUME NEW k \in Nat, k \in K PROVE k + 1 \in K
    <2> SUFFICES ASSUME NEW s \in SUBSET D, Cardinality(s) <= k + 1, s # {} PROVE Has(s) OBVIOUS
    <2>1. PICK x : x \in s OBVIOUS
    <2>2. Cardinality(s \ {x}) <= k BY <1>1, <2>1, SmallSets
    <2>3. NotLater(ds, x, x) BY <2>1, NotLaterOrders
    <2>4. CASE s \ {x} = {}
      <3>1. \A e \in s : e = x BY <2>4
      <3> QED BY <2>1, <2>3, <3>1
    <2>5. CASE s \ {x} # {}
      <3>1. Has(s \ {x}) BY <1>3, <2>2, <2>5
      <3>2. PICK d \in s \ {x} : \A e \in s \ {x} : NotLater(ds, e, d) BY <3>1
      <3>3. CASE NotLater(ds, x, d) BY <3>2, <3>3
      <3>4. CASE NotLater(ds, d, x)
        <4>1. \A e \in s \ {x} : NotLater(ds, e, x) BY <2>1, <3>2, <3>4, NotLaterOrders
        <4> QED BY <2>1, <2>3, <4>1
      <3> QED BY <2>1, <3>2, <3>3, <3>4, NotLaterOrders
    <2> QED BY <2>4, <2>5
  <1> HIDE DEF K, D
  <1>4. IsFiniteSet(S) /\ Cardinality(S) \in Nat BY <1>1, SmallSets DEF D
  <1>5. \A k \in 0..Cardinality(S) : k \in K BY <1>2, <1>3, <1>4, AllNumbers
  <1>6. Has(S) BY <1>4, <1>5 DEF K, D
  <1> QED BY <1>6 DEF Latest

AllNodes(ds) == UNION {{ds[d].node} \cup ToSet(ds[d].chain) : d \in DOMAIN ds}
Linked(ds, version, f, s) ==
  IF s = {} THEN Table([n \in AllNodes(ds) |-> None])
  ELSE Chain(ds[Latest(ds, s)], ForwardNodes(ds, version), f[s \ {Latest(ds, s)}])
LinksTo(ds, version, k, f) == f = [s \in Small(DOMAIN ds, k) |-> Linked(ds, version, f, s)]
AllLinked(ds, version, f) == f = [s \in SUBSET DOMAIN ds |-> Linked(ds, version, f, s)]

LEMMA TableSame == ASSUME NEW f PROVE Table(f) = f
  BY DEF Table
LEMMA LinkingExists == ASSUME NEW ds, Sortable(ds), NEW version PROVE \E f : AllLinked(ds, version, f)
  <1> DEFINE D == DOMAIN ds
  <1> DEFINE K == {k \in Nat : \E f : LinksTo(ds, version, k, f)}
  <1>1. IsFiniteSet(D) BY DEF Sortable
  <1>2. \A s \in SUBSET D : s # {} => Latest(ds, s) \in s BY LatestIn
  <1> HIDE DEF D
  <1>3. 0 \in K
    <2> DEFINE f == [s \in Small(D, 0) |-> Table([n \in AllNodes(ds) |-> None])]
    <2>1. \A s \in Small(D, 0) : s = {} BY <1>1, SmallSets DEF Small
    <2>2. f = [s \in Small(D, 0) |-> Linked(ds, version, f, s)]
      <3> HIDE DEF f
      <3>1. \A s \in Small(D, 0) : Linked(ds, version, f, s) = Table([n \in AllNodes(ds) |-> None]) BY <2>1 DEF Linked
      <3> QED BY <3>1 DEF f
    <2> HIDE DEF f
    <2>3. LinksTo(ds, version, 0, f) BY <2>2 DEF LinksTo, D
    <2> QED BY <2>3
  <1>4. ASSUME NEW k \in Nat, k \in K PROVE k + 1 \in K
    <2>1. PICK f : LinksTo(ds, version, k, f) BY <1>4
    <2> DEFINE g == [s \in Small(D, k + 1) |-> Linked(ds, version, f, s)]
    <2>2. f = [s \in Small(D, k) |-> Linked(ds, version, f, s)] BY <2>1 DEF LinksTo, D
    <2>3. Small(D, k) \subseteq Small(D, k + 1) BY <1>1, SmallSets DEF Small
    <2>4. \A s \in Small(D, k) : g[s] = f[s]
      <3> TAKE s \in Small(D, k)
      <3>1. g[s] = Linked(ds, version, f, s) BY <2>3
      <3> HIDE DEF g
      <3> QED BY <2>2, <3>1
    <2>5. \A s \in Small(D, k + 1) : s # {} => s \ {Latest(ds, s)} \in Small(D, k)
      <3> TAKE s \in Small(D, k + 1)
      <3> HAVE s # {}
      <3>1. s \in SUBSET D /\ Cardinality(s) <= k + 1 /\ Latest(ds, s) \in s BY <1>2 DEF Small
      <3>2. Cardinality(s \ {Latest(ds, s)}) = Cardinality(s) - 1 /\ Cardinality(s) \in Nat BY <1>1, <3>1, SmallSets
      <3> QED BY <3>1, <3>2 DEF Small
    <2> HIDE DEF g
    <2>6. \A s \in Small(D, k + 1) : Linked(ds, version, f, s) = Linked(ds, version, g, s)
      BY <2>4, <2>5 DEF Linked
    <2>7. g = [s \in Small(D, k + 1) |-> Linked(ds, version, g, s)] BY <2>6 DEF g
    <2>8. LinksTo(ds, version, k + 1, g) BY <2>7 DEF LinksTo, D
    <2> QED BY <2>8
  <1> HIDE DEF K
  <1>5. Cardinality(D) \in Nat BY <1>1, FS_CardinalityType
  <1>6. \A k \in 0..Cardinality(D) : k \in K BY <1>3, <1>4, <1>5, AllNumbers
  <1>7. PICK f : LinksTo(ds, version, Cardinality(D), f) BY <1>5, <1>6 DEF K
  <1>8. Small(D, Cardinality(D)) = SUBSET D BY <1>1, SmallSets
  <1>9. AllLinked(ds, version, f) BY <1>7, <1>8 DEF LinksTo, AllLinked, D
  <1> QED BY <1>9
LEMMA ParentsLink ==
  ASSUME NEW ds, Sortable(ds), NEW version
  PROVE  \E f : AllLinked(ds, version, f) /\ Parents(ds, version) = f[DOMAIN ds]
  <1> DEFINE f == CHOOSE f : AllLinked(ds, version, f)
  <1>1. AllLinked(ds, version, f) BY LinkingExists
  <1>2. Parents(ds, version) = Table(f[DOMAIN ds])
    BY DEF Parents, AllLinked, Linked, Latest, AllNodes
  <1> HIDE DEF f
  <1>3. Parents(ds, version) = f[DOMAIN ds] BY <1>2, TableSame
  <1> QED BY <1>1, <1>3

LEMMA NoLinks == ASSUME NEW nodes, IsFiniteSet(nodes) PROVE Grown([n \in nodes |-> None], nodes)
  BY DEF Grown, Forest, Acyclic

LEMMA NodesFinite ==
  ASSUME NEW ds, Sortable(ds), \A d \in DOMAIN ds : \E n \in Nat : DOMAIN ds[d].chain = 1..n
  PROVE  IsFiniteSet(AllNodes(ds))
  <1> DEFINE D == DOMAIN ds
  <1> DEFINE of == [d \in D |-> {ds[d].node} \cup ToSet(ds[d].chain)]
  <1> DEFINE Sets == {{ds[d].node} \cup ToSet(ds[d].chain) : d \in D}
  <1>1. ASSUME NEW d \in D PROVE IsFiniteSet({ds[d].node} \cup ToSet(ds[d].chain))
    <2> DEFINE chain == ds[d].chain
    <2>1. PICK n \in Nat : DOMAIN chain = 1..n OBVIOUS
    <2>2. IsFiniteSet(1..n) BY FS_Interval
    <2> DEFINE at == [k \in 1..n |-> chain[k]]
    <2>3. ToSet(chain) = {at[k] : k \in 1..n} BY <2>1 DEF ToSet
    <2>4. at \in Surjection(1..n, ToSet(chain)) BY <2>3 DEF Surjection
    <2> HIDE DEF at
    <2>5. IsFiniteSet(ToSet(chain)) BY <2>2, <2>4, FS_Surjection
    <2>6. IsFiniteSet(ToSet(chain) \cup {ds[d].node}) BY <2>5, FS_AddElement
    <2>7. {ds[d].node} \cup ToSet(chain) = ToSet(chain) \cup {ds[d].node} OBVIOUS
    <2> QED BY <2>6, <2>7
  <1>2. of \in Surjection(D, Sets) BY DEF Surjection
  <1>3. IsFiniteSet(D) BY DEF Sortable
  <1> HIDE DEF of
  <1>4. IsFiniteSet(Sets)
    <2> HIDE DEF Sets
    <2> QED BY <1>2, <1>3, FS_Surjection
  <1>5. \A S \in Sets : IsFiniteSet(S) BY <1>1
  <1>6. IsFiniteSet(UNION Sets)
    <2> HIDE DEF Sets
    <2> QED BY <1>4, <1>5, FS_UNION
  <1> QED BY <1>6 DEF AllNodes

(* Hostile reply headers never make a circle of the messages: however they *)
(* name each other, whatever their times and the order of their links, no  *)
(* node is its own ancestor (wouldCreateCycle, attachParent).              *)
THEOREM ParentsAcyclic ==
  ASSUME NEW ds, Sortable(ds), NEW version,
         \A d \in DOMAIN ds : \E n \in Nat : DOMAIN ds[d].chain = 1..n
  PROVE  Acyclic(Parents(ds, version))
<1> DEFINE D == DOMAIN ds
<1> DEFINE nodes == AllNodes(ds)
<1>1. PICK f : AllLinked(ds, version, f) /\ Parents(ds, version) = f[D] BY ParentsLink
<1>2. IsFiniteSet(D) /\ Cardinality(D) \in Nat BY FS_CardinalityType DEF Sortable
<1>3. \A s \in SUBSET D : s # {} => Latest(ds, s) \in s BY LatestIn
<1>4. \A s \in SUBSET D : f[s] = Linked(ds, version, f, s) BY <1>1 DEF AllLinked
<1>5. ASSUME NEW d \in D, NEW p, Grown(p, nodes) PROVE Grown(Chain(ds[d], ForwardNodes(ds, version), p), nodes)
  <2>1. PICK n \in Nat : DOMAIN ds[d].chain = 1..n OBVIOUS
  <2>2. ds[d].node \in nodes /\ \A k \in 1..n : ds[d].chain[k] \in nodes BY <2>1 DEF AllNodes, ToSet
  <2> HIDE DEF nodes
  <2> QED BY <1>5, <2>1, <2>2, ChainKeeps
<1>6. IsFiniteSet(nodes) BY NodesFinite
<1> HIDE DEF nodes
<1> DEFINE K == {k \in Nat : \A s \in SUBSET D : Cardinality(s) <= k => Grown(f[s], nodes)}
<1>7. 0 \in K
  <2> SUFFICES ASSUME NEW s \in SUBSET D, Cardinality(s) <= 0 PROVE Grown(f[s], nodes) OBVIOUS
  <2>1. s = {} BY <1>2, SmallSets
  <2>2. f[s] = [n \in nodes |-> None] BY <1>4, <2>1, TableSame DEF Linked, nodes
  <2> QED BY <1>6, <2>2, NoLinks
<1>8. ASSUME NEW k \in Nat, k \in K PROVE k + 1 \in K
  <2> SUFFICES ASSUME NEW s \in SUBSET D, Cardinality(s) <= k + 1, s # {} PROVE Grown(f[s], nodes)
    BY <1>2, <1>7, SmallSets
  <2> DEFINE x == Latest(ds, s)
  <2>a. Cardinality(s) \in Nat /\ \A y \in s : Cardinality(s \ {y}) = Cardinality(s) - 1 BY <1>2, SmallSets
  <2>1. x \in s /\ Cardinality(s \ {x}) <= k
    <3>1. x \in s BY <1>3
    <3> HIDE DEF x
    <3> QED BY <2>a, <3>1
  <2>2. Grown(f[s \ {x}], nodes) BY <1>8, <2>1
  <2>3. f[s] = Chain(ds[x], ForwardNodes(ds, version), f[s \ {x}]) BY <1>4 DEF Linked
  <2> HIDE DEF x
  <2> QED BY <1>5, <2>1, <2>2, <2>3
<1> HIDE DEF K, D
<1>9. \A k \in 0..Cardinality(D) : k \in K BY <1>2, <1>7, <1>8, AllNumbers
<1>10. Grown(f[D], nodes) BY <1>2, <1>9 DEF K
<1> QED BY <1>1, <1>10 DEF Grown

-------------------------------------------------------------------------------
(* Joining what is linked.                                                 *)

Apart(cells) == \A c, d \in cells : c # d => c \cap d = {}
Together(cells, l) == \E c \in cells : l \subseteq c
(* A set that cuts through nothing of a family.                            *)
Whole(family, S) == \A c \in family : c \subseteq S \/ c \cap S = {}

LEMMA JoinStep ==
  ASSUME NEW cells, Apart(cells), NEW linked
  PROVE  /\ Apart(Join(cells, linked)) /\ UNION Join(cells, linked) = UNION cells
         /\ \A l : Together(cells, l) /\ l # {} => Together(Join(cells, linked), l)
         /\ linked # {} /\ linked \subseteq UNION cells => Together(Join(cells, linked), linked)
         /\ \A S : Whole(cells, S) /\ Whole({linked}, S) => Whole(Join(cells, linked), S)
  <1> DEFINE touched == {c \in cells : c \cap linked # {}}
  <1> DEFINE joined == Join(cells, linked)
  <1>1. joined = (cells \ touched) \cup ({UNION touched} \ {{}}) BY DEF Join
  <1>2. \A c \in cells \ touched : c \cap UNION touched = {} BY DEF Apart
  <1>3. Apart(joined)
    <2> HIDE DEF touched, joined
    <2> QED BY <1>1, <1>2 DEF Apart, touched
  <1>4. UNION joined = UNION cells
    <2> HIDE DEF joined
    <2>1. ASSUME NEW x \in UNION cells PROVE x \in UNION joined
      <3>1. PICK c \in cells : x \in c BY <2>1
      <3>2. CASE c \in touched
        <4>1. x \in UNION touched BY <3>1, <3>2
        <4> QED BY <1>1, <4>1
      <3>3. CASE c \notin touched BY <1>1, <3>1, <3>3
      <3> QED BY <3>2, <3>3
    <2>2. UNION joined \subseteq UNION cells BY <1>1
    <2> QED BY <2>1, <2>2
  <1>5. ASSUME NEW l, Together(cells, l), l # {} PROVE Together(joined, l)
    <2> HIDE DEF joined
    <2>1. PICK c \in cells : l \subseteq c BY <1>5 DEF Together
    <2>2. CASE c \in touched
      <3>1. l \subseteq UNION touched BY <2>1, <2>2
      <3> QED BY <1>1, <1>5, <3>1 DEF Together
    <2>3. CASE c \notin touched BY <1>1, <2>1, <2>3 DEF Together
    <2> QED BY <2>2, <2>3
  <1>6. ASSUME linked # {}, linked \subseteq UNION cells PROVE Together(joined, linked)
    <2> HIDE DEF joined
    <2>1. linked \subseteq UNION touched BY <1>6
    <2> QED BY <1>1, <1>6, <2>1 DEF Together
  <1>7. ASSUME NEW S, Whole(cells, S), Whole({linked}, S) PROVE Whole(joined, S)
    <2> HIDE DEF joined
    <2>1. CASE linked \subseteq S
      <3>1. \A c \in touched : c \subseteq S BY <1>7, <2>1 DEF Whole
      <3>2. UNION touched \subseteq S BY <3>1
      <3> QED BY <1>1, <1>7, <3>2 DEF Whole
    <2>2. CASE linked \cap S = {}
      <3>1. \A c \in touched : c \cap S = {} BY <1>7, <2>2 DEF Whole
      <3>2. (UNION touched) \cap S = {} BY <3>1
      <3> QED BY <1>1, <1>7, <3>2 DEF Whole
    <2> QED BY <1>7, <2>1, <2>2 DEF Whole
  <1> QED BY <1>3, <1>4, <1>5, <1>6, <1>7

Joined(cells, f, s) == IF s = {} THEN cells ELSE Join(f[s \ {CHOOSE x \in s : TRUE}], CHOOSE x \in s : TRUE)
JoinsTo(cells, links, k, f) == f = [s \in Small(links, k) |-> Joined(cells, f, s)]
AllJoined(cells, links, f) == f = [s \in SUBSET links |-> Joined(cells, f, s)]
LEMMA JoiningExists == ASSUME NEW cells, NEW links, IsFiniteSet(links) PROVE \E f : AllJoined(cells, links, f)
  <1> DEFINE Chosen(s) == CHOOSE x \in s : TRUE
  <1> DEFINE K == {k \in Nat : \E f : JoinsTo(cells, links, k, f)}
  <1>1. \A s : s # {} => Chosen(s) \in s OBVIOUS
  <1> HIDE DEF Chosen
  <1>2. 0 \in K
    <2> DEFINE f == [s \in Small(links, 0) |-> cells]
    <2>1. \A s \in Small(links, 0) : s = {} BY SmallSets DEF Small
    <2>2. f = [s \in Small(links, 0) |-> Joined(cells, f, s)]
      <3> HIDE DEF f
      <3>1. \A s \in Small(links, 0) : Joined(cells, f, s) = cells BY <2>1 DEF Joined
      <3> QED BY <3>1 DEF f
    <2> HIDE DEF f
    <2>3. JoinsTo(cells, links, 0, f) BY <2>2 DEF JoinsTo
    <2> QED BY <2>3
  <1>3. ASSUME NEW k \in Nat, k \in K PROVE k + 1 \in K
    <2>1. PICK f : JoinsTo(cells, links, k, f) BY <1>3
    <2> DEFINE g == [s \in Small(links, k + 1) |-> Joined(cells, f, s)]
    <2>2. f = [s \in Small(links, k) |-> Joined(cells, f, s)] BY <2>1 DEF JoinsTo
    <2>3. Small(links, k) \subseteq Small(links, k + 1) BY SmallSets DEF Small
    <2>4. \A s \in Small(links, k) : g[s] = f[s]
      <3> TAKE s \in Small(links, k)
      <3>1. g[s] = Joined(cells, f, s) BY <2>3
      <3> HIDE DEF g
      <3> QED BY <2>2, <3>1
    <2>5. \A s \in Small(links, k + 1) : s # {} => s \ {Chosen(s)} \in Small(links, k)
      <3> TAKE s \in Small(links, k + 1)
      <3> HAVE s # {}
      <3>1. s \in SUBSET links /\ Cardinality(s) <= k + 1 /\ Chosen(s) \in s BY <1>1 DEF Small
      <3>2. Cardinality(s \ {Chosen(s)}) = Cardinality(s) - 1 /\ Cardinality(s) \in Nat BY <3>1, SmallSets
      <3> QED BY <3>1, <3>2 DEF Small
    <2> HIDE DEF g
    <2>6. \A s \in Small(links, k + 1) : Joined(cells, f, s) = Joined(cells, g, s) BY <2>4, <2>5 DEF Joined, Chosen
    <2>7. g = [s \in Small(links, k + 1) |-> Joined(cells, g, s)] BY <2>6 DEF g
    <2>8. JoinsTo(cells, links, k + 1, g) BY <2>7 DEF JoinsTo
    <2> QED BY <2>8
  <1> HIDE DEF K
  <1>4. Cardinality(links) \in Nat BY FS_CardinalityType
  <1>5. \A k \in 0..Cardinality(links) : k \in K BY <1>2, <1>3, <1>4, AllNumbers
  <1>6. PICK f : JoinsTo(cells, links, Cardinality(links), f) BY <1>4, <1>5 DEF K
  <1>7. Small(links, Cardinality(links)) = SUBSET links BY SmallSets
  <1>8. AllJoined(cells, links, f) BY <1>6, <1>7 DEF JoinsTo, AllJoined
  <1> QED BY <1>8
LEMMA JoinAllIs ==
  ASSUME NEW cells, NEW links, IsFiniteSet(links)
  PROVE  \E f : AllJoined(cells, links, f) /\ JoinAll(cells, links) = f[links]
  <1> DEFINE f == CHOOSE f : AllJoined(cells, links, f)
  <1>1. AllJoined(cells, links, f) BY JoiningExists
  <1>2. JoinAll(cells, links) = f[links] BY DEF JoinAll, FoldSet, MapThenFoldSet, AllJoined, Joined
  <1> HIDE DEF f
  <1> QED BY <1>1, <1>2

(* Conversations are what links connect: joining keeps the groups apart    *)
(* and complete, puts each link into one group, and joins nothing that no  *)
(* chain of links ties: a set that cuts through no link and no group at    *)
(* the start cuts through none at the end (UnionFind in                    *)
(* computeThreadAssignments).                                              *)
THEOREM JoinsConnected ==
  ASSUME NEW cells, Apart(cells), NEW links, IsFiniteSet(links)
  PROVE  /\ Apart(JoinAll(cells, links)) /\ UNION JoinAll(cells, links) = UNION cells
         /\ \A c \in cells : c # {} => Together(JoinAll(cells, links), c)
         /\ \A l \in links : l # {} /\ l \subseteq UNION cells => Together(JoinAll(cells, links), l)
         /\ \A S : Whole(cells, S) /\ Whole(links, S) => Whole(JoinAll(cells, links), S)
<1>1. PICK f : AllJoined(cells, links, f) /\ JoinAll(cells, links) = f[links] BY JoinAllIs
<1> DEFINE Right(s, acc) ==
      /\ Apart(acc) /\ UNION acc = UNION cells
      /\ \A c \in cells : c # {} => Together(acc, c)
      /\ \A l \in s : l # {} /\ l \subseteq UNION cells => Together(acc, l)
      /\ \A S : Whole(cells, S) /\ Whole(links, S) => Whole(acc, S)
<1> DEFINE K == {k \in Nat : \A s \in SUBSET links : Cardinality(s) <= k => Right(s, f[s])}
<1>2. \A s \in SUBSET links : f[s] = Joined(cells, f, s) BY <1>1 DEF AllJoined
<1>3. 0 \in K
  <2> SUFFICES ASSUME NEW s \in SUBSET links, Cardinality(s) <= 0 PROVE Right(s, f[s]) OBVIOUS
  <2>1. s = {} BY SmallSets
  <2>2. f[s] = cells BY <1>2, <2>1 DEF Joined
  <2> QED BY <2>1, <2>2 DEF Together
<1>4. ASSUME NEW k \in Nat, k \in K PROVE k + 1 \in K
  <2> SUFFICES ASSUME NEW s \in SUBSET links, Cardinality(s) <= k + 1, s # {} PROVE Right(s, f[s])
    BY <1>3, SmallSets
  <2> DEFINE x == CHOOSE x \in s : TRUE
  <2> DEFINE acc == f[s \ {x}]
  <2>1. x \in s BY Zenon
  <2>2. f[s] = Join(acc, x) BY <1>2 DEF Joined
  <2> HIDE DEF x
  <2>3. Cardinality(s \ {x}) <= k BY <2>1, SmallSets
  <2>4. Right(s \ {x}, acc) BY <1>4, <2>3
  <2> HIDE DEF acc
  <2>5. Apart(acc) BY <2>4
  <2>6. /\ Apart(Join(acc, x)) /\ UNION Join(acc, x) = UNION acc
        /\ \A l : Together(acc, l) /\ l # {} => Together(Join(acc, x), l)
        /\ x # {} /\ x \subseteq UNION acc => Together(Join(acc, x), x)
        /\ \A S : Whole(acc, S) /\ Whole({x}, S) => Whole(Join(acc, x), S)
    BY <2>5, JoinStep
  <2>7. \A c \in cells : c # {} => Together(f[s], c) BY <2>2, <2>4, <2>6
  <2>8. ASSUME NEW l \in s, l # {}, l \subseteq UNION cells PROVE Together(f[s], l)
    <3>1. CASE l = x BY <2>2, <2>4, <2>6, <2>8, <3>1
    <3>2. CASE l # x
      <4>1. Together(acc, l) BY <2>4, <2>8, <3>2
      <4> QED BY <2>2, <2>6, <2>8, <4>1
    <3> QED BY <3>1, <3>2
  <2>9. ASSUME NEW S, Whole(cells, S), Whole(links, S) PROVE Whole(f[s], S)
    <3>1. Whole(acc, S) BY <2>4, <2>9
    <3>2. Whole({x}, S) BY <2>1, <2>9 DEF Whole
    <3> QED BY <2>2, <2>6, <3>1, <3>2
  <2> QED BY <2>2, <2>4, <2>6, <2>7, <2>8, <2>9
<1> HIDE DEF K
<1>5. Cardinality(links) \in Nat BY FS_CardinalityType
<1>6. \A k \in 0..Cardinality(links) : k \in K BY <1>3, <1>4, <1>5, AllNumbers
<1>7. Right(links, f[links]) BY <1>5, <1>6 DEF K
<1> QED BY <1>1, <1>7
===============================================================================
