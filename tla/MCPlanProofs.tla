---------------------------- MODULE MCPlanProofs ----------------------------
(***************************************************************************)
(* What the runs of MCPlan check, for snapshots of any size: the placement *)
(* is sound and skips no one, and the creates stay within every quota.     *)
(***************************************************************************)
EXTENDS MCPlan, PlanProofs

-----------------------------------------------------------------------------
(***************************************************************************)
(* Folds.  The library defines them by recursion over the parts of a set;  *)
(* that the recursion is well defined is shown here, by the least part for *)
(* which it is not.                                                        *)
(***************************************************************************)

\* A walk that takes a finite set apart, one element at a time, ends: the function that a fold
\* is defined to be exists.  step[u] says what taking pick[u] from u does to a value.
FoldsAsFar(S, base, step, pick, g, n) ==
  \A u \in SUBSET S : Cardinality(u) <= n =>
    g[u] = IF u = {} THEN base ELSE step[u][g[u \ {pick[u]}]]

LEMMA TakenApart ==
  ASSUME NEW S, IsFiniteSet(S), NEW u \in SUBSET S, NEW x \in u
  PROVE  /\ IsFiniteSet(u) /\ Cardinality(u) \in Nat
         /\ u \ {x} \in SUBSET S /\ Cardinality(u \ {x}) = Cardinality(u) - 1
         /\ Cardinality(u) > 0 /\ Cardinality(u \ {x}) \in Nat
<1>1. IsFiniteSet(u) /\ Cardinality(u) \in Nat
  BY FS_Subset, FS_CardinalityType
<1>2. Cardinality(u \ {x}) = Cardinality(u) - 1 /\ IsFiniteSet(u \ {x})
  BY <1>1, FS_RemoveElement
<1>3. Cardinality(u \ {x}) \in Nat
  BY <1>2, FS_CardinalityType
<1> QED
  BY <1>1, <1>2, <1>3

IsFold(g, S, base, step, pick) ==
  \A u \in SUBSET S : g[u] = IF u = {} THEN base ELSE step[u][g[u \ {pick[u]}]]

LEMMA FoldExists ==
  ASSUME NEW S, IsFiniteSet(S), NEW V, NEW base \in V,
         NEW step \in [SUBSET S -> [V -> V]],
         NEW pick, \A u \in SUBSET S : u # {} => pick[u] \in u
  PROVE  \E g \in [SUBSET S -> V] : IsFold(g, S, base, step, pick)
<1> DEFINE P(n) == \E g \in [SUBSET S -> V] : FoldsAsFar(S, base, step, pick, g, n)
           bad == {n \in Nat : ~P(n)}
<1>1. \A u \in SUBSET S : Cardinality(u) \in Nat /\ (Cardinality(u) = 0 <=> u = {})
  BY FS_Subset, FS_CardinalityType, FS_EmptySet
<1>2. P(0)
  <2> DEFINE g == [u \in SUBSET S |-> base]
  <2>1. g \in [SUBSET S -> V]
    OBVIOUS
  <2>2. \A u \in SUBSET S : Cardinality(u) <= 0 => u = {}
    BY <1>1
  <2>3. FoldsAsFar(S, base, step, pick, g, 0)
    BY <2>2 DEF FoldsAsFar
  <2> QED
    BY <2>1, <2>3
<1>3. ASSUME NEW n \in Nat, P(n)
      PROVE  P(n + 1)
  <2>1. PICK g \in [SUBSET S -> V] : FoldsAsFar(S, base, step, pick, g, n)
    BY <1>3
  <2> DEFINE h == [u \in SUBSET S |->
                     IF Cardinality(u) <= n THEN g[u]
                     ELSE IF u = {} THEN base ELSE step[u][g[u \ {pick[u]}]]]
  <2>2. ASSUME NEW u \in SUBSET S, u # {}
        PROVE  /\ u \ {pick[u]} \in SUBSET S
               /\ Cardinality(u \ {pick[u]}) = Cardinality(u) - 1
               /\ Cardinality(u) \in Nat /\ Cardinality(u \ {pick[u]}) \in Nat
    BY <2>2, TakenApart
  <2>3. h \in [SUBSET S -> V]
    <3> SUFFICES ASSUME NEW u \in SUBSET S PROVE h[u] \in V
      OBVIOUS
    <3>1. u # {} => g[u \ {pick[u]}] \in V /\ step[u] \in [V -> V]
      BY <2>2
    <3>2. u # {} => step[u][g[u \ {pick[u]}]] \in V
      BY <3>1
    <3> QED
      BY <3>2
  <2>4. ASSUME NEW u \in SUBSET S, Cardinality(u) <= n + 1
        PROVE  h[u] = IF u = {} THEN base ELSE step[u][h[u \ {pick[u]}]]
    <3>1. CASE u = {}
      <4>1. g[u] = base
        BY <3>1, <2>1, FS_EmptySet DEF FoldsAsFar
      <4> QED
        BY <4>1, <3>1
    <3>2. CASE u # {}
      <4>1. h[u \ {pick[u]}] = g[u \ {pick[u]}]
        <5>1. Cardinality(u \ {pick[u]}) <= n
          BY <2>2, <2>4, <3>2
        <5> QED
          BY <2>2, <3>2, <5>1
      <4>2. h[u] = step[u][g[u \ {pick[u]}]]
        <5>1. CASE Cardinality(u) <= n
          <6>1. g[u] = step[u][g[u \ {pick[u]}]]
            BY <2>1, <3>2, <5>1 DEF FoldsAsFar
          <6> QED
            BY <5>1, <6>1
        <5>2. CASE ~(Cardinality(u) <= n)
          BY <3>2, <5>2
        <5> QED
          BY <5>1, <5>2
      <4> HIDE DEF h
      <4> QED
        BY <3>2, <4>1, <4>2
    <3> QED
      BY <3>1, <3>2
  <2> HIDE DEF h
  <2> QED
    BY <2>3, <2>4 DEF FoldsAsFar
<1>4. bad = {}
  <2> SUFFICES ASSUME bad # {} PROVE FALSE
    OBVIOUS
  <2> HIDE DEF P
  <2>1. bad \subseteq Nat
    OBVIOUS
  <2>2. PICK m \in bad : \A n \in bad : m <= n
    BY <2>1, LeastOfNaturals
  <2>3. m \in Nat /\ ~P(m)
    OBVIOUS
  <2>4. m # 0
    BY <1>2, <2>3
  <2>5. m - 1 \in Nat /\ (m - 1) + 1 = m
    BY <2>3, <2>4
  <2>6. P(m - 1)
    BY <2>2, <2>5
  <2> QED
    BY <1>3, <2>3, <2>5, <2>6
<1>5. P(Cardinality(S))
  BY <1>1, <1>4
<1>6. \A u \in SUBSET S : Cardinality(u) <= Cardinality(S)
  BY FS_Subset
<1>7. PICK g \in [SUBSET S -> V] : FoldsAsFar(S, base, step, pick, g, Cardinality(S))
  BY <1>5
<1>8. \A u \in SUBSET S : g[u] = IF u = {} THEN base ELSE step[u][g[u \ {pick[u]}]]
  BY <1>6, <1>7 DEF FoldsAsFar
<1> QED
  BY <1>8 DEF IsFold

\* What holds of a set whenever it holds of the set without any one of its elements holds of
\* every part of a finite set.
LEMMA PartByPart ==
  ASSUME NEW S, IsFiniteSet(S), NEW Good,
         \A u \in SUBSET S : (\A x \in u : u \ {x} \in Good) => u \in Good
  PROVE  \A u \in SUBSET S : u \in Good
<1> DEFINE bad == {n \in Nat : \E u \in SUBSET S : Cardinality(u) = n /\ u \notin Good}
<1> SUFFICES ASSUME NEW v \in SUBSET S, v \notin Good PROVE FALSE
  OBVIOUS
<1>1. Cardinality(v) \in bad /\ bad \subseteq Nat
  BY FS_Subset, FS_CardinalityType
<1> HIDE DEF bad
<1>2. PICK m \in bad : \A n \in bad : m <= n
  BY <1>1, LeastOfNaturals
<1>3. PICK u \in SUBSET S : Cardinality(u) = m /\ u \notin Good
  BY DEF bad
<1>4. PICK x \in u : u \ {x} \notin Good
  BY <1>3
<1>5. /\ u \ {x} \in SUBSET S
      /\ Cardinality(u \ {x}) = m - 1 /\ Cardinality(u \ {x}) \in Nat /\ m \in Nat
  BY <1>3, TakenApart
<1>6. Cardinality(u \ {x}) \in bad
  BY <1>4, <1>5 DEF bad
<1> QED
  BY <1>2, <1>5, <1>6

Some(u) == CHOOSE x \in u : TRUE

\* SumFunctionOnSet walks over a set in some order that CHOOSE makes up.
IsSumWalk(g, f, S) ==
  \A u \in SUBSET S : g[u] = IF u = {} THEN 0 ELSE f[Some(u)] + g[u \ {Some(u)}]

LEMMA SumWalks ==
  ASSUME NEW S, IsFiniteSet(S), NEW f, \A x \in S : f[x] \in Int
  PROVE  \E g \in [SUBSET S -> Int] : IsSumWalk(g, f, S)
<1> DEFINE pick == [u \in SUBSET S |-> Some(u)]
           step == [u \in SUBSET S |-> [v \in Int |-> IF u = {} THEN 0 ELSE f[Some(u)] + v]]
<1>1. \A u \in SUBSET S : u # {} => Some(u) \in u
  BY DEF Some
<1>2. step \in [SUBSET S -> [Int -> Int]]
  <2>1. ASSUME NEW u \in SUBSET S, NEW v \in Int
        PROVE  (IF u = {} THEN 0 ELSE f[Some(u)] + v) \in Int
    BY <1>1
  <2> QED
    BY <2>1
<1>3. \A u \in SUBSET S : u # {} => pick[u] \in u
  BY <1>1
<1> HIDE DEF pick, step
<1>4. PICK g \in [SUBSET S -> Int] : IsFold(g, S, 0, step, pick)
  <2>1. 0 \in Int
    OBVIOUS
  <2> QED
    BY <1>2, <1>3, <2>1, FoldExists
<1>5. ASSUME NEW u \in SUBSET S, u # {}
      PROVE  step[u][g[u \ {pick[u]}]] = f[Some(u)] + g[u \ {Some(u)}]
  <2>1. pick[u] = Some(u) /\ g[u \ {Some(u)}] \in Int
    BY DEF pick
  <2> QED
    BY <1>5, <2>1 DEF step
<1> QED
  BY <1>4, <1>5 DEF IsSumWalk, IsFold

LEMMA SumIsAWalk ==
  ASSUME NEW S, IsFiniteSet(S), NEW f, \A x \in S : f[x] \in Int
  PROVE  \E g : IsSumWalk(g, f, S) /\ SumFunctionOnSet(f, S) = g[S]
<1> DEFINE Walk(g) == [u \in SUBSET S |-> IF u = {} THEN 0 ELSE f[Some(u)] + g[u \ {Some(u)}]]
<1>1. PICK h \in [SUBSET S -> Int] : IsSumWalk(h, f, S)
  BY SumWalks
<1>2. h = Walk(h)
  BY <1>1 DEF IsSumWalk
<1>3. SumFunctionOnSet(f, S) = (CHOOSE g : g = Walk(g))[S]
  BY Zenon DEF SumFunctionOnSet, FoldFunctionOnSet, MapThenFoldSet, Some
<1> DEFINE iter == CHOOSE g : g = Walk(g)
<1>4. iter = Walk(iter)
  <2> HIDE DEF Walk
  <2> QED
    BY <1>2, Zenon
<1>5. IsSumWalk(iter, f, S)
  <2> HIDE DEF iter
  <2> QED
    BY <1>4 DEF IsSumWalk
<1> HIDE DEF iter
<1> QED
  BY <1>3, <1>5 DEF iter

\* Two walks over functions that agree agree.
LEMMA WalksAgree ==
  ASSUME NEW S, NEW T \in SUBSET S, IsFiniteSet(S), NEW f, NEW h,
         \A x \in T : f[x] = h[x],
         NEW g, IsSumWalk(g, f, S), NEW k, IsSumWalk(k, h, T)
  PROVE  k[T] = g[T]
<1> DEFINE Good == {u \in SUBSET T : k[u] = g[u]}
<1>1. IsFiniteSet(T)
  BY FS_Subset
<1>2. ASSUME NEW u \in SUBSET T, \A x \in u : u \ {x} \in Good
      PROVE  u \in Good
  <2>1. u # {} => Some(u) \in u
    BY DEF Some
  <2>2. u # {} => k[u \ {Some(u)}] = g[u \ {Some(u)}] /\ f[Some(u)] = h[Some(u)]
    BY <1>2, <2>1
  <2>3. u \in SUBSET S
    OBVIOUS
  <2>4. k[u] = g[u]
    BY <2>2, <2>3 DEF IsSumWalk
  <2> QED
    BY <2>4
<1> HIDE DEF Good
<1>3. T \in Good
  BY <1>1, <1>2, PartByPart
<1> QED
  BY <1>3 DEF Good

\* Sums over the parts of S, of whatever agrees with f on the part, are one function.
SumsBy(g, f, S) ==
  \A T \in SUBSET S : \A h : (\A x \in T : h[x] = f[x]) => SumFunctionOnSet(h, T) = g[T]

LEMMA SumsAreOneWalk ==
  ASSUME NEW S, IsFiniteSet(S), NEW f, \A x \in S : f[x] \in Int
  PROVE  \E g \in [SUBSET S -> Int] : IsSumWalk(g, f, S) /\ SumsBy(g, f, S)
<1>1. PICK g \in [SUBSET S -> Int] : IsSumWalk(g, f, S)
  BY SumWalks
<1>2. ASSUME NEW T \in SUBSET S, NEW h, \A x \in T : h[x] = f[x]
      PROVE  SumFunctionOnSet(h, T) = g[T]
  <2>1. IsFiniteSet(T) /\ \A x \in T : h[x] \in Int
    BY <1>2, FS_Subset
  <2>2. PICK k : IsSumWalk(k, h, T) /\ SumFunctionOnSet(h, T) = k[T]
    BY <2>1, SumIsAWalk
  <2>3. \A x \in T : f[x] = h[x]
    BY <1>2
  <2>4. k[T] = g[T]
    BY <1>1, <2>2, <2>3, WalksAgree
  <2> QED
    BY <2>2, <2>4
<1> QED
  BY <1>1, <1>2 DEF SumsBy

\* In whatever order it is taken, a sum is any one element's value and the sum of the rest.
TakesAny(g, f, S) == \A u \in SUBSET S : \A x \in u : g[u] = f[x] + g[u \ {x}]

LEMMA WalkTakesAny ==
  ASSUME NEW S, IsFiniteSet(S), NEW f, \A x \in S : f[x] \in Int,
         NEW g \in [SUBSET S -> Int], IsSumWalk(g, f, S)
  PROVE  TakesAny(g, f, S)
<1> DEFINE Good == {u \in SUBSET S : \A x \in u : g[u] = f[x] + g[u \ {x}]}
<1>1. ASSUME NEW u \in SUBSET S, \A x \in u : u \ {x} \in Good
      PROVE  u \in Good
  <2> SUFFICES ASSUME NEW x \in u PROVE g[u] = f[x] + g[u \ {x}]
    OBVIOUS
  <2> DEFINE c == Some(u)
  <2>1. c \in u /\ u # {}
    BY DEF Some
  <2>2. g[u] = f[c] + g[u \ {c}]
    BY <2>1 DEF IsSumWalk
  <2> HIDE DEF c
  <2>3. CASE x = c
    BY <2>2, <2>3, Zenon
  <2>4. CASE x # c
    <3>1. g[u \ {c}] = f[x] + g[(u \ {c}) \ {x}]
      BY <1>1, <2>1, <2>4
    <3>2. g[u \ {x}] = f[c] + g[(u \ {x}) \ {c}]
      BY <1>1, <2>1, <2>4
    <3>3. (u \ {c}) \ {x} = (u \ {x}) \ {c}
      OBVIOUS
    <3>4. f[x] \in Int /\ f[c] \in Int /\ g[(u \ {x}) \ {c}] \in Int
      BY <2>1
    <3>5. ASSUME NEW b \in Int
          PROVE  f[c] + (f[x] + b) = f[x] + (f[c] + b)
      BY <3>4
    <3> QED
      BY <2>2, <3>1, <3>2, <3>3, <3>4, <3>5, Zenon
  <2> QED
    BY <2>3, <2>4
<1> HIDE DEF Good
<1>2. \A u \in SUBSET S : u \in Good
  BY <1>1, PartByPart
<1> QED
  BY <1>2 DEF Good, TakesAny

\* What is zero adds nothing to a sum.
LEMMA ZerosAddNothing ==
  ASSUME NEW S, IsFiniteSet(S), NEW f, \A x \in S : f[x] \in Int,
         NEW T \in SUBSET S, NEW h, \A x \in T : h[x] = f[x], \A x \in S \ T : f[x] = 0
  PROVE  SumFunctionOnSet(f, S) = SumFunctionOnSet(h, T)
<1>1. PICK g \in [SUBSET S -> Int] : IsSumWalk(g, f, S) /\ SumsBy(g, f, S)
  BY SumsAreOneWalk
<1> DEFINE Good == {u \in SUBSET S : g[u] = g[u \cap T]}
<1>2. ASSUME NEW u \in SUBSET S, \A x \in u : u \ {x} \in Good
      PROVE  u \in Good
  <2>1. CASE u \subseteq T
    <3>1. u \cap T = u
      BY <2>1
    <3> QED
      BY <3>1
  <2>2. CASE ~(u \subseteq T)
    <3>1. PICK x \in u : x \notin T
      BY <2>2
    <3>2. g[u] = f[x] + g[u \ {x}]
      <4>1. TakesAny(g, f, S)
        BY <1>1, WalkTakesAny
      <4> QED
        BY <4>1 DEF TakesAny
    <3>3. (u \ {x}) \cap T = u \cap T
      BY <3>1
    <3>4. g[u \ {x}] = g[u \cap T] /\ g[u \cap T] \in Int
      BY <1>2, <3>3
    <3>5. f[x] = 0
      BY <3>1
    <3>6. g[u] = g[u \cap T]
      BY <3>2, <3>4, <3>5
    <3> QED
      BY <3>6
  <2> QED
    BY <2>1, <2>2
<1> HIDE DEF Good
<1>3. S \in Good
  BY <1>2, PartByPart
<1>4. g[S] = g[T]
  <2>1. S \cap T = T
    OBVIOUS
  <2> QED
    BY <1>3, <2>1 DEF Good
<1>5. SumFunctionOnSet(f, S) = g[S] /\ SumFunctionOnSet(h, T) = g[T]
  BY <1>1 DEF SumsBy
<1> QED
  BY <1>4, <1>5

\* A sum of ones and zeros counts the ones.
LEMMA OnesAreCounted ==
  ASSUME NEW S, IsFiniteSet(S), NEW f, \A x \in S : f[x] \in {0, 1}
  PROVE  SumFunctionOnSet(f, S) = Cardinality({x \in S : f[x] = 1})
<1>1. \A x \in S : f[x] \in Int
  OBVIOUS
<1>2. PICK g \in [SUBSET S -> Int] : IsSumWalk(g, f, S) /\ SumsBy(g, f, S)
  BY <1>1, SumsAreOneWalk
<1>3. TakesAny(g, f, S)
  BY <1>1, <1>2, WalkTakesAny
<1> DEFINE ones(u) == {x \in u : f[x] = 1}
           Good == {u \in SUBSET S : g[u] = Cardinality(ones(u))}
<1>4. ASSUME NEW u \in SUBSET S, \A x \in u : u \ {x} \in Good
      PROVE  u \in Good
  <2>1. CASE u = {}
    <3>1. ones(u) = {} /\ g[u] = 0
      BY <1>2, <2>1 DEF IsSumWalk
    <3> QED
      BY <3>1, FS_EmptySet
  <2>2. CASE u # {}
    <3>1. PICK x \in u : TRUE
      BY <2>2
    <3>2. g[u] = f[x] + g[u \ {x}]
      BY <1>3 DEF TakesAny
    <3>3. g[u \ {x}] = Cardinality(ones(u \ {x})) /\ IsFiniteSet(ones(u \ {x}))
      <4>1. IsFiniteSet(ones(u \ {x}))
        BY FS_Subset
      <4> QED
        BY <1>4, <4>1
    <3>4. CASE f[x] = 1
      <4>1. ones(u) = ones(u \ {x}) \cup {x} /\ x \notin ones(u \ {x})
        BY <3>4
      <4> HIDE DEF ones
      <4>2. Cardinality(ones(u)) = Cardinality(ones(u \ {x})) + 1
        BY <3>3, <4>1, FS_AddElement
      <4>3. Cardinality(ones(u \ {x})) \in Nat
        BY <3>3, FS_CardinalityType
      <4>4. g[u] = Cardinality(ones(u))
        BY <3>2, <3>3, <3>4, <4>2, <4>3
      <4> QED
        BY <4>4
    <3>5. CASE f[x] = 0
      <4>1. ones(u) = ones(u \ {x})
        BY <3>5
      <4> HIDE DEF ones
      <4>2. Cardinality(ones(u \ {x})) \in Nat
        BY <3>3, FS_CardinalityType
      <4>3. g[u] = Cardinality(ones(u))
        BY <3>2, <3>3, <3>5, <4>1, <4>2
      <4> QED
        BY <4>3
    <3> QED
      BY <3>4, <3>5
  <2> QED
    BY <2>1, <2>2
<1> HIDE DEF Good
<1>5. S \in Good
  BY <1>4, PartByPart
<1>6. SumFunctionOnSet(f, S) = g[S]
  BY <1>2 DEF SumsBy
<1> QED
  BY <1>5, <1>6 DEF Good

\* A nonempty part of 1..k has a last element.
LEMMA LastOfSome ==
  ASSUME NEW k \in Nat, NEW D \in SUBSET (1..k), D # {}
  PROVE  \E m \in D : \A n \in D : n <= m
<1> DEFINE back == {k - n : n \in D}
<1>1. back \subseteq Nat /\ back # {}
  OBVIOUS
<1>2. PICK e \in back : \A d \in back : e <= d
  BY <1>1, LeastOfNaturals
<1>3. PICK m \in D : e = k - m
  BY <1>2
<1>4. ASSUME NEW n \in D
      PROVE  n <= m
  <2>1. e <= k - n
    BY <1>2
  <2> HIDE DEF back
  <2> QED
    BY <1>3, <2>1
<1> QED
  BY <1>4

-----------------------------------------------------------------------------
(***************************************************************************)
(* The quotas of _allocate, for every snapshot and every catalogue.        *)
(***************************************************************************)

\* On the armed path with a catalogue (Sized: without, decide asks for no quota but the cap),
\* every quota that is on holds what live servers take and all creates of the round would
\* take on top (plan.py, _allocate), although the volume quotas are asked only for a create
\* that wants a volume: those after the last such create take none.
THEOREM CreateFitsTheQuotas ==
  ASSUME NEW s, NEW L, Countable(s, L), Len(Wanted(s, L)) \in Nat, Sized(L),
         Create(s, L) # << >>,
         \A n \in DOMAIN Create(s, L) : DiskGb(Create(s, L)[n]) \in Nat
  PROVE  LET creates == Create(s, L)
             used == QuotaUsed(s, L)
         IN  /\ Within(used.vcpus + SumFunction([n \in DOMAIN creates |-> Vcpus(L, creates[n].rung)]),
                       L.max_vcpus)
             /\ Within(used.ram + SumFunction([n \in DOMAIN creates |-> RamGb(L, creates[n].rung)]),
                       L.max_ram_gb)
             /\ (\E n \in DOMAIN creates : DiskGb(creates[n]) > 0) =>
                  /\ Within(used.volumes
                              + SumFunction([n \in DOMAIN creates |-> Volumes(DiskGb(creates[n]))]),
                            L.max_volumes)
                  /\ Within(used.volume_gb
                              + SumFunction([n \in DOMAIN creates |-> DiskGb(creates[n])]),
                            L.max_volume_gb)
<1> DEFINE creates == Create(s, L)
           wants == Wanted(s, L)
           used == QuotaUsed(s, L)
           k == CreateCount(s, L)
<1>1. k \in Nat /\ k >= 1 /\ DOMAIN creates = 1..k
  <2>1. PICK n \in Nat : DOMAIN creates = 1..n
    BY CreateOfEach
  <2>2. DOMAIN creates # {}
    <3>1. CASE BreakerOpen(s, L)
      BY <3>1 DEF Create
    <3>2. CASE ~BreakerOpen(s, L)
      <4>1. creates = [m \in 1..k |-> wants[m]]
        BY <3>2 DEF Create
      <4>2. k \in Nat
        BY CreateCountIsBounded
      <4>3. k = 0 => creates = << >>
        BY <4>1
      <4> QED
        BY <4>1, <4>2, <4>3
    <3> QED
      BY <3>1, <3>2
  <2>3. PICK m : m \in DOMAIN creates
    BY <2>2
  <2>4. DOMAIN creates = 1..k
    BY <2>3, CreatesFit
  <2>5. k \in Nat
    BY CreateCountIsBounded
  <2> HIDE DEF creates, k
  <2> QED
    BY <2>3, <2>4, <2>5
<1>2. ASSUME NEW n \in 1..k
      PROVE  /\ n \in Nat /\ Fits(s, L, wants, n)
             /\ \A m \in 1..n : creates[m] = wants[m]
  BY <1>1, CreatesFit
<1>3. k \in 1..k
  <2> HIDE DEF k
  <2> QED
    BY <1>1
<1> HIDE DEF k
<1>4. Within(used.vcpus + SumFunction([n \in DOMAIN creates |-> Vcpus(L, creates[n].rung)]),
             L.max_vcpus)
  <2>1. [n \in DOMAIN creates |-> Vcpus(L, creates[n].rung)] = [n \in 1..k |-> Vcpus(L, wants[n].rung)]
    BY <1>1, <1>2, <1>3
  <2>2. Within(QuotaWith(s, L, wants, k).vcpus, L.max_vcpus)
    BY <1>2, <1>3 DEF Fits
  <2> QED
    BY <2>1, <2>2 DEF QuotaWith
<1>5. Within(used.ram + SumFunction([n \in DOMAIN creates |-> RamGb(L, creates[n].rung)]),
             L.max_ram_gb)
  <2>1. [n \in DOMAIN creates |-> RamGb(L, creates[n].rung)] = [n \in 1..k |-> RamGb(L, wants[n].rung)]
    BY <1>1, <1>2, <1>3
  <2>2. Within(QuotaWith(s, L, wants, k).ram, L.max_ram_gb)
    BY <1>2, <1>3 DEF Fits
  <2> QED
    BY <2>1, <2>2 DEF QuotaWith
<1>6. ASSUME \E n \in DOMAIN creates : DiskGb(creates[n]) > 0
      PROVE  /\ Within(used.volumes
                         + SumFunction([n \in DOMAIN creates |-> Volumes(DiskGb(creates[n]))]),
                       L.max_volumes)
             /\ Within(used.volume_gb
                         + SumFunction([n \in DOMAIN creates |-> DiskGb(creates[n])]),
                       L.max_volume_gb)
  <2> DEFINE D == {n \in 1..k : DiskGb(creates[n]) > 0}
             disks == [n \in 1..k |-> DiskGb(creates[n])]
             taking == [n \in 1..k |-> Volumes(DiskGb(creates[n]))]
  <2>1. PICK m \in D : \A n \in D : n <= m
    <3>1. D # {} /\ D \in SUBSET (1..k)
      BY <1>1, <1>6
    <3> HIDE DEF D
    <3> QED
      BY <1>1, <3>1, LastOfSome
  <2>2. m \in 1..k /\ m \in Nat /\ 1..m \subseteq 1..k /\ DiskGb(creates[m]) > 0
    BY <1>1
  <2>3. DiskGb(wants[m]) > 0
    BY <1>2, <2>2
  <2>4. /\ Within(QuotaWith(s, L, wants, m).volumes, L.max_volumes)
        /\ Within(QuotaWith(s, L, wants, m).volume_gb, L.max_volume_gb)
    BY <1>2, <2>2, <2>3 DEF Fits
  <2>5. IsFiniteSet(1..k) /\ \A n \in 1..k : DiskGb(creates[n]) \in Nat
    <3>1. IsFiniteSet(1..k)
      <4>1. 1 \in Int /\ k \in Int
        BY <1>1
      <4> QED
        BY <4>1, FS_Interval
    <3>2. ASSUME NEW n \in 1..k
          PROVE  DiskGb(creates[n]) \in Nat
      BY <1>1
    <3> QED
      BY <3>1, <3>2
  <2>6. SumFunction([n \in DOMAIN creates |-> DiskGb(creates[n])])
          = SumFunction([n \in 1..m |-> DiskGb(wants[n])])
    <3> DEFINE early == [n \in 1..m |-> DiskGb(wants[n])]
    <3>1. \A n \in 1..k : disks[n] \in Int
      BY <2>5
    <3>2. \A n \in 1..m : early[n] = disks[n]
      BY <1>2, <2>2
    <3>3. ASSUME NEW n \in (1..k) \ (1..m)
          PROVE  disks[n] = 0
      <4>1. n \notin D
        BY <2>1, <2>2, <1>1
      <4>2. ~(DiskGb(creates[n]) > 0) /\ DiskGb(creates[n]) \in Nat
        BY <2>5, <4>1
      <4> QED
        BY <4>2
    <3>4. SumFunctionOnSet(disks, 1..k) = SumFunctionOnSet(early, 1..m)
      <4> DEFINE S == 1..k
                 T == 1..m
      <4>1. T \in SUBSET S /\ IsFiniteSet(S)
        BY <2>2, <2>5
      <4>2. /\ \A n \in S : disks[n] \in Int
            /\ \A n \in T : early[n] = disks[n]
            /\ \A n \in S \ T : disks[n] = 0
        BY <3>1, <3>2, <3>3
      <4> HIDE DEF disks, early, S, T
      <4>3. SumFunctionOnSet(disks, S) = SumFunctionOnSet(early, T)
        BY <4>1, <4>2, ZerosAddNothing
      <4> QED
        BY <4>3 DEF S, T
    <3> QED
      BY <1>1, <3>4 DEF SumFunction
  <2>7. SumFunction([n \in DOMAIN creates |-> Volumes(DiskGb(creates[n]))])
          = Cardinality(Takers(wants, m))
    <3>1. \A n \in 1..k : taking[n] \in {0, 1}
      BY DEF Volumes
    <3>2. {n \in 1..k : taking[n] = 1} = D
      BY DEF Volumes
    <3>3. D = Takers(wants, m)
      <4>1. \A n \in D : n \in 1..m
        BY <2>1, <2>2, <1>1
      <4>2. \A n \in 1..m : n \in 1..k /\ DiskGb(wants[n]) = DiskGb(creates[n])
        BY <1>2, <2>2
      <4> QED
        BY <4>1, <4>2 DEF Takers
    <3>4. SumFunctionOnSet(taking, 1..k) = Cardinality({n \in 1..k : taking[n] = 1})
      <4> HIDE DEF taking
      <4> QED
        BY <2>5, <3>1, OnesAreCounted
    <3>5. SumFunction([n \in DOMAIN creates |-> Volumes(DiskGb(creates[n]))])
            = SumFunctionOnSet(taking, 1..k)
      BY <1>1 DEF SumFunction
    <3> QED
      BY <3>2, <3>3, <3>4, <3>5
  <2>8. /\ QuotaWith(s, L, wants, m).volumes = used.volumes + Cardinality(Takers(wants, m))
        /\ QuotaWith(s, L, wants, m).volume_gb
             = used.volume_gb + SumFunction([n \in 1..m |-> DiskGb(wants[n])])
    BY DEF QuotaWith
  <2> QED
    BY <2>4, <2>6, <2>7, <2>8
<1> QED
  BY <1>4, <1>5, <1>6
-----------------------------------------------------------------------------
(***************************************************************************)
(* The loops of plan.py, turn by turn: a fold over a list is a walk along  *)
(* the initial parts of the list.                                          *)
(***************************************************************************)

\* Induction along the turns of a loop.
LEMMA StepByStep ==
  ASSUME NEW N \in Nat, NEW Good, 0 \in Good,
         \A n \in 1..N : n - 1 \in Good => n \in Good
  PROVE  N \in Good
<1> DEFINE bad == {n \in Nat : n <= N /\ n \notin Good}
<1> SUFFICES ASSUME N \notin Good PROVE FALSE
  OBVIOUS
<1>1. N \in bad /\ bad \subseteq Nat
  OBVIOUS
<1> HIDE DEF bad
<1>2. PICK m \in bad : \A n \in bad : m <= n
  BY <1>1, LeastOfNaturals
<1>3. m \in Nat /\ m <= N /\ m \notin Good
  BY DEF bad
<1>4. m # 0
  BY <1>3
<1>5. m \in 1..N /\ m - 1 \in Nat /\ m - 1 <= N
  BY <1>3, <1>4
<1>6. m - 1 \notin Good
  BY <1>3, <1>5
<1>7. m - 1 \in bad
  BY <1>5, <1>6 DEF bad
<1> QED
  BY <1>2, <1>3, <1>7

\* The turn that made an initial part is its last.
LEMMA LastOfUpTo ==
  ASSUME NEW N \in Nat, NEW n \in 1..N
  PROVE  /\ 1..n \in SUBSET (1..N) /\ 1..n # {} /\ Max(1..n) = n
         /\ (1..n) \ {n} = 1..(n - 1) /\ 1..(n - 1) \in SUBSET (1..N)
<1>1. n \in 1..n /\ \A m \in 1..n : n >= m
  OBVIOUS
<1>2. Max(1..n) \in 1..n /\ \A m \in 1..n : Max(1..n) >= m
  <2> DEFINE S == 1..n
  <2>1. \E x \in S : \A y \in S : x >= y
    BY <1>1
  <2> HIDE DEF S
  <2>2. Max(S) \in S /\ \A m \in S : Max(S) >= m
    BY <2>1 DEF Max
  <2> QED
    BY <2>2 DEF S
<1>3. Max(1..n) = n
  <2> DEFINE x == Max(1..n)
  <2>1. x \in 1..n /\ x >= n
    BY <1>1, <1>2
  <2> HIDE DEF x
  <2>2. x = n
    BY <2>1
  <2> QED
    BY <2>2 DEF x
<1>4. (1..n) \ {n} = 1..(n - 1)
  OBVIOUS
<1> QED
  BY <1>1, <1>3, <1>4

\* g[1..n] is where the loop stands after its first n turns.
IsLoop(g, N, base, step) ==
  \A u \in SUBSET (1..N) :
    g[u] = IF u = {} THEN base ELSE step[Max(u)][g[u \ {Max(u)}]]

LEMMA LoopExists ==
  ASSUME NEW N \in Nat, NEW V, NEW base \in V, NEW step \in [1..N -> [V -> V]]
  PROVE  \E g \in [SUBSET (1..N) -> V] : IsLoop(g, N, base, step)
<1> DEFINE S == 1..N
           pick == [u \in SUBSET S |-> Max(u)]
           turn == [u \in SUBSET S |-> IF u = {} THEN [v \in V |-> v] ELSE step[Max(u)]]
<1>1. IsFiniteSet(S)
  BY FS_Interval
<1>2. ASSUME NEW u \in SUBSET S, u # {}
      PROVE  Max(u) \in u
  <2>1. PICK m \in u : \A n \in u : n <= m
    BY <1>2, LastOfSome
  <2>2. \A n \in u : m >= n
    <3>1. u \subseteq Nat
      OBVIOUS
    <3> HIDE DEF S
    <3> QED
      BY <2>1, <3>1
  <2> QED
    BY <2>2 DEF Max
<1>3. turn \in [SUBSET S -> [V -> V]]
  <2>1. ASSUME NEW u \in SUBSET S
        PROVE  (IF u = {} THEN [v \in V |-> v] ELSE step[Max(u)]) \in [V -> V]
    <3>1. u # {} => Max(u) \in S
      BY <1>2
    <3> QED
      BY <3>1
  <2> QED
    BY <2>1
<1>4. \A u \in SUBSET S : u # {} => pick[u] \in u
  BY <1>2
<1> HIDE DEF pick, turn, S
<1>5. PICK g \in [SUBSET S -> V] : IsFold(g, S, base, turn, pick)
  BY <1>1, <1>3, <1>4, FoldExists
<1>6. ASSUME NEW u \in SUBSET S
      PROVE  g[u] = IF u = {} THEN base ELSE step[Max(u)][g[u \ {Max(u)}]]
  <2>1. pick[u] = Max(u) /\ (u # {} => turn[u] = step[Max(u)])
    BY DEF pick, turn
  <2>2. g[u] = IF u = {} THEN base ELSE turn[u][g[u \ {pick[u]}]]
    BY <1>5 DEF IsFold
  <2> QED
    BY <2>1, <2>2
<1> QED
  BY <1>5, <1>6 DEF IsLoop, S

\* The first n of a list.
FirstOf(q, n) == {q[m] : m \in 1..n}

\* q lists W in S7's order.
Listing(s, W, N, q) ==
  /\ N \in Nat /\ q \in [1..N -> W] /\ FirstOf(q, 0) = {} /\ FirstOf(q, N) = W
  /\ \A n \in 1..N : /\ FirstOf(q, n - 1) = {v \in W : Older(s, v, q[n])}
                     /\ FirstOf(q, n) = FirstOf(q, n - 1) \cup {q[n]}

\* What is older than the n-th of the list is what the list has before it.
LEMMA ListGrows ==
  ASSUME NEW s, NEW W, Orderable(s, W), NEW N, N = Cardinality(W),
         NEW q, q = OldestFirst(s, W)
  PROVE  Listing(s, W, N, q)
<1> DEFINE D(n) == {q[m] : m \in 1..n}
<1>1. /\ N \in Nat /\ q \in Bijection(1..N, W)
      /\ \A m, n \in 1..N : m < n => Older(s, q[m], q[n])
  BY OldestFirstIsAList
<1>2. q \in [1..N -> W] /\ \A w \in W : \E n \in 1..N : q[n] = w
  BY <1>1 DEF Bijection, Injection, Surjection
<1>3. ASSUME NEW n \in 1..N
      PROVE  /\ D(n - 1) = {v \in W : Older(s, v, q[n])}
             /\ D(n) = D(n - 1) \cup {q[n]}
  <2>1. ASSUME NEW v \in W, Older(s, v, q[n])
        PROVE  v \in D(n - 1)
    <3>1. PICK m \in 1..N : q[m] = v
      BY <1>2
    <3>2. ~(n < m) /\ m # n
      <4>1. q[n] \in W
        BY <1>2
      <4>2. ~(Older(s, q[n], v)) /\ v # q[n]
        BY <2>1, <4>1, OlderTransitive, OlderTotal
      <4> QED
        BY <1>1, <3>1, <4>2
    <3>3. m \in 1..(n - 1)
      BY <1>1, <3>2
    <3> QED
      BY <3>1, <3>3
  <2>2. ASSUME NEW m \in 1..(n - 1)
        PROVE  q[m] \in W /\ Older(s, q[m], q[n])
    <3>1. m \in 1..N /\ m < n
      BY <1>1
    <3> QED
      BY <1>1, <1>2, <3>1
  <2>3. D(n) = D(n - 1) \cup {q[n]}
    <3>1. 1..n = 1..(n - 1) \cup {n}
      BY <1>1
    <3> QED
      BY <3>1
  <2> QED
    BY <2>1, <2>2, <2>3
<1>4. D(0) = {} /\ D(N) = W
  BY <1>2
<1>5. \A n : FirstOf(q, n) = D(n)
  BY DEF FirstOf
<1> HIDE DEF D
<1> QED
  BY <1>1, <1>2, <1>3, <1>4, <1>5 DEF Listing

-----------------------------------------------------------------------------
(***************************************************************************)
(* The assignment loop: after n turns, the pairs are those of the first n. *)
(***************************************************************************)

\* The youngest of a pool is one of its instances, and the only one younger than the rest.
LEMMA YoungestIsFirst ==
  ASSUME NEW s, NEW I, Rankable(s, I), I # {}
  PROVE  /\ Youngest(s, I) \in I
         /\ \A i \in I : (\A j \in I \ {i} : Younger(s, i, j)) => Youngest(s, I) = i
<1> DEFINE position(i) == Cardinality({j \in I : j = i \/ Younger(s, j, i)})
<1>1. Cardinality(I) \in Nat /\ Cardinality(I) # 0
  BY FS_CardinalityType, FS_EmptySet DEF Rankable
<1>2. 1 \in 1..Cardinality(I)
  <2> DEFINE k == Cardinality(I)
  <2> HIDE DEF k
  <2>1. 1 \in 1..k
    BY <1>1 DEF k
  <2> QED
    BY <2>1 DEF k
<1>3. PICK i \in I : position(i) = 1
  BY <1>2, PositionIsTaken
<1>4. ASSUME NEW j \in I \ {i}
      PROVE  Younger(s, i, j)
  <2>1. CASE Younger(s, j, i)
    <3> DEFINE P == {h \in I : h = i \/ Younger(s, h, i)}
    <3>1. i \in P /\ j \in P /\ IsFiniteSet(P) /\ P \subseteq I
      BY <2>1, FS_Subset DEF Rankable
    <3>2. Cardinality(P) = 1
      BY <1>3
    <3> HIDE DEF P
    <3>3. Cardinality(P \ {i}) = 0 /\ IsFiniteSet(P \ {i})
      BY <3>1, <3>2, FS_RemoveElement
    <3>4. P \ {i} = {}
      BY <3>3, FS_EmptySet
    <3> QED
      BY <3>1, <3>4
  <2> QED
    BY <2>1, YoungerTotal
<1>5. Youngest(s, I) \in I /\ \A j \in I \ {Youngest(s, I)} : Younger(s, Youngest(s, I), j)
  <2>1. \E x \in I : \A j \in I \ {x} : Younger(s, x, j)
    BY <1>4
  <2> QED
    BY <2>1, Zenon DEF Youngest
<1>6. ASSUME NEW x \in I, \A j \in I \ {x} : Younger(s, x, j), Youngest(s, I) # x
      PROVE  FALSE
  <2> DEFINE y == Youngest(s, I)
  <2>1. Younger(s, x, y) /\ Younger(s, y, x) /\ y \in I
    BY <1>5, <1>6
  <2>2. Younger(s, x, x)
    <3> HIDE DEF y
    <3> QED
      BY <2>1, YoungerTransitive
  <2> QED
    BY <2>2, YoungerTotal
<1> QED
  BY <1>5, <1>6

Accepting(s, L) == [pairs : SUBSET (Placeable(s) \X Assignable(s, L)), stopped : BOOLEAN]

LEMMA ServeIsTyped ==
  ASSUME NEW s, NEW L, Rankable(s, DOMAIN s.instances),
         NEW acc \in Accepting(s, L), NEW w \in Placeable(s)
  PROVE  Serve(s, L, acc, w) \in Accepting(s, L)
<1> DEFINE pool == Pool(s, L, SubmissionRung(s, L, w)) \ {p[2] : p \in acc.pairs}
<1>1. CASE acc.stopped \/ pool = {}
  <2>1. Serve(s, L, acc, w) = [acc EXCEPT !.stopped = TRUE]
    BY <1>1 DEF Serve
  <2> QED
    BY <2>1 DEF Accepting
<1>2. CASE ~(acc.stopped \/ pool = {})
  <2>1. Serve(s, L, acc, w)
          = [acc EXCEPT !.pairs = acc.pairs \cup {<<w, Youngest(s, pool)>>}]
    BY <1>2 DEF Serve
  <2>2. pool \subseteq Assignable(s, L)
    BY DEF Pool
  <2>3. Rankable(s, pool)
    <3>1. Assignable(s, L) \subseteq DOMAIN s.instances
      BY DEF Assignable, Unassigned, Live
    <3> HIDE DEF pool
    <3> QED
      BY <2>2, <3>1, FS_Subset DEF Rankable
  <2> HIDE DEF pool
  <2>4. Youngest(s, pool) \in Assignable(s, L)
    BY <1>2, <2>2, <2>3, YoungestIsFirst
  <2>5. <<w, Youngest(s, pool)>> \in Placeable(s) \X Assignable(s, L)
    BY <2>4
  <2> DEFINE pair == <<w, Youngest(s, pool)>>
  <2> HIDE DEF pair
  <2>6. pair \in Placeable(s) \X Assignable(s, L)
    BY <2>5 DEF pair
  <2>7. [acc EXCEPT !.pairs = acc.pairs \cup {pair}] \in Accepting(s, L)
    BY <2>6 DEF Accepting
  <2> QED
    BY <2>1, <2>7 DEF pair
<1> QED
  BY <1>1, <1>2

Served0 == [pairs |-> {}, stopped |-> FALSE]

\* The loop, turn by turn.
LEMMA AssignLoopTurns ==
  ASSUME NEW s, NEW L, Orderable(s, DOMAIN s.waiting), Rankable(s, DOMAIN s.instances),
         NEW N, N = Cardinality(Placeable(s)), NEW q, q = OldestFirst(s, Placeable(s))
  PROVE  \E a : /\ a[0] = Served0
                /\ \A n \in 1..N : a[n] = Serve(s, L, a[n - 1], q[n])
                /\ AssignLoop(s, L) = a[N].pairs
<1> DEFINE V == Accepting(s, L)
           step == [n \in 1..N |-> [v \in V |-> Serve(s, L, v, q[n])]]
           Walk(g) == [u \in SUBSET (1..N) |->
                         IF u = {} THEN Served0 ELSE Serve(s, L, g[u \ {Max(u)}], q[Max(u)])]
           iter == CHOOSE g : g = Walk(g)
<1>1. N \in Nat /\ q \in [1..N -> Placeable(s)]
  <2>1. Orderable(s, Placeable(s))
    BY FS_Subset DEF Orderable, Placeable
  <2>2. /\ Cardinality(Placeable(s)) \in Nat
        /\ OldestFirst(s, Placeable(s)) \in Bijection(1..Cardinality(Placeable(s)), Placeable(s))
    BY <2>1, OldestFirstIsAList
  <2> QED
    BY <2>2 DEF Bijection, Injection
<1>2. step \in [1..N -> [V -> V]] /\ Served0 \in V
  <2>1. \A n \in 1..N : \A v \in V : Serve(s, L, v, q[n]) \in V
    BY <1>1, ServeIsTyped
  <2> QED
    BY <2>1 DEF Served0, Accepting
<1> HIDE DEF step
<1>3. PICK g \in [SUBSET (1..N) -> V] : IsLoop(g, N, Served0, step)
  <2> HIDE DEF V
  <2> QED
    BY <1>1, <1>2, LoopExists
<1>4. g = Walk(g)
  <2>1. ASSUME NEW u \in SUBSET (1..N), u # {}
        PROVE  step[Max(u)][g[u \ {Max(u)}]] = Serve(s, L, g[u \ {Max(u)}], q[Max(u)])
    <3>1. Max(u) \in 1..N /\ u \ {Max(u)} \in SUBSET (1..N)
      <4>1. PICK m \in u : \A n \in u : n <= m
        BY <1>1, <2>1, LastOfSome
      <4>2. \A n \in u : m >= n
        BY <4>1
      <4> QED
        BY <4>2 DEF Max
    <3>2. g[u \ {Max(u)}] \in V
      BY <3>1
    <3> HIDE DEF V
    <3> QED
      BY <3>1, <3>2 DEF step
  <2>2. ASSUME NEW u \in SUBSET (1..N)
        PROVE  g[u] = IF u = {} THEN Served0 ELSE Serve(s, L, g[u \ {Max(u)}], q[Max(u)])
    BY <1>3, <2>1 DEF IsLoop
  <2> QED
    BY <2>2
<1>5. AssignLoop(s, L) = iter[1..N].pairs
  <2>1. DOMAIN q = 1..N
    BY <1>1
  <2> QED
    BY <2>1, Zenon DEF AssignLoop, FoldLeft, MapThenFoldSet, Served0
<1>6. iter = Walk(iter)
  <2> HIDE DEF Walk
  <2> QED
    BY <1>4, Zenon
<1> HIDE DEF iter
<1> DEFINE a == [n \in 0..N |-> iter[1..n]]
<1>7. a[0] = Served0
  <2>1. {} \in SUBSET (1..N) /\ 1..0 = {} /\ 0 \in 0..N
    BY <1>1
  <2>2. iter[{}] = Served0
    BY <1>6, <2>1
  <2> QED
    BY <2>1, <2>2
<1>8. ASSUME NEW n \in 1..N
      PROVE  a[n] = Serve(s, L, a[n - 1], q[n])
  <2>1. /\ 1..n \in SUBSET (1..N) /\ 1..n # {} /\ Max(1..n) = n
        /\ (1..n) \ {n} = 1..(n - 1)
    BY <1>1, LastOfUpTo
  <2>2. iter[1..n] = Serve(s, L, iter[(1..n) \ {Max(1..n)}], q[Max(1..n)])
    <3> DEFINE u == 1..n
    <3> HIDE DEF u
    <3>1. iter[u] = Serve(s, L, iter[u \ {Max(u)}], q[Max(u)])
      BY <1>6, <2>1 DEF u
    <3> QED
      BY <3>1 DEF u
  <2>3. n \in 0..N /\ n - 1 \in 0..N
    BY <1>1
  <2> QED
    BY <2>1, <2>2, <2>3
<1>9. a[N] = iter[1..N]
  BY <1>1
<1> HIDE DEF a
<1> QED
  BY <1>5, <1>7, <1>8, <1>9

\* Of the submissions ahead of one, each has a place of its own: every number up to its
\* own is taken.
LEMMA AheadIsTaken ==
  ASSUME NEW s, NEW L, NEW W, Orderable(s, W), NEW w \in W,
         NEW n \in 1..Cardinality(AheadOf(s, L, W, w))
  PROVE  \E v \in AheadOf(s, L, W, w) : Cardinality(AheadOf(s, L, W, v)) = n
<1> DEFINE A == AheadOf(s, L, W, w)
           k == Cardinality(A)
           place(v) == Cardinality(AheadOf(s, L, W, v))
           r == [v \in A |-> place(v)]
<1>1. A \subseteq W /\ w \in A /\ IsFiniteSet(A) /\ k \in Nat
  <2>1. A \subseteq W /\ w \in A
    BY DEF AheadOf
  <2> QED
    BY <2>1, FS_Subset, FS_CardinalityType DEF Orderable
<1>2. IsFiniteSet(1..k) /\ Cardinality(1..k) = k
  <2> HIDE DEF k
  <2>1. IsFiniteSet(1..k) /\ Cardinality(1..k) = k
    BY <1>1, FS_Interval
  <2> QED
    BY <2>1
<1>3. ASSUME NEW v \in A
      PROVE  place(v) \in 1..k
  <2> DEFINE B == AheadOf(s, L, W, v)
  <2>1. B \subseteq A /\ v \in B
    <3>1. (v = w \/ Older(s, v, w)) /\ SubmissionRung(s, L, v) = SubmissionRung(s, L, w)
      BY DEF AheadOf
    <3>2. \A u \in W : u = v \/ Older(s, u, v) => u = w \/ Older(s, u, w)
      BY <1>1, <3>1, OlderTransitive
    <3> QED
      BY <1>1, <3>1, <3>2 DEF AheadOf
  <2>2. /\ Cardinality(B) \in Nat /\ Cardinality(B) <= k /\ Cardinality(B) # 0
    BY <1>1, <2>1, FS_Subset, FS_CardinalityType, FS_EmptySet
  <2> HIDE DEF B, k
  <2>3. Cardinality(B) \in 1..k
    BY <1>1, <2>2
  <2> QED
    BY <2>3 DEF B
<1>4. \A u, v \in A : r[u] = r[v] => u = v
  <2> SUFFICES ASSUME NEW u \in A, NEW v \in A, place(u) = place(v), u # v PROVE FALSE
    OBVIOUS
  <2>1. Older(s, u, v) \/ Older(s, v, u)
    BY <1>1, OlderTotal
  <2>2. SubmissionRung(s, L, u) = SubmissionRung(s, L, v)
    BY DEF AheadOf
  <2>3. place(u) < place(v) \/ place(v) < place(u)
    BY <1>1, <2>1, <2>2, AheadGrows
  <2>4. place(u) \in Int /\ place(v) \in Int
    BY <1>3
  <2> HIDE DEF place
  <2> QED
    BY <2>3, <2>4
<1>5. r \in [A -> 1..k]
  BY <1>3
<1> HIDE DEF r, k
<1>6. r \in Injection(A, 1..k)
  BY <1>4, <1>5 DEF Injection, IsInjective
<1>7. r \in Surjection(A, 1..k)
  <2> HIDE DEF A
  <2> QED
    BY <1>1, <1>2, <1>6, FS_Injection DEF k
<1>8. PICK v \in A : r[v] = n
  BY <1>7 DEF Surjection, k
<1> QED
  BY <1>8 DEF r

\* A submission that asks for more than is left, once those ahead of it are served.
Blocked(s, L, w) ==
  ~(Cardinality(AheadOf(s, L, Placeable(s), w))
      <= Cardinality(Pool(s, L, SubmissionRung(s, L, w))))

\* The loop after the submissions of D, an initial part of the list.
After(s, L, D) == [pairs   |-> {p \in Assign(s, L) : p[1] \in D},
                   stopped |-> \E v \in D : Blocked(s, L, v)]

\* One turn of the loop.
LEMMA ServeTurns ==
  ASSUME NEW s, NEW L, Orderable(s, DOMAIN s.waiting), Rankable(s, DOMAIN s.instances),
         NEW w \in Placeable(s),
         NEW D, D = {v \in Placeable(s) : Older(s, v, w)}
  PROVE  Serve(s, L, After(s, L, D), w) = After(s, L, D \cup {w})
<1> DEFINE W == Placeable(s)
           rung == SubmissionRung(s, L, w)
           pool == Pool(s, L, rung)
           ahead(v) == Cardinality(AheadOf(s, L, W, v))
           position(i) == Cardinality({j \in pool : j = i \/ Younger(s, j, i)})
           acc == After(s, L, D)
           left == pool \ {p[2] : p \in acc.pairs}
<1>1. Orderable(s, W)
  BY FS_Subset DEF Orderable, Placeable
<1>2. Rankable(s, pool) /\ pool \subseteq Assignable(s, L)
  <2>1. pool \subseteq DOMAIN s.instances /\ pool \subseteq Assignable(s, L)
    BY DEF Pool, Assignable, Unassigned, Live
  <2> QED
    BY <2>1, FS_Subset DEF Rankable
<1>3. /\ acc.stopped = (\E v \in D : Blocked(s, L, v))
      /\ acc.pairs = {p \in Assign(s, L) : p[1] \in D}
      /\ acc = [pairs |-> acc.pairs, stopped |-> acc.stopped]
      /\ acc.stopped \in BOOLEAN
  BY DEF After
<1>4. Serve(s, L, acc, w) =
        IF acc.stopped \/ left = {}
          THEN [pairs |-> acc.pairs, stopped |-> TRUE]
          ELSE [pairs |-> acc.pairs \cup {<<w, Youngest(s, left)>>}, stopped |-> acc.stopped]
  <2> DEFINE P == acc.pairs
             T == acc.stopped
  <2>1. acc = [pairs |-> P, stopped |-> T]
    BY <1>3
  <2> HIDE DEF P, T, acc
  <2>2. [acc EXCEPT !.stopped = TRUE] = [pairs |-> P, stopped |-> TRUE]
    <3> DEFINE x == TRUE
    <3> HIDE DEF x
    <3>1. [acc EXCEPT !.stopped = x] = [pairs |-> P, stopped |-> x]
      BY <2>1
    <3> QED
      BY <3>1 DEF x
  <2>3. [acc EXCEPT !.pairs = P \cup {<<w, Youngest(s, left)>>}]
          = [pairs |-> P \cup {<<w, Youngest(s, left)>>}, stopped |-> T]
    <3> DEFINE x == P \cup {<<w, Youngest(s, left)>>}
    <3> HIDE DEF x
    <3>1. [acc EXCEPT !.pairs = x] = [pairs |-> x, stopped |-> T]
      BY <2>1
    <3> QED
      BY <3>1 DEF x
  <2> QED
    BY <2>2, <2>3 DEF Serve, P, T
<1>5. ASSUME NEW v \in W, Reached(s, L, v)
      PROVE  \A u \in W : u = v \/ Older(s, u, v) => ~Blocked(s, L, u)
  BY <1>5 DEF Reached, Blocked
<1>6. ASSUME NEW v \in W, \A u \in W : u = v \/ Older(s, u, v) => ~Blocked(s, L, u)
      PROVE  Reached(s, L, v)
  BY <1>6 DEF Reached, Blocked
<1>7. ASSUME NEW p \in Assign(s, L)
      PROVE  /\ p = <<p[1], p[2]>> /\ p[1] \in W /\ Reached(s, L, p[1])
             /\ Matches(s, L, p[1], p[2])
  <2>1. p \in W \X Assignable(s, L) /\ Reached(s, L, p[1]) /\ Matches(s, L, p[1], p[2])
    BY Zenon DEF Assign
  <2> QED
    BY <2>1
<1>8. ASSUME NEW p \in Assign(s, L), p[1] = w
      PROVE  \A u \in D \cup {w} : ~Blocked(s, L, u)
  BY <1>5, <1>7, <1>8
<1> HIDE DEF acc
<1>9. CASE acc.stopped
  <2>1. {p \in Assign(s, L) : p[1] \in D \cup {w}} = acc.pairs
    BY <1>3, <1>8, <1>9
  <2>2. (\E v \in D \cup {w} : Blocked(s, L, v)) = TRUE
    BY <1>3, <1>9
  <2> QED
    BY <1>4, <1>9, <2>1, <2>2 DEF After, acc
<1>10. CASE ~acc.stopped
  <2>1. \A v \in D : ~Blocked(s, L, v)
    BY <1>3, <1>10
  <2>2. ahead(w) \in Nat /\ ahead(w) # 0 /\ Cardinality(pool) \in Nat
    <3> DEFINE A == AheadOf(s, L, W, w)
    <3>1. A \subseteq W /\ w \in A
      BY DEF AheadOf
    <3>2. IsFiniteSet(A) /\ IsFiniteSet(pool)
      BY <1>1, <1>2, <3>1, FS_Subset DEF Orderable, Rankable
    <3> QED
      BY <3>1, <3>2, FS_CardinalityType, FS_EmptySet
  <2>3. ASSUME NEW i \in pool
        PROVE  position(i) \in Nat /\ position(i) # 0 /\ position(i) <= Cardinality(pool)
    <3> DEFINE P == {j \in pool : j = i \/ Younger(s, j, i)}
    <3>1. P \subseteq pool /\ i \in P
      OBVIOUS
    <3>2. IsFiniteSet(P) /\ Cardinality(P) <= Cardinality(pool) /\ IsFiniteSet(pool)
      BY <1>2, <3>1, FS_Subset DEF Rankable
    <3> QED
      BY <3>1, <3>2, FS_CardinalityType, FS_EmptySet
  <2>4. ASSUME NEW p \in acc.pairs, p[2] \in pool
        PROVE  position(p[2]) < ahead(w)
    <3>1. p \in Assign(s, L) /\ p[1] \in D /\ p[1] \in W
      BY <1>3
    <3>2. SubmissionRung(s, L, p[1]) = rung
      <4>1. InstanceRung(s, L, p[2]) = SubmissionRung(s, L, p[1])
        BY <1>7, <3>1 DEF Matches, Pool
      <4>2. InstanceRung(s, L, p[2]) = rung
        BY <2>4 DEF Pool
      <4> QED
        BY <4>1, <4>2
    <3>3. position(p[2]) = ahead(p[1])
      BY <1>7, <3>1, <3>2 DEF Matches
    <3>4. ahead(p[1]) < ahead(w)
      BY <1>1, <3>1, <3>2, AheadGrows
    <3> QED
      BY <3>3, <3>4
  <2>5. ASSUME NEW i \in pool, position(i) < ahead(w)
        PROVE  \E p \in acc.pairs : p[2] = i
    <3>1. position(i) \in 1..ahead(w)
      <4> HIDE DEF position, ahead
      <4> QED
        BY <2>2, <2>3, <2>5
    <3>2. PICK v \in AheadOf(s, L, W, w) : ahead(v) = position(i)
      <4> DEFINE n == position(i)
      <4> HIDE DEF n
      <4>1. n \in 1..Cardinality(AheadOf(s, L, W, w))
        BY <3>1 DEF n
      <4>2. \E v \in AheadOf(s, L, W, w) : Cardinality(AheadOf(s, L, W, v)) = n
        BY <1>1, <4>1, AheadIsTaken
      <4> QED
        BY <4>2 DEF n
    <3>3. v \in W /\ (v = w \/ Older(s, v, w)) /\ SubmissionRung(s, L, v) = rung
      BY DEF AheadOf
    <3>4. v # w
      <4> HIDE DEF position, ahead
      <4> QED
        BY <2>2, <2>3, <2>5, <3>2
    <3>5. \A u \in W : u = v \/ Older(s, u, v) => u \in D
      BY <1>1, <3>3, <3>4, OlderTransitive
    <3>6. Reached(s, L, v)
      BY <1>6, <2>1, <3>3, <3>5
    <3>7. Matches(s, L, v, i)
      BY <3>2, <3>3 DEF Matches
    <3>8. <<v, i>> \in Assign(s, L) /\ v \in D
      BY <1>2, <3>3, <3>5, <3>6, <3>7 DEF Assign
    <3>9. <<v, i>> \in acc.pairs /\ <<v, i>>[2] = i
      BY <1>3, <3>8
    <3> QED
      BY <3>9
  <2>6. \A i \in pool : i \in left <=> ~(position(i) < ahead(w))
    BY <2>4, <2>5
  <2> DEFINE size == Cardinality(pool)
  <2>7. Blocked(s, L, w) <=> ~(ahead(w) <= size)
    BY DEF Blocked
  <2>8. CASE Blocked(s, L, w)
    <3>1. left = {}
      <4> HIDE DEF position, ahead, size
      <4>1. \A i \in pool : position(i) < ahead(w)
        BY <2>2, <2>3, <2>7, <2>8 DEF size
      <4> QED
        BY <2>6, <4>1
    <3>2. {p \in Assign(s, L) : p[1] \in D \cup {w}} = acc.pairs
      BY <1>3, <1>8, <2>8
    <3>3. (\E v \in D \cup {w} : Blocked(s, L, v)) = TRUE
      BY <2>8
    <3> QED
      BY <1>4, <3>1, <3>2, <3>3 DEF After, acc
  <2>9. CASE ~Blocked(s, L, w)
    <3>1. ahead(w) \in 1..size
      <4> HIDE DEF position, ahead
      <4> QED
        BY <2>2, <2>7, <2>9
    <3>2. PICK i \in pool : position(i) = ahead(w)
      <4> HIDE DEF ahead
      <4> QED
        BY <1>2, <3>1, PositionIsTaken
    <3>3. i \in left /\ left \subseteq pool
      BY <2>2, <2>6, <3>2
    <3>4. ASSUME NEW j \in left \ {i}
          PROVE  Younger(s, i, j)
      <4>1. CASE Younger(s, j, i)
        <5>1. position(j) < position(i)
          BY <1>2, <3>3, <4>1, PositionGrows
        <5> QED
          BY <2>6, <3>2, <3>3, <5>1
      <4> QED
        BY <1>2, <3>3, <4>1, YoungerTotal
    <3>5. Youngest(s, left) = i
      <4>1. Rankable(s, left) /\ left # {}
        BY <1>2, <3>3, FS_Subset DEF Rankable
      <4> HIDE DEF left
      <4> QED
        BY <3>3, <3>4, <4>1, YoungestIsFirst
    <3>6. Serve(s, L, acc, w) = [pairs |-> acc.pairs \cup {<<w, i>>}, stopped |-> FALSE]
      <4>1. left # {} /\ acc.stopped = FALSE
        BY <1>3, <1>10, <3>3
      <4> HIDE DEF left
      <4> QED
        BY <1>4, <3>5, <4>1
    <3>7. <<w, i>> \in Assign(s, L)
      <4>1. Reached(s, L, w)
        BY <1>6, <2>1, <2>9
      <4>2. Matches(s, L, w, i)
        BY <3>2 DEF Matches
      <4> QED
        BY <1>2, <4>1, <4>2 DEF Assign
    <3>8. ASSUME NEW p \in Assign(s, L), p[1] = w
          PROVE  p = <<w, i>>
      <4>1. <<w, i>>[1] = w /\ <<w, i>>[2] = i
        OBVIOUS
      <4>2. p[2] = i
        BY <3>7, <3>8, <4>1, AssignIsAMatching
      <4> QED
        BY <1>7, <3>8, <4>2
    <3>9. {p \in Assign(s, L) : p[1] \in D \cup {w}} = acc.pairs \cup {<<w, i>>}
      <4>1. <<w, i>>[1] = w
        OBVIOUS
      <4> QED
        BY <1>3, <3>7, <3>8, <4>1
    <3>10. (\E v \in D \cup {w} : Blocked(s, L, v)) = FALSE
      BY <2>1, <2>9
    <3> QED
      BY <3>6, <3>9, <3>10 DEF After, acc
  <2> QED
    BY <2>8, <2>9
<1> QED
  BY <1>9, <1>10 DEF acc

\* The declarative assignment is what the greedy loop of decide() returns (plan.py 682-721),
\* for every snapshot whose submissions and instances can be put in order.
THEOREM AssignIsGreedy ==
  ASSUME NEW s, NEW L, Orderable(s, DOMAIN s.waiting), Rankable(s, DOMAIN s.instances)
  PROVE  Assign(s, L) = AssignLoop(s, L)
<1> DEFINE W == Placeable(s)
           N == Cardinality(W)
           q == OldestFirst(s, W)
<1>1. PICK a : /\ a[0] = Served0
               /\ \A n \in 1..N : a[n] = Serve(s, L, a[n - 1], q[n])
               /\ AssignLoop(s, L) = a[N].pairs
  BY AssignLoopTurns
<1>2. /\ N \in Nat /\ q \in [1..N -> W] /\ FirstOf(q, 0) = {} /\ FirstOf(q, N) = W
      /\ \A n \in 1..N : /\ FirstOf(q, n - 1) = {v \in W : Older(s, v, q[n])}
                         /\ FirstOf(q, n) = FirstOf(q, n - 1) \cup {q[n]}
  <2>1. Orderable(s, W)
    BY FS_Subset DEF Orderable, Placeable
  <2>2. N = Cardinality(W) /\ q = OldestFirst(s, W)
    OBVIOUS
  <2>3. Listing(s, W, N, q)
    <3> HIDE DEF N, q, W
    <3> QED
      BY <2>1, <2>2, ListGrows
  <2> HIDE DEF N, q, W
  <2> QED
    BY <2>3 DEF Listing
<1> HIDE DEF N, q
<1> DEFINE Good == {n \in 0..N : a[n] = After(s, L, FirstOf(q, n))}
<1>3. 0 \in Good
  <2>1. After(s, L, {}) = Served0
    BY DEF After, Served0
  <2>2. 0 \in 0..N
    BY <1>2
  <2> QED
    BY <1>1, <1>2, <2>1, <2>2
<1>4. ASSUME NEW n \in 1..N, n - 1 \in Good
      PROVE  n \in Good
  <2>1. q[n] \in W /\ n \in 0..N
    BY <1>2
  <2>2. Serve(s, L, After(s, L, FirstOf(q, n - 1)), q[n]) = After(s, L, FirstOf(q, n - 1) \cup {q[n]})
    <3> DEFINE E == FirstOf(q, n - 1)
    <3>1. E = {v \in W : Older(s, v, q[n])}
      BY <1>2
    <3> HIDE DEF E
    <3>2. Serve(s, L, After(s, L, E), q[n]) = After(s, L, E \cup {q[n]})
      BY <2>1, <3>1, ServeTurns
    <3> QED
      BY <3>2 DEF E
  <2>3. a[n] = Serve(s, L, a[n - 1], q[n]) /\ a[n - 1] = After(s, L, FirstOf(q, n - 1))
    BY <1>1, <1>4
  <2>4. a[n] = After(s, L, FirstOf(q, n))
    BY <1>2, <2>2, <2>3, Zenon
  <2> QED
    BY <2>1, <2>4
<1> HIDE DEF Good
<1>5. N \in Good
  BY <1>2, <1>3, <1>4, StepByStep
<1>6. AssignLoop(s, L) = {p \in Assign(s, L) : p[1] \in W}
  <2>1. a[N] = After(s, L, W)
    BY <1>2, <1>5 DEF Good
  <2> QED
    BY <1>1, <2>1 DEF After
<1> QED
  BY <1>6 DEF Assign

-----------------------------------------------------------------------------
(***************************************************************************)
(* _wanted_rungs: after n turns, the wants are those of the first n that the *)
(* pools do not cover.                                                     *)
(***************************************************************************)

\* A list of an initial part, and one more.
LEMMA AppendsNext ==
  ASSUME NEW m \in Nat, NEW f
  PROVE  /\ Append([k \in 1..m |-> f[k]], f[m + 1]) = [k \in 1..(m + 1) |-> f[k]]
         /\ Len([k \in 1..m |-> f[k]]) = m
<1> DEFINE C == {f[k] : k \in 1..(m + 1)}
           g == [k \in 1..m |-> f[k]]
           h == [k \in 1..(m + 1) |-> f[k]]
           e == f[m + 1]
<1>1. g \in [1..m -> C] /\ h \in [1..(m + 1) -> C] /\ e \in C
  <2>1. 1..m \subseteq 1..(m + 1) /\ m + 1 \in 1..(m + 1)
    OBVIOUS
  <2> QED
    BY <2>1
<1>2. g \in Seq(C) /\ Len(g) = m /\ h \in Seq(C) /\ Len(h) = m + 1
  <2> HIDE DEF g, h, C
  <2> QED
    BY <1>1, FunctionIsSeq
<1>3. /\ Append(g, e) \in Seq(C) /\ Len(Append(g, e)) = m + 1
      /\ \A k \in 1..m : Append(g, e)[k] = g[k]
      /\ Append(g, e)[m + 1] = e
  <2> HIDE DEF g, h, C, e
  <2> QED
    BY <1>1, <1>2, AppendProperties
<1>4. ASSUME NEW k \in 1..(m + 1)
      PROVE  Append(g, e)[k] = h[k]
  <2>1. CASE k = m + 1
    BY <1>3, <2>1
  <2>2. CASE k \in 1..m
    BY <1>3, <2>2
  <2> QED
    BY <2>1, <2>2
<1>5. Append(g, e) = h
  <2> DEFINE x == Append(g, e)
  <2> HIDE DEF x, h
  <2>1. x \in [1..(m + 1) -> C] /\ h \in [1..(m + 1) -> C]
    <3>1. x \in [1..Len(x) -> C]
      BY <1>3, SeqDef, LenProperties DEF x
    <3> QED
      BY <1>1, <1>3, <3>1 DEF x
  <2>2. \A k \in 1..(m + 1) : x[k] = h[k]
    BY <1>4 DEF x
  <2> QED
    BY <2>1, <2>2 DEF x
<1> QED
  BY <1>2, <1>5

\* The place of a submission in the list.
LEMMA OldestFirstAt ==
  ASSUME NEW s, NEW W, Orderable(s, W), NEW w \in W,
         NEW n, n = Cardinality({v \in W : Older(s, v, w)})
  PROVE  n \in Nat /\ n + 1 \in 1..Cardinality(W) /\ OldestFirst(s, W)[n + 1] = w
<1> DEFINE rank(u) == Cardinality({v \in W : Older(s, v, u)})
           D == {v \in W : Older(s, v, w)}
<1>1. IsFiniteSet(W) /\ Cardinality(W) \in Nat
  BY FS_CardinalityType DEF Orderable
<1>2. n \in Nat /\ n < Cardinality(W)
  <2>1. D \subseteq W \ {w}
    BY OlderTotal
  <2>2. IsFiniteSet(W \ {w}) /\ Cardinality(W \ {w}) = Cardinality(W) - 1
    BY <1>1, FS_RemoveElement
  <2>3. IsFiniteSet(D) /\ Cardinality(D) <= Cardinality(W \ {w}) /\ Cardinality(D) \in Nat
    BY <2>1, <2>2, FS_Subset, FS_CardinalityType
  <2>4. n = Cardinality(D)
    OBVIOUS
  <2> HIDE DEF D
  <2> QED
    BY <1>1, <2>2, <2>3, <2>4
<1>3. n + 1 \in 1..Cardinality(W) /\ (n + 1) - 1 = n
  <2> DEFINE k == Cardinality(W)
  <2> HIDE DEF k
  <2>1. n + 1 \in 1..k /\ (n + 1) - 1 = n
    BY <1>1, <1>2 DEF k
  <2> QED
    BY <2>1 DEF k
<1>4. OldestFirst(s, W)[n + 1] = CHOOSE u \in W : rank(u) = n
  <2>1. OldestFirst(s, W)[n + 1] = CHOOSE u \in W : rank(u) = (n + 1) - 1
    BY <1>3, Zenon DEF OldestFirst
  <2> QED
    BY <1>3, <2>1, Zenon
<1>5. ASSUME NEW u \in W, rank(u) = n, u # w
      PROVE  FALSE
  <2>1. Older(s, u, w) \/ Older(s, w, u)
    BY <1>5, OlderTotal
  <2>2. rank(u) < rank(w) \/ rank(w) < rank(u)
    BY <2>1, RankGrows
  <2>3. rank(w) = n
    OBVIOUS
  <2> HIDE DEF rank
  <2> QED
    BY <1>2, <1>5, <2>2, <2>3
<1>6. (CHOOSE u \in W : rank(u) = n) = w
  <2>1. rank(w) = n
    OBVIOUS
  <2> HIDE DEF rank
  <2>2. \E u \in W : rank(u) = n
    BY <2>1
  <2>3. (CHOOSE u \in W : rank(u) = n) \in W /\ rank(CHOOSE u \in W : rank(u) = n) = n
    BY <2>2, Zenon
  <2> QED
    BY <1>5, <2>3
<1> QED
  BY <1>2, <1>3, <1>4, <1>6

WantOf(s, L, w) == [rung |-> SubmissionRung(s, L, w), disk_gb |-> s.waiting[w].disk_gb]

StalledRungs(s, L) == {SubmissionRung(s, L, w) : w \in Stalled(s, L)}

CoveredBy(s, L, D, rung) == {v \in D \ Uncovered(s, L) : SubmissionRung(s, L, v) = rung}

\* The walk of _wanted_rungs after the submissions of D, an initial part of the list.
Walked(s, L, D) ==
  [pools |-> [rung \in StalledRungs(s, L) |->
                Cardinality(Fitting(s, L, rung)) - Cardinality(CoveredBy(s, L, D, rung))],
   out   |-> [n \in 1..Cardinality(D \cap Uncovered(s, L)) |->
                WantOf(s, L, OldestFirst(s, Uncovered(s, L))[n])]]

\* One turn of the walk.
LEMMA CoverTurns ==
  ASSUME NEW s, NEW L, Countable(s, L), NEW w \in Stalled(s, L),
         NEW D, D = {v \in Stalled(s, L) : Older(s, v, w)}
  PROVE  Cover(s, L, Walked(s, L, D), w) = Walked(s, L, D \cup {w})
<1> DEFINE W == Stalled(s, L)
           U == Uncovered(s, L)
           R == StalledRungs(s, L)
           rung == SubmissionRung(s, L, w)
           a(r) == Cardinality(Fitting(s, L, r))
           c(r) == Cardinality(CoveredBy(s, L, D, r))
           A == AheadOf(s, L, W, w)
           first == OldestFirst(s, U)
           pools == [r \in R |-> a(r) - c(r)]
           m == Cardinality(D \cap U)
           want == [n \in 1..Cardinality(U) |-> WantOf(s, L, first[n])]
           out == [n \in 1..m |-> WantOf(s, L, first[n])]
<1>1. /\ Orderable(s, W) /\ U \subseteq W /\ Orderable(s, U) /\ IsFiniteSet(W)
      /\ D \subseteq W /\ w \notin D /\ IsFiniteSet(D) /\ rung \in R
  <2>1. W \subseteq DOMAIN s.waiting /\ U \subseteq W
    BY DEF Stalled, Uncovered
  <2>2. Orderable(s, W) /\ Orderable(s, U) /\ IsFiniteSet(W)
    BY <2>1, FS_Subset DEF Countable, Orderable
  <2>3. w \notin D
    BY <2>2, OlderTotal
  <2>4. rung \in R
    BY DEF StalledRungs
  <2> QED
    BY <2>1, <2>2, <2>3, <2>4, FS_Subset
<1>2. ASSUME NEW r \in R
      PROVE  a(r) \in Nat /\ c(r) \in Nat /\ IsFiniteSet(CoveredBy(s, L, D, r))
  <2>1. Fitting(s, L, r) \subseteq Live(s) /\ CoveredBy(s, L, D, r) \subseteq D
    BY DEF Fitting, Available, CoveredBy
  <2>2. IsFiniteSet(Fitting(s, L, r)) /\ IsFiniteSet(CoveredBy(s, L, D, r))
    BY <1>1, <2>1, CountsAreNaturals, FS_Subset
  <2> QED
    BY <2>2, FS_CardinalityType
<1>3. Walked(s, L, D) = [pools |-> pools, out |-> out]
  BY DEF Walked
<1>4. A = {v \in D : SubmissionRung(s, L, v) = rung} \cup {w}
  BY DEF AheadOf
<1>5. w \in U <=> Cardinality(A) > a(rung)
  BY DEF Uncovered, Fitting
<1>6. CASE w \notin U
  <2>1. CoveredBy(s, L, D, rung) \subseteq A \ {w} /\ IsFiniteSet(A) /\ w \in A
    BY <1>1, <1>4, FS_Subset DEF CoveredBy
  <2>2. /\ c(rung) <= Cardinality(A \ {w}) /\ Cardinality(A \ {w}) = Cardinality(A) - 1
        /\ Cardinality(A) \in Nat
    BY <2>1, FS_Subset, FS_RemoveElement, FS_CardinalityType
  <2>3. ~(Cardinality(A) > a(rung)) /\ a(rung) \in Nat /\ c(rung) \in Nat
    BY <1>1, <1>2, <1>5, <1>6
  <2>4. a(rung) - c(rung) > 0
    <3> HIDE DEF a, c, A, rung
    <3> QED
      BY <2>2, <2>3
  <2>5. (D \cup {w}) \cap U = D \cap U
    BY <1>6
  <2>6. ASSUME NEW r \in R
        PROVE  Cardinality(CoveredBy(s, L, D \cup {w}, r)) = IF r = rung THEN c(r) + 1 ELSE c(r)
    <3>1. CASE r = rung
      <4>1. /\ CoveredBy(s, L, D \cup {w}, r) = CoveredBy(s, L, D, r) \cup {w}
            /\ w \notin CoveredBy(s, L, D, r)
        BY <1>1, <1>6, <3>1 DEF CoveredBy
      <4> QED
        BY <1>2, <3>1, <4>1, FS_AddElement
    <3>2. CASE r # rung
      <4>1. CoveredBy(s, L, D \cup {w}, r) = CoveredBy(s, L, D, r)
        BY <3>2 DEF CoveredBy
      <4> QED
        BY <3>2, <4>1
    <3> QED
      BY <3>1, <3>2
  <2> DEFINE pools2 == [r \in R |-> a(r) - Cardinality(CoveredBy(s, L, D \cup {w}, r))]
  <2>7. Walked(s, L, D \cup {w}) = [pools |-> pools2, out |-> out]
    BY <2>5 DEF Walked
  <2>8. pools2 = [pools EXCEPT ![rung] = pools[rung] - 1]
    <3>1. ASSUME NEW r \in R
          PROVE  a(r) - Cardinality(CoveredBy(s, L, D \cup {w}, r))
                   = IF r = rung THEN (a(r) - c(r)) - 1 ELSE a(r) - c(r)
      <4> DEFINE z == Cardinality(CoveredBy(s, L, D \cup {w}, r))
      <4>1. z = IF r = rung THEN c(r) + 1 ELSE c(r)
        BY <2>6
      <4>2. a(r) \in Nat /\ c(r) \in Nat
        BY <1>2
      <4> HIDE DEF z, a, c
      <4>3. a(r) - z = IF r = rung THEN (a(r) - c(r)) - 1 ELSE a(r) - c(r)
        BY <4>1, <4>2
      <4> QED
        BY <4>3 DEF z
    <3> HIDE DEF a, c, R, rung
    <3> QED
      BY <1>1, <3>1
  <2>9. Cover(s, L, [pools |-> pools, out |-> out], w)
          = [pools |-> [pools EXCEPT ![rung] = pools[rung] - 1], out |-> out]
    <3>1. pools[rung] > 0
      BY <1>1, <2>4
    <3> HIDE DEF pools, out
    <3>2. Cover(s, L, [pools |-> pools, out |-> out], w)
            = [[pools |-> pools, out |-> out] EXCEPT !.pools[rung] = @ - 1]
      BY <3>1 DEF Cover
    <3> QED
      BY <3>2
  <2> QED
    BY <1>3, <2>7, <2>8, <2>9, Zenon
<1>7. CASE w \in U
  <2>1. CoveredBy(s, L, D, rung) = A \ U /\ AheadOf(s, L, U, w) = A \cap U
    <3>1. CoveredBy(s, L, D, rung) = A \ U
      BY <1>4, <1>7 DEF CoveredBy
    <3>2. AheadOf(s, L, U, w) = A \cap U
      BY <1>1 DEF AheadOf
    <3> QED
      BY <3>1, <3>2
  <2>2. a(rung) \in Nat /\ Cardinality(A) = a(rung) + Cardinality(A \cap U)
    BY <1>7, <2>1, CoveredAhead
  <2>3. c(rung) = a(rung)
    <3>1. IsFiniteSet(A) /\ Cardinality(A) \in Nat /\ Cardinality(A \cap U) \in Nat
      <4>1. IsFiniteSet(A)
        BY <1>1, <1>4, FS_Subset DEF AheadOf
      <4> QED
        BY <4>1, FS_Subset, FS_CardinalityType
    <3>2. Cardinality(A \ U) = Cardinality(A) - Cardinality(A \cap U)
      BY <3>1, FS_Difference
    <3>3. c(rung) = Cardinality(A \ U)
      BY <2>1
    <3> HIDE DEF a, c, A, U, rung
    <3> QED
      BY <2>2, <3>1, <3>2, <3>3
  <2>4. D \cap U = {v \in U : Older(s, v, w)}
    BY <1>1
  <2>5. m \in Nat /\ m + 1 \in 1..Cardinality(U) /\ first[m + 1] = w
    <3>1. m = Cardinality({v \in U : Older(s, v, w)})
      BY <2>4
    <3> HIDE DEF m, U
    <3> QED
      BY <1>1, <1>7, <3>1, OldestFirstAt DEF U
  <2>6. Cardinality((D \cup {w}) \cap U) = m + 1
    <3>1. (D \cup {w}) \cap U = (D \cap U) \cup {w} /\ w \notin D \cap U
      BY <1>1, <1>7
    <3>2. IsFiniteSet(D \cap U)
      BY <1>1, FS_Subset
    <3> QED
      BY <3>1, <3>2, FS_AddElement
  <2>7. \A r : CoveredBy(s, L, D \cup {w}, r) = CoveredBy(s, L, D, r)
    BY <1>7 DEF CoveredBy
  <2>8. Walked(s, L, D \cup {w})
          = [pools |-> pools, out |-> [n \in 1..(m + 1) |-> WantOf(s, L, first[n])]]
    BY <2>6, <2>7 DEF Walked
  <2>9. Append(out, WantOf(s, L, w)) = [n \in 1..(m + 1) |-> WantOf(s, L, first[n])]
    <3>1. 1..m \subseteq 1..Cardinality(U) /\ 1..(m + 1) \subseteq 1..Cardinality(U)
      <4> DEFINE k == Cardinality(U)
      <4>1. k \in Nat
        BY <1>1, FS_CardinalityType DEF Orderable
      <4> HIDE DEF k, m
      <4> QED
        BY <2>5, <4>1 DEF k
    <3>2. want[m + 1] = WantOf(s, L, w)
      BY <2>5
    <3>3. /\ [n \in 1..m |-> want[n]] = out
          /\ [n \in 1..(m + 1) |-> want[n]] = [n \in 1..(m + 1) |-> WantOf(s, L, first[n])]
      BY <3>1
    <3>4. Append([n \in 1..m |-> want[n]], want[m + 1]) = [n \in 1..(m + 1) |-> want[n]]
      <4> HIDE DEF want, m
      <4> QED
        BY <2>5, AppendsNext
    <3> QED
      BY <3>2, <3>3, <3>4
  <2>10. Cover(s, L, [pools |-> pools, out |-> out], w)
           = [pools |-> pools, out |-> Append(out, WantOf(s, L, w))]
    <3>1. ~(pools[rung] > 0)
      <4>1. pools[rung] = a(rung) - c(rung)
        BY <1>1
      <4> HIDE DEF a, c, pools
      <4> QED
        BY <2>2, <2>3, <4>1
    <3> HIDE DEF pools, out
    <3>2. Cover(s, L, [pools |-> pools, out |-> out], w)
            = [[pools |-> pools, out |-> out] EXCEPT !.out = Append(@, WantOf(s, L, w))]
      BY <3>1 DEF Cover, WantOf
    <3> DEFINE x == Append(out, WantOf(s, L, w))
    <3> HIDE DEF x
    <3>3. Cover(s, L, [pools |-> pools, out |-> out], w)
            = [[pools |-> pools, out |-> out] EXCEPT !.out = x]
      BY <3>2 DEF x
    <3> QED
      BY <3>3 DEF x
  <2> QED
    BY <1>3, <2>8, <2>9, <2>10, Zenon
<1> QED
  BY <1>6, <1>7

Walks(s, L) == [pools : [StalledRungs(s, L) -> Int],
                out   : Seq({WantOf(s, L, w) : w \in Stalled(s, L)})]

Walked0(s, L) == [pools |-> Pools(s, L), out |-> << >>]

LEMMA CoverIsTyped ==
  ASSUME NEW s, NEW L, NEW acc \in Walks(s, L), NEW w \in Stalled(s, L)
  PROVE  Cover(s, L, acc, w) \in Walks(s, L)
<1> DEFINE rung == SubmissionRung(s, L, w)
           R == StalledRungs(s, L)
           C == {WantOf(s, L, v) : v \in Stalled(s, L)}
<1>1. acc.pools \in [R -> Int] /\ acc.out \in Seq(C) /\ rung \in R /\ WantOf(s, L, w) \in C
  BY DEF Walks, StalledRungs
<1>2. CASE acc.pools[rung] > 0
  <2> DEFINE x == [acc.pools EXCEPT ![rung] = acc.pools[rung] - 1]
  <2>1. x \in [R -> Int]
    <3> HIDE DEF R, rung
    <3> QED
      BY <1>1
  <2>2. Cover(s, L, acc, w) = [acc EXCEPT !.pools = x]
    BY <1>2 DEF Cover
  <2> HIDE DEF x
  <2> QED
    BY <2>1, <2>2 DEF Walks
<1>3. CASE ~(acc.pools[rung] > 0)
  <2> DEFINE x == Append(acc.out, WantOf(s, L, w))
  <2>1. x \in Seq(C)
    <3> HIDE DEF C
    <3> QED
      BY <1>1, AppendProperties
  <2>2. Cover(s, L, acc, w) = [acc EXCEPT !.out = x]
    BY <1>3 DEF Cover, WantOf
  <2> HIDE DEF x
  <2> QED
    BY <2>1, <2>2 DEF Walks
<1> QED
  BY <1>2, <1>3

\* The walk, turn by turn.
LEMMA WantedLoopTurns ==
  ASSUME NEW s, NEW L, Countable(s, L), Orderable(s, Stalled(s, L)),
         NEW N, N = Cardinality(Stalled(s, L)), NEW q, q = OldestFirst(s, Stalled(s, L))
  PROVE  \E a : /\ a[0] = Walked0(s, L)
                /\ \A n \in 1..N : a[n] = Cover(s, L, a[n - 1], q[n])
                /\ WantedLoop(s, L) =
                     a[N].out
                       \o [n \in 1..Max({0, s.queue_depth - Cardinality(Stalled(s, L))}) |-> Unsized]
<1> DEFINE V == Walks(s, L)
           base == Walked0(s, L)
           step == [n \in 1..N |-> [v \in V |-> Cover(s, L, v, q[n])]]
           Walk(g) == [u \in SUBSET (1..N) |->
                         IF u = {} THEN base ELSE Cover(s, L, g[u \ {Max(u)}], q[Max(u)])]
           iter == CHOOSE g : g = Walk(g)
<1>1. N \in Nat /\ q \in [1..N -> Stalled(s, L)]
  BY ListGrows DEF Listing
<1>2. step \in [1..N -> [V -> V]] /\ base \in V
  <2>1. \A n \in 1..N : \A v \in V : Cover(s, L, v, q[n]) \in V
    BY <1>1, CoverIsTyped
  <2>2. base \in V
    <3>1. Pools(s, L) \in [StalledRungs(s, L) -> Int]
      <4>1. ASSUME NEW r
            PROVE  Cardinality({i \in Available(s, L) : InstanceRung(s, L, i) = r}) \in Int
        <5>1. {i \in Available(s, L) : InstanceRung(s, L, i) = r} \subseteq Live(s)
          BY DEF Available
        <5> QED
          BY <5>1, CountsAreNaturals, FS_Subset, FS_CardinalityType
      <4> QED
        BY <4>1 DEF Pools, StalledRungs
    <3>2. << >> \in Seq({WantOf(s, L, w) : w \in Stalled(s, L)})
      OBVIOUS
    <3> QED
      BY <3>1, <3>2 DEF Walks, Walked0
  <2> HIDE DEF V, base
  <2> QED
    BY <2>1, <2>2
<1> HIDE DEF step, base
<1>3. PICK g \in [SUBSET (1..N) -> V] : IsLoop(g, N, base, step)
  <2> HIDE DEF V
  <2> QED
    BY <1>1, <1>2, LoopExists
<1>4. g = Walk(g)
  <2>1. ASSUME NEW u \in SUBSET (1..N), u # {}
        PROVE  step[Max(u)][g[u \ {Max(u)}]] = Cover(s, L, g[u \ {Max(u)}], q[Max(u)])
    <3>1. Max(u) \in 1..N /\ u \ {Max(u)} \in SUBSET (1..N)
      <4>1. PICK m \in u : \A n \in u : n <= m
        BY <1>1, <2>1, LastOfSome
      <4>2. \A n \in u : m >= n
        BY <4>1
      <4> QED
        BY <4>2 DEF Max
    <3>2. g[u \ {Max(u)}] \in V
      BY <3>1
    <3> HIDE DEF V
    <3> QED
      BY <3>1, <3>2 DEF step
  <2>2. ASSUME NEW u \in SUBSET (1..N)
        PROVE  g[u] = IF u = {} THEN base ELSE Cover(s, L, g[u \ {Max(u)}], q[Max(u)])
    BY <1>3, <2>1 DEF IsLoop
  <2> QED
    BY <2>2
<1>5. WantedLoop(s, L) =
        iter[1..N].out
          \o [n \in 1..Max({0, s.queue_depth - Cardinality(Stalled(s, L))}) |-> Unsized]
  <2>1. DOMAIN q = 1..N
    BY <1>1
  <2> QED
    BY <2>1, Zenon DEF WantedLoop, FoldLeft, MapThenFoldSet, Walked0, base
<1>6. iter = Walk(iter)
  <2> HIDE DEF Walk
  <2> QED
    BY <1>4, Zenon
<1> HIDE DEF iter
<1> DEFINE a == [n \in 0..N |-> iter[1..n]]
<1>7. a[0] = base
  <2>1. {} \in SUBSET (1..N) /\ 1..0 = {} /\ 0 \in 0..N
    BY <1>1
  <2>2. iter[{}] = base
    BY <1>6, <2>1
  <2> QED
    BY <2>1, <2>2
<1>8. ASSUME NEW n \in 1..N
      PROVE  a[n] = Cover(s, L, a[n - 1], q[n])
  <2>1. /\ 1..n \in SUBSET (1..N) /\ 1..n # {} /\ Max(1..n) = n
        /\ (1..n) \ {n} = 1..(n - 1)
    BY <1>1, LastOfUpTo
  <2>2. iter[1..n] = Cover(s, L, iter[(1..n) \ {Max(1..n)}], q[Max(1..n)])
    <3> DEFINE u == 1..n
    <3> HIDE DEF u
    <3>1. iter[u] = Cover(s, L, iter[u \ {Max(u)}], q[Max(u)])
      BY <1>6, <2>1 DEF u
    <3> QED
      BY <3>1 DEF u
  <2>3. n \in 0..N /\ n - 1 \in 0..N
    BY <1>1
  <2> QED
    BY <2>1, <2>2, <2>3
<1>9. a[N] = iter[1..N]
  BY <1>1
<1> HIDE DEF a
<1> QED
  BY <1>5, <1>7, <1>8, <1>9 DEF base

\* The declarative list of creates is what the walk of _wanted_rungs returns.
LEMMA WantedIsGreedy ==
  ASSUME NEW s, NEW L, Countable(s, L)
  PROVE  WantedLoop(s, L) = Wanted(s, L)
<1> DEFINE W == Stalled(s, L)
           U == Uncovered(s, L)
           N == Cardinality(W)
           q == OldestFirst(s, W)
           first == OldestFirst(s, U)
           extra == [n \in 1..Max({0, s.queue_depth - Cardinality(W)}) |-> Unsized]
<1>1. Orderable(s, W) /\ U \subseteq W /\ Orderable(s, U)
  <2>1. W \subseteq DOMAIN s.waiting /\ U \subseteq W
    BY DEF Stalled, Uncovered
  <2> QED
    BY <2>1, FS_Subset DEF Countable, Orderable
<1>2. PICK a : /\ a[0] = Walked0(s, L)
               /\ \A n \in 1..N : a[n] = Cover(s, L, a[n - 1], q[n])
               /\ WantedLoop(s, L) = a[N].out \o extra
  BY <1>1, WantedLoopTurns
<1>3. /\ N \in Nat /\ q \in [1..N -> W] /\ FirstOf(q, 0) = {} /\ FirstOf(q, N) = W
      /\ \A n \in 1..N : /\ FirstOf(q, n - 1) = {v \in W : Older(s, v, q[n])}
                         /\ FirstOf(q, n) = FirstOf(q, n - 1) \cup {q[n]}
  <2>1. N = Cardinality(W) /\ q = OldestFirst(s, W)
    OBVIOUS
  <2>2. Listing(s, W, N, q)
    <3>1. Orderable(s, W)
      BY <1>1
    <3> HIDE DEF N, q, W
    <3> QED
      BY <2>1, <3>1, ListGrows
  <2> HIDE DEF N, q, W
  <2> QED
    BY <2>2 DEF Listing
<1> HIDE DEF N, q
<1> DEFINE Good == {n \in 0..N : a[n] = Walked(s, L, FirstOf(q, n))}
<1>4. 0 \in Good
  <2>1. Walked(s, L, {}) = Walked0(s, L)
    <3>1. \A r : CoveredBy(s, L, {}, r) = {}
      BY DEF CoveredBy
    <3>2. Cardinality({}) = 0 /\ {} \cap U = {}
      BY FS_EmptySet
    <3>3. ASSUME NEW r \in StalledRungs(s, L)
          PROVE  Cardinality(Fitting(s, L, r)) - Cardinality(CoveredBy(s, L, {}, r))
                   = Cardinality({i \in Available(s, L) : InstanceRung(s, L, i) = r})
      <4>1. Fitting(s, L, r) = {i \in Available(s, L) : InstanceRung(s, L, i) = r}
        BY DEF Fitting
      <4>2. Fitting(s, L, r) \subseteq Live(s)
        BY DEF Fitting, Available
      <4>3. Cardinality(Fitting(s, L, r)) \in Nat
        BY <4>2, CountsAreNaturals, FS_Subset, FS_CardinalityType
      <4> DEFINE x == Cardinality(Fitting(s, L, r))
      <4> HIDE DEF x
      <4>4. x - 0 = x
        BY <4>3 DEF x
      <4>5. Cardinality(CoveredBy(s, L, {}, r)) = 0
        BY <3>1, <3>2
      <4> QED
        BY <4>1, <4>4, <4>5 DEF x
    <3>4. Pools(s, L) = [r \in StalledRungs(s, L) |->
                           Cardinality(Fitting(s, L, r)) - Cardinality(CoveredBy(s, L, {}, r))]
      BY <3>3 DEF Pools, StalledRungs
    <3>5. [n \in 1..0 |-> WantOf(s, L, first[n])] = << >>
      OBVIOUS
    <3> QED
      BY <3>2, <3>4, <3>5 DEF Walked, Walked0
  <2>2. 0 \in 0..N
    BY <1>3
  <2>3. a[0] = Walked(s, L, FirstOf(q, 0))
    BY <1>2, <1>3, <2>1
  <2> QED
    BY <2>2, <2>3
<1>5. ASSUME NEW n \in 1..N, n - 1 \in Good
      PROVE  n \in Good
  <2>1. q[n] \in W /\ n \in 0..N
    BY <1>3
  <2>2. Cover(s, L, Walked(s, L, FirstOf(q, n - 1)), q[n]) = Walked(s, L, FirstOf(q, n - 1) \cup {q[n]})
    <3> DEFINE E == FirstOf(q, n - 1)
    <3>1. E = {v \in W : Older(s, v, q[n])}
      BY <1>3
    <3> HIDE DEF E
    <3>2. Cover(s, L, Walked(s, L, E), q[n]) = Walked(s, L, E \cup {q[n]})
      BY <2>1, <3>1, CoverTurns
    <3> QED
      BY <3>2 DEF E
  <2>3. a[n] = Cover(s, L, a[n - 1], q[n]) /\ a[n - 1] = Walked(s, L, FirstOf(q, n - 1))
    BY <1>2, <1>5
  <2>4. a[n] = Walked(s, L, FirstOf(q, n))
    BY <1>3, <2>2, <2>3, Zenon
  <2> QED
    BY <2>1, <2>4
<1> HIDE DEF Good
<1>6. N \in Good
  BY <1>3, <1>4, <1>5, StepByStep
<1>7. a[N].out = [n \in 1..Cardinality(U) |-> WantOf(s, L, first[n])]
  <2>1. a[N] = Walked(s, L, W)
    BY <1>3, <1>6 DEF Good
  <2>2. W \cap U = U
    BY <1>1
  <2>3. Walked(s, L, W).out
          = [n \in 1..Cardinality(W \cap U) |-> WantOf(s, L, first[n])]
    <3> HIDE DEF W
    <3> QED
      BY DEF Walked
  <2> QED
    BY <2>1, <2>2, <2>3, Zenon
<1>8. Len(first) = Cardinality(U)
  <2>1. Listing(s, U, Cardinality(U), first)
    <3>1. Orderable(s, U)
      BY <1>1
    <3>2. first = OldestFirst(s, U)
      OBVIOUS
    <3> HIDE DEF U, first
    <3> QED
      BY <3>1, <3>2, ListGrows
  <2>2. Cardinality(U) \in Nat /\ first \in [1..Cardinality(U) -> U]
    <3> HIDE DEF U, first
    <3> QED
      BY <2>1 DEF Listing
  <2> QED
    BY <2>2, FunctionIsSeq
<1>9. Wanted(s, L) = [n \in 1..Len(first) |-> WantOf(s, L, first[n])] \o extra
  BY DEF Wanted, WantOf
<1> QED
  BY <1>2, <1>7, <1>8, <1>9

-----------------------------------------------------------------------------
(***************************************************************************)
(* _allocate: after n turns, the creates are the longest initial part of the *)
(* first n of which every want fits.                                       *)
(***************************************************************************)

\* What decide() needs of the catalogue, of the disks and of the quotas to add them up.
Measurable(s, L) ==
  /\ \A rung \in Rungs(L) : rung \in Nat /\ L.sizes[rung] \in Nat
  /\ \A i \in Live(s) : VolumeGb(s, i) \in Nat
  /\ \A w \in DOMAIN s.waiting : s.waiting[w].disk_gb \in Nat \cup {None}
  /\ L.max_vcpus \in Nat \cup {None} /\ L.max_ram_gb \in Nat \cup {None}
  /\ L.max_volumes \in Nat \cup {None} /\ L.max_volume_gb \in Nat \cup {None}

\* The sum of the first n is the sum of those before the last and the last.
LEMMA SumUpTo ==
  ASSUME NEW n \in Nat, NEW f, \A k \in 1..n : f[k] \in Int
  PROVE  /\ SumFunction([k \in 1..n |-> f[k]]) \in Int
         /\ n = 0 => SumFunction([k \in 1..n |-> f[k]]) = 0
         /\ n > 0 => SumFunction([k \in 1..n |-> f[k]])
                       = SumFunction([k \in 1..(n - 1) |-> f[k]]) + f[n]
<1> DEFINE S == 1..n
           T == 1..(n - 1)
           fS == [k \in S |-> f[k]]
           fT == [k \in T |-> f[k]]
<1>1. IsFiniteSet(S)
  BY FS_Interval
<1>2. \A k \in S : f[k] \in Int
  OBVIOUS
<1>3. SumFunction(fS) = SumFunctionOnSet(fS, S) /\ SumFunction(fT) = SumFunctionOnSet(fT, T)
  BY DEF SumFunction
<1>4. T \in SUBSET S /\ (n > 0 => n \in S /\ S \ {n} = T) /\ (n = 0 => S = {})
  OBVIOUS
<1>5. \A k \in S : fS[k] = f[k]
  OBVIOUS
<1>6. \A k \in T : fT[k] = f[k]
  OBVIOUS
<1> HIDE DEF S, T, fS, fT
<1>7. PICK g \in [SUBSET S -> Int] : IsSumWalk(g, f, S) /\ SumsBy(g, f, S)
  BY <1>1, <1>2, SumsAreOneWalk
<1>8. TakesAny(g, f, S)
  BY <1>1, <1>2, <1>7, WalkTakesAny
<1>9. SumFunctionOnSet(fS, S) = g[S] /\ SumFunctionOnSet(fT, T) = g[T]
  BY <1>4, <1>5, <1>6, <1>7 DEF SumsBy
<1>10. g[S] \in Int /\ g[T] \in Int
  BY <1>4, <1>7
<1>11. n = 0 => g[S] = 0
  BY <1>4, <1>7 DEF IsSumWalk
<1>12. n > 0 => g[S] = g[T] + f[n]
  <2> SUFFICES ASSUME n > 0 PROVE g[S] = g[T] + f[n]
    OBVIOUS
  <2>1. g[S] = f[n] + g[S \ {n}]
    BY <1>4, <1>8 DEF TakesAny
  <2>2. S \ {n} = T /\ f[n] \in Int
    BY <1>2, <1>4
  <2> DEFINE x == f[n]
             y == g[T]
  <2>3. x \in Int /\ y \in Int
    BY <1>10, <2>2
  <2>4. g[S] = x + y
    BY <2>1, <2>2
  <2> HIDE DEF x, y
  <2>5. x + y = y + x
    BY <2>3
  <2> QED
    BY <2>4, <2>5 DEF x, y
<1> QED
  BY <1>3, <1>9, <1>10, <1>11, <1>12 DEF fS, fT, S, T

LEMMA NeedsAreNaturals ==
  ASSUME NEW s, NEW L, Measurable(s, L), NEW rung
  PROVE  Vcpus(L, rung) \in Nat /\ RamGb(L, rung) \in Nat
BY DEF Measurable, Vcpus, RamGb

Quotas == [vcpus : Int, ram : Int, volumes : Int, volume_gb : Int]

LEMMA SumIsAnInteger ==
  ASSUME NEW S, IsFiniteSet(S), NEW f, \A x \in S : f[x] \in Int
  PROVE  SumFunctionOnSet(f, S) \in Int
<1>1. PICK g \in [SUBSET S -> Int] : SumsBy(g, f, S)
  BY SumsAreOneWalk
<1>2. SumFunctionOnSet(f, S) = g[S]
  BY <1>1 DEF SumsBy
<1> QED
  BY <1>2

LEMMA QuotaUsedIsTyped ==
  ASSUME NEW s, NEW L, Countable(s, L), Measurable(s, L)
  PROVE  QuotaUsed(s, L) \in Quotas
<1> DEFINE S == Live(s)
           v == [i \in S |-> Vcpus(L, InstanceRung(s, L, i))]
           r == [i \in S |-> RamGb(L, InstanceRung(s, L, i))]
           g == [i \in S |-> VolumeGb(s, i)]
<1>1. IsFiniteSet(S)
  BY CountsAreNaturals
<1>2. /\ \A i \in S : v[i] \in Int
      /\ \A i \in S : r[i] \in Int
      /\ \A i \in S : g[i] \in Int
  BY NeedsAreNaturals DEF Measurable
<1>3. DOMAIN v = S /\ DOMAIN r = S /\ DOMAIN g = S
  OBVIOUS
<1>4. Cardinality(VolumeHolders(s)) \in Int
  <2>1. VolumeHolders(s) \subseteq S
    BY DEF VolumeHolders
  <2> QED
    BY <1>1, <2>1, FS_Subset, FS_CardinalityType
<1>5. QuotaUsed(s, L) = [vcpus     |-> SumFunction(v), ram |-> SumFunction(r),
                         volumes   |-> Cardinality(VolumeHolders(s)),
                         volume_gb |-> SumFunction(g)]
  BY DEF QuotaUsed
<1> HIDE DEF S, v, r, g
<1>6. SumFunction(v) \in Int /\ SumFunction(r) \in Int /\ SumFunction(g) \in Int
  BY <1>1, <1>2, <1>3, SumIsAnInteger DEF SumFunction
<1> QED
  BY <1>4, <1>5, <1>6 DEF Quotas

\* A quota with one want more.
Taking(L, quota, want) ==
  [vcpus     |-> quota.vcpus + Vcpus(L, want.rung),
   ram       |-> quota.ram + RamGb(L, want.rung),
   volumes   |-> quota.volumes + Volumes(DiskGb(want)),
   volume_gb |-> quota.volume_gb + DiskGb(want)]

LEMMA QuotaGrows ==
  ASSUME NEW s, NEW L, Countable(s, L), Measurable(s, L), NEW wants,
         NEW N \in Nat, \A k \in 1..N : DiskGb(wants[k]) \in Nat
  PROVE  /\ QuotaWith(s, L, wants, 0) = QuotaUsed(s, L)
         /\ \A n \in 0..N : QuotaWith(s, L, wants, n) \in Quotas
         /\ \A n \in 1..N :
              QuotaWith(s, L, wants, n) = Taking(L, QuotaWith(s, L, wants, n - 1), wants[n])
<1> DEFINE used == QuotaUsed(s, L)
           v == [k \in 1..N |-> Vcpus(L, wants[k].rung)]
           r == [k \in 1..N |-> RamGb(L, wants[k].rung)]
           g == [k \in 1..N |-> DiskGb(wants[k])]
           vs(n) == SumFunction([k \in 1..n |-> v[k]])
           rs(n) == SumFunction([k \in 1..n |-> r[k]])
           gs(n) == SumFunction([k \in 1..n |-> g[k]])
           cs(n) == Cardinality(Takers(wants, n))
<1>1. used \in Quotas
  BY QuotaUsedIsTyped
<1>2. ASSUME NEW n \in 0..N
      PROVE  /\ n \in Nat /\ 1..n \subseteq 1..N
             /\ \A k \in 1..n : v[k] \in Int /\ r[k] \in Int /\ g[k] \in Int
             /\ QuotaWith(s, L, wants, n) =
                  [vcpus   |-> used.vcpus + vs(n), ram |-> used.ram + rs(n),
                   volumes |-> used.volumes + cs(n), volume_gb |-> used.volume_gb + gs(n)]
  <2>1. n \in Nat /\ 1..n \subseteq 1..N
    OBVIOUS
  <2>2. \A k \in 1..N : v[k] \in Int /\ r[k] \in Int /\ g[k] \in Int
    BY NeedsAreNaturals
  <2>3. /\ [k \in 1..n |-> v[k]] = [k \in 1..n |-> Vcpus(L, wants[k].rung)]
        /\ [k \in 1..n |-> r[k]] = [k \in 1..n |-> RamGb(L, wants[k].rung)]
        /\ [k \in 1..n |-> g[k]] = [k \in 1..n |-> DiskGb(wants[k])]
    BY <2>1
  <2>4. QuotaWith(s, L, wants, n) =
                  [vcpus   |-> used.vcpus + vs(n), ram |-> used.ram + rs(n),
                   volumes |-> used.volumes + cs(n), volume_gb |-> used.volume_gb + gs(n)]
    <3> HIDE DEF used, v, r, g
    <3> QED
      BY <2>3, Zenon DEF QuotaWith, used
  <2> QED
    BY <2>1, <2>2, <2>4
<1>3. ASSUME NEW n \in 0..N
      PROVE  /\ vs(n) \in Int /\ rs(n) \in Int /\ gs(n) \in Int /\ cs(n) \in Nat
             /\ n = 0 => vs(n) = 0 /\ rs(n) = 0 /\ gs(n) = 0 /\ cs(n) = 0
             /\ n > 0 => /\ vs(n) = vs(n - 1) + v[n]
                         /\ rs(n) = rs(n - 1) + r[n]
                         /\ gs(n) = gs(n - 1) + g[n]
                         /\ cs(n) = cs(n - 1) + Volumes(g[n])
  <2>1. IsFiniteSet(Takers(wants, n)) /\ cs(n) \in Nat
    <3>1. Takers(wants, n) \subseteq 1..n /\ IsFiniteSet(1..n)
      BY <1>2, FS_Interval DEF Takers
    <3> QED
      BY <3>1, FS_Subset, FS_CardinalityType
  <2>2. n = 0 => cs(n) = 0
    <3>1. n = 0 => Takers(wants, n) = {}
      BY DEF Takers
    <3> QED
      BY <3>1, FS_EmptySet
  <2>3. ASSUME n > 0
        PROVE  cs(n) = cs(n - 1) + Volumes(g[n])
    <3>1. n \in 1..N /\ 1..n = 1..(n - 1) \cup {n} /\ n \notin 1..(n - 1) /\ g[n] = DiskGb(wants[n])
      BY <2>3
    <3>2. CASE DiskGb(wants[n]) > 0
      <4>1. Takers(wants, n) = Takers(wants, n - 1) \cup {n} /\ n \notin Takers(wants, n - 1)
        BY <3>1, <3>2 DEF Takers
      <4>2. IsFiniteSet(Takers(wants, n - 1))
        BY <2>1, <4>1, FS_Subset
      <4>3. cs(n) = cs(n - 1) + 1
        BY <4>1, <4>2, FS_AddElement
      <4>4. Volumes(g[n]) = 1
        BY <3>1, <3>2 DEF Volumes
      <4> QED
        BY <4>3, <4>4
    <3>3. CASE ~(DiskGb(wants[n]) > 0)
      <4>1. Takers(wants, n) = Takers(wants, n - 1)
        BY <3>1, <3>3 DEF Takers
      <4>2. Volumes(g[n]) = 0
        BY <3>1, <3>3 DEF Volumes
      <4> DEFINE x == cs(n)
      <4>3. x = cs(n - 1) /\ x \in Nat
        BY <2>1, <4>1
      <4> HIDE DEF x
      <4>4. x = x + 0
        BY <4>3
      <4> QED
        BY <4>2, <4>3, <4>4 DEF x
    <3> QED
      BY <3>2, <3>3
  <2>4. n \in Nat /\ \A k \in 1..n : v[k] \in Int /\ r[k] \in Int /\ g[k] \in Int
    BY <1>2
  <2> HIDE DEF v, r, g, cs
  <2>5. vs(n) \in Int /\ (n = 0 => vs(n) = 0) /\ (n > 0 => vs(n) = vs(n - 1) + v[n])
    BY <2>4, SumUpTo
  <2>6. rs(n) \in Int /\ (n = 0 => rs(n) = 0) /\ (n > 0 => rs(n) = rs(n - 1) + r[n])
    BY <2>4, SumUpTo
  <2>7. gs(n) \in Int /\ (n = 0 => gs(n) = 0) /\ (n > 0 => gs(n) = gs(n - 1) + g[n])
    BY <2>4, SumUpTo
  <2> HIDE DEF vs, rs, gs
  <2> QED
    BY <2>1, <2>2, <2>3, <2>5, <2>6, <2>7
<1>4. \A n \in 1..N : n \in 0..N /\ n - 1 \in 0..N /\ n > 0
  OBVIOUS
<1>5. 0 \in 0..N
  OBVIOUS
<1>6. \A n \in 1..N : /\ v[n] = Vcpus(L, wants[n].rung) /\ r[n] = RamGb(L, wants[n].rung)
                      /\ g[n] = DiskGb(wants[n])
                      /\ v[n] \in Int /\ r[n] \in Int /\ g[n] \in Int /\ Volumes(g[n]) \in Int
  BY NeedsAreNaturals DEF Volumes
<1>7. /\ used.vcpus \in Int /\ used.ram \in Int /\ used.volumes \in Int /\ used.volume_gb \in Int
      /\ used = [vcpus   |-> used.vcpus, ram |-> used.ram,
                 volumes |-> used.volumes, volume_gb |-> used.volume_gb]
  BY <1>1 DEF Quotas
<1> HIDE DEF used, v, r, g, vs, rs, gs, cs
<1>8. QuotaWith(s, L, wants, 0) = used
  <2>1. /\ used.vcpus + vs(0) = used.vcpus /\ used.ram + rs(0) = used.ram
        /\ used.volumes + cs(0) = used.volumes /\ used.volume_gb + gs(0) = used.volume_gb
    BY <1>3, <1>5, <1>7
  <2>2. QuotaWith(s, L, wants, 0) =
          [vcpus   |-> used.vcpus + vs(0), ram |-> used.ram + rs(0),
           volumes |-> used.volumes + cs(0), volume_gb |-> used.volume_gb + gs(0)]
    BY <1>2, <1>5
  <2> QED
    BY <1>7, <2>1, <2>2, Zenon
<1>9. ASSUME NEW n \in 0..N
      PROVE  QuotaWith(s, L, wants, n) \in Quotas
  BY <1>2, <1>3, <1>7 DEF Quotas
<1>10. ASSUME NEW n \in 1..N
       PROVE  QuotaWith(s, L, wants, n) = Taking(L, QuotaWith(s, L, wants, n - 1), wants[n])
  <2> DEFINE m == n - 1
  <2>1. m \in 0..N /\ n \in 0..N /\ n > 0
    BY <1>4
  <2>2. /\ used.vcpus + vs(n) = (used.vcpus + vs(m)) + Vcpus(L, wants[n].rung)
        /\ used.ram + rs(n) = (used.ram + rs(m)) + RamGb(L, wants[n].rung)
        /\ used.volumes + cs(n) = (used.volumes + cs(m)) + Volumes(DiskGb(wants[n]))
        /\ used.volume_gb + gs(n) = (used.volume_gb + gs(m)) + DiskGb(wants[n])
    <3>1. /\ vs(n) = vs(m) + v[n] /\ rs(n) = rs(m) + r[n]
          /\ gs(n) = gs(m) + g[n] /\ cs(n) = cs(m) + Volumes(g[n])
      BY <1>3, <2>1
    <3>2. vs(m) \in Int /\ rs(m) \in Int /\ gs(m) \in Int /\ cs(m) \in Int
      BY <1>3, <2>1
    <3>3. ASSUME NEW x \in Int, NEW y \in Int, NEW z \in Int
          PROVE  x + (y + z) = (x + y) + z
      OBVIOUS
    <3>4. used.vcpus + vs(n) = (used.vcpus + vs(m)) + v[n]
      BY <1>6, <1>7, <3>1, <3>2, <3>3
    <3>5. used.ram + rs(n) = (used.ram + rs(m)) + r[n]
      BY <1>6, <1>7, <3>1, <3>2, <3>3
    <3>6. used.volumes + cs(n) = (used.volumes + cs(m)) + Volumes(g[n])
      BY <1>6, <1>7, <3>1, <3>2, <3>3
    <3>7. used.volume_gb + gs(n) = (used.volume_gb + gs(m)) + g[n]
      BY <1>6, <1>7, <3>1, <3>2, <3>3
    <3> QED
      BY <1>6, <3>4, <3>5, <3>6, <3>7
  <2>3. QuotaWith(s, L, wants, m) =
          [vcpus   |-> used.vcpus + vs(m), ram |-> used.ram + rs(m),
           volumes |-> used.volumes + cs(m), volume_gb |-> used.volume_gb + gs(m)]
    BY <1>2, <2>1
  <2>4. QuotaWith(s, L, wants, n) =
          [vcpus   |-> used.vcpus + vs(n), ram |-> used.ram + rs(n),
           volumes |-> used.volumes + cs(n), volume_gb |-> used.volume_gb + gs(n)]
    BY <1>2, <2>1
  <2>5. /\ QuotaWith(s, L, wants, m).vcpus = used.vcpus + vs(m)
        /\ QuotaWith(s, L, wants, m).ram = used.ram + rs(m)
        /\ QuotaWith(s, L, wants, m).volumes = used.volumes + cs(m)
        /\ QuotaWith(s, L, wants, m).volume_gb = used.volume_gb + gs(m)
    BY <2>3
  <2> QED
    BY <2>2, <2>4, <2>5, Zenon DEF Taking
<1> QED
  BY <1>8, <1>9, <1>10 DEF used

AllFit(s, L, wants, n) == \A k \in 1..n : Fits(s, L, wants, k)

\* How far the first n wants are placed.
Placed(s, L, wants, n) == {m \in 1..n : AllFit(s, L, wants, m)}

Placings(wants, N) ==
  [stopped : BOOLEAN, out : Seq({wants[k] : k \in 1..N}), used : Quotas]

\* The walk of _allocate after n wants.
PlacedTo(s, L, wants, n, acc) ==
  /\ acc.out = [k \in 1..Cardinality(Placed(s, L, wants, n)) |-> wants[k]]
  /\ acc.stopped <=> ~AllFit(s, L, wants, n)
  /\ AllFit(s, L, wants, n) => acc.used = QuotaWith(s, L, wants, n)

\* The loop turns a want away exactly when it does not fit.
LEMMA RefusedDoesNotFit ==
  ASSUME NEW s, NEW L, Countable(s, L), Measurable(s, L), NEW wants,
         NEW n \in Nat, n > 0, DiskGb(wants[n]) \in Nat,
         NEW acc, acc.used \in Quotas, Len(acc.out) = n - 1,
         QuotaWith(s, L, wants, n) = Taking(L, acc.used, wants[n])
  PROVE  Refused(s, L, acc, wants[n]) <=> ~Fits(s, L, wants, n)
<1> DEFINE quota == QuotaWith(s, L, wants, n)
           want == wants[n]
           v == acc.used.vcpus
           r == acc.used.ram
           c == acc.used.volumes
           g == acc.used.volume_gb
           dv == Vcpus(L, want.rung)
           dr == RamGb(L, want.rung)
           dg == DiskGb(want)
<1>1. /\ v \in Int /\ r \in Int /\ c \in Int /\ g \in Int
      /\ dv \in Nat /\ dr \in Nat /\ dg \in Nat
  BY NeedsAreNaturals DEF Quotas
<1>2. /\ quota.vcpus = v + dv /\ quota.ram = r + dr
      /\ quota.volumes = c + Volumes(dg) /\ quota.volume_gb = g + dg
  BY DEF Taking
<1>3. ASSUME NEW used \in Int, NEW need \in Int, NEW limit \in Nat \cup {None}
      PROVE  Within(used + need, limit) <=> ~Over(used, need, limit)
  BY DEF Within, Over
<1>4. /\ L.max_vcpus \in Nat \cup {None} /\ L.max_ram_gb \in Nat \cup {None}
      /\ L.max_volumes \in Nat \cup {None} /\ L.max_volume_gb \in Nat \cup {None}
  BY DEF Measurable
<1>5. n <= Headroom(s, L) <=> ~(Len(acc.out) >= Headroom(s, L))
  BY HeadroomIsAnInteger
<1>6. dg > 0 => Volumes(dg) = 1
  BY DEF Volumes
<1>7. /\ Within(quota.vcpus, L.max_vcpus) <=> ~Over(v, dv, L.max_vcpus)
      /\ Within(quota.ram, L.max_ram_gb) <=> ~Over(r, dr, L.max_ram_gb)
      /\ Within(quota.volume_gb, L.max_volume_gb) <=> ~Over(g, dg, L.max_volume_gb)
      /\ dg > 0 => (Within(quota.volumes, L.max_volumes) <=> ~Over(c, 1, L.max_volumes))
  <2>1. 1 \in Int /\ dv \in Int /\ dr \in Int /\ dg \in Int
    BY <1>1
  <2> HIDE DEF v, r, c, g, dv, dr, dg, quota
  <2>2. Within(v + dv, L.max_vcpus) <=> ~Over(v, dv, L.max_vcpus)
    BY <1>1, <1>3, <1>4, <2>1
  <2>3. Within(r + dr, L.max_ram_gb) <=> ~Over(r, dr, L.max_ram_gb)
    BY <1>1, <1>3, <1>4, <2>1
  <2>4. Within(g + dg, L.max_volume_gb) <=> ~Over(g, dg, L.max_volume_gb)
    BY <1>1, <1>3, <1>4, <2>1
  <2>5. Within(c + 1, L.max_volumes) <=> ~Over(c, 1, L.max_volumes)
    BY <1>1, <1>3, <1>4, <2>1
  <2>6. dg > 0 => quota.volumes = c + 1
    BY <1>2, <1>6, Zenon
  <2> QED
    BY <1>2, <2>2, <2>3, <2>4, <2>5, <2>6
<1>8. Fits(s, L, wants, n) <=>
        /\ n <= Headroom(s, L)
        /\ want.rung = None \/ want.rung \in Rungs(L)
        /\ Within(quota.vcpus, L.max_vcpus)
        /\ Within(quota.ram, L.max_ram_gb)
        /\ dg > 0 => /\ Within(quota.volumes, L.max_volumes)
                     /\ Within(quota.volume_gb, L.max_volume_gb)
  BY DEF Fits
<1>9. Refused(s, L, acc, want) <=>
        \/ Len(acc.out) >= Headroom(s, L)
        \/ want.rung # None /\ want.rung \notin Rungs(L)
        \/ Over(v, dv, L.max_vcpus)
        \/ Over(r, dr, L.max_ram_gb)
        \/ dg > 0 /\ \/ Over(c, 1, L.max_volumes)
                     \/ Over(g, dg, L.max_volume_gb)
  BY DEF Refused
<1> HIDE DEF v, r, c, g, dv, dr, dg, quota
<1> QED
  BY <1>5, <1>7, <1>8, <1>9

LEMMA PlacedGrows ==
  ASSUME NEW s, NEW L, NEW wants, NEW n \in Nat
  PROVE  /\ AllFit(s, L, wants, n) => Cardinality(Placed(s, L, wants, n)) = n
         /\ n > 0 /\ ~AllFit(s, L, wants, n) =>
              Placed(s, L, wants, n) = Placed(s, L, wants, n - 1)
         /\ n > 0 => (AllFit(s, L, wants, n) <=>
                        AllFit(s, L, wants, n - 1) /\ Fits(s, L, wants, n))
<1>1. ASSUME AllFit(s, L, wants, n)
      PROVE  Cardinality(Placed(s, L, wants, n)) = n
  <2>1. Placed(s, L, wants, n) = 1..n
    BY <1>1 DEF Placed, AllFit
  <2>2. Cardinality(1..n) = n
    BY FS_Interval
  <2> QED
    BY <2>1, <2>2
<1>2. ASSUME n > 0, ~AllFit(s, L, wants, n)
      PROVE  Placed(s, L, wants, n) = Placed(s, L, wants, n - 1)
  <2>1. \A m \in 1..n : m \in 1..(n - 1) \/ m = n
    OBVIOUS
  <2>2. \A m \in 1..(n - 1) : m \in 1..n
    OBVIOUS
  <2> QED
    BY <1>2, <2>1, <2>2 DEF Placed
<1>3. ASSUME n > 0
      PROVE  AllFit(s, L, wants, n) <=> AllFit(s, L, wants, n - 1) /\ Fits(s, L, wants, n)
  <2>1. 1..n = 1..(n - 1) \cup {n}
    BY <1>3
  <2> QED
    BY <2>1 DEF AllFit
<1> QED
  BY <1>1, <1>2, <1>3

LEMMA AllocateIsTyped ==
  ASSUME NEW s, NEW L, Measurable(s, L), NEW wants,
         NEW N \in Nat, NEW n \in 1..N, DiskGb(wants[n]) \in Nat, NEW acc \in Placings(wants, N)
  PROVE  Allocate(s, L, acc, wants[n]) \in Placings(wants, N)
<1> DEFINE want == wants[n]
           C == {wants[k] : k \in 1..N}
           used2 == Taking(L, acc.used, want)
           out2 == Append(acc.out, want)
<1>1. /\ acc.stopped \in BOOLEAN /\ acc.out \in Seq(C) /\ acc.used \in Quotas /\ want \in C
  BY DEF Placings
<1>2. CASE acc.stopped \/ Refused(s, L, acc, want)
  <2>1. Allocate(s, L, acc, want) = [acc EXCEPT !.stopped = TRUE]
    BY <1>2 DEF Allocate
  <2> QED
    BY <2>1 DEF Placings
<1>3. CASE ~(acc.stopped \/ Refused(s, L, acc, want))
  <2>1. Allocate(s, L, acc, want) = [stopped |-> FALSE, out |-> out2, used |-> used2]
    BY <1>3 DEF Allocate, Taking
  <2>2. out2 \in Seq(C)
    <3> HIDE DEF C, want
    <3> QED
      BY <1>1, AppendProperties
  <2>3. used2 \in Quotas
    BY <1>1, NeedsAreNaturals DEF Taking, Quotas, Volumes
  <2> HIDE DEF out2, used2
  <2> QED
    BY <2>1, <2>2, <2>3 DEF Placings
<1> QED
  BY <1>2, <1>3

\* One turn of the walk.
LEMMA AllocateTurns ==
  ASSUME NEW s, NEW L, Countable(s, L), Measurable(s, L), NEW wants,
         NEW N \in Nat, \A k \in 1..N : DiskGb(wants[k]) \in Nat,
         NEW n \in 1..N, NEW acc \in Placings(wants, N), PlacedTo(s, L, wants, n - 1, acc)
  PROVE  PlacedTo(s, L, wants, n, Allocate(s, L, acc, wants[n]))
<1> DEFINE want == wants[n]
           next == Allocate(s, L, acc, want)
           C == {wants[k] : k \in 1..N}
           used2 == Taking(L, acc.used, want)
           out2 == Append(acc.out, want)
<1>1. /\ n \in Nat /\ n > 0 /\ n - 1 \in Nat /\ n - 1 \in 0..N /\ n \in 0..N /\ want \in C
      /\ DiskGb(want) \in Nat
  OBVIOUS
<1>2. /\ acc.stopped \in BOOLEAN /\ acc.out \in Seq(C) /\ acc.used \in Quotas
  BY DEF Placings
<1>3. /\ AllFit(s, L, wants, n) <=> AllFit(s, L, wants, n - 1) /\ Fits(s, L, wants, n)
      /\ ~AllFit(s, L, wants, n) => Placed(s, L, wants, n) = Placed(s, L, wants, n - 1)
      /\ AllFit(s, L, wants, n - 1) => Cardinality(Placed(s, L, wants, n - 1)) = n - 1
      /\ AllFit(s, L, wants, n) => Cardinality(Placed(s, L, wants, n)) = n
  BY <1>1, PlacedGrows
<1>4. /\ acc.out = [k \in 1..Cardinality(Placed(s, L, wants, n - 1)) |-> wants[k]]
      /\ acc.stopped <=> ~AllFit(s, L, wants, n - 1)
      /\ AllFit(s, L, wants, n - 1) => acc.used = QuotaWith(s, L, wants, n - 1)
  BY DEF PlacedTo
<1>5. ASSUME AllFit(s, L, wants, n - 1)
      PROVE  /\ Refused(s, L, acc, want) <=> ~Fits(s, L, wants, n)
             /\ QuotaWith(s, L, wants, n) = used2
             /\ Append(acc.out, want) = [k \in 1..n |-> wants[k]]
  <2>1. QuotaWith(s, L, wants, n) = used2
    <3>1. QuotaWith(s, L, wants, n) = Taking(L, QuotaWith(s, L, wants, n - 1), want)
      BY QuotaGrows
    <3> QED
      BY <1>4, <1>5, <3>1
  <2>2. /\ acc.out = [k \in 1..(n - 1) |-> wants[k]]
        /\ Len(acc.out) = n - 1 /\ Append(acc.out, want) = [k \in 1..n |-> wants[k]]
    <3> DEFINE m == n - 1
    <3>1. m \in Nat /\ m + 1 = n
      BY <1>1
    <3>2. acc.out = [k \in 1..m |-> wants[k]]
      BY <1>3, <1>4, <1>5
    <3> HIDE DEF m
    <3>3. /\ Append([k \in 1..m |-> wants[k]], wants[m + 1]) = [k \in 1..(m + 1) |-> wants[k]]
          /\ Len([k \in 1..m |-> wants[k]]) = m
      BY <3>1, AppendsNext
    <3>4. /\ Append(acc.out, want) = [k \in 1..n |-> wants[k]] /\ Len(acc.out) = m
      BY <3>1, <3>2, <3>3
    <3> QED
      BY <3>2, <3>4 DEF m
  <2>3. Refused(s, L, acc, want) <=> ~Fits(s, L, wants, n)
    <3> HIDE DEF used2
    <3> QED
      BY <1>1, <1>2, <2>1, <2>2, RefusedDoesNotFit DEF used2
  <2> QED
    BY <2>1, <2>2, <2>3
<1>6. CASE acc.stopped \/ Refused(s, L, acc, want)
  <2>1. ~AllFit(s, L, wants, n)
    BY <1>3, <1>4, <1>5, <1>6
  <2>2. next = [acc EXCEPT !.stopped = TRUE]
    BY <1>6 DEF Allocate
  <2>3. next.stopped = TRUE /\ next.out = acc.out
    BY <2>2 DEF Placings
  <2> HIDE DEF next
  <2>4. PlacedTo(s, L, wants, n, next)
    BY <1>3, <1>4, <2>1, <2>3 DEF PlacedTo
  <2> QED
    BY <2>4 DEF next
<1>7. CASE ~(acc.stopped \/ Refused(s, L, acc, want))
  <2>1. AllFit(s, L, wants, n - 1)
    BY <1>4, <1>7
  <2>2. AllFit(s, L, wants, n) /\ used2 = QuotaWith(s, L, wants, n)
    BY <1>3, <1>5, <1>7, <2>1
  <2>3. next = [stopped |-> FALSE, out |-> out2, used |-> used2]
    BY <1>7 DEF Allocate, Taking
  <2>4. out2 = [k \in 1..n |-> wants[k]]
    BY <1>5, <2>1
  <2> HIDE DEF out2, used2, next
  <2>5. next.stopped = FALSE /\ next.out = out2 /\ next.used = used2
    BY <2>3
  <2>6. PlacedTo(s, L, wants, n, next)
    BY <1>3, <2>2, <2>4, <2>5 DEF PlacedTo
  <2> QED
    BY <2>6 DEF next
<1> QED
  BY <1>6, <1>7

Placing0(s, L) == [stopped |-> FALSE, out |-> << >>, used |-> QuotaUsed(s, L)]

\* The walk of _allocate, turn by turn.
IsAllocating(a, s, L, wants, N) ==
  /\ a[0] = Placing0(s, L)
  /\ \A n \in 1..N : a[n] = Allocate(s, L, a[n - 1], wants[n])
  /\ AllocateLoop(s, L) = a[N].out

LEMMA AllocateLoopTurns ==
  ASSUME NEW s, NEW L, Countable(s, L), Measurable(s, L),
         NEW N \in Nat, NEW wants, wants = WantedLoop(s, L), DOMAIN wants = 1..N,
         \A k \in 1..N : DiskGb(wants[k]) \in Nat
  PROVE  \E a : IsAllocating(a, s, L, wants, N)
<1> DEFINE V == Placings(wants, N)
           base == Placing0(s, L)
           step == [n \in 1..N |-> [v \in V |-> Allocate(s, L, v, wants[n])]]
           Walk(g) == [u \in SUBSET (1..N) |->
                         IF u = {} THEN base ELSE Allocate(s, L, g[u \ {Max(u)}], wants[Max(u)])]
           iter == CHOOSE g : g = Walk(g)
<1>2. step \in [1..N -> [V -> V]] /\ base \in V
  <2>1. \A n \in 1..N : \A v \in V : Allocate(s, L, v, wants[n]) \in V
    BY AllocateIsTyped
  <2>2. base \in V
    <3>1. QuotaUsed(s, L) \in Quotas
      BY QuotaUsedIsTyped
    <3>2. << >> \in Seq({wants[k] : k \in 1..N})
      OBVIOUS
    <3> QED
      BY <3>1, <3>2 DEF Placings, Placing0
  <2> HIDE DEF V, base
  <2> QED
    BY <2>1, <2>2
<1> HIDE DEF step, base
<1>3. PICK g \in [SUBSET (1..N) -> V] : IsLoop(g, N, base, step)
  <2> HIDE DEF V
  <2> QED
    BY <1>2, LoopExists
<1>4. g = Walk(g)
  <2>1. ASSUME NEW u \in SUBSET (1..N), u # {}
        PROVE  step[Max(u)][g[u \ {Max(u)}]] = Allocate(s, L, g[u \ {Max(u)}], wants[Max(u)])
    <3>1. Max(u) \in 1..N /\ u \ {Max(u)} \in SUBSET (1..N)
      <4>1. PICK m \in u : \A n \in u : n <= m
        BY <2>1, LastOfSome
      <4>2. \A n \in u : m >= n
        BY <4>1
      <4> QED
        BY <4>2 DEF Max
    <3>2. g[u \ {Max(u)}] \in V
      BY <3>1
    <3> HIDE DEF V
    <3> QED
      BY <3>1, <3>2 DEF step
  <2>2. ASSUME NEW u \in SUBSET (1..N)
        PROVE  g[u] = IF u = {} THEN base ELSE Allocate(s, L, g[u \ {Max(u)}], wants[Max(u)])
    BY <1>3, <2>1 DEF IsLoop
  <2> QED
    BY <2>2
<1>5. AllocateLoop(s, L) = iter[1..N].out
  BY Zenon DEF AllocateLoop, FoldLeft, MapThenFoldSet, Placing0, base
<1>6. iter = Walk(iter)
  <2> HIDE DEF Walk
  <2> QED
    BY <1>4, Zenon
<1> HIDE DEF iter
<1> DEFINE a == [n \in 0..N |-> iter[1..n]]
<1>7. a[0] = base
  <2>1. {} \in SUBSET (1..N) /\ 1..0 = {} /\ 0 \in 0..N
    OBVIOUS
  <2>2. iter[{}] = base
    BY <1>6, <2>1
  <2> QED
    BY <2>1, <2>2
<1>8. ASSUME NEW n \in 1..N
      PROVE  a[n] = Allocate(s, L, a[n - 1], wants[n])
  <2>1. /\ 1..n \in SUBSET (1..N) /\ 1..n # {} /\ Max(1..n) = n
        /\ (1..n) \ {n} = 1..(n - 1)
    BY LastOfUpTo
  <2>2. iter[1..n] = Allocate(s, L, iter[(1..n) \ {Max(1..n)}], wants[Max(1..n)])
    <3> DEFINE u == 1..n
    <3> HIDE DEF u
    <3>1. iter[u] = Allocate(s, L, iter[u \ {Max(u)}], wants[Max(u)])
      BY <1>6, <2>1 DEF u
    <3> QED
      BY <3>1 DEF u
  <2>3. n \in 0..N /\ n - 1 \in 0..N
    OBVIOUS
  <2> QED
    BY <2>1, <2>2, <2>3
<1>9. a[N] = iter[1..N]
  OBVIOUS
<1> HIDE DEF a
<1> QED
  BY <1>5, <1>7, <1>8, <1>9 DEF IsAllocating, base

\* The creates of the sized path are what the walks of _wanted_rungs and _allocate return
\* (plan.py 959-1069), for every snapshot whose sizes and limits are numbers.
THEOREM CreateIsGreedy ==
  ASSUME NEW s, NEW L, Countable(s, L), Measurable(s, L), Sized(L), ~BreakerOpen(s, L)
  PROVE  Create(s, L) = AllocateLoop(s, L)
<1> DEFINE wants == Wanted(s, L)
           N == Len(wants)
<1>1. /\ wants = WantedLoop(s, L) /\ N \in Nat /\ DOMAIN wants = 1..N
      /\ \A k \in 1..N : DiskGb(wants[k]) \in Nat
  <2> DEFINE C == {want \in {Unsized} \cup {[rung    |-> SubmissionRung(s, L, w),
                                             disk_gb |-> s.waiting[w].disk_gb]
                                            : w \in DOMAIN s.waiting} : DiskGb(want) \in Nat}
  <2>1. /\ Unsized \in C
        /\ \A w \in DOMAIN s.waiting :
             [rung |-> SubmissionRung(s, L, w), disk_gb |-> s.waiting[w].disk_gb] \in C
    BY DEF DiskGb, Unsized, Measurable
  <2>2. \A want \in C : DiskGb(want) \in Nat
    OBVIOUS
  <2> HIDE DEF C, wants
  <2>3. wants \in Seq(C)
    BY <2>1, WantedIsAList DEF wants
  <2>4. wants = WantedLoop(s, L)
    BY WantedIsGreedy DEF wants
  <2> QED
    BY <2>2, <2>3, <2>4, LenProperties, ElementOfSeq
<1> HIDE DEF wants, N
<1>2. PICK a : IsAllocating(a, s, L, wants, N)
  BY <1>1, AllocateLoopTurns
<1> DEFINE Good == {n \in 0..N : a[n] \in Placings(wants, N) /\ PlacedTo(s, L, wants, n, a[n])}
<1>3. 0 \in Good
  <2>1. Placing0(s, L) \in Placings(wants, N)
    <3>1. QuotaUsed(s, L) \in Quotas
      BY QuotaUsedIsTyped
    <3>2. << >> \in Seq({wants[k] : k \in 1..N})
      OBVIOUS
    <3> QED
      BY <3>1, <3>2 DEF Placings, Placing0
  <2>2. PlacedTo(s, L, wants, 0, Placing0(s, L))
    <3>1. QuotaWith(s, L, wants, 0) = QuotaUsed(s, L)
      BY <1>1, QuotaGrows
    <3>2. AllFit(s, L, wants, 0) /\ 0 \in Nat
      BY DEF AllFit
    <3>3. Cardinality(Placed(s, L, wants, 0)) = 0
      BY <3>2, PlacedGrows
    <3>4. [k \in 1..0 |-> wants[k]] = << >>
      OBVIOUS
    <3> QED
      BY <3>1, <3>2, <3>3, <3>4 DEF PlacedTo, Placing0
  <2>3. 0 \in 0..N
    BY <1>1
  <2> QED
    BY <1>2, <2>1, <2>2, <2>3 DEF IsAllocating
<1>4. ASSUME NEW n \in 1..N, n - 1 \in Good
      PROVE  n \in Good
  <2>1. a[n - 1] \in Placings(wants, N) /\ PlacedTo(s, L, wants, n - 1, a[n - 1])
    BY <1>4
  <2>2. /\ Allocate(s, L, a[n - 1], wants[n]) \in Placings(wants, N)
        /\ PlacedTo(s, L, wants, n, Allocate(s, L, a[n - 1], wants[n]))
    BY <1>1, <2>1, AllocateTurns, AllocateIsTyped
  <2>3. a[n] = Allocate(s, L, a[n - 1], wants[n]) /\ n \in 0..N
    BY <1>1, <1>2 DEF IsAllocating
  <2> QED
    BY <2>2, <2>3
<1>5. N \in Good
  <2> HIDE DEF Good
  <2> QED
    BY <1>1, <1>3, <1>4, StepByStep
<1>6. AllocateLoop(s, L) = [k \in 1..Cardinality(Placed(s, L, wants, N)) |-> wants[k]]
  BY <1>2, <1>5 DEF IsAllocating, PlacedTo
<1>7. Placed(s, L, wants, N) = Allocated(s, L)
  BY DEF Placed, AllFit, Allocated, wants, N
<1>8. Create(s, L) = [k \in 1..Cardinality(Allocated(s, L)) |-> wants[k]]
  BY DEF Create, CreateCount, wants
<1> QED
  BY <1>6, <1>7, <1>8

-----------------------------------------------------------------------------
(***************************************************************************)
(* The snapshots MCPlan builds are snapshots decide() can count with.      *)
(***************************************************************************)

Listed == {kind.listed : kind \in ServerKinds}
Awaited ==
  [age : Nat, memory_gb : Nat \cup {None}, disk_gb : Nat \cup {None}, assignable : BOOLEAN]

Snapshots ==
  [instances : Seq(Listed), waiting : Seq(Awaited), volumes : {<< >>},
   spent : SUBSET Nat, ready : SUBSET Nat, running_jobs : {{}}, house_paid : {{}},
   queue_depth : Nat, consecutive_failures : {0}]

Inv == snapshot \in Snapshots /\ limits \in Configurations

LEMMA KindsAreTyped ==
  /\ \A r \in Listed : r.age \in Nat \cup {None}
  /\ \A r \in Awaited : r.age \in Nat /\ r.disk_gb \in Nat \cup {None}
<1>1. \A kind \in ServerKinds : kind.listed.age \in Nat \cup {None}
  BY DEF ServerKinds, Server
<1>2. \A r \in Listed : r.age \in Nat \cup {None}
  BY <1>1 DEF Listed
<1>3. \A r \in Awaited : r.age \in Nat /\ r.disk_gb \in Nat \cup {None}
  BY DEF Awaited
<1> QED
  BY <1>2, <1>3

\* What a configuration without a catalogue leaves off is every quota.
LEMMA ConfigurationsAreLimits ==
  ASSUME NEW L \in Configurations
  PROVE  /\ L.max_instances \in Nat
         /\ Sized(L) \/ /\ L.max_vcpus = None /\ L.max_ram_gb = None
                        /\ L.max_volumes = None /\ L.max_volume_gb = None
<1>1. CASE L = Unarmed
  BY <1>1 DEF Unarmed
<1>2. CASE L = Armed
  BY <1>2 DEF Armed, Unarmed
<1>3. CASE L = OneRung
  <2>1. L.assign = TRUE /\ L.sizes = <<2>> /\ L.max_instances = 3
    BY <1>3 DEF OneRung, Armed, Unarmed
  <2> QED
    BY <2>1 DEF Sized, Rungs
<1>4. ASSUME L.assign = TRUE, L.sizes = <<2, 4>>, L.max_instances = 4
      PROVE  L.max_instances \in Nat /\ Sized(L)
  BY <1>4 DEF Sized, Rungs
<1>5. CASE L \in {TwoRungs,
                  [TwoRungs EXCEPT !.max_vcpus = 6, !.provision_deadline = 1],
                  [TwoRungs EXCEPT !.max_ram_gb = 3, !.max_volumes = 1],
                  [TwoRungs EXCEPT !.max_volume_gb = 3]}
  <2>1. /\ TwoRungs.assign = TRUE /\ TwoRungs.sizes = <<2, 4>>
        /\ TwoRungs.max_instances = 4
    BY DEF TwoRungs, Armed, Unarmed
  <2>2. /\ "assign" \in DOMAIN TwoRungs /\ "sizes" \in DOMAIN TwoRungs
        /\ "max_instances" \in DOMAIN TwoRungs
    BY DEF TwoRungs, Armed, Unarmed
  <2>3. /\ L.assign = TwoRungs.assign /\ L.sizes = TwoRungs.sizes
        /\ L.max_instances = TwoRungs.max_instances
    BY <1>5, <2>2
  <2> QED
    BY <1>4, <2>1, <2>3
<1> QED
  BY <1>1, <1>2, <1>3, <1>5 DEF Configurations

LEMMA InvHolds == Spec => []Inv
<1>1. Init => Inv
  BY DEF Init, Inv, Snapshots
<1>2. Inv /\ [Next]_<<snapshot, limits>> => Inv'
  <2> SUFFICES ASSUME Inv, [Next]_<<snapshot, limits>> PROVE Inv'
    OBVIOUS
  <2>1. ASSUME NEW kind \in ServerKinds, List(kind)
        PROVE  Inv'
    <3>1. kind.listed \in Listed /\ Len(snapshot.instances) + 1 \in Nat
      BY LenProperties DEF Listed, Inv, Snapshots
    <3>2. Append(snapshot.instances, kind.listed) \in Seq(Listed)
      BY <3>1, AppendProperties DEF Inv, Snapshots
    <3> QED
      BY <2>1, <3>1, <3>2 DEF List, Inv, Snapshots
  <2>2. ASSUME NEW kind \in SubmissionKinds, NEW age \in {0, 2}, Await(kind, age)
        PROVE  Inv'
    <3>1. [kind EXCEPT !.age = age] \in Awaited
      <4>1. kind \in Awaited
        <5>1. ASSUME NEW m \in Nat \cup {None}, NEW d \in Nat \cup {None}, NEW b \in BOOLEAN
              PROVE  Submitted(m, d, b) \in Awaited
          BY DEF Submitted, Awaited
        <5>2. /\ TRUE \in BOOLEAN /\ FALSE \in BOOLEAN /\ None \in Nat \cup {None}
              /\ \A n \in {1, 2, 3} : n \in Nat \cup {None}
          OBVIOUS
        <5> QED
          BY <5>1, <5>2 DEF SubmissionKinds
      <4> QED
        BY <4>1 DEF Awaited
    <3> DEFINE r == [kind EXCEPT !.age = age]
    <3> HIDE DEF r
    <3>2. Append(snapshot.waiting, r) \in Seq(Awaited)
      BY <3>1, AppendProperties DEF Inv, Snapshots, r
    <3>3. /\ snapshot' = [snapshot EXCEPT !.waiting = Append(snapshot.waiting, r)]
          /\ UNCHANGED limits
      BY <2>2 DEF Await, r
    <3> QED
      BY <3>2, <3>3 DEF Inv, Snapshots
  <2>3. CASE Enqueue
    BY <2>3 DEF Enqueue, Inv, Snapshots
  <2>4. CASE UNCHANGED <<snapshot, limits>>
    BY <2>4 DEF Inv
  <2> QED
    BY <2>1, <2>2, <2>3, <2>4 DEF Next
<1> QED
  BY <1>1, <1>2, PTL DEF Spec

LEMMA SnapshotsAreCountable ==
  ASSUME Inv
  PROVE  /\ Countable(snapshot, limits)
         /\ Rankable(snapshot, DOMAIN snapshot.instances)
         /\ Len(Wanted(snapshot, limits)) \in Nat
         /\ \A w \in DOMAIN snapshot.waiting : snapshot.waiting[w].disk_gb \in Nat \cup {None}
<1>1. /\ snapshot.instances \in Seq(Listed) /\ snapshot.waiting \in Seq(Awaited)
      /\ snapshot.queue_depth \in Nat /\ limits \in Configurations
  BY DEF Inv, Snapshots
<1>2. /\ DOMAIN snapshot.instances = 1..Len(snapshot.instances)
      /\ DOMAIN snapshot.waiting = 1..Len(snapshot.waiting)
      /\ Len(snapshot.instances) \in Nat /\ Len(snapshot.waiting) \in Nat
  BY <1>1, LenProperties
<1>3. /\ IsFiniteSet(DOMAIN snapshot.instances) /\ DOMAIN snapshot.instances \subseteq Nat
      /\ IsFiniteSet(DOMAIN snapshot.waiting) /\ DOMAIN snapshot.waiting \subseteq Nat
  <2>1. IsFiniteSet(1..Len(snapshot.instances)) /\ IsFiniteSet(1..Len(snapshot.waiting))
    BY <1>2, FS_Interval
  <2> QED
    BY <1>2, <2>1
<1>4. \A i \in DOMAIN snapshot.instances : snapshot.instances[i] \in Listed
  BY <1>1, <1>2, ElementOfSeq
<1>5. \A w \in DOMAIN snapshot.waiting : snapshot.waiting[w] \in Awaited
  BY <1>1, <1>2, ElementOfSeq
<1>6. Countable(snapshot, limits)
  BY <1>1, <1>3, <1>5, KindsAreTyped, ConfigurationsAreLimits DEF Countable, Orderable
<1>7. Rankable(snapshot, DOMAIN snapshot.instances)
  BY <1>3, <1>4, KindsAreTyped DEF Rankable
<1>8. Len(Wanted(snapshot, limits)) \in Nat
  <2> DEFINE C == {Unsized} \cup {[rung |-> SubmissionRung(snapshot, limits, w),
                                   disk_gb |-> snapshot.waiting[w].disk_gb]
                                  : w \in DOMAIN snapshot.waiting}
  <2>1. Wanted(snapshot, limits) \in Seq(C)
    BY <1>6, WantedIsAList
  <2> QED
    BY <2>1, LenProperties
<1> QED
  BY <1>5, <1>6, <1>7, <1>8, KindsAreTyped
-----------------------------------------------------------------------------
(***************************************************************************)
(* The properties of the run, for any number of servers, submissions and   *)
(* messages.                                                               *)
(***************************************************************************)

\* Nothing that is being reaped, was claimed or is past assign_max_age is given work, nothing
\* is given work it is too small for, and nothing is in two pairs (plan.py, decide).
THEOREM PlacementsAreSound == Spec => []PlacementIsSound
<1>1. ASSUME Inv
      PROVE  PlacementIsSound
  <2>1. /\ Orderable(snapshot, DOMAIN snapshot.waiting)
        /\ Rankable(snapshot, DOMAIN snapshot.instances)
    BY <1>1, SnapshotsAreCountable DEF Countable
  <2>2. ASSUME NEW p \in Assign(snapshot, limits)
        PROVE  /\ p[2] \in snapshot.ready \ (snapshot.spent \cup Delete(snapshot, limits))
               /\ ~PastAge(snapshot, p[2], limits.assign_max_age)
    BY <2>1, AssignIsAMatching
  <2>3. ASSUME NEW p \in Assign(snapshot, limits)
        PROVE  SubmissionRung(snapshot, limits, p[1]) = InstanceRung(snapshot, limits, p[2])
    BY <2>1, AssignIsAMatching
  <2>4. ASSUME NEW p \in Assign(snapshot, limits), NEW q \in Assign(snapshot, limits)
        PROVE  p[1] = q[1] <=> p[2] = q[2]
    BY <2>1, AssignIsAMatching
  <2> QED
    BY <2>2, <2>3, <2>4 DEF PlacementIsSound
<1> QED
  BY <1>1, InvHolds, PTL

LEMMA ServedIsWillBeServed ==
  ASSUME NEW w
  PROVE  Served(w, Create(snapshot, limits)) <=> WillBeServed(snapshot, limits, w)
BY DEF Served, WillBeServed, Fitting, Coming

\* S7 across both halves of decide(): a round that places a submission, or provides for it,
\* does so for every older one, whatever their sizes and whichever limit ends the creates.
THEOREM NoneIsOvertaken == Spec => []NoneOvertaken
<1>1. ASSUME Inv
      PROVE  NoneOvertaken
  <2>1. /\ Orderable(snapshot, DOMAIN snapshot.waiting)
        /\ Rankable(snapshot, DOMAIN snapshot.instances)
        /\ Countable(snapshot, limits) /\ Len(Wanted(snapshot, limits)) \in Nat
    BY <1>1, SnapshotsAreCountable DEF Countable
  <2>2. ASSUME NEW p \in Assign(snapshot, limits), NEW w \in Placeable(snapshot),
               Older(snapshot, w, p[1])
        PROVE  \E q \in Assign(snapshot, limits) : q[1] = w
    BY <2>1, <2>2, NoneIsSkipped
  <2>3. ASSUME Sized(limits),
               NEW v \in Uncovered(snapshot, limits), NEW w \in Uncovered(snapshot, limits),
               Older(snapshot, w, v), Served(v, Create(snapshot, limits))
        PROVE  Served(w, Create(snapshot, limits))
    BY <2>1, <2>3, NoneIsProvidedForBeforeAnOlder, ServedIsWillBeServed
  <2> HIDE DEF Inv
  <2> QED
    BY <2>2, <2>3 DEF NoneOvertaken
<1> QED
  BY <1>1, InvHolds, PTL

\* No round asks for servers that would take the fleet past the cap, its vcpus, its memory or
\* its volumes, however many servers and submissions there are (plan.py, _allocate).
THEOREM QuotasAreKept == Spec => []QuotasHold
<1>1. ASSUME Inv, Create(snapshot, limits) # << >>
      PROVE  WithinQuotas(Create(snapshot, limits), QuotaUsed(snapshot, limits))
  <2> DEFINE creates == Create(snapshot, limits)
             used == QuotaUsed(snapshot, limits)
             C == {Unsized} \cup {[rung |-> SubmissionRung(snapshot, limits, w),
                                   disk_gb |-> snapshot.waiting[w].disk_gb]
                                  : w \in DOMAIN snapshot.waiting}
  <2>1. /\ Countable(snapshot, limits) /\ Len(Wanted(snapshot, limits)) \in Nat
        /\ \A w \in DOMAIN snapshot.waiting : snapshot.waiting[w].disk_gb \in Nat \cup {None}
    BY <1>1, SnapshotsAreCountable
  <2>2. creates \in Seq(C) /\ Cardinality(Live(snapshot)) + Len(creates) <= limits.max_instances
    <3>1. /\ Unsized \in C
          /\ \A w \in DOMAIN snapshot.waiting :
               [rung |-> SubmissionRung(snapshot, limits, w),
                disk_gb |-> snapshot.waiting[w].disk_gb] \in C
      OBVIOUS
    <3> HIDE DEF C
    <3> QED
      BY <1>1, <2>1, <3>1, CreateFitsTheHeadroom
  <2>3. \A c \in C : DiskGb(c) \in Nat
    BY <2>1 DEF DiskGb, Unsized
  <2>4. \A n \in DOMAIN creates : DiskGb(creates[n]) \in Nat
    <3> HIDE DEF creates, C
    <3>1. \A n \in DOMAIN creates : creates[n] \in C
      BY <2>2, ElementOfSeq, LenProperties
    <3> QED
      BY <2>3, <3>1
  <2>5. /\ Within(used.vcpus + SumFunction([n \in DOMAIN creates |-> Vcpus(limits, creates[n].rung)]),
                  limits.max_vcpus)
        /\ Within(used.ram + SumFunction([n \in DOMAIN creates |-> RamGb(limits, creates[n].rung)]),
                  limits.max_ram_gb)
        /\ (\E n \in DOMAIN creates : DiskGb(creates[n]) > 0) =>
             /\ Within(used.volumes
                         + SumFunction([n \in DOMAIN creates |-> Volumes(DiskGb(creates[n]))]),
                       limits.max_volumes)
             /\ Within(used.volume_gb
                         + SumFunction([n \in DOMAIN creates |-> DiskGb(creates[n])]),
                       limits.max_volume_gb)
    <3>1. CASE Sized(limits)
      BY <1>1, <2>1, <2>4, <3>1, CreateFitsTheQuotas
    <3>2. CASE ~Sized(limits)
      BY <1>1, <3>2, ConfigurationsAreLimits DEF Inv, Within
    <3> QED
      BY <3>1, <3>2
  <2> HIDE DEF creates, used
  <2> QED
    BY <2>2, <2>5 DEF WithinQuotas, Within, creates, used
<1>2. Inv => QuotasHold
  BY <1>1 DEF QuotasHold
<1> QED
  BY <1>2, InvHolds, PTL

\* Every configuration of the run counts in whole vcpus and GB, as does everything listed.
LEMMA ConfigurationsAreMeasured ==
  ASSUME NEW L \in Configurations
  PROVE  /\ \A rung \in Rungs(L) : rung \in Nat /\ L.sizes[rung] \in Nat
         /\ L.max_vcpus \in Nat \cup {None} /\ L.max_ram_gb \in Nat \cup {None}
         /\ L.max_volumes \in Nat \cup {None} /\ L.max_volume_gb \in Nat \cup {None}
         /\ L.breaker_threshold = 1
<1>1. Unarmed = [max_instances |-> 2, max_lifetime |-> 3, breaker_threshold |-> 1,
                 provision_deadline |-> 1, unclaimed_grace |-> 1, assign |-> FALSE,
                 assign_max_age |-> 2, sizes |-> <<2, 4>>, max_vcpus |-> None,
                 max_ram_gb |-> None, max_volumes |-> None, max_volume_gb |-> None,
                 volume_orphan_grace |-> None]
  BY DEF Unarmed
<1> DEFINE Off(M) == /\ M.max_vcpus = None /\ M.max_ram_gb = None
                     /\ M.max_volumes = None /\ M.max_volume_gb = None
                     /\ M.breaker_threshold = 1
<1>2. /\ Off(Unarmed) /\ Unarmed.sizes = <<2, 4>>
      /\ Off(Armed) /\ Armed.sizes = << >>
      /\ Off(OneRung) /\ OneRung.sizes = <<2>>
      /\ Off(TwoRungs) /\ TwoRungs.sizes = <<2, 4>>
  BY <1>1 DEF Armed, OneRung, TwoRungs
<1>3. L.sizes \in {<< >>, <<2>>, <<2, 4>>}
  BY <1>1, <1>2 DEF Configurations, Armed, OneRung, TwoRungs
<1>4. \A rung \in Rungs(L) : rung \in Nat /\ L.sizes[rung] \in Nat
  BY <1>3 DEF Rungs
<1>5. {"max_vcpus", "max_ram_gb", "max_volumes", "max_volume_gb", "breaker_threshold",
       "provision_deadline"} \subseteq DOMAIN TwoRungs
  BY <1>1 DEF Armed, TwoRungs
<1>6. None \in Nat \cup {None} /\ \A n \in {1, 3, 6} : n \in Nat \cup {None}
  OBVIOUS
<1>7. CASE L \in {Unarmed, Armed, OneRung, TwoRungs}
  BY <1>2, <1>4, <1>6, <1>7
<1>8. CASE L = [TwoRungs EXCEPT !.max_vcpus = 6, !.provision_deadline = 1]
  <2>1. /\ L.max_vcpus = 6 /\ L.max_ram_gb = TwoRungs.max_ram_gb
        /\ L.max_volumes = TwoRungs.max_volumes /\ L.max_volume_gb = TwoRungs.max_volume_gb
        /\ L.breaker_threshold = TwoRungs.breaker_threshold
    BY <1>5, <1>8
  <2> QED
    BY <1>2, <1>4, <1>6, <2>1
<1>9. CASE L = [TwoRungs EXCEPT !.max_ram_gb = 3, !.max_volumes = 1]
  <2>1. /\ L.max_vcpus = TwoRungs.max_vcpus /\ L.max_ram_gb = 3
        /\ L.max_volumes = 1 /\ L.max_volume_gb = TwoRungs.max_volume_gb
        /\ L.breaker_threshold = TwoRungs.breaker_threshold
    BY <1>5, <1>9
  <2> QED
    BY <1>2, <1>4, <1>6, <2>1
<1>10. CASE L = [TwoRungs EXCEPT !.max_volume_gb = 3]
  <2>1. /\ L.max_vcpus = TwoRungs.max_vcpus /\ L.max_ram_gb = TwoRungs.max_ram_gb
        /\ L.max_volumes = TwoRungs.max_volumes /\ L.max_volume_gb = 3
        /\ L.breaker_threshold = TwoRungs.breaker_threshold
    BY <1>5, <1>10
  <2> QED
    BY <1>2, <1>4, <1>6, <2>1
<1> QED
  BY <1>4, <1>7, <1>8, <1>9, <1>10 DEF Configurations

LEMMA SnapshotsAreMeasurable ==
  ASSUME Inv
  PROVE  Measurable(snapshot, limits) /\ ~BreakerOpen(snapshot, limits)
<1>1. /\ snapshot.instances \in Seq(Listed) /\ snapshot.waiting \in Seq(Awaited)
      /\ snapshot.consecutive_failures = 0 /\ limits \in Configurations
  BY DEF Inv, Snapshots
<1>2. \A kind \in ServerKinds : kind.listed.volume_gb \in Nat \cup {None}
  BY DEF ServerKinds, Server
<1>3. \A i \in DOMAIN snapshot.instances : snapshot.instances[i].volume_gb \in Nat \cup {None}
  <2>1. \A i \in DOMAIN snapshot.instances : snapshot.instances[i] \in Listed
    BY <1>1, LenProperties, ElementOfSeq
  <2> QED
    BY <1>2, <2>1 DEF Listed
<1>4. \A i \in Live(snapshot) : VolumeGb(snapshot, i) \in Nat
  BY <1>3 DEF VolumeGb, Live
<1>5. \A w \in DOMAIN snapshot.waiting : snapshot.waiting[w].disk_gb \in Nat \cup {None}
  BY SnapshotsAreCountable
<1>6. Measurable(snapshot, limits)
  BY <1>1, <1>4, <1>5, ConfigurationsAreMeasured DEF Measurable
<1>7. ~BreakerOpen(snapshot, limits)
  BY <1>1, ConfigurationsAreMeasured DEF BreakerOpen
<1> QED
  BY <1>6, <1>7

\* Oldest first, each to the youngest instance of its size: the pairs Plan states are the ones
\* the assignment loop of decide() makes (plan.py 682-721).
THEOREM AssignIsAlwaysTheLoop == Spec => []AssignIsTheLoop
<1>1. ASSUME Inv
      PROVE  AssignIsTheLoop
  BY <1>1, SnapshotsAreCountable, AssignIsGreedy DEF AssignIsTheLoop, Countable
<1>2. Inv => AssignIsTheLoop
  BY <1>1
<1> QED
  BY <1>2, InvHolds, PTL

\* The creates Plan states are the ones _wanted_rungs asks for and _allocate lets through
\* (plan.py 959-1069).
THEOREM CreateIsAlwaysTheLoop == Spec => []CreateIsTheLoop
<1>1. ASSUME Inv
      PROVE  CreateIsTheLoop
  BY <1>1, SnapshotsAreCountable, SnapshotsAreMeasurable, CreateIsGreedy DEF CreateIsTheLoop
<1>2. Inv => CreateIsTheLoop
  BY <1>1
<1> QED
  BY <1>2, InvHolds, PTL
=============================================================================
