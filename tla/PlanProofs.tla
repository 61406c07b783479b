----------------------------- MODULE PlanProofs -----------------------------
(***************************************************************************)
(* What the decision of plan.py is for every snapshot and every limits:    *)
(* the order S7 serves submissions in is a list of them, the pairs it      *)
(* assigns are a matching, and the creates fit the headroom.               *)
(***************************************************************************)
EXTENDS Plan, FiniteSetTheorems, SequenceTheorems, TLAPS

-----------------------------------------------------------------------------
\* Max and Min are CHOOSEs: on two integers, and on a set of naturals.

LEMMA MaxOfTwo ==
  ASSUME NEW a \in Int, NEW b \in Int
  PROVE  /\ Max({a, b}) \in {a, b}
         /\ Max({a, b}) >= a /\ Max({a, b}) >= b
<1>1. \E x \in {a, b} : \A y \in {a, b} : x >= y
  <2>1. CASE a >= b
    BY <2>1
  <2>2. CASE b >= a
    BY <2>2
  <2> QED
    BY <2>1, <2>2
<1>2. Max({a, b}) \in {a, b} /\ \A y \in {a, b} : Max({a, b}) >= y
  BY <1>1 DEF Max
<1> QED
  BY <1>2

LEMMA MinOfTwo ==
  ASSUME NEW a \in Int, NEW b \in Int
  PROVE  /\ Min({a, b}) \in {a, b}
         /\ Min({a, b}) <= a /\ Min({a, b}) <= b
<1>1. \E x \in {a, b} : \A y \in {a, b} : x <= y
  <2>1. CASE a <= b
    BY <2>1
  <2>2. CASE b <= a
    BY <2>2
  <2> QED
    BY <2>1, <2>2
<1>2. Min({a, b}) \in {a, b} /\ \A y \in {a, b} : Min({a, b}) <= y
  BY <1>1 DEF Min
<1> QED
  BY <1>2

LEMMA LeastOfNaturals ==
  ASSUME NEW S, S \subseteq Nat, S # {}
  PROVE  \E x \in S : \A y \in S : x <= y
<1>1. PICK x \in S : \A y \in S : ~(<<y, x>> \in OpToRel(<, Nat))
  BY NatLessThanWellFounded, WFMin
<1>2. ASSUME NEW y \in S
      PROVE  x <= y
  <2>1. <<y, x>> \in Nat \X Nat
    OBVIOUS
  <2>2. y < x => <<y, x>> \in OpToRel(<, Nat)
    BY <2>1 DEF OpToRel
  <2>3. ~(y < x)
    BY <2>2, <1>1, Zenon
  <2> QED
    BY <2>3
<1> QED
  BY <1>2

LEMMA MinOfNaturals ==
  ASSUME NEW S, S \subseteq Nat, S # {}
  PROVE  Min(S) \in S
BY LeastOfNaturals DEF Min

-----------------------------------------------------------------------------
\* _oldest_first: ages and ids order any finite set of waiting submissions strictly.

Orderable(s, W) ==
  /\ IsFiniteSet(W) /\ W \subseteq Nat
  /\ \A w \in W : s.waiting[w].age \in Nat

LEMMA OlderTransitive ==
  ASSUME NEW s, NEW W, Orderable(s, W), NEW u \in W, NEW v \in W, NEW w \in W,
         Older(s, u, v), Older(s, v, w)
  PROVE  Older(s, u, w)
<1> DEFINE a == s.waiting[u].age
           b == s.waiting[v].age
           c == s.waiting[w].age
<1>1. a \in Nat /\ b \in Nat /\ c \in Nat /\ u \in Nat /\ v \in Nat /\ w \in Nat
  BY DEF Orderable
<1>2. a > b \/ (a = b /\ u < v)
  BY DEF Older
<1>3. b > c \/ (b = c /\ v < w)
  BY DEF Older
<1>4. a > c \/ (a = c /\ u < w)
  <2> HIDE DEF a, b, c
  <2> QED
    BY <1>1, <1>2, <1>3
<1> QED
  BY <1>4 DEF Older

LEMMA OlderTotal ==
  ASSUME NEW s, NEW W, Orderable(s, W), NEW v \in W, NEW w \in W
  PROVE  /\ ~Older(s, v, v)
         /\ v # w => Older(s, v, w) \/ Older(s, w, v)
<1> DEFINE a == s.waiting[v].age
           b == s.waiting[w].age
<1>1. a \in Nat /\ b \in Nat /\ v \in Nat /\ w \in Nat
  BY DEF Orderable
<1>2. ~(a > a \/ (a = a /\ v < v))
  <2> HIDE DEF a
  <2> QED
    BY <1>1
<1>3. v # w => (a > b \/ (a = b /\ v < w)) \/ (b > a \/ (b = a /\ w < v))
  <2> HIDE DEF a, b
  <2> QED
    BY <1>1
<1> QED
  BY <1>2, <1>3 DEF Older

\* What is older than a submission is older than whatever is younger than it.
LEMMA RankGrows ==
  ASSUME NEW s, NEW W, Orderable(s, W), NEW v \in W, NEW w \in W, Older(s, v, w)
  PROVE  Cardinality({u \in W : Older(s, u, v)}) < Cardinality({u \in W : Older(s, u, w)})
<1> DEFINE A == {u \in W : Older(s, u, v)}
           B == {u \in W : Older(s, u, w)}
<1>1. IsFiniteSet(A) /\ IsFiniteSet(B)
  BY FS_Subset DEF Orderable
<1>2. v \notin A
  BY OlderTotal
<1>3. A \cup {v} \subseteq B
  BY OlderTransitive
<1> HIDE DEF A, B
<1>4. Cardinality(A \cup {v}) = Cardinality(A) + 1
  BY <1>1, <1>2, FS_AddElement
<1>5. Cardinality(A \cup {v}) <= Cardinality(B)
  BY <1>1, <1>3, FS_Subset
<1>6. Cardinality(A) \in Nat /\ Cardinality(B) \in Nat
  BY <1>1, FS_CardinalityType
<1> QED
  BY <1>4, <1>5, <1>6 DEF A, B

\* The list is of W's elements, each at the position its rank gives it: every waiting
\* submission is in it once, and an older one before a younger one.
THEOREM OldestFirstIsAList ==
  ASSUME NEW s, NEW W, Orderable(s, W)
  PROVE  /\ Cardinality(W) \in Nat
         /\ OldestFirst(s, W) \in Bijection(1..Cardinality(W), W)
         /\ \A m, n \in 1..Cardinality(W) :
              m < n => Older(s, OldestFirst(s, W)[m], OldestFirst(s, W)[n])
<1> DEFINE k == Cardinality(W)
           rank(w) == Cardinality({v \in W : Older(s, v, w)})
           r == [w \in W |-> rank(w) + 1]
           q == OldestFirst(s, W)
<1>1. k \in Nat
  BY FS_CardinalityType DEF Orderable
<1>2. IsFiniteSet(1..k) /\ Cardinality(1..k) = k
  <2> HIDE DEF k
  <2>1. 1 \in Int /\ k \in Int /\ (IF 1 > k THEN 0 ELSE k - 1 + 1) = k
    BY <1>1
  <2> QED
    BY <2>1, FS_Interval
<1>3. ASSUME NEW w \in W
      PROVE  rank(w) \in Nat /\ rank(w) < k
  <2>1. {v \in W : Older(s, v, w)} \subseteq W \ {w}
    BY OlderTotal
  <2>2. IsFiniteSet(W \ {w}) /\ Cardinality(W \ {w}) = k - 1
    BY FS_RemoveElement DEF Orderable
  <2>3. /\ IsFiniteSet({v \in W : Older(s, v, w)})
        /\ rank(w) <= Cardinality(W \ {w})
    BY <2>1, <2>2, FS_Subset
  <2>4. rank(w) \in Nat
    BY <2>3, FS_CardinalityType
  <2> HIDE DEF k, rank
  <2> QED
    BY <1>1, <2>2, <2>3, <2>4
<1>4. \A v, w \in W : Older(s, v, w) => rank(v) < rank(w)
  BY RankGrows
<1>5. \A v, w \in W : v # w => Older(s, v, w) \/ Older(s, w, v)
  BY OlderTotal
<1>6. q = [n \in 1..k |-> CHOOSE w \in W : rank(w) = n - 1]
  BY DEF OldestFirst
<1> HIDE DEF k, rank, q
<1>7. ASSUME NEW v \in W, NEW w \in W, rank(v) < rank(w)
      PROVE  Older(s, v, w)
  <2>1. rank(v) \in Nat /\ rank(w) \in Nat
    BY <1>3
  <2>2. v # w
    BY <1>7, <2>1
  <2>3. ~(rank(w) < rank(v))
    BY <1>7, <2>1
  <2> QED
    BY <2>2, <2>3, <1>4, <1>5
<1>8. ASSUME NEW v \in W, NEW w \in W, rank(v) = rank(w)
      PROVE  v = w
  <2>1. ~(rank(v) < rank(w)) /\ ~(rank(w) < rank(v))
    BY <1>8, <1>3
  <2> QED
    BY <2>1, <1>4, <1>5
<1>9. r \in [W -> 1..k]
  BY <1>1, <1>3
<1>10. \A v, w \in W : r[v] = r[w] => v = w
  BY <1>3, <1>8
<1>11. r \in Injection(W, 1..k)
  <2> HIDE DEF r
  <2> QED
    BY <1>9, <1>10 DEF Injection, IsInjective
<1>12. r \in Surjection(W, 1..k)
  <2>1. IsFiniteSet(W) /\ Cardinality(W) = Cardinality(1..k)
    BY <1>2 DEF Orderable, k
  <2> QED
    BY <1>2, <1>11, <2>1, FS_Injection
<1>13. ASSUME NEW n \in 1..k
       PROVE  q[n] \in W /\ rank(q[n]) = n - 1
  <2>1. PICK w \in W : r[w] = n
    BY <1>12 DEF Surjection
  <2>2. rank(w) = n - 1
    BY <2>1, <1>3
  <2> QED
    BY <2>2, <1>6
<1>14. q \in [1..k -> W]
  BY <1>13, <1>6
<1>15. \A m, n \in 1..k : q[m] = q[n] => m = n
  <2>1. ASSUME NEW m \in 1..k, NEW n \in 1..k, q[m] = q[n]
        PROVE  m = n
    <3>1. m - 1 = n - 1
      BY <2>1, <1>13
    <3> QED
      BY <3>1, <1>1
  <2> QED
    BY <2>1
<1>16. ASSUME NEW w \in W
       PROVE  \E n \in 1..k : q[n] = w
  <2>1. r[w] \in 1..k /\ rank(w) = r[w] - 1
    BY <1>9, <1>3
  <2>2. rank(q[r[w]]) = rank(w) /\ q[r[w]] \in W
    BY <2>1, <1>13
  <2> QED
    BY <2>1, <2>2, <1>8
<1>17. q \in Bijection(1..k, W)
  BY <1>14, <1>15, <1>16 DEF Bijection, Injection, Surjection, IsInjective
<1>18. ASSUME NEW m \in 1..k, NEW n \in 1..k, m < n
       PROVE  Older(s, q[m], q[n])
  <2>1. rank(q[m]) < rank(q[n])
    BY <1>18, <1>13, <1>1
  <2> QED
    BY <2>1, <1>13, <1>7
<1> QED
  BY <1>1, <1>17, <1>18 DEF k, q

-----------------------------------------------------------------------------
\* The creates: a list, and never longer than the headroom.

LEMMA FunctionIsSeq ==
  ASSUME NEW C, NEW k \in Nat, NEW f \in [1..k -> C]
  PROVE  f \in Seq(C) /\ Len(f) = k
<1>1. f \in Seq(C)
  BY SeqDef
<1>2. Len(f) \in Nat /\ DOMAIN f = 1..Len(f)
  BY <1>1, LenProperties
<1>3. 1..k = 1..Len(f)
  BY <1>2
<1>4. \A n \in Nat : n \in 1..k <=> n \in 1..Len(f)
  BY <1>3
<1>5. Len(f) = k
  <2> HIDE <1>3
  <2>1. k >= 1 => k <= Len(f)
    BY <1>2, <1>4
  <2>2. Len(f) >= 1 => Len(f) <= k
    BY <1>2, <1>4
  <2> QED
    BY <1>2, <2>1, <2>2
<1> QED
  BY <1>1, <1>5

\* What decide() needs of a snapshot and of the limits to count with them.
Countable(s, L) ==
  /\ IsFiniteSet(DOMAIN s.instances)
  /\ Orderable(s, DOMAIN s.waiting)
  /\ s.queue_depth \in Nat
  /\ L.max_instances \in Nat

LEMMA CountsAreNaturals ==
  ASSUME NEW s, NEW L, Countable(s, L)
  PROVE  /\ IsFiniteSet(Live(s)) /\ Cardinality(Live(s)) \in Nat
         /\ Cardinality(Available(s, L)) \in Nat
         /\ Cardinality(Stalled(s, L)) \in Nat
         /\ Orderable(s, Uncovered(s, L))
<1>1. Live(s) \subseteq DOMAIN s.instances
  BY DEF Live
<1>2. Available(s, L) \subseteq Live(s)
  BY DEF Available
<1>3. Stalled(s, L) \subseteq DOMAIN s.waiting
  BY DEF Stalled
<1>4. Uncovered(s, L) \subseteq Stalled(s, L)
  BY DEF Uncovered
<1>5. IsFiniteSet(Live(s))
  BY <1>1, FS_Subset DEF Countable
<1>6. IsFiniteSet(Available(s, L))
  BY <1>2, <1>5, FS_Subset
<1>7. IsFiniteSet(Stalled(s, L))
  BY <1>3, FS_Subset DEF Countable, Orderable
<1>8. IsFiniteSet(Uncovered(s, L))
  BY <1>4, <1>7, FS_Subset
<1>9. Orderable(s, Uncovered(s, L))
  BY <1>3, <1>4, <1>8 DEF Countable, Orderable
<1> QED
  BY <1>5, <1>6, <1>7, <1>9, FS_CardinalityType

\* C is any set that holds the creates the waiting submissions ask for.
LEMMA WantedIsAList ==
  ASSUME NEW s, NEW L, Countable(s, L), NEW C, Unsized \in C,
         \A w \in DOMAIN s.waiting :
           [rung |-> SubmissionRung(s, L, w), disk_gb |-> s.waiting[w].disk_gb] \in C
  PROVE  Wanted(s, L) \in Seq(C)
<1> DEFINE W == Uncovered(s, L)
           first == OldestFirst(s, W)
           extra == Max({0, s.queue_depth - Cardinality(Stalled(s, L))})
           sized == [n \in 1..Len(first) |->
                       [rung    |-> SubmissionRung(s, L, first[n]),
                        disk_gb |-> s.waiting[first[n]].disk_gb]]
           unsized == [n \in 1..extra |-> Unsized]
<1>1. W \subseteq DOMAIN s.waiting
  BY DEF Uncovered, Stalled
<1>2. Cardinality(W) \in Nat /\ first \in [1..Cardinality(W) -> W]
  BY CountsAreNaturals, OldestFirstIsAList DEF Bijection, Injection
<1>3. Len(first) = Cardinality(W)
  BY <1>2, FunctionIsSeq
<1>4. sized \in [1..Len(first) -> C]
  BY <1>1, <1>2, <1>3
<1>5. extra \in Nat
  <2>1. 0 \in Int /\ s.queue_depth - Cardinality(Stalled(s, L)) \in Int
    BY CountsAreNaturals DEF Countable
  <2>2. extra \in {0, s.queue_depth - Cardinality(Stalled(s, L))} /\ extra >= 0
    BY <2>1, MaxOfTwo
  <2> QED
    BY <2>1, <2>2
<1>6. sized \in Seq(C)
  BY <1>2, <1>3, <1>4, FunctionIsSeq
<1>7. unsized \in Seq(C)
  BY <1>5, FunctionIsSeq
<1>8. sized \o unsized \in Seq(C)
  BY <1>6, <1>7, ConcatProperties
<1> QED
  BY <1>8 DEF Wanted

LEMMA HeadroomIsAnInteger ==
  ASSUME NEW s, NEW L, Countable(s, L)
  PROVE  Headroom(s, L) \in Int
BY CountsAreNaturals DEF Headroom, Countable

\* _allocate stops at the headroom, and places no more than is wanted.
LEMMA AllocatedIsBounded ==
  ASSUME NEW s, NEW L, Countable(s, L), Len(Wanted(s, L)) \in Nat
  PROVE  LET n == Cardinality(Allocated(s, L))
         IN  /\ n \in Nat /\ n <= Len(Wanted(s, L))
             /\ n > 0 => n <= Headroom(s, L)
<1> DEFINE k == Len(Wanted(s, L))
           h == Headroom(s, L)
           A == Allocated(s, L)
<1>1. A \subseteq 1..k
  BY DEF Allocated
<1>2. A \subseteq 1..h
  BY HeadroomIsAnInteger DEF Allocated, Fits
<1> HIDE DEF A, h, k
<1>3. k \in Nat /\ h \in Int
  BY HeadroomIsAnInteger DEF h, k
<1>4. IsFiniteSet(1..k) /\ Cardinality(1..k) = k
  BY <1>3, FS_Interval
<1>5. IsFiniteSet(1..h) /\ Cardinality(1..h) = IF h < 1 THEN 0 ELSE h
  BY <1>3, FS_Interval
<1>6. IsFiniteSet(A) /\ Cardinality(A) <= k
  BY <1>1, <1>4, FS_Subset
<1>7. Cardinality(A) <= Cardinality(1..h)
  BY <1>2, <1>5, FS_Subset
<1>8. Cardinality(A) \in Nat
  BY <1>6, FS_CardinalityType
<1> QED
  BY <1>3, <1>5, <1>6, <1>7, <1>8 DEF A, h, k

LEMMA CreateCountIsBounded ==
  ASSUME NEW s, NEW L, Countable(s, L), Len(Wanted(s, L)) \in Nat
  PROVE  /\ CreateCount(s, L) \in Nat
         /\ CreateCount(s, L) > 0 => CreateCount(s, L) <= Headroom(s, L)
         /\ Sized(L) => CreateCount(s, L) <= Len(Wanted(s, L))
<1>1. CASE Sized(L)
  BY <1>1, AllocatedIsBounded DEF CreateCount
<1>2. CASE ~Sized(L)
  <2> DEFINE h == Headroom(s, L)
             short == Demand(s, L) - Cardinality(Available(s, L))
             least == Min({short, h})
  <2>1. h \in Int
    BY HeadroomIsAnInteger
  <2>2. Demand(s, L) \in Int
    <3>1. s.queue_depth \in Int /\ Cardinality(Stalled(s, L)) \in Int
      BY CountsAreNaturals DEF Countable
    <3>2. Demand(s, L) \in {s.queue_depth, Cardinality(Stalled(s, L))}
      BY <3>1, MaxOfTwo DEF Demand
    <3> QED
      BY <3>1, <3>2
  <2>3. short \in Int
    BY <2>2, CountsAreNaturals
  <2>4. least \in {short, h} /\ least <= h
    BY <2>1, <2>3, MinOfTwo
  <2>5. Max({0, least}) \in {0, least} /\ Max({0, least}) >= 0
    <3>1. 0 \in Int /\ least \in Int
      BY <2>1, <2>3, <2>4
    <3> HIDE DEF least
    <3> QED
      BY <3>1, MaxOfTwo
  <2>6. CreateCount(s, L) = Max({0, least})
    BY <1>2 DEF CreateCount
  <2> HIDE DEF short, h, least
  <2> QED
    BY <1>2, <2>1, <2>3, <2>4, <2>5, <2>6 DEF h
<1> QED
  BY <1>1, <1>2

\* decide() asks for at most as many creates as the fleet it was shown leaves room for,
\* on either path, and for none while the breaker is open.
THEOREM CreateFitsTheHeadroom ==
  ASSUME NEW s, NEW L, Countable(s, L), NEW C, Unsized \in C,
         \A w \in DOMAIN s.waiting :
           [rung |-> SubmissionRung(s, L, w), disk_gb |-> s.waiting[w].disk_gb] \in C
  PROVE  /\ Create(s, L) \in Seq(C)
         /\ Create(s, L) # << >> =>
              /\ ~BreakerOpen(s, L)
              /\ Cardinality(Live(s)) + Len(Create(s, L)) <= L.max_instances
<1> DEFINE k == CreateCount(s, L)
           f == [n \in 1..k |-> IF Sized(L) THEN Wanted(s, L)[n] ELSE Unsized]
<1>1. Wanted(s, L) \in Seq(C)
  BY WantedIsAList
<1>2. /\ Len(Wanted(s, L)) \in Nat
      /\ \A n \in 1..Len(Wanted(s, L)) : Wanted(s, L)[n] \in C
  BY <1>1, LenProperties, ElementOfSeq
<1>3. /\ k \in Nat
      /\ k > 0 => k <= Headroom(s, L)
      /\ Sized(L) => k <= Len(Wanted(s, L))
  BY <1>2, CreateCountIsBounded
<1>4. f \in [1..k -> C]
  BY <1>2, <1>3
<1>5. f \in Seq(C) /\ Len(f) = k
  BY <1>3, <1>4, FunctionIsSeq
<1>6. CASE BreakerOpen(s, L)
  BY <1>6, EmptySeq DEF Create
<1>7. CASE ~BreakerOpen(s, L)
  <2>1. Create(s, L) = f
    BY <1>7 DEF Create
  <2>2. f # << >> => k > 0
    BY <1>5, <1>3, EmptySeq
  <2>3. k > 0 => Cardinality(Live(s)) + k <= L.max_instances
    <3> HIDE DEF k
    <3>1. Cardinality(Live(s)) \in Nat /\ L.max_instances \in Nat
      BY CountsAreNaturals DEF Countable
    <3> QED
      BY <1>3, <3>1 DEF Headroom
  <2> QED
    BY <1>5, <1>7, <2>1, <2>2, <2>3
<1> QED
  BY <1>6, <1>7

\* Nothing is created while the breaker is open; otherwise a prefix of what is wanted is.
LEMMA CreateUnfolds ==
  ASSUME NEW s, NEW L, NEW n \in DOMAIN Create(s, L)
  PROVE  Create(s, L) = [m \in 1..CreateCount(s, L) |->
                           IF Sized(L) THEN Wanted(s, L)[m] ELSE Unsized]
<1>1. SUFFICES ASSUME BreakerOpen(s, L) PROVE FALSE
  BY DEF Create
<1>2. Create(s, L) = << >>
  BY <1>1 DEF Create
<1> QED
  BY <1>2

\* What the loop of _allocate places is a prefix of what is wanted: each create of the
\* sized path fitted, with all that come before it.
LEMMA CreatesFit ==
  ASSUME NEW s, NEW L, Countable(s, L), Len(Wanted(s, L)) \in Nat, Sized(L),
         NEW n \in DOMAIN Create(s, L)
  PROVE  /\ n \in Nat /\ DOMAIN Create(s, L) = 1..CreateCount(s, L)
         /\ \A m \in 1..n : Create(s, L)[m] = Wanted(s, L)[m]
         /\ Fits(s, L, Wanted(s, L), n)
<1> DEFINE k == CreateCount(s, L)
           A == Allocated(s, L)
<1>1. Create(s, L) = [m \in 1..k |-> Wanted(s, L)[m]]
  BY CreateUnfolds
<1>2. k \in Nat /\ n \in 1..k
  BY <1>1, CreateCountIsBounded
<1>3. k = Cardinality(A) /\ k <= Len(Wanted(s, L))
  BY CreateCountIsBounded DEF CreateCount
<1>4. A \subseteq 1..Len(Wanted(s, L))
  BY DEF Allocated
<1>5. ASSUME n \notin A PROVE FALSE
  <2>1. \A m \in A : m < n
    <3> SUFFICES ASSUME NEW m \in A, ~(m < n) PROVE FALSE
      OBVIOUS
    <3>1. m \in 1..Len(Wanted(s, L)) /\ \A j \in 1..m : Fits(s, L, Wanted(s, L), j)
      BY DEF Allocated
    <3>2. n \in 1..Len(Wanted(s, L)) /\ \A j \in 1..n : j \in 1..m
      BY <3>1, <1>2, <1>3
    <3>3. n \in A
      BY <3>1, <3>2 DEF Allocated
    <3> QED
      BY <3>3, <1>5
  <2>2. A \subseteq 1..(n - 1) /\ n - 1 \in Nat
    BY <2>1, <1>4, <1>2
  <2>3. IsFiniteSet(1..(n - 1)) /\ Cardinality(1..(n - 1)) = n - 1
    BY <2>2, FS_Interval
  <2>4. Cardinality(A) <= n - 1
    BY <2>2, <2>3, FS_Subset
  <2> HIDE DEF A, k
  <2> QED
    BY <2>4, <1>3, <1>2
<1>6. Fits(s, L, Wanted(s, L), n)
  BY <1>5, <1>4, <1>2 DEF Allocated
<1>7. \A m \in 1..n : Create(s, L)[m] = Wanted(s, L)[m]
  BY <1>1, <1>2
<1> QED
  BY <1>1, <1>2, <1>6, <1>7

\* decide() never asks for a rung the catalogue it was given has not.
THEOREM CreateNamesARung ==
  ASSUME NEW s, NEW L, Countable(s, L), Len(Wanted(s, L)) \in Nat,
         NEW n \in DOMAIN Create(s, L)
  PROVE  Create(s, L)[n].rung = None \/ Create(s, L)[n].rung \in Rungs(L)
<1>1. CASE ~Sized(L)
  BY <1>1, CreateUnfolds, CreateCountIsBounded DEF Unsized
<1>2. CASE Sized(L)
  <2>1. Create(s, L)[n] = Wanted(s, L)[n] /\ Fits(s, L, Wanted(s, L), n)
    BY <1>2, CreatesFit
  <2> QED
    BY <2>1 DEF Fits
<1> QED
  BY <1>1, <1>2

\* The volumes the listed fleet holds, and those that a create and the creates before it
\* would take, are within max_volumes whenever that create wants a volume (plan.py,
\* _allocate): one that wants none is not held up by the quota, and takes nothing of it.
THEOREM CreateFitsTheVolumes ==
  ASSUME NEW s, NEW L, Countable(s, L), Len(Wanted(s, L)) \in Nat, Sized(L),
         L.max_volumes # None,
         NEW n \in DOMAIN Create(s, L), DiskGb(Create(s, L)[n]) > 0
  PROVE  Cardinality(VolumeHolders(s)) + Cardinality(Takers(Create(s, L), n)) <= L.max_volumes
<1>1. /\ n \in Nat /\ n \in 1..n
      /\ \A m \in 1..n : Create(s, L)[m] = Wanted(s, L)[m]
      /\ Fits(s, L, Wanted(s, L), n)
  <2>1. /\ n \in 1..CreateCount(s, L) /\ CreateCount(s, L) \in Nat
        /\ \A m \in 1..n : Create(s, L)[m] = Wanted(s, L)[m]
        /\ Fits(s, L, Wanted(s, L), n)
    BY CreatesFit, CreateCountIsBounded
  <2> QED
    BY <2>1
<1>2. Takers(Create(s, L), n) = Takers(Wanted(s, L), n)
  BY <1>1 DEF Takers
<1>3. QuotaWith(s, L, Wanted(s, L), n).volumes
        = Cardinality(VolumeHolders(s)) + Cardinality(Takers(Wanted(s, L), n))
  BY DEF QuotaWith, QuotaUsed
<1>4. DiskGb(Wanted(s, L)[n]) > 0
  BY <1>1
<1>5. Within(QuotaWith(s, L, Wanted(s, L), n).volumes, L.max_volumes)
  BY <1>1, <1>4 DEF Fits
<1> QED
  BY <1>2, <1>3, <1>5 DEF Within

-----------------------------------------------------------------------------
\* The assignments: ages and ids order any finite set of instances strictly too.

Rankable(s, I) ==
  /\ IsFiniteSet(I) /\ I \subseteq Nat
  /\ \A i \in I : s.instances[i].age \in Nat \cup {None}

LEMMA YoungerTransitive ==
  ASSUME NEW s, NEW I, Rankable(s, I), NEW h \in I, NEW i \in I, NEW j \in I,
         Younger(s, h, i), Younger(s, i, j)
  PROVE  Younger(s, h, j)
<1> DEFINE a == s.instances[h].age
           b == s.instances[i].age
           c == s.instances[j].age
<1>1. /\ a \in Nat \cup {None} /\ b \in Nat \cup {None} /\ c \in Nat \cup {None}
      /\ h \in Nat /\ i \in Nat /\ j \in Nat
  BY DEF Rankable
<1>2. (a # None /\ b = None) \/ (a # None /\ b # None /\ a < b) \/ (a = b /\ h < i)
  BY DEF Younger
<1>3. (b # None /\ c = None) \/ (b # None /\ c # None /\ b < c) \/ (b = c /\ i < j)
  BY DEF Younger
<1>4. (a # None /\ c = None) \/ (a # None /\ c # None /\ a < c) \/ (a = c /\ h < j)
  <2> HIDE DEF a, b, c
  <2> QED
    BY <1>1, <1>2, <1>3
<1> QED
  BY <1>4 DEF Younger

LEMMA YoungerTotal ==
  ASSUME NEW s, NEW I, Rankable(s, I), NEW i \in I, NEW j \in I
  PROVE  /\ ~Younger(s, i, i)
         /\ i # j => Younger(s, i, j) \/ Younger(s, j, i)
<1> DEFINE a == s.instances[i].age
           b == s.instances[j].age
<1>1. a \in Nat \cup {None} /\ b \in Nat \cup {None} /\ i \in Nat /\ j \in Nat
  BY DEF Rankable
<1>2. ~((a # None /\ a = None) \/ (a # None /\ a # None /\ a < a) \/ (a = a /\ i < i))
  <2> HIDE DEF a
  <2> QED
    BY <1>1
<1>3. i # j =>
        \/ (a # None /\ b = None) \/ (a # None /\ b # None /\ a < b) \/ (a = b /\ i < j)
        \/ (b # None /\ a = None) \/ (b # None /\ a # None /\ b < a) \/ (b = a /\ j < i)
  <2> HIDE DEF a, b
  <2> QED
    BY <1>1
<1> QED
  BY <1>2, <1>3 DEF Younger

\* The position of an instance in the pool it belongs to is its own.
LEMMA PositionGrows ==
  ASSUME NEW s, NEW I, Rankable(s, I), NEW i \in I, NEW j \in I, Younger(s, i, j)
  PROVE  Cardinality({h \in I : h = i \/ Younger(s, h, i)})
           < Cardinality({h \in I : h = j \/ Younger(s, h, j)})
<1> DEFINE A == {h \in I : h = i \/ Younger(s, h, i)}
           B == {h \in I : h = j \/ Younger(s, h, j)}
<1>1. IsFiniteSet(A) /\ IsFiniteSet(B)
  BY FS_Subset DEF Rankable
<1>2. j \notin A
  <2>1. j # i
    BY YoungerTotal
  <2>2. ~Younger(s, j, i)
    BY YoungerTransitive, YoungerTotal
  <2> QED
    BY <2>1, <2>2
<1>3. A \cup {j} \subseteq B
  BY YoungerTransitive
<1> HIDE DEF A, B
<1>4. Cardinality(A \cup {j}) = Cardinality(A) + 1
  BY <1>1, <1>2, FS_AddElement
<1>5. Cardinality(A \cup {j}) <= Cardinality(B)
  BY <1>1, <1>3, FS_Subset
<1>6. Cardinality(A) \in Nat /\ Cardinality(B) \in Nat
  BY <1>1, FS_CardinalityType
<1> QED
  BY <1>4, <1>5, <1>6 DEF A, B

\* So is the position of a submission among those that want its rung.
LEMMA AheadGrows ==
  ASSUME NEW s, NEW L, NEW W, Orderable(s, W), NEW v \in W, NEW w \in W,
         Older(s, v, w), SubmissionRung(s, L, v) = SubmissionRung(s, L, w)
  PROVE  Cardinality(AheadOf(s, L, W, v)) < Cardinality(AheadOf(s, L, W, w))
<1> DEFINE A == AheadOf(s, L, W, v)
           B == AheadOf(s, L, W, w)
<1>1. A \subseteq W /\ B \subseteq W
  BY DEF AheadOf
<1>2. IsFiniteSet(A) /\ IsFiniteSet(B)
  BY <1>1, FS_Subset DEF Orderable
<1>3. w \notin A
  <2>1. w # v
    BY OlderTotal
  <2>2. ~Older(s, w, v)
    BY OlderTransitive, OlderTotal
  <2> QED
    BY <2>1, <2>2 DEF AheadOf
<1>4. A \cup {w} \subseteq B
  BY OlderTransitive DEF AheadOf
<1> HIDE DEF A, B
<1>5. Cardinality(A \cup {w}) = Cardinality(A) + 1
  BY <1>2, <1>3, FS_AddElement
<1>6. Cardinality(A \cup {w}) <= Cardinality(B)
  BY <1>2, <1>4, FS_Subset
<1>7. Cardinality(A) \in Nat /\ Cardinality(B) \in Nat
  BY <1>2, FS_CardinalityType
<1> QED
  BY <1>5, <1>6, <1>7 DEF A, B

\* The pairs a round assigns are a matching of submissions that wait for one with workers of
\* their rung, each of them up, registered, claimed by nobody, not being reaped and young
\* enough (plan.py, decide: assignable, placeable, pools): no submission is given two
\* workers, no worker two submissions.
THEOREM AssignIsAMatching ==
  ASSUME NEW s, NEW L, Orderable(s, DOMAIN s.waiting), Rankable(s, DOMAIN s.instances),
         NEW p \in Assign(s, L), NEW q \in Assign(s, L)
  PROVE  /\ L.assign
         /\ p[1] \in DOMAIN s.waiting /\ s.waiting[p[1]].assignable
         /\ p[2] \in (Live(s) \cap s.ready) \ (s.spent \cup Delete(s, L))
         /\ ~PastAge(s, p[2], L.assign_max_age)
         /\ InstanceRung(s, L, p[2]) = SubmissionRung(s, L, p[1])
         /\ p[1] = q[1] <=> p[2] = q[2]
<1> DEFINE pool(w) == Pool(s, L, SubmissionRung(s, L, w))
           position(w, i) == Cardinality({j \in pool(w) : j = i \/ Younger(s, j, i)})
           ahead(w) == Cardinality(AheadOf(s, L, Placeable(s), w))
<1>1. /\ p[1] \in Placeable(s) /\ p[2] \in pool(p[1]) /\ position(p[1], p[2]) = ahead(p[1])
      /\ q[1] \in Placeable(s) /\ q[2] \in pool(q[1]) /\ position(q[1], q[2]) = ahead(q[1])
  BY Zenon DEF Assign, Matches
<1>2. \A w \in Placeable(s) : \A i \in pool(w) :
        InstanceRung(s, L, i) = SubmissionRung(s, L, w)
  BY DEF Pool
<1>3. \A w : pool(w) \subseteq DOMAIN s.instances
  BY DEF Pool, Assignable, Unassigned, Live
<1>4. \A w : Rankable(s, pool(w))
  BY <1>3, FS_Subset DEF Rankable
<1>5. Placeable(s) \subseteq DOMAIN s.waiting
  BY DEF Placeable
<1>6. Orderable(s, Placeable(s))
  BY <1>5, FS_Subset DEF Orderable
<1>7. \A w : ahead(w) \in Nat
  <2> TAKE w
  <2>1. AheadOf(s, L, Placeable(s), w) \subseteq Placeable(s)
    BY DEF AheadOf
  <2> QED
    BY <2>1, <1>6, FS_Subset, FS_CardinalityType DEF Orderable
<1>8. p[1] = q[1] => p[2] = q[2]
  <2> SUFFICES ASSUME p[1] = q[1], p[2] # q[2] PROVE FALSE
    OBVIOUS
  <2>1. p[2] \in pool(p[1]) /\ q[2] \in pool(p[1])
    BY <1>1
  <2>2. position(p[1], p[2]) = position(p[1], q[2])
    BY <1>1
  <2>3. Younger(s, p[2], q[2]) \/ Younger(s, q[2], p[2])
    BY <2>1, <1>4, YoungerTotal
  <2>4. \/ position(p[1], p[2]) < position(p[1], q[2])
        \/ position(p[1], q[2]) < position(p[1], p[2])
    <3> HIDE DEF pool
    <3> QED
      BY <2>1, <2>3, <1>4, PositionGrows
  <2> HIDE DEF position, ahead, pool
  <2> QED
    BY <2>2, <2>4, <1>1, <1>7
<1>9. p[2] = q[2] => p[1] = q[1]
  <2> SUFFICES ASSUME p[2] = q[2], p[1] # q[1] PROVE FALSE
    OBVIOUS
  <2>1. SubmissionRung(s, L, p[1]) = SubmissionRung(s, L, q[1])
    BY <1>1, <1>2
  <2>2. ahead(p[1]) = ahead(q[1])
    BY <2>1, <1>1
  <2>3. Older(s, p[1], q[1]) \/ Older(s, q[1], p[1])
    BY <1>1, <1>6, OlderTotal
  <2>4. ahead(p[1]) < ahead(q[1]) \/ ahead(q[1]) < ahead(p[1])
    BY <2>1, <2>3, <1>1, <1>6, AheadGrows
  <2> HIDE DEF ahead, position, pool
  <2> QED
    BY <2>2, <2>4, <1>7
<1>10. p[2] \in Assignable(s, L)
  BY <1>1 DEF Pool
<1>11. /\ L.assign /\ p[2] \in s.ready /\ p[2] \in Unassigned(s, L) /\ p[2] \notin AgedOut(s, L)
  BY <1>10 DEF Assignable
<1>12. /\ p[2] \in Live(s) \ (s.spent \cup Delete(s, L))
       /\ ~PastAge(s, p[2], L.assign_max_age)
  BY <1>11 DEF Unassigned, AgedOut
<1>13. p[1] \in DOMAIN s.waiting /\ s.waiting[p[1]].assignable
  BY <1>1 DEF Placeable
<1> QED
  BY <1>1, <1>2, <1>8, <1>9, <1>11, <1>12, <1>13

\* Every position is some instance's: as many positions as instances, and none shared.
LEMMA PositionIsTaken ==
  ASSUME NEW s, NEW I, Rankable(s, I), NEW n \in 1..Cardinality(I)
  PROVE  \E i \in I : Cardinality({j \in I : j = i \/ Younger(s, j, i)}) = n
<1> DEFINE k == Cardinality(I)
           position(i) == Cardinality({j \in I : j = i \/ Younger(s, j, i)})
           r == [i \in I |-> position(i)]
<1>1. IsFiniteSet(I) /\ k \in Nat
  BY FS_CardinalityType DEF Rankable
<1>2. IsFiniteSet(1..k) /\ Cardinality(1..k) = k
  <2> HIDE DEF k
  <2>1. 1 \in Int /\ k \in Int /\ (IF 1 > k THEN 0 ELSE k - 1 + 1) = k
    BY <1>1
  <2> QED
    BY <2>1, FS_Interval
<1>3. ASSUME NEW i \in I
      PROVE  position(i) \in 1..k
  <2> DEFINE A == {j \in I : j = i \/ Younger(s, j, i)}
  <2>1. IsFiniteSet(A) /\ Cardinality(A) <= k /\ Cardinality(A) \in Nat
    BY <1>1, FS_Subset, FS_CardinalityType
  <2>2. A # {}
    OBVIOUS
  <2>3. Cardinality(A) # 0
    BY <2>1, <2>2, FS_EmptySet
  <2> HIDE DEF A, k
  <2>4. Cardinality(A) \in 1..k
    BY <2>1, <2>3, <1>1
  <2> QED
    BY <2>4 DEF A
<1>4. \A i, j \in I : Younger(s, i, j) => position(i) < position(j)
  BY PositionGrows
<1>5. \A i, j \in I : i # j => Younger(s, i, j) \/ Younger(s, j, i)
  BY YoungerTotal
<1> HIDE DEF position
<1>6. \A i, j \in I : r[i] = r[j] => i = j
  <2> SUFFICES ASSUME NEW i \in I, NEW j \in I, position(i) = position(j), i # j PROVE FALSE
    OBVIOUS
  <2>1. position(i) < position(j) \/ position(j) < position(i)
    BY <1>4, <1>5
  <2>2. position(i) \in Int /\ position(j) \in Int
    BY <1>3
  <2> QED
    BY <2>1, <2>2
<1>7. r \in [I -> 1..k]
  BY <1>3
<1> HIDE DEF r
<1>8. r \in Injection(I, 1..k)
  BY <1>6, <1>7 DEF Injection, IsInjective
<1>9. r \in Surjection(I, 1..k)
  BY <1>1, <1>2, <1>8, FS_Injection DEF k
<1>10. PICK i \in I : r[i] = n
  BY <1>9 DEF Surjection
<1> QED
  BY <1>10 DEF r, position

\* S7, the half of the assignments: a round that places a submission places every older one
\* that is ours to place, whatever their rungs are.
THEOREM NoneIsSkipped ==
  ASSUME NEW s, NEW L, Orderable(s, DOMAIN s.waiting), Rankable(s, DOMAIN s.instances),
         NEW p \in Assign(s, L), NEW w \in Placeable(s), Older(s, w, p[1])
  PROVE  \E q \in Assign(s, L) : q[1] = w
<1> DEFINE pool == Pool(s, L, SubmissionRung(s, L, w))
           A == AheadOf(s, L, Placeable(s), w)
<1>1. /\ p[1] \in Placeable(s)
      /\ \A v \in Placeable(s) : v = p[1] \/ Older(s, v, p[1]) =>
           Cardinality(AheadOf(s, L, Placeable(s), v))
             <= Cardinality(Pool(s, L, SubmissionRung(s, L, v)))
  BY DEF Assign, Reached
<1>2. Orderable(s, Placeable(s))
  <2>1. Placeable(s) \subseteq DOMAIN s.waiting
    BY DEF Placeable
  <2> QED
    BY <2>1, FS_Subset DEF Orderable
<1>3. Rankable(s, pool) /\ pool \subseteq Assignable(s, L)
  <2>1. pool \subseteq DOMAIN s.instances /\ pool \subseteq Assignable(s, L)
    BY DEF Pool, Assignable, Unassigned, Live
  <2> QED
    BY <2>1, FS_Subset DEF Rankable
<1>4. Cardinality(A) \in 1..Cardinality(pool)
  <2>1. Cardinality(A) <= Cardinality(pool)
    BY <1>1
  <2>2. A \subseteq Placeable(s) /\ w \in A
    BY DEF AheadOf
  <2>3. IsFiniteSet(A) /\ IsFiniteSet(pool)
    BY <1>2, <1>3, <2>2, FS_Subset DEF Orderable, Rankable
  <2>4. Cardinality(A) \in Nat /\ Cardinality(pool) \in Nat /\ Cardinality(A) # 0
    BY <2>2, <2>3, FS_CardinalityType, FS_EmptySet
  <2> HIDE DEF A, pool
  <2> QED
    BY <2>1, <2>4
<1>5. PICK i \in pool :
        Cardinality({j \in pool : j = i \/ Younger(s, j, i)}) = Cardinality(A)
  <2> HIDE DEF A, pool
  <2> QED
    BY <1>3, <1>4, PositionIsTaken
<1>6. Matches(s, L, w, i)
  BY <1>5 DEF Matches
<1>7. Reached(s, L, w)
  <2>1. ASSUME NEW v \in Placeable(s), v = w \/ Older(s, v, w)
        PROVE  Older(s, v, p[1])
    BY <1>1, <1>2, <2>1, OlderTransitive
  <2> QED
    BY <1>1, <2>1, Zenon DEF Reached
<1>8. <<w, i>> \in Assign(s, L)
  BY <1>3, <1>5, <1>6, <1>7 DEF Assign
<1> QED
  BY <1>8

-----------------------------------------------------------------------------
(***************************************************************************)
(* S7 across the creates: what will be served is an initial segment of     *)
(* what no instance is left for.                                           *)
(***************************************************************************)

\* The instances of a rung that count as capacity, and those the round creates.
Fitting(s, L, rung) == {i \in Available(s, L) : InstanceRung(s, L, i) = rung}
Coming(s, L, rung) == {n \in DOMAIN Create(s, L) : Create(s, L)[n].rung = rung}

\* What is there and what is coming is enough for w and all that is served before it.
WillBeServed(s, L, w) ==
  LET rung == SubmissionRung(s, L, w)
  IN  Cardinality(AheadOf(s, L, Stalled(s, L), w))
        <= Cardinality(Fitting(s, L, rung)) + Cardinality(Coming(s, L, rung))

\* Of the stalled submissions ahead of one that is not covered, exactly as many are covered
\* as there are instances of their rung.
LEMMA CoveredAhead ==
  ASSUME NEW s, NEW L, Countable(s, L), NEW w \in Uncovered(s, L)
  PROVE  LET ahead == AheadOf(s, L, Stalled(s, L), w)
             a     == Cardinality(Fitting(s, L, SubmissionRung(s, L, w)))
         IN  /\ a \in Nat
             /\ Cardinality(ahead) = a + Cardinality(AheadOf(s, L, Uncovered(s, L), w))
<1> DEFINE W == Stalled(s, L)
           U == Uncovered(s, L)
           rung == SubmissionRung(s, L, w)
           A == AheadOf(s, L, W, w)
           a == Cardinality(Fitting(s, L, rung))
           position(v) == Cardinality(AheadOf(s, L, W, v))
           C == {v \in A : position(v) <= a}
           r == [v \in A |-> position(v)]
           rc == [v \in C |-> position(v)]
<1>1. /\ Orderable(s, W) /\ U \subseteq W /\ w \in W
  <2>1. W \subseteq DOMAIN s.waiting /\ U \subseteq W
    BY DEF Stalled, Uncovered
  <2> QED
    BY <2>1, FS_Subset DEF Countable, Orderable
<1>2. A \subseteq W /\ w \in A /\ IsFiniteSet(A) /\ Cardinality(A) \in Nat
  <2>1. A \subseteq W /\ w \in A
    BY <1>1 DEF AheadOf
  <2> QED
    BY <1>1, <2>1, FS_Subset, FS_CardinalityType DEF Orderable
<1>3. a \in Nat
  <2>1. Fitting(s, L, rung) \subseteq Live(s)
    BY DEF Fitting, Available
  <2> QED
    BY <2>1, CountsAreNaturals, FS_Subset, FS_CardinalityType
<1>4. \A v \in A : SubmissionRung(s, L, v) = rung
  BY DEF AheadOf
<1>5. \A v \in W : v \in U <=> position(v) > Cardinality(Fitting(s, L, SubmissionRung(s, L, v)))
  BY DEF Uncovered, Fitting
<1>6. a < Cardinality(A)
  BY <1>1, <1>2, <1>3, <1>5
<1>7. ASSUME NEW v \in A
      PROVE  /\ position(v) \in 1..Cardinality(A)
             /\ v \in U <=> position(v) > a
  <2> DEFINE B == AheadOf(s, L, W, v)
  <2>1. B \subseteq A /\ v \in B
    <3>1. v = w \/ Older(s, v, w)
      BY DEF AheadOf
    <3>2. \A u \in W : u = v \/ Older(s, u, v) => u = w \/ Older(s, u, w)
      BY <1>1, <1>2, <3>1, OlderTransitive
    <3> QED
      BY <1>2, <1>4, <3>2 DEF AheadOf
  <2>2. /\ IsFiniteSet(B) /\ Cardinality(B) \in Nat /\ Cardinality(B) <= Cardinality(A)
        /\ Cardinality(B) # 0
    BY <1>2, <2>1, FS_Subset, FS_CardinalityType, FS_EmptySet
  <2>3. position(v) = Cardinality(B)
    OBVIOUS
  <2>4. v \in U <=> position(v) > a
    BY <1>2, <1>4, <1>5
  <2> HIDE DEF B, A, position
  <2> QED
    BY <1>2, <2>2, <2>3, <2>4
<1>8. \A u, v \in A : position(u) = position(v) => u = v
  <2> SUFFICES ASSUME NEW u \in A, NEW v \in A, position(u) = position(v), u # v PROVE FALSE
    OBVIOUS
  <2>1. Older(s, u, v) \/ Older(s, v, u)
    BY <1>1, <1>2, OlderTotal
  <2>2. position(u) < position(v) \/ position(v) < position(u)
    BY <1>1, <1>2, <1>4, <2>1, AheadGrows
  <2>3. position(u) \in Int /\ position(v) \in Int
    BY <1>7
  <2> HIDE DEF position
  <2> QED
    BY <2>2, <2>3
<1>9. r \in Surjection(A, 1..Cardinality(A))
  <2> HIDE DEF A, position
  <2>1. r \in [A -> 1..Cardinality(A)]
    BY <1>7
  <2>2. r \in Injection(A, 1..Cardinality(A))
    BY <1>8, <2>1 DEF Injection, IsInjective
  <2>3. IsFiniteSet(1..Cardinality(A)) /\ Cardinality(1..Cardinality(A)) = Cardinality(A)
    <3> DEFINE k == Cardinality(A)
    <3> HIDE DEF k
    <3>1. k \in Nat
      BY <1>2 DEF k
    <3>2. IsFiniteSet(1..k) /\ Cardinality(1..k) = k
      BY <3>1, FS_Interval
    <3> QED
      BY <3>2 DEF k
  <2> QED
    BY <2>2, <2>3, FS_Injection
<1>10. IsFiniteSet(C) /\ Cardinality(C) = a
  <2>1. IsFiniteSet(1..a) /\ Cardinality(1..a) = a
    <3> HIDE DEF a
    <3> QED
      BY <1>3, FS_Interval
  <2>2. IsFiniteSet(C)
    BY <1>2, FS_Subset
  <2>3. rc \in Bijection(C, 1..a)
    <3> HIDE DEF A, position, a
    <3>1. rc \in [C -> 1..a]
      BY <1>3, <1>7
    <3>2. \A n \in 1..a : \E v \in C : rc[v] = n
      <4> SUFFICES ASSUME NEW n \in 1..a PROVE \E v \in C : rc[v] = n
        OBVIOUS
      <4>1. n \in 1..Cardinality(A)
        BY <1>2, <1>3, <1>6
      <4>2. PICK v \in A : r[v] = n
        BY <1>9, <4>1 DEF Surjection
      <4> QED
        BY <1>3, <4>2
    <3>3. \A u, v \in C : rc[u] = rc[v] => u = v
      BY <1>8
    <3> QED
      BY <3>1, <3>2, <3>3 DEF Bijection, Injection, Surjection, IsInjective
  <2>4. Cardinality(1..a) = Cardinality(C)
    <3> HIDE DEF C, a, rc
    <3> QED
      BY <2>2, <2>3, FS_Bijection DEF ExistsBijection
  <2> QED
    BY <2>1, <2>2, <2>4
<1>11. A \cap U = AheadOf(s, L, U, w) /\ A = C \cup (A \cap U) /\ C \cap (A \cap U) = {}
  <2>1. A \cap U = AheadOf(s, L, U, w)
    BY <1>1 DEF AheadOf
  <2>2. \A v \in A : position(v) \in Int /\ (v \in U <=> ~(position(v) <= a))
    <3> HIDE DEF A, a, position, U
    <3> QED
      BY <1>3, <1>7
  <2> HIDE DEF A, position, a, U
  <2> QED
    BY <2>1, <2>2
<1>12. Cardinality(A) = a + Cardinality(A \cap U)
  <2>1. IsFiniteSet(A \cap U) /\ Cardinality(A \cap U) \in Nat
    BY <1>2, FS_Subset, FS_CardinalityType
  <2> HIDE DEF A, U, C, a
  <2>2. Cardinality(C \cup (A \cap U))
          = Cardinality(C) + Cardinality(A \cap U) - Cardinality(C \cap (A \cap U))
    BY <1>10, <2>1, FS_Union
  <2>3. Cardinality(C \cap (A \cap U)) = 0
    BY <1>11, FS_EmptySet
  <2>4. Cardinality(A) = Cardinality(C \cup (A \cap U))
    BY <1>11, Zenon
  <2>5. Cardinality(C) = a
    BY <1>10
  <2> QED
    BY <1>3, <2>1, <2>2, <2>3, <2>4, <2>5, SMT
<1> QED
  BY <1>3, <1>11, <1>12

\* The creates that are for a submission: those before the depth that nothing accounts for.
LEMMA CreateOfEach ==
  ASSUME NEW s, NEW L, Countable(s, L), Len(Wanted(s, L)) \in Nat, Sized(L)
  PROVE  \E k \in Nat :
           /\ DOMAIN Create(s, L) = 1..k
           /\ \A n \in 1..k : n <= Cardinality(Uncovered(s, L)) =>
                Create(s, L)[n].rung
                  = SubmissionRung(s, L, OldestFirst(s, Uncovered(s, L))[n])
<1> DEFINE U == Uncovered(s, L)
           first == OldestFirst(s, U)
           extra == Max({0, s.queue_depth - Cardinality(Stalled(s, L))})
           sized == [n \in 1..Len(first) |->
                       [rung    |-> SubmissionRung(s, L, first[n]),
                        disk_gb |-> s.waiting[first[n]].disk_gb]]
           unsized == [n \in 1..extra |-> Unsized]
           V == {sized[n] : n \in 1..Len(first)} \cup {Unsized}
<1>1. CASE BreakerOpen(s, L)
  <2>1. Create(s, L) = << >>
    BY <1>1 DEF Create
  <2>2. DOMAIN Create(s, L) = 1..0
    BY <2>1
  <2> QED
    BY <2>2
<1>2. CASE ~BreakerOpen(s, L)
  <2> DEFINE k == CreateCount(s, L)
  <2>1. Create(s, L) = [n \in 1..k |-> Wanted(s, L)[n]]
    BY <1>2 DEF Create
  <2>2. k \in Nat /\ k <= Len(Wanted(s, L))
    BY CreateCountIsBounded
  <2>3. Cardinality(U) \in Nat /\ first \in [1..Cardinality(U) -> U]
    BY CountsAreNaturals, OldestFirstIsAList DEF Bijection, Injection
  <2>4. Len(first) = Cardinality(U)
    BY <2>3, FunctionIsSeq
  <2>5. extra \in Nat
    <3>1. 0 \in Int /\ s.queue_depth - Cardinality(Stalled(s, L)) \in Int
      BY CountsAreNaturals DEF Countable
    <3>2. extra \in {0, s.queue_depth - Cardinality(Stalled(s, L))} /\ extra >= 0
      BY <3>1, MaxOfTwo
    <3> QED
      BY <3>1, <3>2
  <2>6. sized \in [1..Len(first) -> V] /\ unsized \in [1..extra -> V]
    OBVIOUS
  <2>7. sized \in Seq(V) /\ Len(sized) = Len(first) /\ unsized \in Seq(V)
    <3> HIDE DEF sized, unsized, V, first, extra
    <3> QED
      BY <2>3, <2>4, <2>5, <2>6, FunctionIsSeq
  <2>8. Wanted(s, L) = sized \o unsized
    BY DEF Wanted
  <2>9. ASSUME NEW n \in 1..k, n <= Cardinality(U)
        PROVE  Create(s, L)[n].rung = SubmissionRung(s, L, first[n])
    <3>1. n \in 1..Len(first) /\ n \in 1..Len(Wanted(s, L))
      BY <2>2, <2>3, <2>4, <2>9
    <3>2. Wanted(s, L)[n] = sized[n]
      <4> HIDE DEF sized, unsized, V, first, extra
      <4>1. Len(sized \o unsized) = Len(sized) + Len(unsized)
        BY <2>7, ConcatProperties
      <4>2. n \in 1..(Len(sized) + Len(unsized)) /\ n <= Len(sized)
        <5>1. n \in 1..Len(first) /\ n \in 1..(Len(sized) + Len(unsized))
          BY <2>8, <3>1, <4>1
        <5>2. Len(sized) = Len(first)
          BY <2>7
        <5> QED
          BY <5>1, <5>2
      <4>3. (sized \o unsized)[n] = sized[n]
        BY <2>7, <4>2, ConcatProperties
      <4> QED
        BY <2>8, <4>3
    <3>3. sized[n].rung = SubmissionRung(s, L, first[n])
      BY <3>1
    <3> QED
      BY <2>1, <2>9, <3>2, <3>3
  <2>10. DOMAIN Create(s, L) = 1..k
    BY <2>1
  <2> HIDE DEF k
  <2> QED
    BY <2>2, <2>9, <2>10
<1> QED
  BY <1>1, <1>2

\* An uncovered submission will be served exactly when a create of the round is its own.
LEMMA ServedByItsCreate ==
  ASSUME NEW s, NEW L, Countable(s, L), Len(Wanted(s, L)) \in Nat, Sized(L),
         NEW p \in 1..Cardinality(Uncovered(s, L))
  PROVE  WillBeServed(s, L, OldestFirst(s, Uncovered(s, L))[p]) <=> p \in DOMAIN Create(s, L)
<1> DEFINE U == Uncovered(s, L)
           c == Cardinality(U)
           first == OldestFirst(s, U)
           w == first[p]
           rung == SubmissionRung(s, L, w)
           H == AheadOf(s, L, U, w)
           K == Coming(s, L, rung)
<1>1. /\ c \in Nat /\ first \in Bijection(1..c, U)
      /\ \A m, n \in 1..c : m < n => Older(s, first[m], first[n])
      /\ Orderable(s, U)
  BY CountsAreNaturals, OldestFirstIsAList
<1>2. /\ first \in [1..c -> U] /\ w \in U
      /\ \A v \in U : \E n \in 1..c : first[n] = v
      /\ \A m, n \in 1..c : first[m] = first[n] => m = n
  BY <1>1 DEF Bijection, Injection, Surjection, IsInjective
<1>3. PICK k \in Nat :
        /\ DOMAIN Create(s, L) = 1..k
        /\ \A n \in 1..k : n <= c => Create(s, L)[n].rung = SubmissionRung(s, L, first[n])
  BY CreateOfEach
<1>4. WillBeServed(s, L, w) <=> Cardinality(H) <= Cardinality(K)
  <2>1. Cardinality(Fitting(s, L, rung)) \in Nat
    BY <1>2, CoveredAhead
  <2>2. Cardinality(AheadOf(s, L, Stalled(s, L), w)) = Cardinality(Fitting(s, L, rung)) + Cardinality(H)
    BY <1>2, CoveredAhead
  <2>3. H \subseteq U /\ K \subseteq 1..k
    BY <1>3 DEF AheadOf, Coming
  <2>4. Cardinality(H) \in Nat /\ Cardinality(K) \in Nat
    <3> HIDE DEF H, K, U
    <3>1. IsFiniteSet(U) /\ IsFiniteSet(1..k)
      BY <1>1, <1>3, FS_Interval DEF Orderable
    <3>2. IsFiniteSet(H) /\ IsFiniteSet(K)
      BY <2>3, <3>1, FS_Subset
    <3> QED
      BY <3>2, FS_CardinalityType
  <2>5. WillBeServed(s, L, w) <=>
          Cardinality(AheadOf(s, L, Stalled(s, L), w))
            <= Cardinality(Fitting(s, L, rung)) + Cardinality(K)
    BY DEF WillBeServed
  <2> HIDE DEF H, K, w, rung
  <2> QED
    BY <2>1, <2>2, <2>4, <2>5
<1>5. /\ H \subseteq U /\ w \in H /\ K \subseteq 1..k
      /\ IsFiniteSet(H) /\ IsFiniteSet(K) /\ Cardinality(H) \in Nat /\ Cardinality(K) \in Nat
  <2>1. H \subseteq U /\ w \in H /\ K \subseteq 1..k
    BY <1>2, <1>3 DEF AheadOf, Coming
  <2> HIDE DEF H, K, U, w
  <2>2. IsFiniteSet(U) /\ IsFiniteSet(1..k)
    BY <1>1, <1>3, FS_Interval DEF Orderable
  <2>3. IsFiniteSet(H) /\ IsFiniteSet(K)
    BY <2>1, <2>2, FS_Subset
  <2> QED
    BY <2>1, <2>3, FS_CardinalityType
<1>6. \A v \in H : SubmissionRung(s, L, v) = rung
  BY DEF AheadOf
<1>7. ASSUME p <= k
      PROVE  Cardinality(H) <= Cardinality(K)
  <2> DEFINE at == [v \in H |-> CHOOSE n \in 1..c : first[n] = v]
  <2>1. ASSUME NEW v \in H
        PROVE  at[v] \in 1..c /\ first[at[v]] = v
    <3>1. \E n \in 1..c : first[n] = v
      BY <1>2, <1>5
    <3> QED
      BY <3>1, Zenon
  <2> HIDE DEF at
  <2>2. ASSUME NEW v \in H
        PROVE  at[v] \in K
    <3>1. at[v] <= p
      <4> SUFFICES ASSUME ~(at[v] <= p) PROVE FALSE
        OBVIOUS
      <4>1. at[v] \in 1..c /\ p < at[v]
        BY <2>1
      <4>2. Older(s, w, v)
        BY <1>1, <2>1, <4>1
      <4>3. v = w \/ Older(s, v, w)
        BY DEF AheadOf
      <4>4. ~Older(s, w, w) /\ v \in U /\ w \in U
        BY <1>1, <1>2, <1>5, OlderTotal
      <4>5. Older(s, v, w) => Older(s, w, w)
        BY <1>1, <4>2, <4>4, OlderTransitive
      <4> QED
        BY <4>2, <4>3, <4>4, <4>5
    <3>2. at[v] \in 1..k /\ at[v] <= c
      BY <1>1, <1>3, <1>7, <2>1, <3>1
    <3>3. Create(s, L)[at[v]].rung = SubmissionRung(s, L, v)
      BY <1>3, <2>1, <3>2
    <3> QED
      BY <1>3, <1>6, <3>2, <3>3 DEF Coming
  <2>3. DOMAIN at = H /\ at = [v \in H |-> at[v]]
    BY DEF at
  <2>4. at \in Injection(H, K)
    <3> HIDE DEF H, K, first
    <3>1. at \in [H -> K]
      BY <2>2, <2>3
    <3>2. \A u, v \in H : at[u] = at[v] => u = v
      BY <2>1
    <3> QED
      BY <3>1, <3>2 DEF Injection, IsInjective
  <2> QED
    BY <1>5, <2>4, FS_Injection
<1>8. ASSUME ~(p <= k)
      PROVE  ~(Cardinality(H) <= Cardinality(K))
  <2> DEFINE who == [n \in K |-> first[n]]
  <2>1. ASSUME NEW n \in K
        PROVE  n \in 1..k /\ n \in 1..c /\ n < p /\ Create(s, L)[n].rung = rung
    <3>1. n \in 1..k /\ Create(s, L)[n].rung = rung
      BY <1>5 DEF Coming
    <3> QED
      BY <1>1, <1>3, <1>8, <3>1
  <2>2. ASSUME NEW n \in K
        PROVE  first[n] \in H \ {w}
    <3>1. first[n] \in U /\ Older(s, first[n], w)
      BY <1>1, <1>2, <2>1
    <3>2. SubmissionRung(s, L, first[n]) = rung
      BY <1>3, <2>1
    <3>3. first[n] # w
      BY <1>1, <1>2, <3>1, OlderTotal
    <3> QED
      BY <3>1, <3>2, <3>3 DEF AheadOf
  <2>3. who \in Injection(K, H \ {w})
    <3> HIDE DEF H, K, first, w
    <3>1. who \in [K -> H \ {w}]
      BY <2>2
    <3>2. \A m, n \in K : who[m] = who[n] => m = n
      BY <1>2, <2>1
    <3> QED
      BY <3>1, <3>2 DEF Injection, IsInjective
  <2>4. IsFiniteSet(H \ {w}) /\ Cardinality(H \ {w}) = Cardinality(H) - 1
    BY <1>5, FS_RemoveElement
  <2>5. Cardinality(K) <= Cardinality(H \ {w})
    BY <2>3, <2>4, FS_Injection
  <2> HIDE DEF H, K, w
  <2> QED
    BY <1>5, <2>4, <2>5
<1>9. p \in DOMAIN Create(s, L) <=> p <= k
  BY <1>1, <1>3
<1> QED
  BY <1>4, <1>7, <1>8, <1>9

\* S7, the half of the creates (plan.py, _wanted_rungs and _allocate): a round that provides
\* for a submission that nothing is left for provides for every older one, whatever their
\* rungs are and whichever limit ends the creates.
THEOREM NoneIsProvidedForBeforeAnOlder ==
  ASSUME NEW s, NEW L, Countable(s, L), Len(Wanted(s, L)) \in Nat, Sized(L),
         NEW v \in Uncovered(s, L), NEW w \in Uncovered(s, L),
         Older(s, w, v), WillBeServed(s, L, v)
  PROVE  WillBeServed(s, L, w)
<1> DEFINE U == Uncovered(s, L)
           c == Cardinality(U)
           first == OldestFirst(s, U)
<1>1. /\ c \in Nat /\ first \in Bijection(1..c, U) /\ Orderable(s, U)
      /\ \A m, n \in 1..c : m < n => Older(s, first[m], first[n])
  BY CountsAreNaturals, OldestFirstIsAList
<1>2. PICK m \in 1..c, n \in 1..c : first[m] = w /\ first[n] = v
  BY <1>1 DEF Bijection, Surjection
<1>3. m < n
  <2> SUFFICES ASSUME ~(m < n) PROVE FALSE
    OBVIOUS
  <2>1. m = n \/ n < m
    BY <1>1
  <2>2. v = w \/ Older(s, v, w)
    BY <1>1, <1>2, <2>1
  <2>3. ~Older(s, w, w)
    BY <1>1, OlderTotal
  <2>4. Older(s, v, w) => Older(s, w, w)
    BY <1>1, OlderTransitive
  <2> QED
    BY <2>2, <2>3, <2>4
<1>4. n \in DOMAIN Create(s, L)
  BY <1>2, ServedByItsCreate
<1>5. PICK k \in Nat : DOMAIN Create(s, L) = 1..k
  BY CreateOfEach
<1>6. m \in DOMAIN Create(s, L)
  BY <1>1, <1>3, <1>4, <1>5
<1> QED
  BY <1>2, <1>6, ServedByItsCreate

-----------------------------------------------------------------------------
\* Every rank is some submission's, among those that want one rung.
LEMMA RankIsTaken ==
  ASSUME NEW s, NEW L, NEW W, Orderable(s, W), NEW w \in W,
         NEW n \in 1..Cardinality(AheadOf(s, L, W, w))
  PROVE  \E v \in AheadOf(s, L, W, w) : Cardinality(AheadOf(s, L, W, v)) = n
<1> DEFINE A == AheadOf(s, L, W, w)
           k == Cardinality(A)
           rank(v) == Cardinality(AheadOf(s, L, W, v))
           r == [v \in A |-> rank(v)]
<1>1. A \subseteq W /\ IsFiniteSet(A) /\ k \in Nat
  <2>1. A \subseteq W
    BY DEF AheadOf
  <2> QED
    BY <2>1, FS_Subset, FS_CardinalityType DEF Orderable
<1>2. IsFiniteSet(1..k) /\ Cardinality(1..k) = k
  <2> HIDE DEF k
  <2> QED
    BY <1>1, FS_Interval
<1>3. ASSUME NEW v \in A
      PROVE  rank(v) \in 1..k
  <2> DEFINE B == AheadOf(s, L, W, v)
  <2>1. /\ v = w \/ Older(s, v, w)
        /\ SubmissionRung(s, L, v) = SubmissionRung(s, L, w)
    BY DEF AheadOf
  <2>2. \A u \in W : u = v \/ Older(s, u, v) => u = w \/ Older(s, u, w)
    BY <1>1, <2>1, OlderTransitive
  <2>3. B \subseteq A /\ v \in B
    BY <1>1, <2>1, <2>2 DEF AheadOf
  <2>4. /\ Cardinality(B) \in Nat /\ Cardinality(B) <= k /\ Cardinality(B) # 0
    BY <1>1, <2>3, FS_Subset, FS_CardinalityType, FS_EmptySet
  <2> HIDE DEF B, k
  <2>5. Cardinality(B) \in 1..k
    BY <1>1, <2>4
  <2> QED
    BY <2>5 DEF B
<1>4. \A u, v \in A : u # v => rank(u) < rank(v) \/ rank(v) < rank(u)
  <2> SUFFICES ASSUME NEW u \in A, NEW v \in A, u # v
               PROVE  rank(u) < rank(v) \/ rank(v) < rank(u)
    OBVIOUS
  <2>1. /\ u \in W /\ v \in W /\ SubmissionRung(s, L, u) = SubmissionRung(s, L, v)
    BY <1>1 DEF AheadOf
  <2>2. Older(s, u, v) \/ Older(s, v, u)
    BY <2>1, OlderTotal
  <2> QED
    BY <2>1, <2>2, AheadGrows
<1> HIDE DEF rank
<1>5. r \in [A -> 1..k]
  BY <1>3
<1>6. \A u, v \in A : r[u] = r[v] => u = v
  <2> SUFFICES ASSUME NEW u \in A, NEW v \in A, rank(u) = rank(v), u # v PROVE FALSE
    OBVIOUS
  <2>1. rank(u) \in Int /\ rank(v) \in Int
    BY <1>3
  <2> QED
    BY <1>4, <2>1
<1> HIDE DEF r, A, k
<1>7. r \in Injection(A, 1..k)
  BY <1>5, <1>6 DEF Injection, IsInjective
<1>8. r \in Surjection(A, 1..k)
  BY <1>2, <1>7, FS_Injection DEF k
<1>9. PICK v \in A : r[v] = n
  BY <1>8 DEF Surjection, k, A
<1> QED
  BY <1>9 DEF r, rank, A

\* A submission that is ours to place and is left waiting waits behind, or is, one whose
\* instances were all given away this round: stop, but not before the pool is empty.
THEOREM WaitsForAnEmptyPool ==
  ASSUME NEW s, NEW L, Orderable(s, DOMAIN s.waiting), Rankable(s, DOMAIN s.instances),
         NEW w \in Placeable(s), \A p \in Assign(s, L) : p[1] # w
  PROVE  \E v \in Placeable(s) :
           /\ v = w \/ Older(s, v, w)
           /\ \A i \in Pool(s, L, SubmissionRung(s, L, v)) : \E p \in Assign(s, L) : p[2] = i
<1> DEFINE W == Placeable(s)
           rank(v) == Cardinality(AheadOf(s, L, W, v))
           pool(v) == Pool(s, L, SubmissionRung(s, L, v))
           Full(v) == rank(v) <= Cardinality(pool(v))
           Short == {v \in W : ~Full(v)}
<1>1. Orderable(s, W)
  <2>1. W \subseteq DOMAIN s.waiting
    BY DEF Placeable
  <2> QED
    BY <2>1, FS_Subset DEF Orderable
<1>2. ASSUME NEW v \in W
      PROVE  /\ Rankable(s, pool(v)) /\ pool(v) \subseteq Assignable(s, L)
             /\ Cardinality(pool(v)) \in Nat
             /\ rank(v) \in Nat \ {0}
  <2>1. pool(v) \subseteq DOMAIN s.instances /\ pool(v) \subseteq Assignable(s, L)
    BY DEF Pool, Assignable, Unassigned, Live
  <2>2. Rankable(s, pool(v)) /\ Cardinality(pool(v)) \in Nat
    BY <2>1, FS_Subset, FS_CardinalityType DEF Rankable
  <2>3. AheadOf(s, L, W, v) \subseteq W /\ v \in AheadOf(s, L, W, v)
    BY DEF AheadOf
  <2>4. IsFiniteSet(AheadOf(s, L, W, v))
    BY <1>1, <2>3, FS_Subset DEF Orderable
  <2>5. rank(v) \in Nat /\ rank(v) # 0
    BY <2>3, <2>4, FS_CardinalityType, FS_EmptySet
  <2> QED
    BY <2>1, <2>2, <2>5
<1>3. ASSUME NEW v \in W, NEW i \in pool(v), \A u \in W : u = v \/ Older(s, u, v) => Full(u),
             Cardinality({j \in pool(v) : j = i \/ Younger(s, j, i)}) = rank(v)
      PROVE  <<v, i>> \in Assign(s, L)
  BY <1>2, <1>3 DEF Assign, Matches, Reached
<1>4. \E v \in Short : v = w \/ Older(s, v, w)
  <2> SUFFICES ASSUME \A v \in W : v = w \/ Older(s, v, w) => Full(v) PROVE FALSE
    OBVIOUS
  <2>1. rank(w) \in 1..Cardinality(pool(w))
    <3>1. Full(w) /\ rank(w) \in Nat \ {0} /\ Cardinality(pool(w)) \in Nat
      BY <1>2
    <3> HIDE DEF rank, pool
    <3> QED
      BY <3>1
  <2>2. PICK i \in pool(w) : Cardinality({j \in pool(w) : j = i \/ Younger(s, j, i)}) = rank(w)
    <3>1. Rankable(s, pool(w))
      BY <1>2
    <3> HIDE DEF rank, pool
    <3> QED
      BY <2>1, <3>1, PositionIsTaken
  <2>3. <<w, i>> \in Assign(s, L)
    BY <1>3, <2>2
  <2> QED
    BY <2>3
<1>5. PICK v \in Short : /\ v = w \/ Older(s, v, w)
                         /\ \A u \in Short : ~Older(s, u, v)
  <2> DEFINE behind(u) == Cardinality({x \in W : Older(s, x, u)})
             S == {x \in Short : x = w \/ Older(s, x, w)}
             R == {behind(x) : x \in S}
  <2>1. \A x \in W : behind(x) \in Nat
    BY <1>1, FS_Subset, FS_CardinalityType DEF Orderable
  <2>2. R \subseteq Nat /\ R # {}
    BY <1>4, <2>1
  <2>3. PICK m \in R : \A n \in R : m <= n
    BY <2>2, LeastOfNaturals
  <2>4. PICK v \in S : behind(v) = m
    OBVIOUS
  <2>5. ASSUME NEW u \in Short, Older(s, u, v)
        PROVE  FALSE
    <3>1. u \in S
      BY <1>1, <2>5, OlderTransitive
    <3>2. behind(u) < behind(v)
      BY <1>1, <2>5, RankGrows
    <3>3. behind(u) \in R /\ behind(u) \in Nat /\ behind(v) \in Nat
      BY <2>1, <3>1
    <3> HIDE DEF behind, R
    <3> QED
      BY <2>3, <2>4, <3>2, <3>3
  <2> QED
    BY <2>4, <2>5
<1>6. ASSUME NEW i \in pool(v)
      PROVE  \E p \in Assign(s, L) : p[2] = i
  <2> DEFINE n == Cardinality({j \in pool(v) : j = i \/ Younger(s, j, i)})
  <2>1. n \in 1..rank(v) /\ n < rank(v)
    <3> DEFINE J == {j \in pool(v) : j = i \/ Younger(s, j, i)}
    <3>1. IsFiniteSet(pool(v)) /\ J \subseteq pool(v) /\ i \in J
      BY <1>2 DEF Rankable
    <3>2. IsFiniteSet(J) /\ Cardinality(J) <= Cardinality(pool(v))
      BY <3>1, FS_Subset
    <3>3. Cardinality(J) \in Nat /\ Cardinality(J) # 0
      BY <3>1, <3>2, FS_CardinalityType, FS_EmptySet
    <3>4. ~(rank(v) <= Cardinality(pool(v))) /\ rank(v) \in Nat /\ Cardinality(pool(v)) \in Nat
      BY <1>2, <1>5
    <3>5. n = Cardinality(J)
      OBVIOUS
    <3> HIDE DEF J, n, rank, pool
    <3> QED
      BY <3>2, <3>3, <3>4, <3>5
  <2>2. PICK u \in AheadOf(s, L, W, v) : rank(u) = n
    <3> HIDE DEF n
    <3> QED
      BY <1>1, <2>1, RankIsTaken
  <2>3. /\ u \in W /\ SubmissionRung(s, L, u) = SubmissionRung(s, L, v)
        /\ u = v \/ Older(s, u, v)
    BY DEF AheadOf
  <2>4. Older(s, u, v)
    <3>1. u # v
      <4> SUFFICES ASSUME u = v PROVE FALSE
        OBVIOUS
      <4>1. rank(v) = n /\ rank(v) \in Nat
        BY <1>2, <2>2
      <4> HIDE DEF rank, n
      <4> QED
        BY <2>1, <4>1
    <3> QED
      BY <2>3, <3>1
  <2>5. \A x \in W : x = u \/ Older(s, x, u) => Full(x)
    <3> SUFFICES ASSUME NEW x \in W, x = u \/ Older(s, x, u), x \in Short PROVE FALSE
      OBVIOUS
    <3>1. Older(s, x, v)
      BY <1>1, <2>3, <2>4, OlderTransitive
    <3> QED
      BY <1>5, <3>1
  <2>6. pool(u) = pool(v)
    BY <2>3
  <2>7. <<u, i>> \in Assign(s, L)
    <3>1. i \in pool(u) /\ Cardinality({j \in pool(u) : j = i \/ Younger(s, j, i)}) = rank(u)
      BY <2>2, <2>6
    <3> HIDE DEF pool, rank, Full
    <3> QED
      BY <1>3, <2>3, <2>5, <3>1
  <2> QED
    BY <2>7
<1> QED
  BY <1>5, <1>6

-----------------------------------------------------------------------------
\* One size: every submission wants it and every instance has it.
OneBucket(s, L, rung) ==
  /\ \A w \in DOMAIN s.waiting : SubmissionRung(s, L, w) = rung
  /\ \A i \in DOMAIN s.instances : InstanceRung(s, L, i) = rung

LEMMA AllServedOrAllTaken ==
  ASSUME NEW s, NEW L, Orderable(s, DOMAIN s.waiting), Rankable(s, DOMAIN s.instances),
         NEW rung, OneBucket(s, L, rung)
  PROVE  \/ \A w \in Placeable(s) : \E p \in Assign(s, L) : p[1] = w
         \/ \A i \in Assignable(s, L) : \E p \in Assign(s, L) : p[2] = i
<1> SUFFICES ASSUME NEW w \in Placeable(s), \A p \in Assign(s, L) : p[1] # w,
                    NEW i \in Assignable(s, L)
             PROVE  \E p \in Assign(s, L) : p[2] = i
  OBVIOUS
<1>1. PICK v \in Placeable(s) :
        /\ v = w \/ Older(s, v, w)
        /\ \A j \in Pool(s, L, SubmissionRung(s, L, v)) : \E p \in Assign(s, L) : p[2] = j
  BY WaitsForAnEmptyPool, Zenon
<1>2. v \in DOMAIN s.waiting /\ i \in DOMAIN s.instances
  BY DEF Placeable, Assignable, Unassigned, Live
<1>3. i \in Pool(s, L, SubmissionRung(s, L, v))
  BY <1>2 DEF Pool, OneBucket
<1> QED
  BY <1>1, <1>3

\* With one size, a round creates no more than the instances that are there leave over.
LEMMA ShortfallOfOneBucket ==
  ASSUME NEW s, NEW L, Countable(s, L), Len(Wanted(s, L)) \in Nat, s.queue_depth = 0,
         NEW rung, OneBucket(s, L, rung)
  PROVE  /\ CreateCount(s, L) \in Nat
         /\ \/ CreateCount(s, L) = 0
            \/ CreateCount(s, L) + Cardinality(Available(s, L)) <= Cardinality(Stalled(s, L))
<1> DEFINE U == Uncovered(s, L)
           c == Cardinality(U)
           a == Cardinality(Available(s, L))
           d == Cardinality(Stalled(s, L))
<1>1. a \in Nat /\ d \in Nat /\ c \in Nat /\ Orderable(s, U) /\ CreateCount(s, L) \in Nat
  BY CountsAreNaturals, CreateCountIsBounded, FS_CardinalityType DEF Orderable
<1>2. CASE ~Sized(L)
  <2> DEFINE h == Headroom(s, L)
  <2>1. Demand(s, L) = d
    <3>1. Max({0, d}) \in {0, d} /\ Max({0, d}) >= 0 /\ Max({0, d}) >= d
      <4>1. 0 \in Int /\ d \in Int
        BY <1>1
      <4> HIDE DEF d
      <4> QED
        BY <4>1, MaxOfTwo
    <3>2. Demand(s, L) = Max({0, d})
      BY DEF Demand
    <3> HIDE DEF d
    <3> QED
      BY <1>1, <3>1, <3>2
  <2>2. h \in Int
    BY HeadroomIsAnInteger
  <2>3. CreateCount(s, L) = Max({0, Min({d - a, h})})
    BY <1>2, <2>1 DEF CreateCount
  <2>4. Min({d - a, h}) \in {d - a, h} /\ Min({d - a, h}) <= d - a
    <3>1. d - a \in Int
      BY <1>1
    <3> HIDE DEF d, a, h
    <3> QED
      BY <2>2, <3>1, MinOfTwo
  <2>5. Min({d - a, h}) \in Int
    BY <1>1, <2>2, <2>4
  <2>6. Max({0, Min({d - a, h})}) \in {0, Min({d - a, h})}
    <3> DEFINE least == Min({d - a, h})
    <3>1. 0 \in Int /\ least \in Int
      BY <2>5
    <3> HIDE DEF least
    <3>2. Max({0, least}) \in {0, least}
      BY <3>1, MaxOfTwo
    <3> QED
      BY <3>2 DEF least
  <2> HIDE DEF d, a, h
  <2>7. CreateCount(s, L) = 0 \/ CreateCount(s, L) + a <= d
    BY <1>1, <2>3, <2>4, <2>5, <2>6
  <2> QED
    BY <1>1, <2>7 DEF d, a
<1>3. CASE Sized(L)
  <2>1. Len(Wanted(s, L)) = c
    <3> DEFINE first == OldestFirst(s, U)
               extra == Max({0, s.queue_depth - d})
    <3>1. Len(first) = c
      <4>1. first \in [1..c -> U]
        BY <1>1, OldestFirstIsAList DEF Bijection, Injection
      <4> HIDE DEF first, c, U
      <4> QED
        BY <1>1, <4>1, FunctionIsSeq
    <3>2. extra = 0
      <4>1. 0 - d \in Int /\ 0 - d <= 0
        BY <1>1
      <4>2. Max({0, 0 - d}) \in {0, 0 - d} /\ Max({0, 0 - d}) >= 0
        <5> DEFINE e == 0 - d
        <5>1. 0 \in Int /\ e \in Int
          BY <4>1
        <5> HIDE DEF e
        <5>2. Max({0, e}) \in {0, e} /\ Max({0, e}) >= 0
          BY <5>1, MaxOfTwo
        <5> QED
          BY <5>2 DEF e
      <4>3. extra = Max({0, 0 - d})
        OBVIOUS
      <4> HIDE DEF extra, d
      <4> QED
        BY <1>1, <4>2, <4>3
    <3>3. Wanted(s, L) = [n \in 1..c |-> [rung |-> SubmissionRung(s, L, first[n]),
                                          disk_gb |-> s.waiting[first[n]].disk_gb]]
                           \o [n \in 1..0 |-> Unsized]
      BY <3>1, <3>2 DEF Wanted
    <3>4. [n \in 1..0 |-> Unsized] = << >>
      OBVIOUS
    <3> DEFINE q == [n \in 1..c |-> [rung |-> SubmissionRung(s, L, first[n]),
                                     disk_gb |-> s.waiting[first[n]].disk_gb]]
               C == {q[n] : n \in 1..c}
    <3>5. q \in [1..c -> C]
      OBVIOUS
    <3> HIDE DEF q, C, c
    <3>6. q \in Seq(C) /\ Len(q) = c
      BY <1>1, <3>5, FunctionIsSeq
    <3>7. Wanted(s, L) = q \o << >>
      BY <3>3, <3>4 DEF q
    <3> QED
      BY <3>6, <3>7
  <2>2. CreateCount(s, L) <= c
    BY <1>3, <2>1, CreateCountIsBounded
  <2>3. ASSUME c # 0
        PROVE  c + a <= d
    <3> DEFINE first == OldestFirst(s, U)
               w == first[c]
               ahead == AheadOf(s, L, Stalled(s, L), w)
    <3>1. /\ first \in Bijection(1..c, U)
          /\ \A m, n \in 1..c : m < n => Older(s, first[m], first[n])
      BY <1>1, OldestFirstIsAList
    <3>2. c \in 1..c
      BY <1>1, <2>3
    <3>3. w \in U
      BY <3>1, <3>2 DEF Bijection, Injection
    <3>4. \A u \in U : u = w \/ Older(s, u, w)
      <4> SUFFICES ASSUME NEW u \in U PROVE u = w \/ Older(s, u, w)
        OBVIOUS
      <4>1. PICK n \in 1..c : first[n] = u
        BY <3>1 DEF Bijection, Surjection
      <4>2. n = c \/ n < c
        BY <1>1
      <4> QED
        BY <3>1, <3>2, <4>1, <4>2
    <3>5. U \subseteq Stalled(s, L) /\ Stalled(s, L) \subseteq DOMAIN s.waiting
      BY DEF Uncovered, Stalled
    <3>6. AheadOf(s, L, U, w) = U
      BY <3>3, <3>4, <3>5 DEF AheadOf, OneBucket
    <3>7. Fitting(s, L, SubmissionRung(s, L, w)) = Available(s, L)
      <4>1. Available(s, L) \subseteq DOMAIN s.instances
        BY DEF Available, Live
      <4> QED
        BY <3>3, <3>5, <4>1 DEF Fitting, OneBucket
    <3>8. Cardinality(ahead) = a + c
      BY <3>3, <3>6, <3>7, CoveredAhead
    <3>9. Cardinality(ahead) <= d
      <4>1. ahead \subseteq Stalled(s, L)
        BY DEF AheadOf
      <4>2. IsFiniteSet(Stalled(s, L))
        BY <3>5, FS_Subset DEF Countable, Orderable
      <4> QED
        BY <4>1, <4>2, FS_Subset
    <3> HIDE DEF ahead, a, c, d
    <3> QED
      BY <1>1, <3>8, <3>9
  <2>4. CreateCount(s, L) = 0 \/ CreateCount(s, L) + a <= d
    <3> HIDE DEF a, c, d
    <3> QED
      BY <1>1, <2>2, <2>3
  <2> QED
    BY <1>1, <2>4 DEF a, d
<1> QED
  BY <1>2, <1>3
=============================================================================
