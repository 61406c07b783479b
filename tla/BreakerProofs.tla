--------------------------- MODULE BreakerProofs ----------------------------
(***************************************************************************)
(* The bound of the circuit breaker, for every threshold and cooldown.     *)
(***************************************************************************)
EXTENDS Breaker, FiniteSetTheorems, TLAPS

\* What makes the bound inductive: the last failure of the process is the latest of all,
\* so that a cooldown after it nothing is recent; and a process adds at most its counter
\* to what those before it let through.
Counted == Cardinality(Recent) <= BreakerThreshold * restarts + consecutive_failures

Inv ==
  /\ TypeOK
  /\ last_failure # None => \A t \in failed_at : t <= last_failure
  /\ Counted

LEMMA NoneIsNoNumber == None \notin Int
  BY NoneAssumption

LEMMA IntervalIsFinite == \A n \in Nat : IsFiniteSet(0..n)
  BY FS_Interval

\* Any part of the failures can be counted.
LEMMA PartsAreFinite ==
  ASSUME TypeOK, NEW S \in SUBSET failed_at
  PROVE  IsFiniteSet(S) /\ Cardinality(S) \in Nat
  <1>1. IsFiniteSet(0..clock)
    BY IntervalIsFinite DEF TypeOK
  <1>2. S \subseteq 0..clock
    BY DEF TypeOK
  <1> QED
    BY <1>1, <1>2, FS_Subset, FS_CardinalityType

LEMMA FailuresArePast == TypeOK => \A t \in failed_at : t \in Int /\ 0 <= t /\ t <= clock
  BY DEF TypeOK

LEMMA InitInv == Init => Inv
  <1> SUFFICES ASSUME Init PROVE Inv
    OBVIOUS
  <1>1. TypeOK
    <2>1. consecutive_failures \in 0..BreakerThreshold
      BY BreakerAssumption DEF Init
    <2>2. failed_at \in SUBSET (0..clock)
      BY DEF Init
    <2> QED
      BY <2>1, <2>2 DEF Init, TypeOK
  <1>2. Recent = {}
    BY DEF Init, Recent
  <1>3. Cardinality(Recent) = 0
    BY <1>2, FS_EmptySet
  <1>4. Counted
    <2>1. BreakerThreshold * restarts + consecutive_failures = 0
      BY BreakerAssumption DEF Init
    <2> QED
      BY <2>1, <1>3 DEF Counted
  <1> QED
    BY <1>1, <1>4 DEF Init, Inv

\* The round's creates keep the invariant when what the expiry left is covered by it.
LEMMA CreatesKeepInv ==
  ASSUME Inv, NEW failures \in 0..BreakerThreshold, NEW last \in Nat \cup {None},
         (failures = 0) = (last = None),
         last # None => \A t \in failed_at : t <= last,
         Cardinality(Recent) <= BreakerThreshold * restarts + failures,
         Creates(failures, last), UNCHANGED <<clock, restarts>>, stepped' \in BOOLEAN
  PROVE  Inv'
  <1> USE BreakerAssumption, NoneIsNoNumber
  <1> DEFINE Base == BreakerThreshold * restarts
  <1>0. Base \in Nat
    BY DEF Inv, TypeOK
  <1>1. PICK succeeds \in BOOLEAN, fails \in BOOLEAN :
          /\ Open(failures) => ~succeeds /\ ~fails
          /\ consecutive_failures' = IF fails THEN (IF succeeds THEN 0 ELSE failures) + 1
                                     ELSE IF succeeds THEN 0 ELSE failures
          /\ last_failure' = IF fails THEN clock ELSE IF succeeds THEN None ELSE last
          /\ failed_at' = IF fails THEN (IF succeeds THEN {} ELSE failed_at) \cup {clock}
                          ELSE IF succeeds THEN {} ELSE failed_at
          /\ reopened_at' = IF succeeds THEN None
                            ELSE IF Expired /\ Open(consecutive_failures) THEN clock
                            ELSE reopened_at
    BY Zenon DEF Creates, TimeOfFailure
  <1> DEFINE kept == IF succeeds THEN {} ELSE failed_at
             failures1 == IF succeeds THEN 0 ELSE failures
             window(S) == {t \in S : clock - t < BreakerCooldown}
  <1>2. fails => failures < BreakerThreshold
    BY <1>1 DEF Open, BreakerOpen
  <1>3. kept \subseteq failed_at /\ window(kept) \in SUBSET failed_at
    OBVIOUS
  <1>4. TypeOK'
    <2>1. failed_at' \in SUBSET (0..clock')
      <3>1. \A t \in failed_at' : t \in failed_at \/ t = clock
        BY <1>1, Zenon
      <3>2. clock \in 0..clock /\ failed_at \subseteq 0..clock
        BY DEF Inv, TypeOK
      <3> QED
        BY <3>1, <3>2, Zenon
    <2>2. consecutive_failures' \in 0..BreakerThreshold
      BY <1>1, <1>2
    <2>3. (consecutive_failures' = 0) = (last_failure' = None)
      BY <1>1 DEF Inv, TypeOK
    <2>4. last_failure' \in Nat \cup {None} /\ reopened_at' \in Nat \cup {None}
      BY <1>1 DEF Inv, TypeOK
    <2> QED
      BY <2>1, <2>2, <2>3, <2>4 DEF Inv, TypeOK
  <1>5. (last_failure # None => \A t \in failed_at : t <= last_failure)'
    <2>1. CASE fails
      <3>1. last_failure' = clock /\ \A t \in failed_at' : t \in failed_at \/ t = clock
        BY <2>1, <1>1, Zenon
      <3>2. clock \in Int
        BY DEF Inv, TypeOK
      <3> QED
        BY <3>1, <3>2, FailuresArePast DEF Inv
    <2>2. CASE ~fails /\ succeeds
      BY <2>2, <1>1
    <2>3. CASE ~fails /\ ~succeeds
      <3>1. last_failure' = last /\ failed_at' = failed_at
        BY <2>3, <1>1
      <3> QED
        BY <3>1, Zenon
    <2> QED
      BY <2>1, <2>2, <2>3
  <1>6. IsFiniteSet(window(kept)) /\ Cardinality(window(kept)) \in Nat
    BY <1>3, PartsAreFinite DEF Inv
  <1>7. Cardinality(window(kept)) <= Base + failures1
    <2>1. CASE succeeds
      <3>1. window(kept) = {}
        BY <2>1
      <3> QED
        BY <3>1, <2>1, <1>0, FS_EmptySet
    <2>2. CASE ~succeeds
      <3>1. window(kept) = Recent /\ failures1 = failures
        BY <2>2 DEF Recent
      <3> QED
        BY <3>1
    <2> QED
      BY <2>1, <2>2
  <1>8. Counted'
    <2>1. CASE fails
      <3>1. Recent' \subseteq window(kept) \cup {clock}
        BY <2>1, <1>1 DEF Recent
      <3>2. /\ IsFiniteSet(window(kept) \cup {clock})
            /\ Cardinality(window(kept) \cup {clock}) <= Cardinality(window(kept)) + 1
        BY <1>6, FS_AddElement
      <3>3. Cardinality(Recent') <= Cardinality(window(kept) \cup {clock})
        BY <3>1, <3>2, FS_Subset
      <3>4. consecutive_failures' = failures1 + 1
        BY <2>1, <1>1
      <3>5. Cardinality(Recent') \in Nat /\ Cardinality(window(kept) \cup {clock}) \in Nat
        BY <3>1, <3>2, FS_Subset, FS_CardinalityType
      <3>6. Cardinality(Recent') <= Base + consecutive_failures'
        <4> HIDE DEF window, kept, failures1, Base
        <4>1. failures1 \in Nat
          BY DEF failures1
        <4> QED
          BY <3>2, <3>3, <3>4, <3>5, <1>6, <1>7, <1>0, <4>1
      <3> QED
        BY <3>6 DEF Counted
    <2>2. CASE ~fails
      <3>1. Recent' = window(kept) /\ consecutive_failures' = failures1
        BY <2>2, <1>1 DEF Recent
      <3> QED
        BY <3>1, <1>7 DEF Counted
    <2> QED
      BY <2>1, <2>2
  <1> QED
    BY <1>4, <1>5, <1>8 DEF Inv

\* The cooldown is over when nothing is recent.
LEMMA ExpiredIsQuiet == Inv /\ Expired => Recent = {}
  <1> SUFFICES ASSUME Inv, Expired, NEW t \in Recent PROVE FALSE
    BY Zenon
  <1>1. last_failure \in Nat /\ clock - last_failure >= BreakerCooldown
    BY DEF Inv, TypeOK, Expired
  <1>2. t \in Int /\ t <= last_failure /\ clock - t < BreakerCooldown
    BY <1>1, FailuresArePast DEF Inv, Expired, Recent
  <1>3. clock \in Int /\ BreakerCooldown \in Int
    BY BreakerAssumption DEF Inv, TypeOK
  <1> QED
    BY <1>1, <1>2, <1>3

LEMMA StepKeepsInv == Inv /\ Step => Inv'
  <1> SUFFICES ASSUME Inv, Step PROVE Inv'
    OBVIOUS
  <1>1. CASE Expired
    <2>1. Cardinality(Recent) <= BreakerThreshold * restarts + 0
      <3>1. Cardinality(Recent) = 0
        BY <1>1, ExpiredIsQuiet, FS_EmptySet
      <3>2. BreakerThreshold * restarts \in Nat
        BY BreakerAssumption DEF Inv, TypeOK
      <3> QED
        BY <3>1, <3>2
    <2>2. Creates(0, None)
      BY <1>1 DEF Step
    <2>3. 0 \in 0..BreakerThreshold
      BY BreakerAssumption
    <2>4. UNCHANGED <<clock, restarts>> /\ stepped' \in BOOLEAN
      BY DEF Step
    <2> QED
      BY <2>1, <2>2, <2>3, <2>4, CreatesKeepInv, Zenon
  <1>2. CASE ~Expired
    <2>1. Creates(consecutive_failures, last_failure)
      BY <1>2 DEF Step
    <2> QED
      BY <2>1, CreatesKeepInv DEF Step, Inv, TypeOK, Counted
  <1> QED
    BY <1>1, <1>2

LEMMA SleepKeepsInv == Inv /\ Sleep => Inv'
  <1> SUFFICES ASSUME Inv, Sleep PROVE Inv'
    OBVIOUS
  <1>1. TypeOK'
    <2>1. clock' \in Nat /\ failed_at' \in SUBSET (0..clock')
      BY DEF Inv, TypeOK, Sleep
    <2> QED
      BY <2>1 DEF Inv, TypeOK, Sleep
  <1>2. Recent' \subseteq Recent
    <2>1. clock \in Int /\ BreakerCooldown \in Int /\ clock' = clock + 1
      BY BreakerAssumption DEF Inv, TypeOK, Sleep
    <2>2. failed_at' = failed_at /\ \A t \in failed_at : t \in Int
      BY FailuresArePast DEF Inv, Sleep
    <2> QED
      BY <2>1, <2>2 DEF Recent
  <1>3. IsFiniteSet(Recent) /\ Cardinality(Recent) \in Nat
    BY PartsAreFinite DEF Inv, Recent
  <1>4. Cardinality(Recent') <= Cardinality(Recent) /\ Cardinality(Recent') \in Nat
    BY <1>2, <1>3, FS_Subset, FS_CardinalityType
  <1>5. BreakerThreshold * restarts \in Nat
    BY BreakerAssumption DEF Inv, TypeOK
  <1>6. Counted'
    BY <1>3, <1>4, <1>5 DEF Inv, TypeOK, Counted, Sleep
  <1> QED
    BY <1>1, <1>6 DEF Inv, Sleep

LEMMA RestartKeepsInv == Inv /\ Restart => Inv'
  <1> SUFFICES ASSUME Inv, Restart PROVE Inv'
    OBVIOUS
  <1>1. TypeOK'
    BY BreakerAssumption DEF Inv, TypeOK, Restart
  <1>2. Recent' = Recent
    BY DEF Restart, Recent
  <1>3. BreakerThreshold * restarts' = BreakerThreshold * restarts + BreakerThreshold
    BY BreakerAssumption DEF Inv, TypeOK, Restart
  <1>4. Cardinality(Recent) \in Nat /\ BreakerThreshold * restarts \in Nat
    BY PartsAreFinite, BreakerAssumption DEF Inv, TypeOK, Recent
  <1>5. Counted'
    BY <1>2, <1>3, <1>4, BreakerAssumption DEF Inv, TypeOK, Counted, Restart
  <1> QED
    BY <1>1, <1>5 DEF Inv, Restart

LEMMA NextKeepsInv == Inv /\ [Next]_vars => Inv'
  <1>1. Inv /\ UNCHANGED vars => Inv'
    BY DEF Inv, TypeOK, Counted, Recent, vars
  <1> QED
    BY <1>1, StepKeepsInv, SleepKeepsInv, RestartKeepsInv DEF Next

LEMMA InvBounds == Inv => BurnIsBounded
  <1> SUFFICES ASSUME Inv PROVE BurnIsBounded
    OBVIOUS
  <1>1. Cardinality(Recent) \in Nat /\ BreakerThreshold * restarts \in Nat
    BY PartsAreFinite, BreakerAssumption DEF Inv, TypeOK, Recent
  <1>2. BreakerThreshold * (restarts + 1) = BreakerThreshold * restarts + BreakerThreshold
    BY BreakerAssumption DEF Inv, TypeOK
  <1> QED
    BY <1>1, <1>2, BreakerAssumption DEF Inv, TypeOK, Counted, BurnIsBounded

\* A genuinely broken image cannot loop: whatever the threshold, the cooldown and the
\* number of restarts, no more creations fail within a cooldown than each process may try.
THEOREM BreakerBoundsTheBurn == Spec => []BurnIsBounded
  <1> QED
    BY InitInv, NextKeepsInv, InvBounds, PTL DEF Spec

\* The state is well typed from the start, and the bound on the counter is the bound of its
\* type: no sequence of rounds and restarts takes consecutive_failures past the threshold,
\* or separates it from last_failure (controller.py, step and _expire_breaker).
THEOREM BreakerIsTyped == Spec => []TypeOK
  <1>1. Inv => TypeOK
    BY DEF Inv
  <1> QED
    BY InitInv, NextKeepsInv, <1>1, PTL DEF Spec
=============================================================================
