-------------------------- MODULE CatalogueProofs ---------------------------
(***************************************************************************)
(* What the check of the catalogue at startup is worth, for every setting, *)
(* every Nova and every edit: the tags are true and every create has its   *)
(* flavour.                                                                *)
(***************************************************************************)
EXTENDS Catalogue, PlanProofs

\* The catalogue in use agrees with Nova, also while the setting does not.
Inv ==
  /\ setting \in Editions /\ rungs \in Editions \cup {<< >>}
  /\ DOMAIN server = Instances
  /\ MatchesNova(rungs)
  /\ SizeIsTrue

LEMMA RungsAreNumbered ==
  ASSUME rungs \in Editions \cup {<< >>}
  PROVE  DOMAIN rungs \subseteq Nat
<1>1. CASE rungs = << >>
  BY <1>1
<1>2. CASE rungs \in Editions
  BY <1>2, CatalogueAssumption
<1> QED
  BY <1>1, <1>2

\* The first entry of a size is an entry, and of that size.
LEMMA FirstOfIsThere ==
  ASSUME rungs \in Editions \cup {<< >>}, NEW m \in Sizes(rungs)
  PROVE  \E n \in DOMAIN rungs : FirstOf(rungs, m) = rungs[n] /\ rungs[n].memory_gb = m
<1> DEFINE same == {n \in DOMAIN rungs : rungs[n].memory_gb = m}
<1>1. same # {} /\ same \subseteq Nat
  BY RungsAreNumbered DEF Sizes
<1>2. Min(same) \in same
  <2> HIDE DEF same
  <2> QED
    BY <1>1, MinOfNaturals
<1>3. FirstOf(rungs, m) = rungs[Min(same)]
  BY DEF FirstOf
<1> QED
  BY <1>2, <1>3

\* A rung of the catalogue in use has a flavour in Nova, with the memory it stands for.
LEMMA RungsHaveFlavors ==
  ASSUME Inv, NEW m \in Sizes(rungs), m # None
  PROVE  /\ FlavorFor(m) \in DOMAIN Flavors
         /\ Flavors[FlavorFor(m)].ram = m * MIB_PER_GIB
<1>1. PICK n \in DOMAIN rungs : FirstOf(rungs, m) = rungs[n] /\ rungs[n].memory_gb = m
  BY FirstOfIsThere DEF Inv
<1>2. FlavorFor(m) = rungs[n].flavor
  BY <1>1 DEF FlavorFor
<1> QED
  BY <1>1, <1>2 DEF Inv, MatchesNova

LEMMA InitInv == Init => Inv
  BY CatalogueAssumption DEF Init, Inv, MatchesNova, SizeIsTrue, Up

\* A create that Nova carries out has a true tag.
LEMMA BootsTrue ==
  ASSUME Inv, NEW want, Creatable(want), Boots(want).size # None
  PROVE  Flavors[Boots(want).flavor].ram = Boots(want).size * MIB_PER_GIB
<1>1. Boots(want).size = want.rung /\ Boots(want).flavor = FlavorFor(want.rung)
  BY DEF Boots
<1>2. want.rung \in Sizes(rungs)
  <2> SUFFICES ASSUME want.rung \notin Sizes(rungs) PROVE FALSE
    OBVIOUS
  <2>1. FlavorFor(want.rung) = None
    BY <1>1 DEF FlavorFor
  <2> QED
    BY <2>1, CatalogueAssumption DEF Creatable
<1> QED
  BY <1>1, <1>2, RungsHaveFlavors

\* A server that is there after the creates of a round is one of them or was there before.
LEMMA FreshSlots ==
  ASSUME NEW assign, NEW create, NEW n, n \in Nat, Execute(assign, create, n),
         NEW i \in Instances
  PROVE  \/ \E k \in 1..n : server[i] = None /\ server'[i] = Boots(create[k])
         \/ server'[i] = server[i]
<1> DEFINE S == {j \in Instances \ Up : j <= i}
<1>1. server'[i] = IF i \notin Up /\ Cardinality(S) <= n THEN Boots(create[Cardinality(S)])
                   ELSE server[i]
  BY DEF Execute
<1>2. CASE i \notin Up /\ Cardinality(S) <= n
  <2>1. IsFiniteSet(S) /\ i \in S
    BY <1>2, FS_Subset, CatalogueAssumption
  <2>2. Cardinality(S) \in 1..n
    <3> HIDE DEF S
    <3>1. Cardinality(S) \in Nat /\ Cardinality(S) # 0
      BY <2>1, FS_CardinalityType, FS_EmptySet
    <3> QED
      BY <3>1, <1>2
  <2> QED
    BY <1>1, <1>2, <2>2 DEF Up
<1>3. CASE ~(i \notin Up /\ Cardinality(S) <= n)
  BY <1>1, <1>3
<1> QED
  BY <1>2, <1>3

LEMMA ExecuteKeepsInv ==
  ASSUME Inv, NEW assign, NEW create, NEW n, n \in Nat, Execute(assign, create, n),
         UNCHANGED <<setting, rungs>>
  PROVE  Inv'
<1>1. SizeIsTrue'
  <2> SUFFICES ASSUME NEW i \in Instances, server'[i] # None, server'[i].size # None
               PROVE  Flavors[server'[i].flavor].ram = server'[i].size * MIB_PER_GIB
    BY DEF SizeIsTrue, Up
  <2>1. CASE server'[i] = server[i]
    BY <2>1 DEF Inv, SizeIsTrue, Up
  <2>2. CASE server'[i] # server[i]
    <3>1. PICK k \in 1..n : server'[i] = Boots(create[k])
      BY <2>2, FreshSlots
    <3>2. Creatable(create[k])
      BY DEF Execute
    <3> QED
      BY <3>1, <3>2, BootsTrue
  <2> QED
    BY <2>1, <2>2
<1>2. DOMAIN server' = Instances
  BY DEF Execute
<1> QED
  BY <1>1, <1>2 DEF Inv, MatchesNova

LEMMA EnvironmentKeepsInv == Inv /\ Environment => Inv'
<1> SUFFICES ASSUME Inv, Environment PROVE Inv'
  OBVIOUS
<1>1. rungs' = rungs /\ setting' \in Editions
  BY DEF Inv, Environment, Edit, Mend, Submit, AssignmentTimeout, Finish, Idle, TakeShared,
         girder
<1>2. \/ server' = server
      \/ \E i \in Instances \cup {submission[s].instance : s \in Submissions} :
           server' = [server EXCEPT ![i] = None]
  BY DEF Environment, Edit, Mend, Submit, AssignmentTimeout, Finish, Idle, TakeShared
<1>3. SizeIsTrue' /\ DOMAIN server' = Instances
  BY <1>2 DEF Inv, SizeIsTrue, Up
<1> QED
  BY <1>1, <1>3 DEF Inv, MatchesNova

LEMMA NextKeepsInv == Inv /\ [Next]_vars => Inv'
<1> SUFFICES ASSUME Inv, [Next]_vars PROVE Inv'
  OBVIOUS
<1>1. CASE Start
  BY <1>1 DEF Inv, Start, Usable, MatchesNova, SizeIsTrue, Up, girder
<1>2. CASE Stop
  BY <1>2 DEF Inv, Stop, MatchesNova, SizeIsTrue, Up, girder
<1>3. CASE Step
  <2>1. PICK assign, create : \E n \in 0..Len(create) : Execute(assign, create, n)
    BY <1>3, Zenon DEF Step
  <2>2. PICK n \in 0..Len(create) : Execute(assign, create, n)
    BY <2>1
  <2>3. UNCHANGED <<setting, rungs>> /\ n \in Nat
    BY <1>3 DEF Step, girder
  <2> QED
    BY <2>2, <2>3, ExecuteKeepsInv
<1>4. CASE Environment
  BY <1>4, EnvironmentKeepsInv
<1>5. CASE UNCHANGED vars
  BY <1>5 DEF Inv, MatchesNova, SizeIsTrue, Up, vars
<1> QED
  BY <1>1, <1>2, <1>3, <1>4, <1>5 DEF Next

\* What a server is tagged with is what Nova gave it, for every sequence of editions and
\* restarts.
THEOREM SizesAreTrue == Spec => []SizeIsTrue
<1>1. Inv => SizeIsTrue
  BY DEF Inv
<1> QED
  BY InitInv, NextKeepsInv, <1>1, PTL DEF Spec

\* A create that names a rung takes the vcpus the catalogue in use has for that rung.
LEMMA BootsAsCounted ==
  ASSUME Inv, NEW want, Creatable(want), Boots(want).size # None
  PROVE  Flavors[Boots(want).flavor].vcpus = Vcpus(Limits, Boots(want).size)
<1> DEFINE m == want.rung
<1>1. Boots(want).size = m /\ Boots(want).flavor = FlavorFor(m)
  BY DEF Boots
<1>2. m \in Sizes(rungs)
  BY <1>1, CatalogueAssumption DEF FlavorFor, Creatable
<1>3. PICK n \in DOMAIN rungs : FirstOf(rungs, m) = rungs[n] /\ rungs[n].memory_gb = m
  BY <1>2, FirstOfIsThere DEF Inv
<1>4. FlavorFor(m) = rungs[n].flavor
  BY <1>1, <1>2, <1>3 DEF FlavorFor
<1>5. Limits.sizes = Specs
  BY DEF Limits, ConfigLimits
<1>6. Vcpus(Limits, m) = rungs[n].vcpus
  BY <1>2, <1>3, <1>5 DEF Vcpus, Rungs, Specs
<1> QED
  BY <1>1, <1>3, <1>4, <1>6 DEF Inv, MatchesNova

\* What decide() counts against the vcpu quota for a create is what the server takes of
\* it, for every setting that passed the check at startup.
THEOREM CreatesTakeWhatWasCounted == Spec => TakesWhatWasCounted
<1> DEFINE Counted ==
      \A i \in Instances \ Up : i \in Up' /\ server'[i].size # None =>
        Flavors[server'[i].flavor].vcpus = Vcpus(Limits, server'[i].size)
<1>1. Inv /\ [Next]_vars => [Counted]_vars
  <2> SUFFICES ASSUME Inv, Next, NEW i \in Instances, server[i] = None,
                      server'[i] # None, server'[i].size # None
               PROVE  Flavors[server'[i].flavor].vcpus = Vcpus(Limits, server'[i].size)
    BY DEF Up
  <2>1. server' # server
    OBVIOUS
  <2>2. ~Environment
    BY DEF Inv, Environment, Edit, Mend, Submit, AssignmentTimeout, Finish, Idle, TakeShared
  <2>3. Step
    BY <2>1, <2>2 DEF Next, Start, Stop
  <2>4. PICK assign, create : \E n \in 0..Len(create) : Execute(assign, create, n)
    BY <2>3, Zenon DEF Step
  <2>5. PICK n \in 0..Len(create) : Execute(assign, create, n)
    BY <2>4
  <2>6. PICK k \in 1..n : server'[i] = Boots(create[k])
    BY <2>5, FreshSlots
  <2>7. Creatable(create[k])
    BY <2>5 DEF Execute
  <2> QED
    BY <2>6, <2>7, BootsAsCounted
<1> QED
  BY InitInv, NextKeepsInv, <1>1, PTL DEF Spec, TakesWhatWasCounted

\* What decide() is shown can be counted.
LEMMA SnapshotIsCountable == Countable(FleetState, Limits)
<1>1. IsFiniteSet(Up) /\ DOMAIN FleetState.instances = Up
  BY FS_Subset, CatalogueAssumption DEF FleetState, Up
<1>2. ASSUME NEW state PROVE IsFiniteSet(InState(state)) /\ InState(state) \subseteq Submissions
  BY FS_Subset, CatalogueAssumption DEF InState
<1> DEFINE W == InState("waiting") \cup InState("shared")
<1>3. IsFiniteSet(W) /\ W \subseteq Nat
  BY <1>2, FS_Union, CatalogueAssumption
<1>4. DOMAIN FleetState.waiting = W /\ \A w \in W : FleetState.waiting[w].age = 0
  BY DEF FleetState
<1>5. FleetState.queue_depth \in Nat
  BY <1>2, FS_CardinalityType DEF FleetState
<1>6. Limits.max_instances \in Nat
  BY FS_CardinalityType, CatalogueAssumption DEF Limits, ConfigLimits
<1> QED
  BY <1>1, <1>3, <1>4, <1>5, <1>6 DEF Countable, Orderable

LEMMA WantedIsFinite == Len(Wanted(FleetState, Limits)) \in Nat
<1> DEFINE C == {Unsized} \cup
       {[rung |-> SubmissionRung(FleetState, Limits, w),
         disk_gb |-> FleetState.waiting[w].disk_gb] : w \in DOMAIN FleetState.waiting}
<1>1. Wanted(FleetState, Limits) \in Seq(C)
  BY SnapshotIsCountable, WantedIsAList
<1> QED
  BY <1>1, LenProperties

\* decide() does not ask for a rung without a flavour, so flavor_for never raises: the
\* limits and the flavours come from the one catalogue the process has read.
THEOREM EveryCreateHasAFlavor == Spec => []NamesARung
<1>1. Inv => NamesARung
  <2> SUFFICES ASSUME Inv, NEW n \in DOMAIN Create(FleetState, Limits)
               PROVE  FlavorFor(Create(FleetState, Limits)[n].rung) # None
    BY DEF NamesARung
  <2> DEFINE rung == Create(FleetState, Limits)[n].rung
  <2>1. rung = None \/ rung \in Rungs(Limits)
    BY SnapshotIsCountable, WantedIsFinite, CreateNamesARung
  <2>2. Rungs(Limits) = Sizes(rungs)
    BY DEF Rungs, Limits, ConfigLimits, Specs
  <2>3. CASE rung = None
    BY <2>3, CatalogueAssumption DEF FlavorFor
  <2>4. CASE rung # None
    BY <2>1, <2>2, <2>4, RungsHaveFlavors, CatalogueAssumption
  <2> QED
    BY <2>3, <2>4
<1> QED
  BY InitInv, NextKeepsInv, <1>1, PTL DEF Spec

-----------------------------------------------------------------------------
(***************************************************************************)
(* A submission's server.  It is the submission's alone, and stays what it *)
(* was when it was given: only what is nobody's is idle, taken or fresh.   *)
(***************************************************************************)

\* A flavour the controller may have booted a server of, under one edition or another.
InUse(flavor) ==
  \/ flavor = Flavor
  \/ \E raw \in Editions : Usable(raw) /\ \E n \in DOMAIN raw : raw[n].flavor = flavor

\* The bottom rung stays: under no edition is a server that counts as the smallest rung,
\* because its own size has left the catalogue, smaller than that rung.
BottomRungStays ==
  \A raw \in Editions, flavor \in DOMAIN Flavors :
    Usable(raw) /\ InUse(flavor) => Flavors[flavor].ram >= Min(Sizes(raw)) * MIB_PER_GIB

RungsAreUsable == rungs = << >> \/ (rungs \in Editions /\ Usable(rungs))

ServersHaveFlavors ==
  \A i \in Up : server[i].flavor \in DOMAIN Flavors /\ InUse(server[i].flavor)

IsSubmission(r) ==
  r = [state |-> r.state, memory_gb |-> r.memory_gb, instance |-> r.instance]

ServersAreTheirOwn ==
  /\ DOMAIN submission = Submissions
  /\ \A s \in Submissions :
       /\ IsSubmission(submission[s])
       /\ submission[s].instance \in Up \cup {None}
       /\ submission[s].state = "assigned" => submission[s].instance # None
       /\ \A t \in Submissions :
            submission[s].instance = submission[t].instance =>
              s = t \/ submission[s].instance = None

Settings ==
  /\ armed \in BOOLEAN /\ edits \in 0..MaxEdits /\ process \in {"up", "down"}
  /\ process = "up" => rungs # << >>

HoldInv ==
  /\ Inv /\ Settings /\ RungsAreUsable /\ ServersHaveFlavors /\ ServersAreTheirOwn

LEMMA NoneIsNoInstance == None \notin Instances
<1> SUFFICES ASSUME None \in Instances PROVE FALSE
  OBVIOUS
<1>1. None \in Nat
  BY CatalogueAssumption
<1>2. \A n \in Nat : n \in Int
  OBVIOUS
<1> QED
  BY <1>1, <1>2, NoneAssumption, Zenon

\* A set of positions of an edition has a last one.
LEMMA LastOfPositions ==
  ASSUME NEW k \in Nat, NEW S, S \subseteq 1..k, S # {}
  PROVE  Max(S) \in S
<1> DEFINE T == {k - n : n \in S}
<1>1. T \subseteq Nat /\ T # {}
  <2>1. \A n \in S : n \in 1..k /\ k - n \in Nat
    OBVIOUS
  <2> QED
    BY <2>1
<1>2. PICK x \in T : \A y \in T : ~(<<y, x>> \in OpToRel(<, Nat))
  <2> HIDE DEF T
  <2> QED
    BY <1>1, NatLessThanWellFounded, WFMin
<1>3. PICK m \in S : x = k - m
  OBVIOUS
<1>4. ASSUME NEW n \in S
      PROVE  m >= n
  <2>1. k - n \in T /\ k - n \in Nat /\ x \in Nat
    BY <1>1
  <2>2. k - n < x => <<k - n, x>> \in OpToRel(<, Nat)
    BY <2>1 DEF OpToRel
  <2>3. ~(k - n < x)
    BY <1>2, <2>1, <2>2, Zenon
  <2> QED
    BY <1>3, <2>1, <2>3
<1> QED
  BY <1>4 DEF Max

LEMMA InitHold == Init => HoldInv
<1> SUFFICES ASSUME Init PROVE HoldInv
  OBVIOUS
<1>1. Inv
  BY InitInv
<1>2. Settings /\ RungsAreUsable
  BY CatalogueAssumption DEF Init, Settings, RungsAreUsable
<1>3. Up = {}
  BY DEF Init, Up
<1>4. submission = [s \in Submissions |->
                      [state |-> "none", memory_gb |-> None, instance |-> None]]
  BY DEF Init
<1>5. ServersAreTheirOwn
  BY <1>4 DEF ServersAreTheirOwn, IsSubmission
<1> QED
  BY <1>1, <1>2, <1>3, <1>5 DEF HoldInv, ServersHaveFlavors

LEMMA SettingsKept ==
  ASSUME HoldInv, [Next]_vars
  PROVE  Settings' /\ RungsAreUsable'
<1>1. CASE Start
  <2>1. /\ process' = "up" /\ rungs' = setting /\ setting \in Editions
        /\ Usable(setting) /\ setting # << >>
        /\ UNCHANGED <<armed, edits>>
    BY <1>1 DEF HoldInv, Inv, Start, girder, Usable, Loads
  <2>2. Usable(rungs)'
    BY <2>1 DEF Usable, Loads, MatchesNova
  <2> QED
    BY <2>1, <2>2 DEF HoldInv, Settings, RungsAreUsable
<1>2. CASE Stop
  BY <1>2, CatalogueAssumption DEF HoldInv, Settings, RungsAreUsable, Stop, girder
<1>3. CASE Step
  BY <1>3 DEF HoldInv, Settings, RungsAreUsable, Step, girder, Usable, Loads, MatchesNova
<1>4. CASE Environment
  <2>1. UNCHANGED <<process, rungs>>
    BY <1>4 DEF Environment, Edit, Mend, Submit, AssignmentTimeout, Finish, Idle, TakeShared
  <2>2. \/ UNCHANGED <<armed, edits>>
        \/ edits < MaxEdits /\ edits' = edits + 1 /\ armed' \in Arming \cup {armed}
    BY <1>4 DEF Environment, Edit, Mend, Submit, AssignmentTimeout, Finish, Idle, TakeShared,
                girder
  <2>3. armed' \in BOOLEAN
    BY <2>2, CatalogueAssumption, Zenon DEF HoldInv, Settings
  <2>4. edits' \in 0..MaxEdits
    <3>1. MaxEdits \in Nat /\ edits \in 0..MaxEdits
      BY CatalogueAssumption DEF HoldInv, Settings
    <3> QED
      BY <2>2, <3>1
  <2> QED
    BY <2>1, <2>3, <2>4 DEF HoldInv, Settings, RungsAreUsable, Usable, Loads, MatchesNova
<1>5. CASE UNCHANGED vars
  BY <1>5 DEF HoldInv, Settings, RungsAreUsable, vars, Usable, Loads, MatchesNova
<1> QED
  BY <1>1, <1>2, <1>3, <1>4, <1>5 DEF Next

\* A create that Nova carries out boots a flavour in use.
LEMMA BootsInUse ==
  ASSUME HoldInv, NEW want, Creatable(want)
  PROVE  Boots(want).flavor \in DOMAIN Flavors /\ InUse(Boots(want).flavor)
<1>1. Boots(want).flavor = FlavorFor(want.rung) /\ FlavorFor(want.rung) \in DOMAIN Flavors
  BY DEF Boots, Creatable
<1>2. CASE FlavorFor(want.rung) = Flavor
  BY <1>1, <1>2 DEF InUse
<1>3. CASE FlavorFor(want.rung) # Flavor
  <2>1. /\ want.rung \in Sizes(rungs)
        /\ FlavorFor(want.rung) = FirstOf(rungs, want.rung).flavor
    BY <1>1, <1>3, CatalogueAssumption DEF FlavorFor
  <2>2. PICK n \in DOMAIN rungs : FirstOf(rungs, want.rung) = rungs[n]
    BY <2>1, FirstOfIsThere DEF HoldInv, Inv
  <2>3. rungs \in Editions /\ Usable(rungs)
    BY <2>2 DEF HoldInv, RungsAreUsable
  <2> QED
    BY <1>1, <2>1, <2>2, <2>3 DEF InUse
<1> QED
  BY <1>2, <1>3

\* What a round gives out is nobody's, and fits.
LEMMA RoundGivesFreeServers ==
  ASSUME HoldInv, NEW p \in Assign(FleetState, Limits)
  PROVE  /\ p[1] \in InState("waiting") /\ p[2] \in Up \ Taken
         /\ InstanceRung(FleetState, Limits, p[2]) = SubmissionRung(FleetState, Limits, p[1])
         /\ \A q \in Assign(FleetState, Limits) : p[1] = q[1] <=> p[2] = q[2]
<1>1. /\ DOMAIN FleetState.instances = Up /\ FleetState.spent = Taken \cap Instances
      /\ DOMAIN FleetState.waiting = InState("waiting") \cup InState("shared")
      /\ \A s \in DOMAIN FleetState.waiting :
           FleetState.waiting[s].assignable = (submission[s].state = "waiting")
      /\ \A i \in Up : FleetState.instances[i].age = 0
  BY DEF FleetState
<1>2. p[1] \in Placeable(FleetState) /\ p[2] \in Assignable(FleetState, Limits)
  BY DEF Assign
<1>3. p[2] \in Up \ Taken
  BY <1>1, <1>2 DEF Assignable, Unassigned, Live, Up
<1>4. p[1] \in InState("waiting")
  BY <1>1, <1>2 DEF Placeable, InState
<1>5. Orderable(FleetState, DOMAIN FleetState.waiting)
  BY SnapshotIsCountable DEF Countable
<1>6. Rankable(FleetState, DOMAIN FleetState.instances)
  <2>1. IsFiniteSet(Up) /\ Up \subseteq Nat
    BY FS_Subset, CatalogueAssumption DEF Up
  <2>2. \A i \in Up : FleetState.instances[i].age \in Nat
    BY <1>1
  <2> QED
    BY <1>1, <2>1, <2>2, Zenon DEF Rankable
<1> QED
  BY <1>3, <1>4, <1>5, <1>6, AssignIsAMatching

\* What a round does: it takes nothing from anybody.
Gives(s, i) ==
  /\ <<s, i>> \in Assign(FleetState, Limits)
  /\ submission'[s] = [state |-> "assigned", memory_gb |-> submission[s].memory_gb,
                       instance |-> i]

LEMMA RoundGives ==
  ASSUME HoldInv, Step
  PROVE  /\ DOMAIN submission' = Submissions
         /\ \A i \in Up : server'[i] = server[i]
         /\ \A i \in Up' \ Up : server'[i].flavor \in DOMAIN Flavors /\ InUse(server'[i].flavor)
         /\ \A s \in Submissions :
              submission'[s] = submission[s] \/ \E i \in Up \ Taken : Gives(s, i)
<1>1. PICK n \in 0..Len(Create(FleetState, Limits)) :
        Execute(Assign(FleetState, Limits), Create(FleetState, Limits), n)
  BY DEF Step
<1>2. n \in Nat
  OBVIOUS
<1>3. \A i \in Up : server'[i] = server[i]
  BY <1>1 DEF Execute, Up
<1>4. ASSUME NEW i \in Up' \ Up
      PROVE  server'[i].flavor \in DOMAIN Flavors /\ InUse(server'[i].flavor)
  <2>1. i \in Instances /\ server[i] = None /\ server'[i] # None
    BY DEF Up
  <2>2. PICK k \in 1..n : server'[i] = Boots(Create(FleetState, Limits)[k])
    BY <1>1, <1>2, <2>1, FreshSlots
  <2>3. Creatable(Create(FleetState, Limits)[k])
    BY <1>1 DEF Execute
  <2> QED
    BY <2>2, <2>3, BootsInUse
<1>5. ASSUME NEW s \in Submissions, submission'[s] # submission[s]
      PROVE  \E i \in Up \ Taken : Gives(s, i)
  <2> DEFINE Given(i) == <<s, i>> \in Assign(FleetState, Limits)
             chosen == CHOOSE i \in Instances : Given(i)
  <2>1. /\ \E i \in Instances : Given(i)
        /\ submission'[s] = [submission[s] EXCEPT !.state = "assigned", !.instance = chosen]
    BY <1>1, <1>5, Zenon DEF Execute
  <2>2. chosen \in Instances /\ Given(chosen)
    BY <2>1, Zenon
  <2>3. chosen \in Up \ Taken
    BY <2>2, RoundGivesFreeServers
  <2>4. IsSubmission(submission[s])
    BY DEF HoldInv, ServersAreTheirOwn
  <2> HIDE DEF chosen
  <2>5. submission'[s] = [state |-> "assigned", memory_gb |-> submission[s].memory_gb,
                          instance |-> chosen]
    BY <2>1, <2>4 DEF IsSubmission
  <2> QED
    BY <2>2, <2>3, <2>5 DEF Gives
<1>6. DOMAIN submission' = Submissions
  BY <1>1 DEF Execute
<1> QED
  BY <1>3, <1>4, <1>5, <1>6

LEMMA RoundKeepsServers ==
  ASSUME HoldInv, Step
  PROVE  ServersHaveFlavors' /\ ServersAreTheirOwn'
<1>1. /\ DOMAIN submission' = Submissions
      /\ \A i \in Up : server'[i] = server[i]
      /\ \A i \in Up' \ Up : server'[i].flavor \in DOMAIN Flavors /\ InUse(server'[i].flavor)
      /\ \A s \in Submissions :
           submission'[s] = submission[s] \/ \E i \in Up \ Taken : Gives(s, i)
  BY RoundGives
<1>2. Up \subseteq Up'
  BY <1>1 DEF Up
<1>3. ServersHaveFlavors'
  <2>1. \A i \in Up' : server'[i].flavor \in DOMAIN Flavors /\ InUse(server'[i].flavor)
    BY <1>1 DEF HoldInv, ServersHaveFlavors
  <2> QED
    BY <2>1 DEF ServersHaveFlavors
<1>4. \A s \in Submissions : submission[s].instance \in Taken
  BY DEF Taken
<1>5. ASSUME NEW s \in Submissions
      PROVE  /\ IsSubmission(submission'[s])
             /\ submission'[s].instance \in Up' \cup {None}
             /\ submission'[s].state = "assigned" => submission'[s].instance # None
  <2>1. CASE submission'[s] = submission[s]
    BY <1>2, <2>1 DEF HoldInv, ServersAreTheirOwn
  <2>2. CASE \E i \in Up \ Taken : Gives(s, i)
    BY <1>2, <2>2, NoneIsNoInstance DEF Gives, IsSubmission, Up
  <2> QED
    BY <1>1, <2>1, <2>2
<1>6. ASSUME NEW s \in Submissions, NEW t \in Submissions,
             submission'[s].instance = submission'[t].instance, submission'[s].instance # None
      PROVE  s = t
  <2>1. CASE submission'[s] = submission[s] /\ submission'[t] = submission[t]
    BY <1>6, <2>1 DEF HoldInv, ServersAreTheirOwn
  <2>2. ASSUME NEW i \in Up \ Taken, Gives(s, i), submission'[t] = submission[t]
        PROVE  FALSE
    BY <1>4, <1>6, <2>2 DEF Gives
  <2>3. ASSUME NEW i \in Up \ Taken, Gives(t, i), submission'[s] = submission[s]
        PROVE  FALSE
    BY <1>4, <1>6, <2>3 DEF Gives
  <2>4. ASSUME NEW i \in Up \ Taken, Gives(s, i), NEW j \in Up \ Taken, Gives(t, j)
        PROVE  s = t
    <3>1. i = j /\ <<s, i>> \in Assign(FleetState, Limits) /\ <<t, j>> \in Assign(FleetState, Limits)
      BY <1>6, <2>4 DEF Gives
    <3>2. <<s, i>>[1] = <<t, j>>[1] <=> <<s, i>>[2] = <<t, j>>[2]
      BY <3>1, RoundGivesFreeServers
    <3> QED
      BY <3>1, <3>2
  <2> QED
    BY <1>1, <2>1, <2>2, <2>3, <2>4
<1> QED
  BY <1>1, <1>3, <1>5, <1>6 DEF ServersAreTheirOwn

\* A step that gives nothing out: what it takes down is nobody's afterwards.
Frees ==
  /\ DOMAIN submission' = Submissions
  /\ \A i \in Instances :
       \/ server'[i] = server[i]
       \/ server'[i] = None /\ \A s \in Submissions : submission'[s].instance # i
  /\ \A s \in Submissions :
       /\ IsSubmission(submission'[s])
       /\ submission'[s].instance \in {submission[s].instance, None}
       /\ submission'[s].state = "assigned" => submission'[s] = submission[s]

LEMMA FreesKeeps ==
  ASSUME HoldInv, Frees
  PROVE  ServersHaveFlavors' /\ ServersAreTheirOwn' /\ (GetsItsMemory => GetsItsMemory')
<1>1. ASSUME NEW s \in Submissions, submission'[s].instance # None
      PROVE  /\ submission'[s].instance = submission[s].instance
             /\ submission[s].instance \in Up /\ submission[s].instance \in Instances
             /\ server'[submission[s].instance] = server[submission[s].instance]
  <2>1. submission'[s].instance = submission[s].instance
    BY <1>1 DEF Frees
  <2>2. submission[s].instance \in Up
    BY <1>1, <2>1 DEF HoldInv, ServersAreTheirOwn
  <2> QED
    BY <2>1, <2>2 DEF Frees, Up
<1>2. ServersHaveFlavors'
  <2> SUFFICES ASSUME NEW i \in Instances, server'[i] # None
               PROVE  server'[i].flavor \in DOMAIN Flavors /\ InUse(server'[i].flavor)
    BY DEF ServersHaveFlavors, Up
  <2>1. server'[i] = server[i]
    BY DEF Frees
  <2> QED
    BY <2>1 DEF HoldInv, ServersHaveFlavors, Up
<1>3. ASSUME NEW s \in Submissions
      PROVE  /\ IsSubmission(submission'[s])
             /\ submission'[s].instance \in Up' \cup {None}
             /\ submission'[s].state = "assigned" => submission'[s].instance # None
  <2>1. submission'[s].instance \in Up' \cup {None}
    BY <1>1 DEF Up
  <2> QED
    BY <2>1 DEF Frees, HoldInv, ServersAreTheirOwn
<1>4. ASSUME NEW s \in Submissions, NEW t \in Submissions,
             submission'[s].instance = submission'[t].instance, submission'[s].instance # None
      PROVE  s = t
  BY <1>1, <1>4 DEF HoldInv, ServersAreTheirOwn
<1>5. ServersAreTheirOwn'
  BY <1>3, <1>4 DEF ServersAreTheirOwn, Frees
<1>6. ASSUME GetsItsMemory, NEW s \in Submissions, submission'[s].state = "assigned",
             submission'[s].memory_gb # None
      PROVE  Flavors[server'[submission'[s].instance].flavor].ram
               >= submission'[s].memory_gb * MIB_PER_GIB
  <2>1. submission'[s] = submission[s] /\ s \in InState("assigned")
    BY <1>6 DEF Frees, InState
  <2>2. submission[s].instance # None
    BY <2>1 DEF InState, HoldInv, ServersAreTheirOwn
  <2>3. server'[submission'[s].instance] = server[submission[s].instance]
    BY <1>1, <2>1, <2>2
  <2> QED
    BY <1>6, <2>1, <2>3 DEF GetsItsMemory
<1> QED
  BY <1>2, <1>5, <1>6 DEF GetsItsMemory, InState

\* Submission t becomes x, and only it.
Becomes(t, x) ==
  /\ DOMAIN submission' = Submissions
  /\ submission'[t] = x
  /\ \A s \in Submissions \ {t} : submission'[s] = submission[s]

LEMMA SubmissionChange ==
  ASSUME HoldInv, NEW t \in Submissions, NEW x, submission' = [submission EXCEPT ![t] = x]
  PROVE  Becomes(t, x)
BY DEF HoldInv, ServersAreTheirOwn, Becomes

LEMMA SubmissionEnds ==
  ASSUME HoldInv, NEW t \in Submissions, NEW x, NEW i
  PROVE  /\ submission' = [submission EXCEPT ![t].state = x] =>
              Becomes(t, [state |-> x, memory_gb |-> submission[t].memory_gb,
                          instance |-> submission[t].instance])
         /\ submission' = [submission EXCEPT ![t].state = x, ![t].instance = i] =>
              Becomes(t, [state |-> x, memory_gb |-> submission[t].memory_gb, instance |-> i])
<1> DEFINE r == submission[t]
<1>1. IsSubmission(r)
  BY DEF HoldInv, ServersAreTheirOwn
<1>2. t \in DOMAIN submission /\ DOMAIN submission = Submissions
  BY DEF HoldInv, ServersAreTheirOwn
<1>3. /\ submission' = [submission EXCEPT ![t].state = x] =>
           Becomes(t, [r EXCEPT !.state = x])
      /\ submission' = [submission EXCEPT ![t].state = x, ![t].instance = i] =>
           Becomes(t, [r EXCEPT !.state = x, !.instance = i])
  BY <1>2 DEF Becomes
<1> SUFFICES /\ [r EXCEPT !.state = x]
                   = [state |-> x, memory_gb |-> r.memory_gb, instance |-> r.instance]
             /\ [r EXCEPT !.state = x, !.instance = i]
                   = [state |-> x, memory_gb |-> r.memory_gb, instance |-> i]
  BY <1>3
<1> HIDE DEF r
<1>4. \A a, m, j : r = [state |-> a, memory_gb |-> m, instance |-> j] =>
        [r EXCEPT !.state = x] = [state |-> x, memory_gb |-> m, instance |-> j]
  OBVIOUS
<1>5. \A m, j : [[state |-> x, memory_gb |-> m, instance |-> j] EXCEPT !.instance = i]
                  = [state |-> x, memory_gb |-> m, instance |-> i]
  OBVIOUS
<1>6. [r EXCEPT !.state = x, !.instance = i] = [[r EXCEPT !.state = x] EXCEPT !.instance = i]
  OBVIOUS
<1>7. [r EXCEPT !.state = x] = [state |-> x, memory_gb |-> r.memory_gb, instance |-> r.instance]
  BY <1>1, <1>4 DEF IsSubmission
<1> QED
  BY <1>5, <1>6, <1>7

LEMMA EnvironmentFrees ==
  ASSUME HoldInv, Environment, \A s \in Submissions, i \in Instances : ~TakeShared(s, i)
  PROVE  Frees
<1> USE DEF HoldInv, ServersAreTheirOwn
<1>1. CASE submission' = submission /\ server' = server
  BY <1>1 DEF Frees
<1>2. CASE Edit \/ Mend
  BY <1>1, <1>2 DEF Edit, Mend
<1>3. ASSUME NEW t \in Submissions, Submit(t)
      PROVE  Frees
  <2> DEFINE x == IF armed THEN "waiting" ELSE "shared"
  <2>1. PICK m : submission' = [submission EXCEPT ![t] =
                    [state |-> x, memory_gb |-> m, instance |-> None]]
    BY <1>3 DEF Submit
  <2>2. server' = server /\ x # "assigned"
    BY <1>3 DEF Submit
  <2> HIDE DEF x
  <2>3. Becomes(t, [state |-> x, memory_gb |-> m, instance |-> None])
    BY <2>1, SubmissionChange
  <2> QED
    BY <2>2, <2>3 DEF Frees, IsSubmission, Becomes
<1>4. ASSUME NEW t \in Submissions, AssignmentTimeout(t)
      PROVE  Frees
  <2>1. Becomes(t, [state |-> "ended", memory_gb |-> submission[t].memory_gb,
                    instance |-> submission[t].instance])
    BY <1>4, SubmissionEnds DEF AssignmentTimeout
  <2>2. server' = server
    BY <1>4 DEF AssignmentTimeout
  <2> QED
    BY <2>1, <2>2 DEF Frees, IsSubmission, Becomes
<1>5. ASSUME NEW t \in Submissions, Finish(t)
      PROVE  Frees
  <2>1. Becomes(t, [state |-> "ended", memory_gb |-> submission[t].memory_gb,
                    instance |-> None])
    BY <1>5, SubmissionEnds DEF Finish
  <2>2. /\ server' = [server EXCEPT ![submission[t].instance] = None]
        /\ DOMAIN server = Instances
    BY <1>5 DEF Finish, Inv
  <2>3. ASSUME NEW i \in Instances, server'[i] # server[i]
        PROVE  server'[i] = None /\ \A s \in Submissions : submission'[s].instance # i
    <3>1. i = submission[t].instance /\ server'[i] = None
      BY <2>2, <2>3
    <3> QED
      BY <2>1, <3>1, NoneIsNoInstance DEF Becomes
  <2> QED
    BY <2>1, <2>3 DEF Frees, IsSubmission, Becomes
<1>6. ASSUME NEW i \in Instances, Idle(i)
      PROVE  Frees
  <2>1. /\ submission' = submission /\ server' = [server EXCEPT ![i] = None]
        /\ i \notin Taken /\ DOMAIN server = Instances
    BY <1>6 DEF Idle, Inv
  <2> QED
    BY <2>1 DEF Frees, Taken
<1> QED
  BY <1>2, <1>3, <1>4, <1>5, <1>6 DEF Environment

LEMMA TakeSharedKeeps ==
  ASSUME HoldInv, NEW t \in Submissions, NEW i \in Instances, TakeShared(t, i)
  PROVE  ServersHaveFlavors' /\ ServersAreTheirOwn' /\ (GetsItsMemory => GetsItsMemory')
<1>1. server' = server /\ i \in Up \ Taken
  BY DEF TakeShared
<1>2. /\ DOMAIN submission' = Submissions
      /\ submission'[t] =
           [state |-> "running", memory_gb |-> submission[t].memory_gb, instance |-> i]
      /\ \A s \in Submissions \ {t} : submission'[s] = submission[s]
  BY SubmissionEnds DEF TakeShared, Becomes
<1>3. Up' = Up /\ i # None
  BY <1>1, NoneIsNoInstance DEF Up
<1>4. \A s \in Submissions : submission[s].instance # i
  BY <1>1 DEF Taken
<1>5. ServersHaveFlavors'
  BY <1>1, <1>3 DEF HoldInv, ServersHaveFlavors
<1>6. ServersAreTheirOwn'
  BY <1>1, <1>2, <1>3, <1>4 DEF HoldInv, ServersAreTheirOwn, IsSubmission
<1>7. GetsItsMemory => GetsItsMemory'
  BY <1>1, <1>2 DEF GetsItsMemory, InState
<1> QED
  BY <1>5, <1>6, <1>7

LEMMA EnvironmentKeepsServers ==
  ASSUME HoldInv, Environment
  PROVE  ServersHaveFlavors' /\ ServersAreTheirOwn' /\ (GetsItsMemory => GetsItsMemory')
BY EnvironmentFrees, FreesKeeps, TakeSharedKeeps

\* A catalogue that was read has a rung.
LEMMA UpHasRungs ==
  ASSUME HoldInv, rungs # << >>
  PROVE  Rungs(Limits) # {}
<1>1. /\ Rungs(Limits) = {rungs[n].memory_gb : n \in DOMAIN rungs}
      /\ rungs \in Editions
  BY DEF Rungs, Limits, ConfigLimits, Specs, Sizes, HoldInv, RungsAreUsable
<1>2. Len(rungs) \in Nat /\ rungs = [n \in 1..Len(rungs) |-> rungs[n]]
  BY <1>1, CatalogueAssumption
<1>3. ASSUME Len(rungs) = 0
      PROVE  rungs = << >>
  <2>1. rungs = [n \in 1..0 |-> rungs[n]]
    BY <1>2, <1>3
  <2>2. 1..0 = {}
    OBVIOUS
  <2> QED
    BY <2>1, <2>2
<1>4. 1 \in DOMAIN rungs
  BY <1>2, <1>3
<1> QED
  BY <1>1, <1>4

\* A server that counts as a rung has the memory of that rung: by its tag, by its flavour,
\* or because it counts as the smallest, which nothing in use is below.
LEMMA CountedHasMemory ==
  ASSUME HoldInv, BottomRungStays, rungs # << >>, NEW i \in Up,
         NEW m, m # None, InstanceRung(FleetState, Limits, i) = m
  PROVE  Flavors[server[i].flavor].ram >= m * MIB_PER_GIB
<1> DEFINE same == {n \in DOMAIN rungs : rungs[n].flavor = server[i].flavor}
<1>1. /\ rungs \in Editions /\ Usable(rungs) /\ MatchesNova(rungs)
      /\ rungs \in Editions \cup {<< >>}
  BY DEF HoldInv, RungsAreUsable, Usable
<1>2. /\ server[i].flavor \in DOMAIN Flavors /\ InUse(server[i].flavor)
      /\ Flavors[server[i].flavor].ram \in Nat
  BY CatalogueAssumption DEF HoldInv, ServersHaveFlavors
<1>3. Rungs(Limits) = Sizes(rungs)
  BY DEF Rungs, Limits, ConfigLimits, Specs
<1>4. FleetState.instances[i].size = SizeFrom(i)
  BY DEF FleetState
<1>5. CASE SizeFrom(i) \notin Rungs(Limits)
  <2>1. m = SmallestRung(Limits)
    BY <1>4, <1>5 DEF InstanceRung
  <2>2. Sizes(rungs) # {}
    <3>1. m # None => Rungs(Limits) # {}
      BY <2>1 DEF SmallestRung
    <3> QED
      BY <1>3, <3>1
  <2>3. m = Min(Sizes(rungs))
    BY <1>3, <2>1, <2>2 DEF SmallestRung
  <2> QED
    BY <1>1, <1>2, <2>3 DEF BottomRungStays
<1>6. CASE SizeFrom(i) = m
  <2>1. CASE server[i].size # None
    <3>1. server[i].size = m
      BY <1>6, <2>1 DEF SizeFrom
    <3>2. Flavors[server[i].flavor].ram = m * MIB_PER_GIB
      BY <2>1, <3>1 DEF HoldInv, Inv, SizeIsTrue
    <3> QED
      BY <1>2, <3>2
  <2>2. CASE server[i].size = None
    <3>1. same # {} /\ m = rungs[Max(same)].memory_gb
      BY <1>6, <2>2 DEF SizeFrom
    <3>2. Len(rungs) \in Nat /\ DOMAIN rungs = 1..Len(rungs)
      BY <1>1, CatalogueAssumption
    <3>3. Max(same) \in same
      <4>1. same \subseteq 1..Len(rungs)
        BY <3>2
      <4> HIDE DEF same
      <4> QED
        BY <3>1, <3>2, <4>1, LastOfPositions
    <3>4. Flavors[server[i].flavor].ram = m * MIB_PER_GIB
      BY <1>1, <3>1, <3>3 DEF MatchesNova
    <3> QED
      BY <1>2, <3>4
  <2> QED
    BY <2>1, <2>2
<1> QED
  BY <1>4, <1>5, <1>6 DEF InstanceRung

LEMMA RoundGivesMemory ==
  ASSUME HoldInv, BottomRungStays, GetsItsMemory, Step
  PROVE  GetsItsMemory'
<1> SUFFICES ASSUME NEW s \in Submissions, submission'[s].state = "assigned",
                    submission'[s].memory_gb # None
             PROVE  Flavors[server'[submission'[s].instance].flavor].ram
                      >= submission'[s].memory_gb * MIB_PER_GIB
  BY DEF GetsItsMemory, InState
<1>1. CASE submission'[s] = submission[s]
  <2>1. s \in InState("assigned") /\ submission[s].memory_gb # None
    BY <1>1 DEF InState
  <2>2. submission[s].instance \in Up
    BY <2>1 DEF InState, HoldInv, ServersAreTheirOwn
  <2>3. server'[submission[s].instance] = server[submission[s].instance]
    BY <2>2, RoundGives
  <2> QED
    BY <1>1, <2>1, <2>3 DEF GetsItsMemory
<1>2. ASSUME NEW i \in Up \ Taken, Gives(s, i)
      PROVE  Flavors[server'[submission'[s].instance].flavor].ram
               >= submission'[s].memory_gb * MIB_PER_GIB
  <2> DEFINE m == submission[s].memory_gb
  <2>1. submission'[s].instance = i /\ submission'[s].memory_gb = m
    BY <1>2 DEF Gives
  <2>2. server'[i] = server[i]
    BY RoundGives
  <2>3. rungs # << >>
    BY DEF Step, HoldInv, Settings
  <2>4. InstanceRung(FleetState, Limits, i) = SubmissionRung(FleetState, Limits, s)
    <3>1. <<s, i>> \in Assign(FleetState, Limits)
      BY <1>2 DEF Gives
    <3>2. InstanceRung(FleetState, Limits, <<s, i>>[2])
            = SubmissionRung(FleetState, Limits, <<s, i>>[1])
      BY <3>1, RoundGivesFreeServers
    <3> QED
      BY <3>2
  <2>5. SubmissionRung(FleetState, Limits, s) = m
    <3>1. <<s, i>> \in Assign(FleetState, Limits)
      BY <1>2 DEF Gives
    <3>2. <<s, i>>[1] \in InState("waiting")
      BY <3>1, RoundGivesFreeServers
    <3>3. FleetState.waiting[s].memory_gb = m
      BY <3>2 DEF FleetState
    <3>4. Rungs(Limits) # {}
      BY <2>3, UpHasRungs
    <3> QED
      BY <2>1, <3>3, <3>4 DEF SubmissionRung
  <2> HIDE DEF m
  <2> QED
    BY <2>1, <2>2, <2>3, <2>4, <2>5, CountedHasMemory
<1> QED
  BY <1>1, <1>2, RoundGives

LEMMA HoldKept ==
  ASSUME HoldInv, [Next]_vars
  PROVE  HoldInv' /\ (BottomRungStays /\ GetsItsMemory => GetsItsMemory')
<1>1. Inv' /\ Settings' /\ RungsAreUsable'
  BY NextKeepsInv, SettingsKept DEF HoldInv
<1>2. CASE Step
  BY <1>1, <1>2, RoundKeepsServers, RoundGivesMemory DEF HoldInv
<1>3. CASE Environment
  BY <1>1, <1>3, EnvironmentKeepsServers DEF HoldInv
<1>4. CASE Start \/ Stop \/ UNCHANGED vars
  <2>1. UNCHANGED <<server, submission>>
    BY <1>4 DEF Start, Stop, vars
  <2>2. Up' = Up
    BY <2>1 DEF Up
  <2>3. ServersHaveFlavors' /\ ServersAreTheirOwn'
    BY <2>1, <2>2 DEF HoldInv, ServersHaveFlavors, ServersAreTheirOwn
  <2>4. GetsItsMemory => GetsItsMemory'
    BY <2>1 DEF GetsItsMemory, InState
  <2> QED
    BY <1>1, <2>3, <2>4 DEF HoldInv
<1> QED
  BY <1>2, <1>3, <1>4 DEF Next

\* The types hold for every setting and Nova: no server is of a flavour Nova has not, and
\* no submission keeps a server that is gone.
THEOREM CatalogueIsTyped == Spec => []TypeOK
<1>1. HoldInv => TypeOK
  BY DEF HoldInv, Inv, Settings, ServersHaveFlavors, ServersAreTheirOwn, TypeOK
<1> QED
  BY InitHold, HoldKept, <1>1, PTL DEF Spec

\* A submission that was assigned runs on at least the memory it asked for, whatever was
\* edited, restarted and withdrawn between its submission and its end (plan.py,
\* _instance_rung and decide).  It assumes that the bottom rung stays: a server whose size
\* was withdrawn counts as the smallest rung, and is too small when that was its own.
THEOREM AssignedGetsItsMemory ==
  ASSUME BottomRungStays
  PROVE  Spec => []GetsItsMemory
<1>1. Init => GetsItsMemory
  BY DEF Init, GetsItsMemory, InState
<1>2. HoldInv /\ GetsItsMemory /\ [Next]_vars => HoldInv' /\ GetsItsMemory'
  BY HoldKept
<1> QED
  BY InitHold, <1>1, <1>2, PTL DEF Spec
=============================================================================
