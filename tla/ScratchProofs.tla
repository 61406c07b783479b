--------------------------- MODULE ScratchProofs ----------------------------
(***************************************************************************)
(* Theorems about the scratch disks, for every set of submissions, servers *)
(* and volumes, every quota, every grace and every fault budget.           *)
(***************************************************************************)
EXTENDS Scratch, PlanProofs

-----------------------------------------------------------------------------
\* The types behind TypeOK, and where in step() each of the loop's variables is in use.

SubmissionRecords == [status : {"absent", "RUNNING", "done"}, queue : Instances \cup {None}]
ServerRecords ==
  [status : {"absent", "BUILD", "ACTIVE", "SHUTOFF", "ERROR", "gone"},
   volume_gb : Nat \cup {None}, volume : VolumeIds \cup {None}]
VolumeRecords ==
  [state : {"absent", "available", "attached", "doomed", "gone"},
   age : 0..AgeBound, free : 0..AgeBound]
ReadingRecords == [attached : BOOLEAN, age : 0..AgeBound]
Creates == [rung : Nat \cup {None}, disk_gb : Nat \cup {None}]

IsSnapshot(r) ==
  /\ r = [instances |-> r.instances, spent |-> r.spent, volumes |-> r.volumes]
  /\ DOMAIN r.instances \subseteq Instances
  /\ r.instances \in [DOMAIN r.instances -> ServerRecords]
  /\ DOMAIN r.volumes \subseteq VolumeIds
  /\ r.volumes \in [DOMAIN r.volumes -> ReadingRecords]

InHand == {"user_data", "server", "rollback_quota", "rollback_failure"}

LoopInv ==
  /\ IsSnapshot(snap)
  /\ to_create \in Seq(Creates)
  /\ to_create # << >> => pc \in InHand \cup {"act"} /\ consecutive_failures < BreakerThreshold
  /\ pc \in InHand => to_create # << >>
  /\ volume_id # None => pc \in InHand
  /\ pc \in {"rollback_quota", "rollback_failure"} => volume_id # None

TypeInv == TypeOK /\ LoopInv

LEMMA VolumeIdsAreNotNone == \A v \in VolumeIds : v # None
BY ScratchAssumption, NoneAssumption

LEMMA InstancesAreNotNone == \A i \in Instances : i # None
BY ScratchAssumption, NoneAssumption

LEMMA NoSnapshotTyped == IsSnapshot(NoSnapshot)
<1>1. DOMAIN << >> = {} /\ << >> \in [{} -> ServerRecords] /\ << >> \in [{} -> ReadingRecords]
  OBVIOUS
<1> QED
  BY <1>1 DEF NoSnapshot, IsSnapshot

LEMMA InitTyped == Init => TypeInv
<1> SUFFICES ASSUME Init PROVE TypeInv
  OBVIOUS
<1>1. 0 \in 0..AgeBound /\ 0 \in 0..BreakerThreshold
  BY ScratchAssumption
<1>2. TypeOK
  BY <1>1, ScratchAssumption DEF Init, TypeOK
<1>3. LoopInv
  BY NoSnapshotTyped, EmptySeq DEF Init, LoopInv, InHand
<1> QED
  BY <1>2, <1>3 DEF TypeInv

\* A set read in order of creation: the first that is unused is one of them.
LEMMA FirstUnusedIsUnused ==
  ASSUME NEW S, NEW x, S \subseteq Nat, FirstUnused(S, x)
  PROVE  x \in S
BY MinOfNaturals DEF FirstUnused

LEMMA AgedIsBounded ==
  ASSUME NEW bound \in Nat, NEW age \in 0..bound
  PROVE  Aged(age, bound) \in 0..bound /\ age <= Aged(age, bound)
BY DEF Aged

-----------------------------------------------------------------------------
(***************************************************************************)
(* What gather() hands to decide() is a snapshot decide() can count with,  *)
(* and what decide() returns is of the right type.                         *)
(***************************************************************************)

LEMMA SnapshotIsCountable ==
  ASSUME TypeInv
  PROVE  Countable(FleetState, Limits)
<1>1. DOMAIN snap.instances \subseteq Instances /\ Waiting \subseteq Submissions
  BY DEF TypeInv, LoopInv, IsSnapshot, Waiting
<1>2. IsFiniteSet(DOMAIN snap.instances) /\ IsFiniteSet(Waiting) /\ Waiting \subseteq Nat
  BY <1>1, ScratchAssumption, FS_Subset
<1>3. /\ DOMAIN FleetState.instances = DOMAIN snap.instances
      /\ DOMAIN FleetState.waiting = Waiting
      /\ \A w \in Waiting : FleetState.waiting[w].age = 0
      /\ FleetState.queue_depth = 0
      /\ Limits.max_instances = MaxInstances
  BY DEF FleetState, Limits
<1>4. Orderable(FleetState, DOMAIN FleetState.waiting)
  BY <1>2, <1>3 DEF Orderable
<1> QED
  BY <1>2, <1>3, <1>4, ScratchAssumption DEF Countable

LEMMA LimitsAreSized == Sized(Limits)
<1>1. Limits.assign = TRUE /\ Rungs(Limits) = {Rung}
  BY DEF Limits, Rungs
<1> QED
  BY <1>1 DEF Sized

LEMMA WantsAreCreates ==
  ASSUME TypeInv
  PROVE  /\ Unsized \in Creates
         /\ \A w \in DOMAIN FleetState.waiting :
              [rung    |-> SubmissionRung(FleetState, Limits, w),
               disk_gb |-> FleetState.waiting[w].disk_gb] \in Creates
<1>1. DOMAIN FleetState.waiting \subseteq Submissions
  BY DEF FleetState, Waiting
<1>2. \A w \in DOMAIN FleetState.waiting :
        FleetState.waiting[w].disk_gb = Disk[w] /\ FleetState.waiting[w].memory_gb = None
  BY DEF FleetState
<1>3. Rungs(Limits) \subseteq Nat
  BY ScratchAssumption DEF Rungs, Limits
<1>4. SmallestRung(Limits) \in Nat \cup {None}
  BY <1>3, MinOfNaturals DEF SmallestRung
<1>5. \A w \in DOMAIN FleetState.waiting :
        SubmissionRung(FleetState, Limits, w) \in Nat \cup {None}
  BY <1>2, <1>4 DEF SubmissionRung
<1> QED
  BY <1>1, <1>2, <1>5, ScratchAssumption DEF Creates, Unsized

LEMMA DecisionIsTyped ==
  ASSUME TypeInv
  PROVE  /\ Delete(FleetState, Limits) \subseteq Instances
         /\ DeleteVolumes(FleetState, Limits) \subseteq VolumeIds
         /\ Assign(FleetState, Limits) \subseteq Submissions \X Instances
         /\ Create(FleetState, Limits) \in Seq(Creates)
         /\ Create(FleetState, Limits) # << >> => consecutive_failures < BreakerThreshold
<1>1. /\ DOMAIN FleetState.instances \subseteq Instances
      /\ DOMAIN FleetState.waiting \subseteq Submissions
      /\ DOMAIN FleetState.volumes \subseteq VolumeIds
  BY DEF FleetState, TypeInv, LoopInv, IsSnapshot, Waiting
<1>2. Live(FleetState) \subseteq Instances
  BY <1>1 DEF Live
<1>3. Delete(FleetState, Limits) \subseteq Instances
  BY <1>1, <1>2 DEF Delete, ShutOff, FailedToProvision, OverLifetime
<1>4. /\ Placeable(FleetState) \subseteq Submissions
      /\ Assignable(FleetState, Limits) \subseteq Instances
  BY <1>1, <1>2 DEF Placeable, Assignable, Unassigned
<1>5. Assign(FleetState, Limits) \subseteq Submissions \X Instances
  BY <1>4 DEF Assign
<1>6. /\ Create(FleetState, Limits) \in Seq(Creates)
      /\ Create(FleetState, Limits) # << >> => ~BreakerOpen(FleetState, Limits)
  BY SnapshotIsCountable, WantsAreCreates, CreateFitsTheHeadroom
<1>7. BreakerOpen(FleetState, Limits) <=> consecutive_failures >= BreakerThreshold
  BY DEF BreakerOpen, FleetState, Limits
<1>8. consecutive_failures \in Nat /\ BreakerThreshold \in Nat
  BY ScratchAssumption DEF TypeInv, TypeOK
<1>9. DeleteVolumes(FleetState, Limits) \subseteq VolumeIds
  BY <1>1 DEF DeleteVolumes
<1> QED
  BY <1>3, <1>5, <1>6, <1>7, <1>8, <1>9

-----------------------------------------------------------------------------
(***************************************************************************)
(* The types are inductive.                                                *)
(***************************************************************************)

LEMMA LoopStays == LoopInv /\ UNCHANGED process => LoopInv'
BY DEF LoopInv, process, decision, breaker, IsSnapshot

\* What is left of TypeOK when nothing of the loop moves.
LEMMA WorldTyped ==
  ASSUME TypeInv, UNCHANGED <<round, process>>,
         enabled' \in BOOLEAN, submission' \in [Submissions -> SubmissionRecords],
         server' \in [Instances -> ServerRecords], deleting' \subseteq Instances,
         volume' \in [VolumeIds -> VolumeRecords], faults' \in Nat
  PROVE  TypeInv'
<1>1. TypeOK'
  BY DEF TypeInv, TypeOK, process, decision, breaker, SubmissionRecords, ServerRecords,
         VolumeRecords
<1> QED
  BY <1>1, LoopStays DEF TypeInv

LEMMA Records ==
  ASSUME TypeInv
  PROVE  /\ submission \in [Submissions -> SubmissionRecords]
         /\ server \in [Instances -> ServerRecords]
         /\ volume \in [VolumeIds -> VolumeRecords]
         /\ faults \in Nat /\ deleting \subseteq Instances /\ enabled \in BOOLEAN
BY DEF TypeInv, TypeOK, SubmissionRecords, ServerRecords, VolumeRecords

LEMMA FaultsTyped ==
  ASSUME TypeInv
  PROVE  /\ NoFault => faults' \in Nat
         /\ \A kind : Fault(kind) => faults' \in Nat
BY Records DEF NoFault, Fault

LEMMA EnvironmentTyped == TypeInv /\ Environment => TypeInv'
<1> SUFFICES ASSUME TypeInv, Environment PROVE TypeInv'
  OBVIOUS
<1> USE Records
<1>1. CASE FlipEnabled
  BY <1>1, WorldTyped, FaultsTyped DEF FlipEnabled, Environment
<1>2. ASSUME NEW s \in Submissions, Submit(s) PROVE TypeInv'
  <2>1. submission' \in [Submissions -> SubmissionRecords]
    BY <1>2 DEF Submit, SubmissionRecords
  <2> QED
    BY <1>2, <2>1, WorldTyped, FaultsTyped DEF Submit, Environment
<1>3. ASSUME NEW i \in Instances, Nova(i) PROVE TypeInv'
  <2>1. CASE Attach(i)
    <3>1. volume' \in [VolumeIds -> VolumeRecords]
      BY <2>1, ScratchAssumption DEF Attach, VolumeRecords
    <3>2. server' \in [Instances -> ServerRecords]
      BY <2>1 DEF Attach, ServerRecords
    <3> QED
      BY <2>1, <3>1, <3>2, WorldTyped, FaultsTyped DEF Attach, Environment
  <2>2. CASE Boot(i) \/ PowerOff(i)
    <3>1. server' \in [Instances -> ServerRecords]
      BY <2>2 DEF Boot, PowerOff, ServerRecords
    <3> QED
      BY <2>2, <3>1, WorldTyped, FaultsTyped DEF Boot, PowerOff, Environment
  <2>3. CASE Finish(i)
    <3>1. submission' \in [Submissions -> SubmissionRecords]
      BY <2>3 DEF Finish, SubmissionRecords, Given
    <3> QED
      BY <2>3, <3>1, WorldTyped, FaultsTyped DEF Finish, Environment
  <2>4. CASE NovaDeletes(i)
    <3>1. server' \in [Instances -> ServerRecords]
      BY <2>4 DEF NovaDeletes, ServerRecords
    <3>2. volume' \in [VolumeIds -> VolumeRecords]
      <4>1. PICK state \in {"doomed", "available"} :
              volume' = [v \in VolumeIds |->
                           IF v \in Named(i) /\ volume[v].state = "attached"
                           THEN [volume[v] EXCEPT !.state = state, !.free = 0] ELSE volume[v]]
        BY <2>4 DEF NovaDeletes
      <4>2. \A v \in VolumeIds :
              [volume[v] EXCEPT !.state = state, !.free = 0] \in VolumeRecords
        <5> SUFFICES ASSUME NEW v \in VolumeIds
                     PROVE  [volume[v] EXCEPT !.state = state, !.free = 0] \in VolumeRecords
          OBVIOUS
        <5>1. volume[v] \in VolumeRecords /\ 0 \in 0..AgeBound
          BY ScratchAssumption
        <5> QED
          BY <5>1, <4>1 DEF VolumeRecords
      <4> QED
        BY <4>1, <4>2
    <3>3. faults' \in Nat
      BY <2>4, FaultsTyped DEF NovaDeletes
    <3> QED
      BY <2>4, <3>1, <3>2, <3>3, WorldTyped DEF NovaDeletes, Environment
  <2> QED
    BY <1>3, <2>1, <2>2, <2>3, <2>4 DEF Nova
<1>4. ASSUME NEW v \in VolumeIds, NovaReclaims(v) PROVE TypeInv'
  <2>1. volume' \in [VolumeIds -> VolumeRecords]
    BY <1>4 DEF NovaReclaims, VolumeRecords
  <2> QED
    BY <1>4, <2>1, WorldTyped, FaultsTyped DEF NovaReclaims, Environment
<1> QED
  BY <1>1, <1>2, <1>3, <1>4 DEF Environment, External

LEMMA TickTyped == TypeInv /\ Tick => TypeInv'
<1> SUFFICES ASSUME TypeInv, Tick PROVE TypeInv'
  OBVIOUS
<1> USE Records
<1>1. volume' \in [VolumeIds -> VolumeRecords]
  <2>1. \A v \in VolumeIds :
          [volume[v] EXCEPT
             !.age = Aged(@, AgeBound),
             !.free = IF volume[v].state = "attached" THEN 0 ELSE Aged(@, AgeBound)]
            \in VolumeRecords
    <3> SUFFICES ASSUME NEW v \in VolumeIds
                 PROVE  [volume[v] EXCEPT
                           !.age = Aged(@, AgeBound),
                           !.free = IF volume[v].state = "attached" THEN 0 ELSE Aged(@, AgeBound)]
                          \in VolumeRecords
      OBVIOUS
    <3>1. volume[v].age \in 0..AgeBound /\ volume[v].free \in 0..AgeBound /\ AgeBound \in Nat
      BY ScratchAssumption DEF VolumeRecords
    <3>2. /\ Aged(volume[v].age, AgeBound) \in 0..AgeBound
          /\ Aged(volume[v].free, AgeBound) \in 0..AgeBound
          /\ 0 \in 0..AgeBound
      BY <3>1, AgedIsBounded
    <3> HIDE DEF Aged
    <3> QED
      BY <3>2 DEF VolumeRecords
  <2> QED
    BY <2>1 DEF Tick
<1>2. round' \in Nat
  <2>1. round \in Nat /\ (round' = round \/ round' = round + 1)
    BY DEF Tick, TypeInv, TypeOK
  <2> QED
    BY <2>1
<1>3. last_failure' \in Nat \cup {None}
  <2>1. /\ last_failure \in Nat \cup {None}
        /\ last_failure = None => last_failure' = None
        /\ last_failure # None => last_failure' \in {last_failure, last_failure + 1}
    BY DEF Tick, TypeInv, TypeOK, Aged
  <2> QED
    BY <2>1
<1>4. TypeOK'
  BY <1>1, <1>2, <1>3, FaultsTyped DEF Tick, TypeInv, TypeOK, decision, VolumeRecords
<1>5. LoopInv'
  BY DEF Tick, TypeInv, LoopInv, decision, IsSnapshot
<1> QED
  BY <1>4, <1>5 DEF TypeInv

LEMMA GatherTyped ==
  TypeInv /\ (BeginRound \/ ReadInstances \/ ReadVolumes \/ Decide) => TypeInv'
<1> SUFFICES ASSUME TypeInv, BeginRound \/ ReadInstances \/ ReadVolumes \/ Decide PROVE TypeInv'
  OBVIOUS
<1> USE Records, FaultsTyped
<1>1. CASE BeginRound
  <2>1. /\ consecutive_failures' \in 0..BreakerThreshold
        /\ to_create # << >> => consecutive_failures' < BreakerThreshold
        /\ last_failure' \in Nat \cup {None}
    BY <1>1, ScratchAssumption DEF BeginRound, TypeInv, TypeOK, LoopInv
  <2>2. TypeOK'
    BY <1>1, <2>1 DEF BeginRound, TypeInv, TypeOK, world, decision
  <2>3. LoopInv'
    BY <1>1, <2>1 DEF BeginRound, TypeInv, LoopInv, decision, InHand, IsSnapshot
  <2> QED
    BY <2>2, <2>3 DEF TypeInv
<1>2. CASE ReadInstances
  <2>1. IsSnapshot(snap')
    <3> DEFINE listed == {i \in Instances : server[i].status \notin {"absent", "gone"}}
               listing == [i \in listed |-> server[i]]
    <3>1. snap' = [snap EXCEPT !.instances = listing,
                               !.spent = {i \in listed : Given(i) # {}}]
      BY <1>2 DEF ReadInstances
    <3>2. DOMAIN listing \subseteq Instances /\ listing \in [DOMAIN listing -> ServerRecords]
      OBVIOUS
    <3>3. IsSnapshot(snap)
      BY DEF TypeInv, LoopInv
    <3> HIDE DEF listing
    <3> QED
      BY <3>1, <3>2, <3>3 DEF IsSnapshot
  <2>2. TypeOK'
    BY <1>2 DEF ReadInstances, TypeInv, TypeOK, world, decision, breaker
  <2>3. LoopInv'
    BY <1>2, <2>1 DEF ReadInstances, TypeInv, LoopInv, decision, breaker, InHand
  <2> QED
    BY <2>2, <2>3 DEF TypeInv
<1>3. CASE ReadVolumes
  <2>1. IsSnapshot(snap')
    <3>1. DOMAIN Reading \subseteq VolumeIds /\ Reading \in [DOMAIN Reading -> ReadingRecords]
      BY DEF Reading, Existing, ReadingRecords, VolumeRecords
    <3>2. snap' = snap \/ snap' = [snap EXCEPT !.volumes = Reading]
      BY <1>3 DEF ReadVolumes
    <3>3. IsSnapshot(snap)
      BY DEF TypeInv, LoopInv
    <3> HIDE DEF Reading
    <3> QED
      BY <3>1, <3>2, <3>3 DEF IsSnapshot
  <2>2. TypeOK'
    BY <1>3 DEF ReadVolumes, TypeInv, TypeOK, world, decision, breaker
  <2>3. LoopInv'
    BY <1>3, <2>1 DEF ReadVolumes, TypeInv, LoopInv, decision, breaker, InHand
  <2> QED
    BY <2>2, <2>3 DEF TypeInv
<1>4. CASE Decide
  <2>1. /\ to_delete' = Delete(FleetState, Limits)
        /\ to_sweep' = DeleteVolumes(FleetState, Limits)
        /\ to_assign' = Assign(FleetState, Limits)
        /\ to_create' = Create(FleetState, Limits)
    BY <1>4 DEF Decide
  <2>2. /\ to_delete' \subseteq Instances /\ to_sweep' \subseteq VolumeIds
        /\ to_assign' \subseteq Submissions \X Instances
        /\ to_create' \in Seq(Creates)
        /\ to_create' # << >> => consecutive_failures < BreakerThreshold
    BY <2>1, DecisionIsTyped
  <2>3. TypeOK'
    BY <1>4, <2>2 DEF Decide, TypeInv, TypeOK, world, breaker
  <2>4. LoopInv'
    <3>1. snap' = NoSnapshot /\ pc' = "act" /\ pc = "decide"
      BY <1>4 DEF Decide
    <3>2. IsSnapshot(snap')
      BY <3>1, NoSnapshotTyped
    <3> QED
      BY <1>4, <3>1, <3>2, <2>2 DEF Decide, TypeInv, LoopInv, breaker, InHand
  <2> QED
    BY <2>3, <2>4 DEF TypeInv
<1> QED
  BY <1>1, <1>2, <1>3, <1>4

\* Cinder deletes a volume or leaves it, and looks at nothing else.
LEMMA DeletesVolumeTyped ==
  ASSUME TypeInv, NEW v \in VolumeIds, DeletesVolume(v)
  PROVE  volume' \in [VolumeIds -> VolumeRecords] /\ faults' \in Nat
<1>1. volume' = volume \/ volume' = [volume EXCEPT ![v].state = "gone"]
  BY DEF DeletesVolume
<1>2. volume' \in [VolumeIds -> VolumeRecords]
  BY <1>1, Records DEF VolumeRecords
<1>3. faults' \in Nat
  BY FaultsTyped DEF DeletesVolume
<1> QED
  BY <1>2, <1>3

LEMMA ExecutionTyped ==
  ASSUME TypeInv,
         \/ \E i \in Instances : DeleteInstance(i)
         \/ \E v \in VolumeIds : SweepVolume(v)
         \/ \E s \in Submissions, i \in Instances : AssignSubmission(s, i)
         \/ EndRound \/ Crash \/ Restart
  PROVE  TypeInv'
<1> USE Records, FaultsTyped
<1>1. ASSUME NEW i \in Instances, DeleteInstance(i) PROVE TypeInv'
  <2>1. deleting' \subseteq Instances /\ to_delete' \subseteq Instances /\ faults' \in Nat
    BY <1>1 DEF DeleteInstance, TypeInv, TypeOK
  <2>2. TypeOK'
    BY <1>1, <2>1 DEF DeleteInstance, TypeInv, TypeOK, breaker
  <2>3. LoopInv'
    BY <1>1 DEF DeleteInstance, TypeInv, LoopInv, breaker, InHand, IsSnapshot
  <2> QED
    BY <2>2, <2>3 DEF TypeInv
<1>2. ASSUME NEW v \in VolumeIds, SweepVolume(v) PROVE TypeInv'
  <2>1. volume' \in [VolumeIds -> VolumeRecords] /\ faults' \in Nat
    BY <1>2, DeletesVolumeTyped DEF SweepVolume
  <2>2. TypeOK'
    BY <1>2, <2>1 DEF SweepVolume, TypeInv, TypeOK, breaker, VolumeRecords
  <2>3. LoopInv'
    BY <1>2 DEF SweepVolume, TypeInv, LoopInv, breaker, InHand, IsSnapshot
  <2> QED
    BY <2>2, <2>3 DEF TypeInv
<1>3. ASSUME NEW s \in Submissions, NEW i \in Instances, AssignSubmission(s, i) PROVE TypeInv'
  <2>1. submission' \in [Submissions -> SubmissionRecords]
    BY <1>3 DEF AssignSubmission, SubmissionRecords
  <2>2. TypeOK'
    BY <1>3, <2>1 DEF AssignSubmission, TypeInv, TypeOK, breaker, SubmissionRecords
  <2>3. LoopInv'
    BY <1>3 DEF AssignSubmission, TypeInv, LoopInv, breaker, InHand, IsSnapshot
  <2> QED
    BY <2>2, <2>3 DEF TypeInv
<1>4. CASE EndRound \/ Restart
  <2>1. TypeOK'
    BY <1>4 DEF EndRound, Restart, TypeInv, TypeOK, world, decision, breaker
  <2>2. LoopInv'
    BY <1>4 DEF EndRound, Restart, TypeInv, LoopInv, decision, breaker, InHand, IsSnapshot
  <2> QED
    BY <2>1, <2>2 DEF TypeInv
<1>5. CASE Crash
  <2>1. 0 \in 0..BreakerThreshold /\ faults' \in Nat
    BY <1>5, ScratchAssumption DEF Crash
  <2>2. TypeOK'
    BY <1>5, <2>1 DEF Crash, TypeInv, TypeOK, world
  <2>3. IsSnapshot(snap') /\ << >> \in Seq(Creates)
    BY <1>5, NoSnapshotTyped, EmptySeq DEF Crash
  <2>4. LoopInv'
    BY <1>5, <2>3 DEF Crash, LoopInv, InHand
  <2> QED
    BY <2>2, <2>4 DEF TypeInv
<1> QED
  BY <1>1, <1>2, <1>3, <1>4, <1>5

\* The end of a create that an exception came out of.
LEMMA FailureTyped ==
  ASSUME TypeInv, Backpressure \/ CreationFailed, to_create # << >>
  PROVE  /\ pc' = "act" /\ to_create' = << >> /\ volume_id' = None
         /\ consecutive_failures' \in 0..BreakerThreshold
         /\ last_failure' \in Nat \cup {None}
<1>1. /\ consecutive_failures \in 0..BreakerThreshold
      /\ consecutive_failures < BreakerThreshold
      /\ last_failure \in Nat \cup {None} /\ BreakerThreshold \in Nat
  BY ScratchAssumption DEF TypeInv, TypeOK, LoopInv
<1> QED
  BY <1>1 DEF Backpressure, CreationFailed, breaker

\* What the steps of a create leave alone, and what they may do to the rest.
LEMMA CreateStepTyped ==
  ASSUME TypeInv,
         UNCHANGED <<enabled, submission, deleting, round, snap, volumes_on,
                     to_delete, to_sweep, to_assign>>,
         server' \in [Instances -> ServerRecords],
         volume' \in [VolumeIds -> VolumeRecords],
         faults' \in Nat, to_create # << >>,
         \/ Backpressure \/ CreationFailed
         \/ /\ pc' \in InHand /\ to_create' = to_create
            /\ volume_id' \in VolumeIds \cup {None}
            /\ pc' \in {"rollback_quota", "rollback_failure"} => volume_id' # None
            /\ UNCHANGED breaker
         \/ /\ pc' = "act" /\ to_create' = Tail(to_create) /\ volume_id' = None
            /\ consecutive_failures' = 0 /\ last_failure' = None
  PROVE  TypeInv'
<1>1. /\ to_create' \in Seq(Creates) /\ volume_id' \in VolumeIds \cup {None}
      /\ pc' \in InHand \cup {"act"}
      /\ consecutive_failures' \in 0..BreakerThreshold /\ last_failure' \in Nat \cup {None}
  <2>1. CASE Backpressure \/ CreationFailed
    BY <2>1, FailureTyped, EmptySeq
  <2>2. CASE pc' \in InHand /\ to_create' = to_create /\ volume_id' \in VolumeIds \cup {None}
             /\ UNCHANGED breaker
    BY <2>2 DEF TypeInv, TypeOK, LoopInv, breaker
  <2>3. CASE /\ pc' = "act" /\ to_create' = Tail(to_create) /\ volume_id' = None
             /\ consecutive_failures' = 0 /\ last_failure' = None
    BY <2>3, HeadTailProperties, ScratchAssumption DEF TypeInv, LoopInv
  <2> QED
    BY <2>1, <2>2, <2>3
<1>2. /\ to_create' # << >> => consecutive_failures' < BreakerThreshold
      /\ pc' \in InHand => to_create' # << >>
      /\ volume_id' # None => pc' \in InHand
      /\ pc' \in {"rollback_quota", "rollback_failure"} => volume_id' # None
  BY FailureTyped, ScratchAssumption DEF TypeInv, LoopInv, InHand, breaker
<1>3. TypeOK'
  BY <1>1 DEF TypeInv, TypeOK, InHand, ServerRecords, VolumeRecords
<1>4. LoopInv'
  BY <1>1, <1>2 DEF TypeInv, LoopInv, IsSnapshot
<1> QED
  BY <1>3, <1>4 DEF TypeInv

LEMMA CreateVolumeTyped == TypeInv /\ CreateVolume => TypeInv'
<1> SUFFICES ASSUME TypeInv, CreateVolume PROVE TypeInv'
  OBVIOUS
<1> USE Records, FaultsTyped
<1>1. to_create # << >> /\ server' = server /\ volume_id = None
  BY DEF CreateVolume, TypeInv, LoopInv, InHand
<1>2. volume' \in [VolumeIds -> VolumeRecords]
  <2>1. volume' = volume \/ \E v \in VolumeIds : volume' = [volume EXCEPT ![v].state = "available"]
    BY DEF CreateVolume
  <2> QED
    BY <2>1 DEF VolumeRecords
<1>3. faults' \in Nat
  BY DEF CreateVolume
<1>4. \/ Backpressure \/ CreationFailed
      \/ /\ pc' = "user_data" /\ to_create' = to_create
         /\ volume_id' \in VolumeIds \cup {None} /\ UNCHANGED breaker
  BY <1>1 DEF CreateVolume
<1> QED
  BY <1>1, <1>2, <1>3, <1>4, CreateStepTyped DEF CreateVolume, InHand

LEMMA BootsTyped ==
  ASSUME TypeInv, to_create # << >>, NEW i \in Instances, Boots(i)
  PROVE  /\ server' \in [Instances -> ServerRecords]
         /\ server[i].status = "absent"
<1>1. Head(to_create) \in Creates
  BY HeadTailProperties DEF TypeInv, LoopInv
<1>2. [status |-> "BUILD", volume |-> volume_id,
       volume_gb |-> IF volume_id = None THEN None ELSE Head(to_create).disk_gb] \in ServerRecords
  BY <1>1 DEF ServerRecords, Creates, TypeInv, TypeOK
<1>3. server' \in [Instances -> ServerRecords]
  BY <1>2, Records DEF Boots
<1>4. server[i].status = "absent"
  <2>1. {j \in Instances : server[j].status = "absent"} \subseteq Nat
    BY ScratchAssumption
  <2>2. i \in {j \in Instances : server[j].status = "absent"}
    BY <2>1, FirstUnusedIsUnused DEF Boots
  <2> QED
    BY <2>2
<1> QED
  BY <1>3, <1>4

LEMMA CreateServerTyped == TypeInv /\ CreateServer => TypeInv'
<1> SUFFICES ASSUME TypeInv, CreateServer PROVE TypeInv'
  OBVIOUS
<1> USE Records, FaultsTyped
<1>1. to_create # << >> /\ volume' = volume /\ pc = "server"
  BY DEF CreateServer, TypeInv, LoopInv, InHand
<1>2. server' \in [Instances -> ServerRecords]
  BY <1>1, BootsTyped DEF CreateServer
<1>3. faults' \in Nat
  BY DEF CreateServer
<1>4. \/ Backpressure \/ CreationFailed
      \/ /\ pc' \in {"rollback_quota", "rollback_failure"} /\ to_create' = to_create
         /\ volume_id' = volume_id /\ volume_id # None /\ UNCHANGED breaker
      \/ /\ pc' = "act" /\ to_create' = Tail(to_create) /\ volume_id' = None
         /\ consecutive_failures' = 0 /\ last_failure' = None
  BY DEF CreateServer
<1>5. volume_id \in VolumeIds \cup {None}
  BY DEF TypeInv, TypeOK
<1> QED
  BY <1>1, <1>2, <1>3, <1>4, <1>5, CreateStepTyped DEF CreateServer, InHand

LEMMA RestOfCreateTyped == TypeInv /\ (BuildUserData \/ Rollback) => TypeInv'
<1> SUFFICES ASSUME TypeInv, BuildUserData \/ Rollback PROVE TypeInv'
  OBVIOUS
<1> USE Records, FaultsTyped
<1>1. to_create # << >> /\ volume_id \in VolumeIds \cup {None}
  BY DEF BuildUserData, Rollback, TypeInv, TypeOK, LoopInv, InHand
<1>2. CASE BuildUserData
  <2>1. \/ CreationFailed
        \/ /\ pc' = "server" /\ to_create' = to_create
           /\ volume_id' = volume_id /\ UNCHANGED breaker
    BY <1>2 DEF BuildUserData
  <2>2. faults' \in Nat
    BY <1>2 DEF BuildUserData
  <2> QED
    BY <1>1, <1>2, <2>1, <2>2, CreateStepTyped DEF BuildUserData, world, InHand
<1>3. CASE Rollback
  <2>1. volume_id \in VolumeIds
    BY <1>3, <1>1 DEF Rollback, TypeInv, LoopInv
  <2>2. volume' \in [VolumeIds -> VolumeRecords] /\ faults' \in Nat
    BY <1>3, <2>1, DeletesVolumeTyped DEF Rollback
  <2> QED
    BY <1>1, <1>3, <2>2, CreateStepTyped DEF Rollback
<1> QED
  BY <1>2, <1>3

LEMMA NextTyped == TypeInv /\ [Next]_vars => TypeInv'
<1> SUFFICES ASSUME TypeInv, [Next]_vars PROVE TypeInv'
  OBVIOUS
<1>1. CASE Round
  BY <1>1, GatherTyped, ExecutionTyped, CreateVolumeTyped, RestOfCreateTyped, CreateServerTyped
     DEF Round
<1>2. CASE Crash
  BY <1>2, ExecutionTyped
<1>3. CASE Environment
  BY <1>3, EnvironmentTyped
<1>4. CASE Tick
  BY <1>4, TickTyped
<1>5. CASE UNCHANGED vars
  BY <1>5, WorldTyped, Records DEF vars, world
<1> QED
  BY <1>1, <1>2, <1>3, <1>4, <1>5 DEF Next

\* Every variable has its type in every state the loop, Nova and Cinder reach: a volume in
\* hand is one of Cinder's, what a rollback deletes was created, and the breaker's counter
\* never passes its threshold (controller.py, step).
THEOREM TypeCorrect == Spec => []TypeOK
<1>1. TypeInv => TypeOK
  BY DEF TypeInv
<1> QED
  BY <1>1, InitTyped, NextTyped, PTL DEF Spec

LEMMA TypeInvHolds == Spec => []TypeInv
BY InitTyped, NextTyped, PTL DEF Spec

-----------------------------------------------------------------------------
(***************************************************************************)
(* No call of the controller's takes the volume of a worker.  What is      *)
(* swept has existed for longer than the grace.  The volume of a server    *)
(* that is building has not: it was created in the round of that server's  *)
(* create, and Nova builds within a tick.  That of a running server is     *)
(* attached, and Cinder does not delete what is attached.                  *)
(***************************************************************************)

\* A volume is named by one server.
OneServerEach ==
  \A i, j \in Instances : server[i].volume # None /\ server[i].volume = server[j].volume => i = j

\* What is about to be handed over was created this round, and no server has it yet; nor
\* has one when Nova refuses the create.
Unhanded == {"user_data", "server", "rollback_quota"}
HandedIsFree ==
  pc \in Unhanded /\ volume_id # None =>
    \A i \in Instances : server[i].volume # volume_id
HandedIsYoung ==
  volume_id # None => volume[volume_id].state # "absent" /\ volume[volume_id].age <= round

NamedExist == \A i \in Instances : server[i].volume # None => volume[server[i].volume].state # "absent"
AbsentAreNew == \A v \in VolumeIds : volume[v].state = "absent" => volume[v].age = 0

RunningAreAttached ==
  \A i \in Instances : server[i].status = "ACTIVE" /\ server[i].volume # None =>
                         volume[server[i].volume].state = "attached"
BuildingAreYoung ==
  \A i \in Instances : server[i].status = "BUILD" /\ server[i].volume # None =>
                         volume[server[i].volume].age <= RoundTime

ListedAsYoung == \A v \in DOMAIN snap.volumes : snap.volumes[v].age <= volume[v].age
SweptAreOld == \A v \in to_sweep : OrphanGrace # None /\ volume[v].age > OrphanGrace

HandInv ==
  /\ OneServerEach /\ HandedIsFree /\ HandedIsYoung
  /\ NamedExist /\ AbsentAreNew
  /\ RunningAreAttached /\ BuildingAreYoung
  /\ ListedAsYoung /\ SweptAreOld
  /\ round <= RoundTime

LEMMA InitHand == Init => HandInv
<1> SUFFICES ASSUME Init PROVE HandInv
  OBVIOUS
<1>1. /\ \A i \in Instances : server[i].volume = None
      /\ \A v \in VolumeIds : volume[v].age = 0
      /\ to_sweep = {} /\ volume_id = None /\ round = 0
      /\ snap.volumes = << >>
  BY DEF Init, NoSnapshot
<1>2. DOMAIN << >> = {} /\ 0 <= RoundTime
  BY ScratchAssumption
<1> QED
  BY <1>1, <1>2 DEF HandInv, OneServerEach, HandedIsFree, HandedIsYoung, NamedExist, AbsentAreNew,
     RunningAreAttached, BuildingAreYoung, ListedAsYoung, SweptAreOld

\* What a step may do to the servers, the volumes and the loop without disturbing any of it.
ServersKeep ==
  \A i \in Instances :
    /\ server'[i].volume = server[i].volume
    /\ server'[i].status = "BUILD" => server[i].status = "BUILD"
    /\ server'[i].status = "ACTIVE" => server[i].status = "ACTIVE"
AgesKeep ==
  \A v \in VolumeIds : /\ volume'[v].age = volume[v].age
                       /\ volume'[v].state = "absent" => volume[v].state = "absent"
AttachedKeep ==
  \A v \in VolumeIds : volume[v].state = "attached" => volume'[v].state = "attached"
HandKeeps ==
  /\ volume_id' # None => volume_id' = volume_id /\ round' = round
  /\ pc' \in Unhanded /\ volume_id' # None => pc \in Unhanded
  /\ round' \in {0, round}
ListingKeeps ==
  \A v \in DOMAIN snap'.volumes : v \in DOMAIN snap.volumes /\ snap'.volumes[v] = snap.volumes[v]

LEMMA HandTypes ==
  ASSUME TypeInv
  PROVE  /\ \A i \in Instances : server[i].volume \in VolumeIds \cup {None}
         /\ \A v \in VolumeIds : volume[v].age \in Nat
         /\ volume_id \in VolumeIds \cup {None} /\ to_sweep \subseteq VolumeIds
         /\ DOMAIN snap.volumes \subseteq VolumeIds
         /\ \A v \in DOMAIN snap.volumes : snap.volumes[v].age \in Nat
         /\ round \in Nat /\ RoundTime \in Nat
<1>1. \A v \in VolumeIds : volume[v].age \in 0..AgeBound
  BY DEF TypeInv, TypeOK
<1>2. \A v \in DOMAIN snap.volumes : snap.volumes[v].age \in 0..AgeBound
  BY DEF TypeInv, LoopInv, IsSnapshot, ReadingRecords
<1>3. DOMAIN snap.volumes \subseteq VolumeIds
  BY DEF TypeInv, LoopInv, IsSnapshot
<1>4. 0..AgeBound \subseteq Nat /\ RoundTime \in Nat
  BY ScratchAssumption
<1>5. \A i \in Instances : server[i].volume \in VolumeIds \cup {None}
  BY Records DEF ServerRecords
<1>6. /\ volume_id \in VolumeIds \cup {None} /\ to_sweep \subseteq VolumeIds
      /\ round \in Nat
  BY DEF TypeInv, TypeOK
<1> QED
  BY <1>1, <1>2, <1>3, <1>4, <1>5, <1>6

\* The invariant of a step that keeps the ages, conjunct by conjunct.
LEMMA HandStays ==
  ASSUME TypeInv, HandInv, ServersKeep, AgesKeep, HandKeeps
  PROVE  /\ OneServerEach' /\ HandedIsFree' /\ HandedIsYoung'
         /\ NamedExist' /\ AbsentAreNew'
         /\ AttachedKeep => RunningAreAttached'
         /\ BuildingAreYoung'
         /\ ListingKeeps => ListedAsYoung'
         /\ to_sweep' \subseteq to_sweep => SweptAreOld'
         /\ round' <= RoundTime
<1> USE HandTypes
<1>1. OneServerEach'
  BY DEF HandInv, OneServerEach, ServersKeep
<1>2. HandedIsFree'
  BY DEF HandInv, HandedIsFree, ServersKeep, HandKeeps
<1>3. HandedIsYoung'
  BY DEF HandInv, HandedIsYoung, AgesKeep, HandKeeps
<1>4. NamedExist' /\ AbsentAreNew'
  BY DEF HandInv, NamedExist, AbsentAreNew, ServersKeep, AgesKeep
<1>5. AttachedKeep => RunningAreAttached'
  BY DEF HandInv, RunningAreAttached, ServersKeep, AttachedKeep
<1>6. BuildingAreYoung'
  BY DEF HandInv, BuildingAreYoung, ServersKeep, AgesKeep
<1>7. ListingKeeps => ListedAsYoung'
  BY DEF HandInv, ListedAsYoung, ListingKeeps, AgesKeep
<1>8. to_sweep' \subseteq to_sweep => SweptAreOld'
  BY DEF HandInv, SweptAreOld, AgesKeep
<1>9. round' <= RoundTime
  BY DEF HandInv, HandKeeps
<1> QED
  BY <1>1, <1>2, <1>3, <1>4, <1>5, <1>6, <1>7, <1>8, <1>9

\* Every conjunct but the one on running servers survives a step that keeps all of these.
LEMMA HandFrame ==
  ASSUME TypeInv, HandInv, ServersKeep, AgesKeep, HandKeeps, ListingKeeps,
         to_sweep' \subseteq to_sweep, AttachedKeep \/ RunningAreAttached'
  PROVE  HandInv'
BY HandStays DEF HandInv

LEMMA EnvironmentKeepsHand == TypeInv /\ HandInv /\ Environment => HandInv'
<1> SUFFICES ASSUME TypeInv, HandInv, Environment PROVE HandInv'
  OBVIOUS
<1> USE Records
<1>1. HandKeeps /\ ListingKeeps /\ to_sweep' \subseteq to_sweep
  BY DEF Environment, process, decision, HandKeeps, ListingKeeps
<1>2. CASE FlipEnabled \/ \E s \in Submissions : Submit(s)
  <2>1. server' = server /\ volume' = volume
    BY <1>2 DEF FlipEnabled, Submit
  <2>2. ServersKeep /\ AgesKeep /\ AttachedKeep
    BY <2>1 DEF ServersKeep, AgesKeep, AttachedKeep
  <2> QED
    BY <1>1, <2>2, HandFrame
<1>3. ASSUME NEW i \in Instances, Finish(i) \/ PowerOff(i) PROVE HandInv'
  <2>1. volume' = volume /\ (server' = server \/ server' = [server EXCEPT ![i].status = "SHUTOFF"])
    BY <1>3 DEF Finish, PowerOff
  <2>2. ServersKeep /\ AgesKeep /\ AttachedKeep
    BY <2>1 DEF ServersKeep, AgesKeep, AttachedKeep, ServerRecords
  <2> QED
    BY <1>1, <2>2, HandFrame
<1>4. ASSUME NEW i \in Instances, Attach(i) PROVE HandInv'
  <2>1. /\ server' = server \/ server' = [server EXCEPT ![i].status = "ERROR"]
        /\ \/ volume' = volume
           \/ \E v \in VolumeIds : volume' = [volume EXCEPT ![v].state = "attached", ![v].free = 0]
    BY <1>4 DEF Attach, Named
  <2>2. ServersKeep
    BY <2>1 DEF ServersKeep, ServerRecords
  <2>3. AgesKeep /\ AttachedKeep
    <3>1. CASE volume' = volume
      BY <3>1 DEF AgesKeep, AttachedKeep
    <3>2. ASSUME NEW v \in VolumeIds,
                 volume' = [volume EXCEPT ![v].state = "attached", ![v].free = 0]
          PROVE  AgesKeep /\ AttachedKeep
      <4>1. \A w \in VolumeIds : w # v => volume'[w] = volume[w]
        BY <3>2
      <4>2. volume'[v] = [volume[v] EXCEPT !.state = "attached", !.free = 0]
        BY <3>2
      <4>3. volume'[v].state = "attached" /\ volume'[v].age = volume[v].age
        BY <4>2 DEF VolumeRecords
      <4> QED
        BY <4>1, <4>3 DEF AgesKeep, AttachedKeep
    <3> QED
      BY <2>1, <3>1, <3>2
  <2> QED
    BY <1>1, <2>2, <2>3, HandFrame
<1>5. ASSUME NEW i \in Instances, Boot(i) PROVE HandInv'
  <2>1. /\ volume' = volume /\ server' = [server EXCEPT ![i].status = "ACTIVE"]
        /\ server[i].status = "BUILD"
        /\ server[i].volume # None => volume[server[i].volume].state = "attached"
    BY <1>5, HandTypes DEF Boot, Named
  <2>2. AgesKeep /\ AttachedKeep
    BY <2>1 DEF AgesKeep, AttachedKeep
  <2>3. \A j \in Instances : /\ server'[j].volume = server[j].volume
                             /\ server'[j].status = "BUILD" => server[j].status = "BUILD"
                             /\ j # i => server'[j].status = server[j].status
    BY <2>1 DEF ServerRecords
  <2>4. RunningAreAttached'
    BY <2>1, <2>3 DEF HandInv, RunningAreAttached
  <2>5. /\ OneServerEach' /\ HandedIsFree' /\ NamedExist' /\ BuildingAreYoung'
    BY <1>1, <2>1, <2>3 DEF HandInv, OneServerEach, HandedIsFree, NamedExist, BuildingAreYoung,
       HandKeeps
  <2>6. HandedIsYoung' /\ AbsentAreNew' /\ ListedAsYoung' /\ SweptAreOld' /\ round' = round
    BY <2>1 DEF HandInv, HandedIsYoung, AbsentAreNew, ListedAsYoung, SweptAreOld, Environment,
       process, decision
  <2> QED
    BY <2>4, <2>5, <2>6 DEF HandInv
<1>6. ASSUME NEW i \in Instances, NovaDeletes(i) PROVE HandInv'
  <2>1. PICK state \in {"doomed", "available"} :
          volume' = [v \in VolumeIds |->
                       IF v \in Named(i) /\ volume[v].state = "attached"
                       THEN [volume[v] EXCEPT !.state = state, !.free = 0] ELSE volume[v]]
    BY <1>6 DEF NovaDeletes
  <2>2. server' = [server EXCEPT ![i].status = "gone"]
    BY <1>6 DEF NovaDeletes
  <2>3. ServersKeep
    BY <2>2 DEF ServersKeep, ServerRecords
  <2>4. AgesKeep
    <3> SUFFICES ASSUME NEW v \in VolumeIds
                 PROVE  /\ volume'[v].age = volume[v].age
                        /\ volume'[v].state = "absent" => volume[v].state = "absent"
      BY DEF AgesKeep
    <3> QED
      BY <2>1 DEF VolumeRecords
  <2>5. RunningAreAttached'
    <3> SUFFICES ASSUME NEW j \in Instances, server'[j].status = "ACTIVE", server'[j].volume # None
                 PROVE  volume'[server'[j].volume].state = "attached"
      BY DEF RunningAreAttached
    <3>1. j # i /\ server'[j] = server[j]
      BY <2>2 DEF ServerRecords
    <3>2. server[j].volume \in VolumeIds /\ server[j].volume \notin Named(i)
      BY <3>1, HandTypes DEF HandInv, OneServerEach, Named
    <3>3. volume[server[j].volume].state = "attached"
      BY <3>1 DEF HandInv, RunningAreAttached
    <3> QED
      BY <2>1, <3>1, <3>2, <3>3
  <2> QED
    BY <1>1, <2>3, <2>4, <2>5, HandFrame
<1>7. ASSUME NEW v \in VolumeIds, NovaReclaims(v) PROVE HandInv'
  <2>1. server' = server /\ volume' = [volume EXCEPT ![v].state = "gone"] /\ volume[v].state = "doomed"
    BY <1>7 DEF NovaReclaims
  <2>2. ServersKeep /\ AgesKeep /\ AttachedKeep
    BY <2>1 DEF ServersKeep, AgesKeep, AttachedKeep, VolumeRecords
  <2> QED
    BY <1>1, <2>2, HandFrame
<1> QED
  BY <1>2, <1>3, <1>4, <1>5, <1>6, <1>7 DEF Environment, External, Nova

\* Nothing is in its build while time passes.
LEMMA TickKeepsHand == TypeInv /\ HandInv /\ Tick => HandInv'
<1> SUFFICES ASSUME TypeInv, HandInv, Tick PROVE HandInv'
  OBVIOUS
<1> USE HandTypes
<1>1. /\ server' = server /\ snap' = snap /\ to_sweep' = to_sweep /\ pc' = pc
      /\ volume_id' = volume_id
      /\ \A i \in Instances : server[i].status # "BUILD"
      /\ round' = IF pc = "down" THEN round ELSE round + 1
      /\ pc = "down" \/ round < RoundTime
  BY DEF Tick, Prompt, decision
<1>2. ASSUME NEW v \in VolumeIds
      PROVE  /\ volume'[v].state = volume[v].state
             /\ volume[v].age <= volume'[v].age /\ volume'[v].age <= volume[v].age + 1
             /\ volume'[v].age \in Nat
             /\ volume[v].state = "absent" => volume'[v].age = volume[v].age
  <2>1. /\ volume'[v].state = volume[v].state
        /\ volume'[v].age = volume[v].age \/ volume'[v].age = Aged(volume[v].age, AgeBound)
        /\ volume[v].state = "absent" => volume'[v].age = volume[v].age
    BY Records DEF Tick, Existing, VolumeRecords
  <2>2. Aged(volume[v].age, AgeBound) \in {volume[v].age, volume[v].age + 1}
    BY DEF Aged
  <2> QED
    BY <2>1, <2>2
<1>3. OneServerEach' /\ HandedIsFree' /\ NamedExist' /\ RunningAreAttached' /\ BuildingAreYoung'
  BY <1>1, <1>2 DEF HandInv, OneServerEach, HandedIsFree, NamedExist, RunningAreAttached,
     BuildingAreYoung
<1>4. HandedIsYoung'
  <2> SUFFICES ASSUME volume_id # None
               PROVE  volume'[volume_id].state # "absent" /\ volume'[volume_id].age <= round'
    BY <1>1 DEF HandedIsYoung
  <2>1. pc # "down"
    BY DEF TypeInv, LoopInv, InHand
  <2>2. volume_id \in VolumeIds /\ volume[volume_id].state # "absent" /\ volume[volume_id].age <= round
    BY DEF HandInv, HandedIsYoung
  <2> QED
    BY <1>1, <1>2, <2>1, <2>2
<1>5. AbsentAreNew'
  BY <1>2 DEF HandInv, AbsentAreNew
<1>6. ListedAsYoung'
  <2> SUFFICES ASSUME NEW v \in DOMAIN snap.volumes
               PROVE  snap.volumes[v].age <= volume'[v].age
    BY <1>1 DEF ListedAsYoung
  <2>1. snap.volumes[v].age <= volume[v].age
    BY DEF HandInv, ListedAsYoung
  <2> QED
    BY <1>2, <2>1
<1>7. SweptAreOld'
  <2> SUFFICES ASSUME NEW v \in to_sweep
               PROVE  OrphanGrace # None /\ volume'[v].age > OrphanGrace
    BY <1>1 DEF SweptAreOld
  <2>1. OrphanGrace # None /\ volume[v].age > OrphanGrace /\ OrphanGrace \in Nat
    BY ScratchAssumption DEF HandInv, SweptAreOld
  <2> QED
    BY <1>2, <2>1
<1>8. round' <= RoundTime
  BY <1>1 DEF HandInv
<1> QED
  BY <1>3, <1>4, <1>5, <1>6, <1>7, <1>8 DEF HandInv

\* The listing is of the volumes as they are, and the decision is taken in the state that
\* the listing is of, or a later one.
LEMMA GatherKeepsHand ==
  TypeInv /\ HandInv /\ (BeginRound \/ ReadInstances \/ ReadVolumes \/ Decide) => HandInv'
<1> SUFFICES ASSUME TypeInv, HandInv, BeginRound \/ ReadInstances \/ ReadVolumes \/ Decide
             PROVE  HandInv'
  OBVIOUS
<1> USE HandTypes
<1>1. server' = server /\ volume' = volume
  BY DEF BeginRound, ReadInstances, ReadVolumes, Decide, world
<1>2. ServersKeep /\ AgesKeep /\ AttachedKeep
  BY <1>1 DEF ServersKeep, AgesKeep, AttachedKeep
<1>3. IsSnapshot(snap) /\ volume_id = None /\ volume_id' = None
  BY DEF BeginRound, ReadInstances, ReadVolumes, Decide, TypeInv, LoopInv, InHand
<1>4. HandKeeps
  BY <1>3 DEF HandKeeps, BeginRound, ReadInstances, ReadVolumes, Decide
<1>5. CASE BeginRound \/ ReadInstances
  <2>1. snap'.volumes = snap.volumes /\ to_sweep' = to_sweep
    BY <1>3, <1>5 DEF BeginRound, ReadInstances, decision, IsSnapshot
  <2>2. ListingKeeps
    BY <2>1 DEF ListingKeeps
  <2> QED
    BY <1>2, <1>4, <2>1, <2>2, HandFrame
<1>6. CASE ReadVolumes
  <2>1. to_sweep' = to_sweep /\ (snap'.volumes = snap.volumes \/ snap'.volumes = Reading)
    BY <1>3, <1>6 DEF ReadVolumes, decision, IsSnapshot
  <2>2. CASE snap'.volumes = snap.volumes
    BY <1>2, <1>4, <2>1, <2>2, HandFrame DEF ListingKeeps
  <2>3. CASE snap'.volumes = Reading
    <3>1. \A v \in DOMAIN Reading : v \in VolumeIds /\ Reading[v].age = volume[v].age
      BY DEF Reading, Existing
    <3>2. ListedAsYoung'
      BY <1>1, <2>3, <3>1 DEF ListedAsYoung
    <3> QED
      BY <1>2, <1>4, <2>1, <3>2, HandStays DEF HandInv
  <2> QED
    BY <2>1, <2>2, <2>3
<1>7. CASE Decide
  <2>1. snap' = NoSnapshot /\ to_sweep' = DeleteVolumes(FleetState, Limits)
    BY <1>7 DEF Decide
  <2>2. ListedAsYoung'
    BY <2>1 DEF ListedAsYoung, NoSnapshot
  <2>3. SweptAreOld'
    <3> SUFFICES ASSUME NEW v \in to_sweep'
                 PROVE  OrphanGrace # None /\ volume[v].age > OrphanGrace
      BY <1>1 DEF SweptAreOld
    <3>1. /\ FleetState.volumes = snap.volumes
          /\ Limits.volume_orphan_grace = OrphanGrace
      BY DEF FleetState, Limits
    <3>2. v \in DOMAIN snap.volumes /\ OrphanGrace # None /\ snap.volumes[v].age > OrphanGrace
      BY <2>1, <3>1 DEF DeleteVolumes
    <3>3. snap.volumes[v].age <= volume[v].age /\ OrphanGrace \in Nat /\ v \in VolumeIds
      BY <3>2, ScratchAssumption DEF HandInv, ListedAsYoung
    <3> QED
      BY <3>2, <3>3
  <2> QED
    BY <1>2, <1>4, <2>2, <2>3, HandStays DEF HandInv
<1> QED
  BY <1>5, <1>6, <1>7

LEMMA ExecutionKeepsHand ==
  ASSUME TypeInv, HandInv,
         \/ \E i \in Instances : DeleteInstance(i)
         \/ \E v \in VolumeIds : SweepVolume(v)
         \/ \E s \in Submissions, i \in Instances : AssignSubmission(s, i)
         \/ BuildUserData \/ Rollback \/ EndRound \/ Crash \/ Restart
  PROVE  HandInv'
<1> USE HandTypes
<1>1. ServersKeep
  <2>1. server' = server
    BY DEF DeleteInstance, SweepVolume, AssignSubmission, BuildUserData, Rollback, EndRound,
           Crash, Restart, world
  <2> QED
    BY <2>1 DEF ServersKeep
<1>2. AgesKeep /\ AttachedKeep
  <2>1. \/ volume' = volume
        \/ \E v \in VolumeIds : /\ volume[v].state \in {"available", "doomed"}
                                /\ volume' = [volume EXCEPT ![v].state = "gone"]
    <3>1. CASE volume' = volume
      BY <3>1
    <3>2. ASSUME NEW v \in VolumeIds, DeletesVolume(v)
          PROVE  \/ volume' = volume
                 \/ /\ volume[v].state \in {"available", "doomed"}
                    /\ volume' = [volume EXCEPT ![v].state = "gone"]
      BY <3>2 DEF DeletesVolume
    <3>3. Rollback => volume_id \in VolumeIds
      BY DEF Rollback, TypeInv, LoopInv
    <3> QED
      BY <3>1, <3>2, <3>3 DEF DeleteInstance, SweepVolume, AssignSubmission, BuildUserData,
         Rollback, EndRound, Crash, Restart, world
  <2> QED
    BY <2>1, Records DEF AgesKeep, AttachedKeep, VolumeRecords
<1>3. HandKeeps
  BY DEF HandKeeps, Unhanded, DeleteInstance, SweepVolume, AssignSubmission, BuildUserData,
         Rollback, EndRound, Crash, Restart, Backpressure, CreationFailed
<1>4. ListingKeeps /\ to_sweep' \subseteq to_sweep
  <2>1. snap' = snap \/ snap' = NoSnapshot
    BY DEF DeleteInstance, SweepVolume, AssignSubmission, BuildUserData, Rollback, EndRound,
           Crash, Restart
  <2>2. to_sweep' \subseteq to_sweep
    BY DEF DeleteInstance, SweepVolume, AssignSubmission, BuildUserData, Rollback, EndRound,
           Crash, Restart, decision
  <2>3. DOMAIN NoSnapshot.volumes = {}
    BY DEF NoSnapshot
  <2> QED
    BY <2>1, <2>2, <2>3 DEF ListingKeeps
<1> QED
  BY <1>1, <1>2, <1>3, <1>4, HandFrame

LEMMA CreateVolumeKeepsHand == TypeInv /\ HandInv /\ CreateVolume => HandInv'
<1> SUFFICES ASSUME TypeInv, HandInv, CreateVolume PROVE HandInv'
  OBVIOUS
<1> USE HandTypes
<1>1. /\ server' = server /\ snap' = snap /\ to_sweep' = to_sweep /\ round' = round
      /\ volume_id = None
  BY DEF CreateVolume, TypeInv, LoopInv, InHand
<1>2. ServersKeep /\ ListingKeeps
  BY <1>1 DEF ServersKeep, ListingKeeps
<1>3. CASE volume' = volume /\ volume_id' = None
  <2>1. AgesKeep /\ AttachedKeep /\ HandKeeps
    BY <1>1, <1>3 DEF AgesKeep, AttachedKeep, HandKeeps
  <2> QED
    BY <1>1, <1>2, <2>1, HandFrame
<1>4. ASSUME NEW v \in VolumeIds,
             FirstUnused({w \in VolumeIds : volume[w].state = "absent"}, v),
             volume' = [volume EXCEPT ![v].state = "available"],
             volume_id' \in {v, None}
      PROVE  HandInv'
  <2>1. volume[v].state = "absent"
    <3>1. {w \in VolumeIds : volume[w].state = "absent"} \subseteq Nat
      BY ScratchAssumption
    <3>2. v \in {w \in VolumeIds : volume[w].state = "absent"}
      BY <3>1, <1>4, FirstUnusedIsUnused
    <3> QED
      BY <3>2
  <2>2. /\ volume'[v].state = "available" /\ volume'[v].age = volume[v].age
        /\ \A w \in VolumeIds : w # v => volume'[w] = volume[w]
    BY <1>4, Records DEF VolumeRecords
  <2>3. \A i \in Instances : server[i].volume # v
    BY <2>1, VolumeIdsAreNotNone DEF HandInv, NamedExist
  <2>4. volume[v].age = 0
    BY <2>1 DEF HandInv, AbsentAreNew
  <2>5. OneServerEach' /\ NamedExist' /\ RunningAreAttached' /\ BuildingAreYoung'
    BY <1>1, <2>2, <2>3 DEF HandInv, OneServerEach, NamedExist, RunningAreAttached,
       BuildingAreYoung
  <2>6. HandedIsFree' /\ HandedIsYoung'
    BY <1>1, <1>4, <2>2, <2>3, <2>4 DEF HandedIsFree, HandedIsYoung
  <2>7. AbsentAreNew' /\ ListedAsYoung' /\ SweptAreOld' /\ round' <= RoundTime
    BY <1>1, <2>1, <2>2 DEF HandInv, AbsentAreNew, ListedAsYoung, SweptAreOld
  <2> QED
    BY <2>5, <2>6, <2>7 DEF HandInv
<1> QED
  BY <1>1, <1>3, <1>4 DEF CreateVolume, Backpressure, CreationFailed

\* The server takes the volume created for it, and the next create starts without one.
LEMMA CreateServerKeepsHand == TypeInv /\ HandInv /\ CreateServer => HandInv'
<1> SUFFICES ASSUME TypeInv, HandInv, CreateServer PROVE HandInv'
  OBVIOUS
<1> USE HandTypes
<1>1. /\ volume' = volume /\ snap' = snap /\ to_sweep' = to_sweep /\ round' = round
      /\ pc = "server"
      /\ volume_id' \in {volume_id, None}
      /\ to_create # << >>
  BY DEF CreateServer, Backpressure, CreationFailed, TypeInv, LoopInv, InHand
<1>2. AgesKeep /\ AttachedKeep /\ HandKeeps /\ ListingKeeps
  BY <1>1 DEF AgesKeep, AttachedKeep, HandKeeps, ListingKeeps, Unhanded
<1>3. CASE server' = server
  BY <1>1, <1>2, <1>3, HandFrame DEF ServersKeep
<1>4. ASSUME NEW i \in Instances, Boots(i), pc' \notin Unhanded PROVE HandInv'
  <2>1. /\ server'[i].status = "BUILD" /\ server'[i].volume = volume_id
        /\ \A j \in Instances : j # i => server'[j] = server[j]
    BY <1>4, Records DEF Boots
  <2>2. volume_id # None => /\ \A j \in Instances : server[j].volume # volume_id
                            /\ volume[volume_id].state # "absent"
                            /\ volume[volume_id].age <= round
    BY <1>1 DEF HandInv, HandedIsFree, HandedIsYoung, Unhanded
  <2>3. OneServerEach' /\ NamedExist' /\ RunningAreAttached'
    BY <1>1, <2>1, <2>2 DEF HandInv, OneServerEach, NamedExist, RunningAreAttached
  <2>4. BuildingAreYoung'
    <3>1. volume_id # None => volume[volume_id].age <= RoundTime
      BY <2>2 DEF HandInv
    <3> QED
      BY <1>1, <2>1, <3>1 DEF HandInv, BuildingAreYoung
  <2>5. HandedIsFree' /\ HandedIsYoung'
    BY <1>1, <1>4 DEF HandInv, HandedIsFree, HandedIsYoung
  <2>6. AbsentAreNew' /\ ListedAsYoung' /\ SweptAreOld' /\ round' <= RoundTime
    BY <1>1 DEF HandInv, AbsentAreNew, ListedAsYoung, SweptAreOld
  <2> QED
    BY <2>3, <2>4, <2>5, <2>6 DEF HandInv
<1> QED
  BY <1>1, <1>3, <1>4 DEF CreateServer, Backpressure, CreationFailed, Unhanded

LEMMA NextKeepsHand == TypeInv /\ HandInv /\ [Next]_vars => HandInv'
<1> SUFFICES ASSUME TypeInv, HandInv, [Next]_vars PROVE HandInv'
  OBVIOUS
<1>1. CASE Round
  BY <1>1, GatherKeepsHand, ExecutionKeepsHand, CreateVolumeKeepsHand, CreateServerKeepsHand
     DEF Round
<1>2. CASE Crash
  BY <1>2, ExecutionKeepsHand
<1>3. CASE Environment
  BY <1>3, EnvironmentKeepsHand
<1>4. CASE Tick
  BY <1>4, TickKeepsHand
<1>5. CASE UNCHANGED vars
  <2>1. ServersKeep /\ AgesKeep /\ AttachedKeep /\ HandKeeps /\ ListingKeeps /\ to_sweep' = to_sweep
    BY <1>5 DEF vars, world, process, decision, ServersKeep, AgesKeep, AttachedKeep, HandKeeps,
       ListingKeeps
  <2> QED
    BY <2>1, HandFrame
<1> QED
  BY <1>1, <1>2, <1>3, <1>4, <1>5 DEF Next

LEMMA HandInvHolds == Spec => []HandInv
<1>1. Init => TypeInv /\ HandInv
  BY InitTyped, InitHand
<1>2. TypeInv /\ HandInv /\ [Next]_vars => (TypeInv /\ HandInv)'
  BY NextTyped, NextKeepsHand
<1> QED
  BY <1>1, <1>2, PTL DEF Spec

\* The grace is no shorter than the longest a round may take.  plan.py, on
\* volume_orphan_grace: "The grace is not politeness, it is correctness."
GraceOutlastsARound == OrphanGrace # None => RoundTime <= OrphanGrace

LEMMA SweepSpares ==
  ASSUME GraceOutlastsARound, TypeInv, HandInv, NEW v \in VolumeIds,
         volume[v].state = "available", v \in to_sweep
  PROVE  \A i \in Occupying : server[i].volume # v
<1> SUFFICES ASSUME NEW i \in Occupying, server[i].volume = v PROVE FALSE
  OBVIOUS
<1>1. i \in Instances /\ server[i].volume # None
  BY VolumeIdsAreNotNone DEF Occupying
<1>2. OrphanGrace # None /\ volume[v].age > OrphanGrace
  BY DEF HandInv, SweptAreOld
<1>3. OrphanGrace \in Nat /\ RoundTime <= OrphanGrace /\ RoundTime \in Nat /\ volume[v].age \in Nat
  BY <1>2, ScratchAssumption, HandTypes DEF GraceOutlastsARound
<1>4. CASE server[i].status = "ACTIVE"
  BY <1>1, <1>4 DEF HandInv, RunningAreAttached
<1>5. CASE server[i].status = "BUILD"
  <2>1. volume[v].age <= RoundTime
    BY <1>1, <1>5 DEF HandInv, BuildingAreYoung
  <2> QED
    BY <2>1, <1>2, <1>3
<1> QED
  BY <1>4, <1>5 DEF Occupying

\* The sweep takes no volume of a server that is building or running, nor one that is about
\* to be handed over, whatever crashes, is lost or fails between the listing, the decision and
\* the sweep (plan.py, volume_orphan_grace); nor does the rollback of a create that Nova
\* refused (controller.py, QuotaExceeded).  The rollback of one that failed is excepted: its
\* answer may have been lost, and then it does take the volume of a server.
THEOREM WorkersKeepTheirVolumes ==
  ASSUME GraceOutlastsARound
  PROVE  Spec => SparesWorkers
<1> DEFINE Spared(v) ==
      volume[v].state \in {"available", "attached"} /\ volume'[v].state = "gone" =>
        \/ v = volume_id /\ pc = "rollback_failure"
        \/ /\ v = volume_id => pc = "rollback_quota"
           /\ \A i \in Occupying : server[i].volume # v
<1>1. TypeInv /\ HandInv /\ [Next]_vars => [\A v \in VolumeIds : Spared(v)]_vars
  <2> SUFFICES ASSUME TypeInv, HandInv, [Next]_vars, NEW v \in VolumeIds,
                      volume[v].state \in {"available", "attached"}, volume'[v].state = "gone"
               PROVE  \/ v = volume_id /\ pc = "rollback_failure"
                      \/ /\ v = volume_id => pc = "rollback_quota"
                         /\ \A i \in Occupying : server[i].volume # v
    OBVIOUS
  <2> USE Records
  <2>1. volume' # volume
    OBVIOUS
  <2>2. CASE Round
    <3>1. PICK w \in VolumeIds : SweepVolume(w) \/ (w = volume_id /\ Rollback)
      <4>1. ~CreateVolume
        <5> SUFFICES ASSUME CreateVolume PROVE FALSE
          OBVIOUS
        <5>1. \/ volume' = volume
              \/ \E w \in VolumeIds : volume' = [volume EXCEPT ![w].state = "available"]
          BY DEF CreateVolume
        <5> QED
          BY <5>1 DEF VolumeRecords
      <4>2. Rollback => volume_id \in VolumeIds
        BY DEF Rollback, TypeInv, TypeOK, LoopInv
      <4> QED
        BY <2>1, <2>2, <4>1, <4>2 DEF Round, BeginRound, ReadInstances, ReadVolumes, Decide,
           DeleteInstance, AssignSubmission, BuildUserData, CreateServer, EndRound, Restart, world
    <3>2. v = w /\ volume[v].state = "available"
      <4>1. DeletesVolume(w)
        BY <3>1 DEF SweepVolume, Rollback
      <4>2. volume[w].state \in {"available", "doomed"} /\ volume' = [volume EXCEPT ![w].state = "gone"]
        BY <4>1, <2>1 DEF DeletesVolume
      <4> QED
        BY <4>2 DEF VolumeRecords
    <3>3. CASE w = volume_id /\ Rollback
      <4>1. pc \in {"rollback_quota", "rollback_failure"} /\ v = volume_id /\ volume_id # None
        BY <3>2, <3>3, VolumeIdsAreNotNone DEF Rollback
      <4>2. pc = "rollback_quota" => \A i \in Occupying : server[i].volume # v
        BY <4>1 DEF HandInv, HandedIsFree, Unhanded, Occupying
      <4> QED
        BY <4>1, <4>2
    <3>4. CASE SweepVolume(w)
      <4>1. v # volume_id
        BY <3>2, <3>4, VolumeIdsAreNotNone DEF SweepVolume, TypeInv, LoopInv, InHand
      <4>2. v \in to_sweep
        BY <3>2, <3>4 DEF SweepVolume
      <4> QED
        BY <3>2, <4>1, <4>2, SweepSpares
    <3> QED
      BY <3>1, <3>3, <3>4
  <2>3. CASE Crash
    BY <2>1, <2>3 DEF Crash, world
  <2>4. CASE Environment
    <3>1. PICK w \in VolumeIds : NovaReclaims(w)
      <4>1. ASSUME NEW i \in Instances, Attach(i) PROVE FALSE
        <5>1. PICK w \in VolumeIds : volume' = [volume EXCEPT ![w].state = "attached", ![w].free = 0]
          BY <2>1, <4>1 DEF Attach, Named
        <5>2. w # v => volume'[v] = volume[v]
          BY <5>1
        <5>3. w = v => volume'[v].state = "attached"
          BY <5>1 DEF VolumeRecords
        <5> QED
          BY <5>2, <5>3
      <4>2. ASSUME NEW i \in Instances, NovaDeletes(i) PROVE FALSE
        <5>1. PICK state \in {"doomed", "available"} :
                volume' = [w \in VolumeIds |->
                             IF w \in Named(i) /\ volume[w].state = "attached"
                             THEN [volume[w] EXCEPT !.state = state, !.free = 0] ELSE volume[w]]
          BY <4>2 DEF NovaDeletes
        <5>2. volume'[v].state \in {state, volume[v].state}
          BY <5>1 DEF VolumeRecords
        <5> QED
          BY <5>2
      <4> QED
        BY <2>1, <2>4, <4>1, <4>2 DEF Environment, FlipEnabled, Submit, External, Nova, Boot,
           Finish, PowerOff
    <3>2. volume[w].state = "doomed" /\ volume' = [volume EXCEPT ![w].state = "gone"]
      BY <3>1 DEF NovaReclaims
    <3> QED
      BY <3>2 DEF VolumeRecords
  <2>5. CASE Tick
    <3>1. volume'[v].state = volume[v].state
      BY <2>5 DEF Tick, VolumeRecords
    <3> QED
      BY <3>1
  <2>6. CASE UNCHANGED vars
    BY <2>1, <2>6 DEF vars, world
  <2> QED
    BY <2>2, <2>3, <2>4, <2>5, <2>6 DEF Next
<1>2. Spec => [][\A v \in VolumeIds : Spared(v)]_vars
  BY <1>1, TypeInvHolds, HandInvHolds, PTL DEF Spec
<1> QED
  BY <1>2 DEF SparesWorkers

-----------------------------------------------------------------------------
(***************************************************************************)
(* The volume quota.  The count is taken off the listing's tags, before    *)
(* the round's creates and with the setting perhaps off: it covers every   *)
(* server that has a volume, and each create that is left still fits.      *)
(***************************************************************************)

Holding == {i \in Occupying : server[i].volume # None}

\* What has a volume carries the tag that the count goes by.
TagsAreTrue == \A i \in Instances : server[i].volume # None => server[i].volume_gb \in Nat \ {0}

\* What occupies a slot was listed as it is.
ListingCovers ==
  pc \in {"volumes", "decide"} =>
    \A i \in Occupying : /\ i \in DOMAIN snap.instances
                         /\ snap.instances[i].status \in {"BUILD", "ACTIVE"}
                         /\ snap.instances[i].volume_gb = server[i].volume_gb

HandedWasAsked == volume_id # None => DiskGb(Head(to_create)) > 0

\* Each create that wants a volume leaves room for itself and those before it.
RoomIsLeft ==
  pc \in {"act", "user_data", "server"} =>
    \A n \in 1..Len(to_create) : DiskGb(to_create[n]) > 0 =>
      Cardinality(Holding) + Cardinality(Takers(to_create, n)) <= MaxVolumes

QuotaInv ==
  /\ TagsAreTrue /\ ListingCovers /\ HandedWasAsked /\ RoomIsLeft
  /\ Cardinality(Holding) <= MaxVolumes

LEMMA DisksAreNaturals == \A want \in Creates : DiskGb(want) \in Nat
BY DEF DiskGb, Creates

LEMMA HoldingIsFinite ==
  ASSUME NEW S \in SUBSET Instances
  PROVE  IsFiniteSet(S) /\ Cardinality(S) \in Nat
BY ScratchAssumption, FS_Subset, FS_CardinalityType

LEMMA TakersAreFinite ==
  ASSUME NEW wants, NEW n \in Nat
  PROVE  /\ IsFiniteSet(Takers(wants, n)) /\ Cardinality(Takers(wants, n)) \in Nat
         /\ \A k \in Takers(wants, n) : k \in 1..n
<1>1. Takers(wants, n) \subseteq 1..n
  BY DEF Takers
<1>2. IsFiniteSet(1..n)
  BY FS_Interval
<1> QED
  BY <1>1, <1>2, FS_Subset, FS_CardinalityType

\* Once the first create is done, those that are left want no more volumes than they did
\* before, and one fewer if the first wanted one.
LEMMA TakersOfTheRest ==
  ASSUME NEW wants \in Seq(Creates), wants # << >>, NEW n \in 1..Len(Tail(wants))
  PROVE  /\ n + 1 \in 1..Len(wants) /\ wants[n + 1] = Tail(wants)[n]
         /\ Cardinality(Takers(Tail(wants), n)) <= Cardinality(Takers(wants, n + 1))
         /\ DiskGb(Head(wants)) > 0 =>
              Cardinality(Takers(Tail(wants), n)) + 1 <= Cardinality(Takers(wants, n + 1))
<1> DEFINE rest == Takers(Tail(wants), n)
           all  == Takers(wants, n + 1)
           next == [k \in rest |-> k + 1]
<1>1. /\ Len(wants) \in Nat /\ Len(Tail(wants)) = Len(wants) - 1
      /\ \A k \in 1..Len(Tail(wants)) : Tail(wants)[k] = wants[k + 1]
      /\ Head(wants) = wants[1]
  BY HeadTailProperties, LenProperties
<1>2. n \in Nat /\ n + 1 \in 1..Len(wants) /\ n + 1 \in Nat
  BY <1>1
<1>3. IsFiniteSet(rest) /\ IsFiniteSet(all) /\ Cardinality(rest) \in Nat /\ Cardinality(all) \in Nat
  BY <1>2, TakersAreFinite
<1>4. \A k \in rest : k \in 1..n /\ k + 1 \in all \ {1}
  BY <1>1, <1>2 DEF Takers
<1>5. next \in [rest -> all \ {1}] /\ \A k, m \in rest : next[k] = next[m] => k = m
  <2>1. \A k \in rest : k \in Nat
    BY <1>4
  <2> HIDE DEF rest, all
  <2> QED
    BY <1>4, <2>1
<1>6. IsFiniteSet(all \ {1})
  BY <1>3, FS_RemoveElement
<1>7. Cardinality(rest) <= Cardinality(all \ {1})
  <2> HIDE DEF rest, all, next
  <2>1. next \in Injection(rest, all \ {1})
    BY <1>5 DEF Injection, IsInjective
  <2> QED
    BY <1>6, <2>1, FS_Injection
<1>8. Cardinality(all \ {1}) = IF 1 \in all THEN Cardinality(all) - 1 ELSE Cardinality(all)
  BY <1>3, FS_RemoveElement
<1>9. DiskGb(Head(wants)) > 0 => 1 \in all
  BY <1>1, <1>2 DEF Takers
<1> HIDE DEF rest, all
<1>10. /\ Cardinality(rest) <= Cardinality(all)
       /\ DiskGb(Head(wants)) > 0 => Cardinality(rest) + 1 <= Cardinality(all)
  BY <1>3, <1>7, <1>8, <1>9
<1> QED
  BY <1>1, <1>2, <1>10 DEF rest, all

\* Limits.max_volumes is a number when it is set.
LEMMA QuotaTypes ==
  ASSUME TypeInv, MaxVolumes # None
  PROVE  /\ MaxVolumes \in Nat
         /\ IsFiniteSet(Holding) /\ Cardinality(Holding) \in Nat
         /\ Len(to_create) \in Nat
<1>1. Holding \in SUBSET Instances
  BY DEF Holding, Occupying
<1> QED
  BY <1>1, HoldingIsFinite, LenProperties, ScratchAssumption DEF TypeInv, LoopInv

LEMMA InitQuota == Init /\ MaxVolumes # None => QuotaInv
<1> SUFFICES ASSUME Init, MaxVolumes # None PROVE QuotaInv
  OBVIOUS
<1>1. Holding = {} /\ \A i \in Instances : server[i].volume = None
  BY DEF Init, Holding, Occupying
<1>2. Cardinality({}) = 0 /\ MaxVolumes \in Nat
  BY FS_EmptySet, ScratchAssumption
<1> QED
  BY <1>1, <1>2 DEF Init, QuotaInv, TagsAreTrue, ListingCovers, HandedWasAsked, RoomIsLeft

\* A step that boots nothing keeps the servers' volumes and tags.
TagsKeep ==
  \A i \in Instances : /\ server'[i].volume = server[i].volume
                       /\ server'[i].volume_gb = server[i].volume_gb
                       /\ i \in Occupying' => i \in Occupying

LEMMA HoldingShrinks ==
  ASSUME TypeInv, MaxVolumes # None, TagsKeep
  PROVE  /\ Cardinality(Holding') \in Nat /\ Cardinality(Holding') <= Cardinality(Holding)
         /\ Occupying' \subseteq Occupying
<1>1. Holding' \subseteq Holding /\ Occupying' \subseteq Occupying
  BY DEF Holding, TagsKeep, Occupying
<1> QED
  BY <1>1, QuotaTypes, FS_Subset, FS_CardinalityType

LEMMA QuotaFrame ==
  ASSUME TypeInv, QuotaInv, MaxVolumes # None, TagsKeep, HandedWasAsked',
         pc' \in {"volumes", "decide"} =>
           pc \in {"volumes", "decide"} /\ snap'.instances = snap.instances,
         \/ to_create' = << >>
         \/ pc' \notin {"act", "user_data", "server"}
         \/ to_create' = to_create /\ pc \in {"act", "user_data", "server"}
  PROVE  QuotaInv'
<1>1. /\ Cardinality(Holding') \in Nat /\ Cardinality(Holding') <= Cardinality(Holding)
      /\ Occupying' \subseteq Occupying
      /\ MaxVolumes \in Nat /\ Cardinality(Holding) \in Nat /\ Len(to_create) \in Nat
  BY HoldingShrinks, QuotaTypes
<1>2. TagsAreTrue'
  BY DEF QuotaInv, TagsAreTrue, TagsKeep
<1>3. ListingCovers'
  BY <1>1 DEF QuotaInv, ListingCovers, TagsKeep, Occupying
<1>4. Cardinality(Holding') <= MaxVolumes
  BY <1>1 DEF QuotaInv
<1>5. RoomIsLeft'
  <2>1. CASE to_create' = << >> \/ pc' \notin {"act", "user_data", "server"}
    BY <2>1, EmptySeq DEF RoomIsLeft
  <2>2. CASE to_create' = to_create /\ pc \in {"act", "user_data", "server"}
    <3> SUFFICES ASSUME NEW n \in 1..Len(to_create), DiskGb(to_create[n]) > 0
                 PROVE  Cardinality(Holding') + Cardinality(Takers(to_create, n)) <= MaxVolumes
      BY <2>2 DEF RoomIsLeft
    <3>1. Cardinality(Holding) + Cardinality(Takers(to_create, n)) <= MaxVolumes
      BY <2>2 DEF QuotaInv, RoomIsLeft
    <3>2. Cardinality(Takers(to_create, n)) \in Nat
      BY TakersAreFinite
    <3> QED
      BY <1>1, <3>1, <3>2
  <2> QED
    BY <2>1, <2>2
<1> QED
  BY <1>2, <1>3, <1>4, <1>5 DEF QuotaInv

\* Nothing but the controller creates a server.
LEMMA OutsideKeepsQuota ==
  TypeInv /\ QuotaInv /\ MaxVolumes # None /\ (Environment \/ Tick) => QuotaInv'
<1> SUFFICES ASSUME TypeInv, QuotaInv, MaxVolumes # None, Environment \/ Tick PROVE QuotaInv'
  OBVIOUS
<1>1. pc' = pc /\ snap' = snap /\ to_create' = to_create /\ volume_id' = volume_id
  BY DEF Environment, Tick, process, decision
<1>2. \/ server' = server
      \/ \E i \in Instances, x \in {"ERROR", "SHUTOFF", "gone"} :
           server' = [server EXCEPT ![i].status = x]
      \/ \E i \in Instances : server[i].status = "BUILD" /\ server' = [server EXCEPT ![i].status = "ACTIVE"]
  BY DEF Environment, Tick, FlipEnabled, Submit, External, Nova, NovaReclaims, Attach, Boot, Finish,
     PowerOff, NovaDeletes
<1>3. TagsKeep
  <2>1. CASE server' = server
    BY <2>1 DEF TagsKeep, Occupying
  <2>2. ASSUME NEW i \in Instances, NEW x \in {"ERROR", "SHUTOFF", "gone"},
               server' = [server EXCEPT ![i].status = x]
        PROVE  TagsKeep
    BY <2>2, Records DEF TagsKeep, Occupying, ServerRecords
  <2>3. ASSUME NEW i \in Instances, server[i].status = "BUILD",
               server' = [server EXCEPT ![i].status = "ACTIVE"]
        PROVE  TagsKeep
    BY <2>3, Records DEF TagsKeep, Occupying, ServerRecords
  <2> QED
    BY <1>2, <2>1, <2>2, <2>3
<1>4. HandedWasAsked'
  BY <1>1 DEF QuotaInv, HandedWasAsked
<1> QED
  BY <1>1, <1>3, <1>4, QuotaFrame

LEMMA StepKeepsQuota ==
  ASSUME TypeInv, QuotaInv, MaxVolumes # None,
         \/ BeginRound \/ ReadVolumes
         \/ \E i \in Instances : DeleteInstance(i)
         \/ \E v \in VolumeIds : SweepVolume(v)
         \/ \E s \in Submissions, i \in Instances : AssignSubmission(s, i)
         \/ CreateVolume \/ BuildUserData \/ Rollback \/ EndRound \/ Crash \/ Restart
         \/ UNCHANGED vars
  PROVE  QuotaInv'
<1>1. TagsKeep
  <2>1. server' = server
    BY DEF BeginRound, ReadVolumes, DeleteInstance, SweepVolume, AssignSubmission, CreateVolume,
           BuildUserData, Rollback, EndRound, Crash, Restart, world, vars
  <2> QED
    BY <2>1 DEF TagsKeep, Occupying
<1>2. CASE CreateVolume
  <2>1. /\ pc = "act" /\ pc' \in {"act", "user_data"} /\ volume_id = None
        /\ to_create' = << >> \/ to_create' = to_create
        /\ \/ volume_id' = None
           \/ DiskGb(Head(to_create)) # 0 /\ to_create' = to_create
    BY <1>2 DEF CreateVolume, Backpressure, CreationFailed, TypeInv, LoopInv, InHand
  <2>2. DiskGb(Head(to_create)) \in Nat
    BY <1>2, HeadTailProperties, DisksAreNaturals DEF CreateVolume, TypeInv, LoopInv
  <2>3. HandedWasAsked'
    BY <2>1, <2>2 DEF HandedWasAsked
  <2> QED
    BY <1>1, <2>1, <2>3, QuotaFrame
<1>3. CASE BeginRound \/ ReadVolumes \/ EndRound \/ Restart
  <2>1. /\ to_create' = to_create /\ volume_id' = volume_id
        /\ pc' \notin {"act", "user_data", "server"}
        /\ pc' \in {"volumes", "decide"} => pc = "volumes"
    BY <1>3 DEF BeginRound, ReadVolumes, EndRound, Restart, decision
  <2>2. pc' \in {"volumes", "decide"} => snap'.instances = snap.instances
    BY <1>3 DEF BeginRound, ReadVolumes, EndRound, Restart, TypeInv, LoopInv, IsSnapshot
  <2>3. HandedWasAsked'
    BY <2>1 DEF QuotaInv, HandedWasAsked
  <2> QED
    BY <1>1, <2>1, <2>2, <2>3, QuotaFrame
<1>4. CASE BuildUserData \/ Rollback \/ Crash
  <2>1. /\ pc' \notin {"volumes", "decide"}
        /\ \/ to_create' = << >> /\ volume_id' = None
           \/ pc = "user_data" /\ to_create' = to_create /\ volume_id' = volume_id
    BY <1>4 DEF BuildUserData, Rollback, Crash, Backpressure, CreationFailed
  <2>2. HandedWasAsked'
    BY <2>1 DEF QuotaInv, HandedWasAsked
  <2> QED
    BY <1>1, <2>1, <2>2, QuotaFrame
<1>5. CASE \/ \E i \in Instances : DeleteInstance(i)
           \/ \E v \in VolumeIds : SweepVolume(v)
           \/ \E s \in Submissions, i \in Instances : AssignSubmission(s, i)
  <2>1. pc = "act" /\ pc' = pc /\ snap' = snap /\ to_create' = to_create /\ volume_id' = volume_id
    BY <1>5 DEF DeleteInstance, SweepVolume, AssignSubmission
  <2>2. HandedWasAsked'
    BY <2>1 DEF QuotaInv, HandedWasAsked
  <2> QED
    BY <1>1, <2>1, <2>2, QuotaFrame
<1>6. CASE UNCHANGED vars
  <2>1. pc' = pc /\ snap' = snap /\ to_create' = to_create /\ volume_id' = volume_id
    BY <1>6 DEF vars, process, decision
  <2>2. HandedWasAsked'
    BY <2>1 DEF QuotaInv, HandedWasAsked
  <2> QED
    BY <1>1, <2>1, <2>2, QuotaFrame
<1> QED
  BY <1>2, <1>3, <1>4, <1>5, <1>6

LEMMA ListingKeepsQuota == TypeInv /\ QuotaInv /\ MaxVolumes # None /\ ReadInstances => QuotaInv'
<1> SUFFICES ASSUME TypeInv, QuotaInv, MaxVolumes # None, ReadInstances PROVE QuotaInv'
  OBVIOUS
<1>1. /\ server' = server /\ to_create' = to_create /\ volume_id' = volume_id
      /\ pc' = "volumes"
  BY DEF ReadInstances, world, decision
<1>2. Holding' = Holding /\ Occupying' = Occupying
  BY <1>1 DEF Holding, Occupying
<1>3. ListingCovers'
  <2> DEFINE listed == {i \in Instances : server[i].status \notin {"absent", "gone"}}
  <2>1. snap'.instances = [i \in listed |-> server[i]]
    BY DEF ReadInstances, TypeInv, LoopInv, IsSnapshot
  <2>2. \A i \in Occupying : i \in listed /\ server[i].status \in {"BUILD", "ACTIVE"}
    BY DEF Occupying
  <2> HIDE DEF listed
  <2>3. \A i \in Occupying : i \in DOMAIN snap'.instances /\ snap'.instances[i] = server[i]
    BY <2>1, <2>2
  <2> QED
    BY <1>1, <1>2, <2>2, <2>3 DEF ListingCovers
<1>4. TagsAreTrue' /\ HandedWasAsked' /\ RoomIsLeft'
  BY <1>1 DEF QuotaInv, TagsAreTrue, HandedWasAsked, RoomIsLeft
<1> QED
  BY <1>2, <1>3, <1>4 DEF QuotaInv

LEMMA DecideKeepsQuota == TypeInv /\ QuotaInv /\ MaxVolumes # None /\ Decide => QuotaInv'
<1> SUFFICES ASSUME TypeInv, QuotaInv, MaxVolumes # None, Decide PROVE QuotaInv'
  OBVIOUS
<1>1. /\ server' = server /\ pc = "decide" /\ pc' = "act" /\ volume_id' = None
      /\ to_create' = Create(FleetState, Limits)
  BY DEF Decide, world, TypeInv, LoopInv, InHand
<1>2. Holding' = Holding
  BY <1>1 DEF Holding, Occupying
<1>3. TagsAreTrue' /\ ListingCovers' /\ HandedWasAsked'
  BY <1>1 DEF QuotaInv, TagsAreTrue, ListingCovers, HandedWasAsked
<1>4. Holding \subseteq VolumeHolders(FleetState) /\ VolumeHolders(FleetState) \subseteq Instances
  <2>1. FleetState.instances = [i \in DOMAIN snap.instances |->
                                  [status |-> snap.instances[i].status,
                                   age |-> Cardinality({j \in DOMAIN snap.instances : j > i}),
                                   size |-> Rung, volume_gb |-> snap.instances[i].volume_gb]]
    BY DEF FleetState
  <2>2. DOMAIN FleetState.instances \subseteq Instances
    BY <2>1 DEF TypeInv, LoopInv, IsSnapshot
  <2>3. ASSUME NEW i \in Holding
        PROVE  /\ i \in DOMAIN FleetState.instances
               /\ FleetState.instances[i].status \in {"BUILD", "ACTIVE"}
               /\ FleetState.instances[i].volume_gb \in Nat \ {0}
    <3>1. i \in Occupying /\ i \in Instances /\ server[i].volume # None
      BY DEF Holding, Occupying
    <3>2. /\ i \in DOMAIN snap.instances /\ snap.instances[i].status \in {"BUILD", "ACTIVE"}
          /\ snap.instances[i].volume_gb = server[i].volume_gb
      BY <1>1, <3>1 DEF QuotaInv, ListingCovers
    <3>3. server[i].volume_gb \in Nat \ {0}
      BY <3>1 DEF QuotaInv, TagsAreTrue
    <3> QED
      BY <2>1, <3>2, <3>3
  <2>4. \A gb \in Nat \ {0} : gb # None /\ gb > 0
    BY NoneAssumption
  <2> QED
    BY <2>2, <2>3, <2>4 DEF VolumeHolders, Live, VolumeGb
<1>5. /\ IsFiniteSet(VolumeHolders(FleetState)) /\ Cardinality(VolumeHolders(FleetState)) \in Nat
      /\ Cardinality(Holding) <= Cardinality(VolumeHolders(FleetState))
  BY <1>4, HoldingIsFinite, FS_Subset
<1>6. RoomIsLeft'
  <2> SUFFICES ASSUME NEW n \in 1..Len(to_create'), DiskGb(to_create'[n]) > 0
               PROVE  Cardinality(Holding) + Cardinality(Takers(to_create', n)) <= MaxVolumes
    BY <1>2 DEF RoomIsLeft
  <2>1. Wanted(FleetState, Limits) \in Seq(Creates)
    BY SnapshotIsCountable, WantsAreCreates, WantedIsAList
  <2>2. Len(Wanted(FleetState, Limits)) \in Nat
    BY <2>1, LenProperties
  <2>3. n \in DOMAIN Create(FleetState, Limits)
    BY <1>1, DecisionIsTyped, LenProperties
  <2>4. Limits.max_volumes = MaxVolumes
    BY DEF Limits
  <2>5. Cardinality(VolumeHolders(FleetState)) + Cardinality(Takers(Create(FleetState, Limits), n))
          <= MaxVolumes
    BY <1>1, <2>2, <2>3, <2>4, SnapshotIsCountable, LimitsAreSized, CreateFitsTheVolumes
  <2>6. Cardinality(Takers(to_create', n)) \in Nat
    BY TakersAreFinite
  <2> QED
    BY <1>1, <1>5, <2>5, <2>6, QuotaTypes
<1> QED
  BY <1>2, <1>3, <1>6 DEF QuotaInv

LEMMA CreateServerKeepsQuota ==
  TypeInv /\ QuotaInv /\ MaxVolumes # None /\ CreateServer => QuotaInv'
<1> SUFFICES ASSUME TypeInv, QuotaInv, MaxVolumes # None, CreateServer PROVE QuotaInv'
  OBVIOUS
<1>1. /\ pc = "server" /\ to_create # << >> /\ to_create \in Seq(Creates)
      /\ volume_id \in VolumeIds \cup {None}
  BY DEF CreateServer, TypeInv, TypeOK, LoopInv, InHand
<1>2. \/ to_create' = << >> /\ volume_id' = None
      \/ pc' \in {"rollback_quota", "rollback_failure"} /\ to_create' = to_create
           /\ volume_id' = volume_id
      \/ pc' = "act" /\ to_create' = Tail(to_create) /\ volume_id' = None
           /\ \E i \in Instances : Boots(i)
  BY DEF CreateServer, Backpressure, CreationFailed
<1>3. pc' \notin {"volumes", "decide"}
  BY DEF CreateServer, Backpressure, CreationFailed
<1>4. HandedWasAsked'
  BY <1>2 DEF QuotaInv, HandedWasAsked
<1>5. CASE server' = server /\ (to_create' = << >> \/ pc' \in {"rollback_quota", "rollback_failure"})
  <2>1. TagsKeep
    BY <1>5 DEF TagsKeep, Occupying
  <2> QED
    BY <1>3, <1>4, <1>5, <2>1, QuotaFrame
<1>6. ASSUME NEW i \in Instances, Boots(i) PROVE QuotaInv'
  <2>1. /\ server'[i].status = "BUILD" /\ server'[i].volume = volume_id
        /\ volume_id # None => server'[i].volume_gb = Head(to_create).disk_gb
        /\ \A j \in Instances : j # i => server'[j] = server[j]
    BY <1>6, Records DEF Boots
  <2>2. Head(to_create) \in Creates /\ Len(to_create) \in Nat \ {0} /\ Head(to_create) = to_create[1]
    BY <1>1, HeadTailProperties, EmptySeq, LenProperties
  <2>3. TagsAreTrue'
    <3>1. volume_id # None => Head(to_create).disk_gb \in Nat \ {0}
      <4>1. volume_id # None => DiskGb(Head(to_create)) > 0
        BY DEF QuotaInv, HandedWasAsked
      <4>2. Head(to_create).disk_gb \in Nat \cup {None}
        BY <2>2 DEF Creates
      <4> QED
        BY <4>1, <4>2 DEF DiskGb
    <3> QED
      BY <2>1, <3>1 DEF QuotaInv, TagsAreTrue
  <2>4. /\ volume_id = None => Holding' \subseteq Holding
        /\ Holding' \subseteq Holding \cup {i}
    BY <2>1 DEF Holding, Occupying
  <2>5. /\ IsFiniteSet(Holding) /\ Cardinality(Holding) \in Nat /\ MaxVolumes \in Nat
        /\ IsFiniteSet(Holding \cup {i})
        /\ Cardinality(Holding \cup {i}) <= Cardinality(Holding) + 1
    <3>1. IsFiniteSet(Holding) /\ Cardinality(Holding) \in Nat /\ MaxVolumes \in Nat
      BY QuotaTypes
    <3>2. /\ IsFiniteSet(Holding \cup {i})
          /\ \/ Cardinality(Holding \cup {i}) = Cardinality(Holding)
             \/ Cardinality(Holding \cup {i}) = Cardinality(Holding) + 1
      BY <3>1, FS_AddElement
    <3> QED
      BY <3>1, <3>2
  <2>6. /\ IsFiniteSet(Holding') /\ Cardinality(Holding') \in Nat
        /\ Cardinality(Holding') <= Cardinality(Holding) + 1
        /\ volume_id = None => Cardinality(Holding') <= Cardinality(Holding)
    <3>1. IsFiniteSet(Holding') /\ Cardinality(Holding') <= Cardinality(Holding \cup {i})
      BY <2>4, <2>5, FS_Subset
    <3>2. volume_id = None => Cardinality(Holding') <= Cardinality(Holding)
      BY <2>4, <2>5, FS_Subset
    <3>3. Cardinality(Holding') \in Nat /\ Cardinality(Holding \cup {i}) \in Nat
      BY <3>1, <2>5, FS_CardinalityType
    <3> QED
      BY <2>5, <3>1, <3>2, <3>3
  <2>7. /\ Cardinality(Holding) <= MaxVolumes
        /\ \A n \in 1..Len(to_create) : DiskGb(to_create[n]) > 0 =>
             Cardinality(Holding) + Cardinality(Takers(to_create, n)) <= MaxVolumes
    BY <1>1 DEF QuotaInv, RoomIsLeft
  <2>8. volume_id # None => DiskGb(Head(to_create)) > 0
    BY DEF QuotaInv, HandedWasAsked
  <2>9. Cardinality(Holding') <= MaxVolumes
    <3>1. CASE volume_id = None
      BY <2>5, <2>6, <2>7, <3>1
    <3>2. CASE volume_id # None
      <4>1. DiskGb(to_create[1]) > 0 /\ 1 \in 1..Len(to_create)
        BY <2>2, <2>8, <3>2
      <4>2. Takers(to_create, 1) = {1}
        BY <4>1 DEF Takers
      <4>3. Cardinality(Takers(to_create, 1)) = 1
        BY <4>2, FS_Singleton
      <4>4. Cardinality(Holding) + 1 <= MaxVolumes
        BY <4>1, <4>3, <2>7
      <4> QED
        BY <2>5, <2>6, <4>4
    <3> QED
      BY <3>1, <3>2
  <2>10. RoomIsLeft'
    <3>1. CASE to_create' = << >> \/ pc' \in {"rollback_quota", "rollback_failure"}
      BY <3>1, EmptySeq DEF RoomIsLeft
    <3>2. CASE to_create' = Tail(to_create)
      <4> SUFFICES ASSUME NEW n \in 1..Len(Tail(to_create)), DiskGb(Tail(to_create)[n]) > 0
                   PROVE  Cardinality(Holding') + Cardinality(Takers(Tail(to_create), n))
                            <= MaxVolumes
        BY <3>2 DEF RoomIsLeft
      <4> DEFINE held == Cardinality(Holding)
                 holds == Cardinality(Holding')
                 rest == Cardinality(Takers(Tail(to_create), n))
                 all == Cardinality(Takers(to_create, n + 1))
      <4>1. /\ n + 1 \in 1..Len(to_create) /\ to_create[n + 1] = Tail(to_create)[n]
            /\ rest <= all
            /\ DiskGb(Head(to_create)) > 0 => rest + 1 <= all
        BY <1>1, TakersOfTheRest
      <4>2. held + all <= MaxVolumes
        BY <4>1, <2>7
      <4>3. rest \in Nat /\ all \in Nat
        <5>1. n \in Nat /\ n + 1 \in Nat
          OBVIOUS
        <5> QED
          BY <5>1, TakersAreFinite
      <4>4. /\ held \in Nat /\ holds \in Nat /\ MaxVolumes \in Nat
            /\ holds <= held + 1
            /\ volume_id = None => holds <= held
            /\ volume_id # None => rest + 1 <= all
        BY <2>5, <2>6, <2>8, <4>1
      <4> HIDE DEF held, holds, rest, all
      <4>5. holds + rest <= MaxVolumes
        <5>1. CASE volume_id = None
          BY <4>1, <4>2, <4>3, <4>4, <5>1
        <5>2. CASE volume_id # None
          BY <4>2, <4>3, <4>4, <5>2
        <5> QED
          BY <5>1, <5>2
      <4> QED
        BY <4>5 DEF holds, rest
    <3> QED
      BY <1>2, <3>1, <3>2
  <2>11. ListingCovers'
    BY <1>3 DEF ListingCovers
  <2> QED
    BY <1>4, <2>3, <2>9, <2>10, <2>11 DEF QuotaInv
<1> QED
  BY <1>5, <1>6 DEF CreateServer, Backpressure, CreationFailed

\* The servers that are building or running hold no more than max_volumes volumes between
\* them (plan.py, _quota_used and _allocate), although the count is of an earlier listing
\* and goes by tags, and whichever creates fail, are lost or go without their volume.
THEOREM QuotaBoundsTheWorkers == Spec => []WorkersWithinQuota
<1> DEFINE Bounded == MaxVolumes # None => QuotaInv
<1>1. Init => TypeInv /\ Bounded
  BY InitTyped, InitQuota
<1>2. TypeInv /\ Bounded /\ [Next]_vars => (TypeInv /\ Bounded)'
  <2> SUFFICES ASSUME TypeInv, QuotaInv, MaxVolumes # None, [Next]_vars
               PROVE  QuotaInv'
    BY NextTyped
  <2> QED
    BY StepKeepsQuota, OutsideKeepsQuota, ListingKeepsQuota, DecideKeepsQuota,
       CreateServerKeepsQuota DEF Next, Round
<1>3. Bounded => WorkersWithinQuota
  BY DEF QuotaInv, Holding, WorkersWithinQuota
<1> QED
  BY <1>1, <1>2, <1>3, PTL DEF Spec
=============================================================================
