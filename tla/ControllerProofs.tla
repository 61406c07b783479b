-------------------------- MODULE ControllerProofs --------------------------
(***************************************************************************)
(* Theorems about the loop of controller.py in its deployment, for every   *)
(* set of submissions and instances, every limit and every fault budget.   *)
(***************************************************************************)
EXTENDS Controller, PlanProofs

-----------------------------------------------------------------------------
(***************************************************************************)
(* What gather() hands to decide() is a snapshot decide() can count with,  *)
(* and what decide() returns is of the right type.                         *)
(***************************************************************************)

LEMMA SnapshotIsCountable ==
  ASSUME TypeOK
  PROVE  Countable(FleetState, Limits)
<1>1. DOMAIN snap.instances \subseteq Instances /\ DOMAIN snap.waiting \subseteq Submissions
  BY DEF TypeOK, IsSnapshot, IsReading
<1>2. IsFiniteSet(DOMAIN snap.instances) /\ IsFiniteSet(DOMAIN snap.waiting)
  BY <1>1, IdsAssumption, FS_Subset
<1>3. \A w \in DOMAIN snap.waiting : snap.waiting[w].age \in Nat
  BY DEF TypeOK, IsSnapshot, IsReading, WaitingRecords
<1>4. /\ DOMAIN FleetState.instances = DOMAIN snap.instances
      /\ FleetState.waiting = snap.waiting
      /\ FleetState.queue_depth = snap.queue_depth
      /\ Limits.max_instances = MaxInstances
  BY DEF FleetState, Limits
<1>5. snap.queue_depth \in Nat
  BY DEF TypeOK, IsSnapshot
<1>6. Orderable(FleetState, DOMAIN snap.waiting)
  BY <1>1, <1>2, <1>3, <1>4, IdsAssumption DEF Orderable
<1> QED
  BY <1>2, <1>4, <1>5, <1>6, LimitsAssumption DEF Countable

LEMMA WantsAreCreates ==
  ASSUME TypeOK
  PROVE  /\ Unsized \in Creates
         /\ \A w \in DOMAIN FleetState.waiting :
              [rung    |-> SubmissionRung(FleetState, Limits, w),
               disk_gb |-> FleetState.waiting[w].disk_gb] \in Creates
<1>1. FleetState.waiting = snap.waiting
  BY DEF FleetState
<1>2. Rungs(Limits) \subseteq Nat
  BY LimitsAssumption DEF Rungs, Limits
<1>3. SmallestRung(Limits) \in Nat \cup {None}
  BY <1>2, MinOfNaturals DEF SmallestRung
<1>4. ASSUME NEW w \in DOMAIN snap.waiting
      PROVE  /\ snap.waiting[w].memory_gb \in Nat \cup {None}
             /\ snap.waiting[w].disk_gb = None
  BY DEF TypeOK, IsSnapshot, IsReading, WaitingRecords
<1>5. ASSUME NEW w \in DOMAIN snap.waiting
      PROVE  SubmissionRung(FleetState, Limits, w) \in Nat \cup {None}
  BY <1>1, <1>3, <1>4 DEF SubmissionRung
<1> QED
  BY <1>1, <1>4, <1>5 DEF Creates, Unsized

LEMMA DecisionIsTyped ==
  ASSUME TypeOK
  PROVE  /\ Delete(FleetState, Limits) \subseteq Instances
         /\ Assign(FleetState, Limits) \subseteq Submissions \X Instances
         /\ Create(FleetState, Limits) \in Seq(Creates)
         /\ Create(FleetState, Limits) # << >> =>
              /\ consecutive_failures < BreakerThreshold
              /\ Cardinality(Live(FleetState)) + Len(Create(FleetState, Limits))
                   <= MaxInstances
<1>1. DOMAIN FleetState.instances \subseteq Instances /\ DOMAIN FleetState.waiting \subseteq Submissions
  BY DEF FleetState, TypeOK, IsSnapshot, IsReading
<1>2. Live(FleetState) \subseteq Instances
  BY <1>1 DEF Live
<1>3. Delete(FleetState, Limits) \subseteq Instances
  BY <1>1, <1>2 DEF Delete, ShutOff, FailedToProvision, OverLifetime
<1>4. /\ Placeable(FleetState) \subseteq Submissions
      /\ Assignable(FleetState, Limits) \subseteq Instances
  BY <1>1, <1>2 DEF Placeable, Assignable, Unassigned
<1>5. Assign(FleetState, Limits) \subseteq Submissions \X Instances
  BY <1>4 DEF Assign
<1>6. /\ Create(FleetState, Limits) \in Seq(Creates)
      /\ Create(FleetState, Limits) # << >> =>
           /\ ~BreakerOpen(FleetState, Limits)
           /\ Cardinality(Live(FleetState)) + Len(Create(FleetState, Limits))
                <= Limits.max_instances
  BY SnapshotIsCountable, WantsAreCreates, CreateFitsTheHeadroom
<1>7. /\ Limits.max_instances = MaxInstances
      /\ Limits.breaker_threshold = BreakerThreshold
      /\ FleetState.consecutive_failures = consecutive_failures
  BY DEF Limits, FleetState
<1>8. ~BreakerOpen(FleetState, Limits) => consecutive_failures < BreakerThreshold
  BY <1>7, LimitsAssumption DEF BreakerOpen, TypeOK
<1> QED
  BY <1>3, <1>5, <1>6, <1>7, <1>8

-----------------------------------------------------------------------------
(***************************************************************************)
(* Types.  The counter stays within its threshold because a round that has *)
(* creates left began with the breaker closed and a failure ends them.     *)
(***************************************************************************)

TypeInv ==
  /\ TypeOK
  /\ to_create # << >> => consecutive_failures < BreakerThreshold

LEMMA NoSnapshotTyped == IsSnapshot(NoSnapshot)
<1>1. Empty \in [{} -> InstanceRecords] /\ Empty \in [{} -> WaitingRecords]
  BY DEF Empty
<1> QED
  BY <1>1 DEF NoSnapshot, IsSnapshot, IsReading

\* What ends a submission and what puts it on an instance.
LEMMA JobsStayTyped ==
  ASSUME job \in [Submissions -> JobRecords], NEW s \in Submissions
  PROVE  /\ \A status \in {"done", "removed"} :
              [job EXCEPT ![s].status = status] \in [Submissions -> JobRecords]
         /\ \A i \in Instances : [job EXCEPT ![s].queue = i] \in [Submissions -> JobRecords]
<1>1. job[s] \in JobRecords
  OBVIOUS
<1>2. /\ \A status \in {"done", "removed"} : [job[s] EXCEPT !.status = status] \in JobRecords
      /\ \A i \in Instances : [job[s] EXCEPT !.queue = i] \in JobRecords
  BY <1>1 DEF JobRecords
<1>3. ASSUME NEW r \in JobRecords
      PROVE  [job EXCEPT ![s] = r] \in [Submissions -> JobRecords]
  OBVIOUS
<1> QED
  BY <1>2, <1>3

LEMMA InitTyped == Init => TypeInv
<1> SUFFICES ASSUME Init PROVE TypeInv
  OBVIOUS
<1>1. job \in [Submissions -> JobRecords]
  BY BoundsAssumption DEF Init, WorldInit, JobRecords
<1>2. server \in [Instances -> ServerRecords]
  BY BoundsAssumption DEF Init, WorldInit, ServerRecords, Statuses
<1>3. WorldTypeOK
  BY <1>1, <1>2, BoundsAssumption, EmptySeq DEF Init, WorldInit, WorldTypeOK
<1>4. IsSnapshot(snap)
  <2>1. snap = NoSnapshot
    BY DEF Init, ControllerInit
  <2> QED
    BY <2>1, NoSnapshotTyped
<1>5. to_create \in Seq(Creates) /\ to_create = << >>
  BY EmptySeq DEF Init, ControllerInit
<1>6. consecutive_failures \in 0..BreakerThreshold
  BY LimitsAssumption DEF Init, ControllerInit
<1> QED
  BY <1>3, <1>4, <1>5, <1>6 DEF Init, ControllerInit, TypeInv, TypeOK

LEMMA GirderTyped == TypeInv /\ Girder /\ UNCHANGED process => TypeInv'
<1> SUFFICES ASSUME TypeInv, Girder, UNCHANGED process PROVE TypeInv'
  OBVIOUS
<1> USE DEF TypeInv, TypeOK, WorldTypeOK, process, memory, decision, nova, workers, Fault, NoFault
<1>1. CASE FlipArmed
  BY <1>1, BoundsAssumption DEF FlipArmed, broker
<1>2. ASSUME NEW s \in Submissions, Submit(s) PROVE TypeInv'
  <2>1. Append(dispatch, s) \in Seq(Submissions)
    BY AppendProperties
  <2>2. job' \in [Submissions -> JobRecords]
    <3>1. job[s] \in JobRecords /\ armed \in BOOLEAN
      OBVIOUS
    <3>2. [job[s] EXCEPT !.status = "RUNNING", !.awaiting = armed] \in JobRecords
      BY <3>1 DEF JobRecords
    <3>3. job' = [job EXCEPT ![s] = [job[s] EXCEPT !.status = "RUNNING", !.awaiting = armed]]
      BY <1>2 DEF Submit
    <3> QED
      BY <3>2, <3>3
  <2>3. sent' \in [Submissions -> Nat] /\ dispatch' \in Seq(Submissions)
    <3>1. \/ sent' = sent /\ dispatch' = dispatch
          \/ sent' = [sent EXCEPT ![s] = @ + 1] /\ dispatch' = Append(dispatch, s)
      BY <1>2, Zenon DEF Submit
    <3>2. [sent EXCEPT ![s] = @ + 1] \in [Submissions -> Nat]
      OBVIOUS
    <3>3. sent' \in [Submissions -> Nat]
      BY <3>1, <3>2
    <3>4. dispatch' \in Seq(Submissions)
      BY <2>1, <3>1
    <3> QED
      BY <3>3, <3>4
  <2> QED
    BY <1>2, <2>2, <2>3 DEF Submit
<1>3. ASSUME NEW s \in Submissions, ReapSubmission(s) PROVE TypeInv'
  <2>1. job' \in [Submissions -> JobRecords]
    BY <1>3, JobsStayTyped DEF ReapSubmission
  <2> QED
    BY <1>3, <2>1 DEF ReapSubmission, broker
<1>4. ASSUME NEW s \in Submissions, CancelSubmission(s) PROVE TypeInv'
  <2>1. job' \in [Submissions -> JobRecords]
    BY <1>4, JobsStayTyped DEF CancelSubmission
  <2>2. faults' \in Nat
    BY <1>4 DEF CancelSubmission
  <2> QED
    BY <1>4, <2>1, <2>2 DEF CancelSubmission, broker
<1>5. ASSUME NEW s \in Submissions, RemoveSubmission(s) PROVE TypeInv'
  <2>1. job' \in [Submissions -> JobRecords]
    BY <1>5, JobsStayTyped DEF RemoveSubmission
  <2> QED
    BY <1>5, <2>1 DEF RemoveSubmission, broker
<1> QED
  BY <1>1, <1>2, <1>3, <1>4, <1>5 DEF Girder

LEMMA WorkerTyped ==
  ASSUME NEW i \in Instances, TypeInv, Worker(i), UNCHANGED process
  PROVE  TypeInv'
<1> USE DEF TypeInv, TypeOK, WorldTypeOK, process, memory, decision, Fault, NoFault
<1>1. CASE Boot(i)
  <2>1. server' \in [Instances -> ServerRecords]
    <3>1. server' = [server EXCEPT ![i].status = "ACTIVE"]
            \/ server' = [server EXCEPT ![i].status = "ERROR"]
      BY <1>1 DEF Boot
    <3>2. CASE server' = [server EXCEPT ![i].status = "ACTIVE"]
      BY <3>2 DEF ServerRecords, Statuses
    <3>3. CASE server' = [server EXCEPT ![i].status = "ERROR"]
      BY <3>3 DEF ServerRecords, Statuses
    <3> QED
      BY <3>1, <3>2, <3>3
  <2>2. late' \subseteq Instances /\ faults' \in Nat
    BY <1>1 DEF Boot
  <2> QED
    BY <1>1, <2>1, <2>2 DEF Boot, girder, broker
<1>2. CASE Announce(i)
  BY <1>2 DEF Announce, girder, nova
<1>3. CASE TakeShared(i)
  <2>1. dispatch # << >> /\ Head(dispatch) \in Submissions /\ Tail(dispatch) \in Seq(Submissions)
    BY <1>3, HeadTailProperties DEF TakeShared
  <2>2. held' \in [Instances -> SUBSET Submissions]
    BY <1>3, <2>1 DEF TakeShared
  <2>3. faults' \in Nat
    BY <1>3 DEF TakeShared
  <2> QED
    BY <1>3, <2>1, <2>2, <2>3 DEF TakeShared, girder, nova
<1>4. CASE TakePrivate(i)
  <2>1. /\ private' \in [Instances -> SUBSET Submissions]
        /\ held' \in [Instances -> SUBSET Submissions]
    BY <1>4 DEF TakePrivate
  <2> QED
    BY <1>4, <2>1 DEF TakePrivate, girder, nova
<1>5. CASE Prepare(i)
  <2>1. PICK s \in Unclaimed(i) : job' = [job EXCEPT ![s].queue = i]
    BY <1>5 DEF Prepare
  <2>2. s \in Submissions
    BY DEF Unclaimed
  <2>3. job' \in [Submissions -> JobRecords]
    BY <2>1, <2>2, JobsStayTyped
  <2> QED
    BY <1>5, <2>3 DEF Prepare, broker, nova
<1>6. CASE Finish(i)
  <2>1. PICK s \in held[i] \ Unclaimed(i) :
          /\ held' = [held EXCEPT ![i] = @ \ {s}]
          /\ job' = IF Running(s) THEN [job EXCEPT ![s].status = "done"] ELSE job
    BY <1>6 DEF Finish
  <2>2. job' \in [Submissions -> JobRecords]
    <3>1. held[i] \subseteq Submissions
      OBVIOUS
    <3> QED
      BY <2>1, <3>1, JobsStayTyped
  <2> QED
    BY <1>6, <2>1, <2>2 DEF Finish, broker, nova
<1>7. CASE PowerOff(i)
  <2>1. server' \in [Instances -> ServerRecords]
    BY <1>7 DEF PowerOff, ServerRecords, Statuses
  <2> QED
    BY <1>7, <2>1 DEF PowerOff, girder, broker
<1>8. CASE DieMidRun(i)
  <2>1. server' \in [Instances -> ServerRecords]
    BY <1>8 DEF DieMidRun, ServerRecords, Statuses
  <2> QED
    BY <1>8, <2>1, BoundsAssumption DEF DieMidRun, girder, broker
<1>9. CASE Wedge(i)
  BY <1>9, BoundsAssumption DEF Wedge, girder, broker, nova
<1>10. CASE NovaDeletes(i)
  <2>1. server' \in [Instances -> ServerRecords]
    BY <1>10 DEF NovaDeletes, ServerRecords, Statuses
  <2> QED
    BY <1>10, <2>1 DEF NovaDeletes, girder, broker
<1> QED
  BY <1>1, <1>2, <1>3, <1>4, <1>5, <1>6, <1>7, <1>8, <1>9, <1>10 DEF Worker

LEMMA TickTyped == TypeInv /\ Tick => TypeInv'
<1> SUFFICES ASSUME TypeInv, Tick PROVE TypeInv'
  OBVIOUS
<1>1. ASSUME NEW n \in Nat, NEW a \in 0..n
      PROVE  Aged(a, n) \in 0..n
  BY DEF Aged
<1>2. server' \in [Instances -> ServerRecords]
  <2>1. ASSUME NEW i \in Instances
        PROVE  /\ server[i] \in ServerRecords
               /\ [server[i] EXCEPT !.age = Aged(@, AgeBound)] \in ServerRecords
    <3>1. server[i] \in ServerRecords
      BY DEF TypeInv, TypeOK, WorldTypeOK
    <3>2. Aged(server[i].age, AgeBound) \in 0..AgeBound
      BY <1>1, <3>1, BoundsAssumption DEF ServerRecords
    <3> QED
      BY <3>1, <3>2 DEF ServerRecords
  <2> QED
    BY <2>1 DEF Tick, AgesAdvance
<1>3. job' \in [Submissions -> JobRecords]
  <2>1. ASSUME NEW s \in Submissions
        PROVE  /\ job[s] \in JobRecords
               /\ [job[s] EXCEPT !.age = Aged(@, JobAgeBound)] \in JobRecords
    <3>1. job[s] \in JobRecords
      BY DEF TypeInv, TypeOK, WorldTypeOK
    <3>2. Aged(job[s].age, JobAgeBound) \in 0..JobAgeBound
      BY <1>1, <3>1, BoundsAssumption DEF JobRecords
    <3> QED
      BY <3>1, <3>2 DEF JobRecords
  <2> QED
    BY <2>1 DEF Tick, AgesAdvance
<1>4. last_failure' \in Nat \cup {None}
  BY DEF Tick, Aged, TypeInv, TypeOK
<1>5. round' \in Nat /\ faults' \in Nat
  BY DEF Tick, NoFault, TypeInv, TypeOK, WorldTypeOK
<1> QED
  BY <1>2, <1>3, <1>4, <1>5
  DEF Tick, AgesAdvance, TypeInv, TypeOK, WorldTypeOK, broker, workers, decision

\* gather(): what is read goes into the snapshot and nowhere else.
LEMMA GatherTyped ==
  ASSUME TypeInv,
         ReadInstances \/ ReadDepth \/ ReadSpent \/ ReadWaiting \/ SkipRound
  PROVE  TypeInv'
<1> USE DEF TypeInv, TypeOK, WorldTypeOK, decision, Fault, NoFault
<1>1. IsSnapshot(snap)
  OBVIOUS
<1>2. CASE ReadInstances
  <2>1. ASSUME NEW i \in Instances
        PROVE  [status |-> server[i].status, size |-> server[i].size] \in InstanceRecords
    BY DEF ServerRecords, InstanceRecords
  <2>2. [i \in Listed |-> [status |-> server[i].status, size |-> server[i].size]]
          \in [Listed -> InstanceRecords]
    BY <2>1 DEF Listed
  <2>3. IsSnapshot(snap')
    <3> DEFINE listing == [i \in Listed |-> [status |-> server[i].status, size |-> server[i].size]]
    <3>1. IsReading(listing, Instances, InstanceRecords)
      BY <2>2 DEF IsReading, Listed
    <3>2. snap' = [snap EXCEPT !.instances = listing]
      BY <1>2 DEF ReadInstances
    <3> HIDE DEF listing
    <3> QED
      BY <1>1, <3>1, <3>2 DEF IsSnapshot
  <2> QED
    BY <1>2, <2>3 DEF ReadInstances, girder, broker, nova, workers, memory
<1>3. CASE ReadDepth
  <2>1. Len(dispatch) \in Nat
    BY LenProperties
  <2>2. IsSnapshot(snap')
    BY <1>1, <1>3, <2>1 DEF ReadDepth, IsSnapshot
  <2> QED
    BY <1>3, <2>2 DEF ReadDepth, girder, broker, nova, workers, memory
<1>4. CASE ReadSpent
  <2>1. Spent \subseteq Instances
    BY <1>1 DEF Spent, IsSnapshot, IsReading
  <2>2. IsSnapshot(snap') /\ spent_seen' \subseteq Instances
    <3>1. spent_seen' = Spent /\ snap' = [snap EXCEPT !.spent = Spent]
      BY <1>4 DEF ReadSpent
    <3> QED
      BY <1>1, <2>1, <3>1 DEF IsSnapshot
  <2> QED
    BY <1>4, <2>2 DEF ReadSpent, girder, broker, nova, workers
<1>5. CASE ReadWaiting
  <2> DEFINE reading == [s \in Oldest(Waiting) |->
                           [age |-> job[s].age, memory_gb |-> Memory[s],
                            disk_gb |-> None, assignable |-> job[s].awaiting]]
  <2>1. ASSUME NEW s \in Submissions
        PROVE  [age |-> job[s].age, memory_gb |-> Memory[s],
                disk_gb |-> None, assignable |-> job[s].awaiting] \in WaitingRecords
    BY BoundsAssumption DEF JobRecords, WaitingRecords
  <2>2. /\ Oldest(Waiting) \subseteq Submissions
        /\ reading \in [Oldest(Waiting) -> WaitingRecords]
    BY <2>1 DEF Waiting, Oldest
  <2>3. IsReading(reading, Submissions, WaitingRecords)
    BY <2>2 DEF IsReading
  <2>4. snap' = [snap EXCEPT !.waiting = reading] \/ snap' = snap
    BY <1>5 DEF ReadWaiting
  <2>5. IsSnapshot(snap')
    <3> HIDE DEF reading
    <3> QED
      BY <1>1, <2>3, <2>4 DEF IsSnapshot
  <2>6. faults' \in Nat
    BY <1>5 DEF ReadWaiting
  <2> QED
    BY <1>5, <2>5, <2>6 DEF ReadWaiting, girder, broker, nova, workers, memory
<1>6. CASE SkipRound
  <2>1. IsSnapshot(snap')
    BY <1>6, NoSnapshotTyped DEF SkipRound
  <2>2. /\ round' \in Nat
        /\ consecutive_failures' \in 0..BreakerThreshold
        /\ last_failure' \in Nat \cup {None}
        /\ to_create # << >> => consecutive_failures' < BreakerThreshold
    BY <1>6, LimitsAssumption DEF SkipRound, ExpireBreaker
  <2> QED
    BY <1>6, <2>1, <2>2 DEF SkipRound, girder, broker, nova, workers
<1> QED
  BY <1>2, <1>3, <1>4, <1>5, <1>6

\* The rest of step(): the breaker's cooldown, decide(), and the decision executed.
LEMMA StepTyped ==
  ASSUME TypeInv,
         \/ BeginRound \/ Decide \/ Publish \/ EndRound \/ Restart \/ VolumesFlagUnreadable \/ Crash
         \/ \E i \in Instances : DeleteInstance(i)
         \/ \E s \in Submissions, i \in Instances : Claim(s, i)
  PROVE  TypeInv'
<1> USE DEF TypeInv, TypeOK, WorldTypeOK, Fault, NoFault
<1>1. CASE BeginRound
  <2>1. /\ consecutive_failures' \in 0..BreakerThreshold
        /\ last_failure' \in Nat \cup {None}
        /\ to_create # << >> => consecutive_failures' < BreakerThreshold
    BY <1>1, LimitsAssumption DEF BeginRound, ExpireBreaker
  <2> QED
    BY <1>1, <2>1 DEF BeginRound, girder, broker, nova, workers, decision
<1>2. CASE Decide
  <2>1. IsSnapshot(snap')
    BY <1>2, NoSnapshotTyped DEF Decide
  <2>2. /\ to_delete' \subseteq Instances
        /\ to_assign' \subseteq Submissions \X Instances
        /\ to_create' \in Seq(Creates)
        /\ to_create' # << >> => consecutive_failures < BreakerThreshold
    BY <1>2, DecisionIsTyped DEF Decide
  <2> QED
    BY <1>2, <2>1, <2>2 DEF Decide, girder, broker, nova, workers, memory
<1>3. CASE VolumesFlagUnreadable \/ Crash
  <2>1. Forget /\ faults' \in Nat
    BY <1>3 DEF VolumesFlagUnreadable, Crash
  <2>2. IsSnapshot(snap') /\ to_create' \in Seq(Creates) /\ to_create' = << >>
    BY <2>1, NoSnapshotTyped, EmptySeq DEF Forget
  <2>3. consecutive_failures' \in 0..BreakerThreshold
    BY <2>1, LimitsAssumption DEF Forget
  <2> QED
    BY <2>1, <2>2, <2>3 DEF Forget, girder, broker, nova, workers
<1>4. ASSUME NEW i \in Instances, DeleteInstance(i)
      PROVE  TypeInv'
  <2>1. deleting' \subseteq Instances /\ to_delete' \subseteq Instances /\ faults' \in Nat
    BY <1>4 DEF DeleteInstance
  <2> QED
    BY <1>4, <2>1 DEF DeleteInstance, girder, broker, workers, memory
<1>5. ASSUME NEW s \in Submissions, NEW i \in Instances, Claim(s, i)
      PROVE  TypeInv'
  <2>1. [job EXCEPT ![s].queue = i] \in [Submissions -> JobRecords]
    BY JobsStayTyped DEF TypeInv, TypeOK, WorldTypeOK
  <2>2. /\ job' \in [Submissions -> JobRecords]
        /\ binding' \in (Submissions \X Instances) \cup {None}
        /\ faults' \in Nat
    <3>1. \/ job' = [job EXCEPT ![s].queue = i] /\ binding' = <<s, i>>
          \/ job' = job /\ binding' = binding
      BY <1>5 DEF Claim
    <3>2. faults' \in Nat
      BY <1>5 DEF Claim
    <3>3. job' \in [Submissions -> JobRecords]
      BY <2>1, <3>1
    <3>4. <<s, i>> \in Submissions \X Instances
      OBVIOUS
    <3>5. binding' \in (Submissions \X Instances) \cup {None}
      BY <3>1, <3>4
    <3> QED
      BY <3>2, <3>3, <3>5
  <2>3. to_assign' \subseteq Submissions \X Instances
    BY <1>5 DEF Claim
  <2> QED
    BY <1>5, <2>2, <2>3 DEF Claim, broker, nova, workers, memory
<1>6. CASE Publish
  <2>1. PICK s \in Submissions, i \in Instances : binding = <<s, i>>
    BY <1>6 DEF Publish
  <2>2. /\ [private EXCEPT ![i] = @ \cup {s}] \in [Instances -> SUBSET Submissions]
        /\ [sent EXCEPT ![s] = @ + 1] \in [Submissions -> Nat]
    OBVIOUS
  <2>3. /\ private' \in [Instances -> SUBSET Submissions]
        /\ sent' \in [Submissions -> Nat]
        /\ faults' \in Nat
    <3>1. \/ private' = [private EXCEPT ![i] = @ \cup {s}] /\ sent' = [sent EXCEPT ![s] = @ + 1]
          \/ private' = private /\ sent' = sent
      BY <1>6, <2>1 DEF Publish
    <3>2. faults' \in Nat
      BY <1>6 DEF Publish
    <3> QED
      BY <2>2, <3>1, <3>2
  <2> QED
    BY <1>6, <2>3 DEF Publish, girder, nova, workers, memory
<1>7. CASE EndRound
  BY <1>7 DEF EndRound, girder, broker, nova, workers, memory, decision
<1>8. CASE Restart
  BY <1>8 DEF Restart, girder, broker, nova, workers, memory, decision
<1> QED
  BY <1>1, <1>2, <1>3, <1>4, <1>5, <1>6, <1>7, <1>8

LEMMA BootsTyped ==
  ASSUME TypeInv, NEW rung \in Nat \cup {None}, Boots(rung)
  PROVE  /\ Unused # {} /\ Min(Unused) \in Unused
         /\ server' \in [Instances -> ServerRecords]
<1>1. Unused \subseteq Nat /\ Unused \subseteq Instances
  BY IdsAssumption DEF Unused
<1>2. Unused # {}
  BY DEF Boots
<1>3. Min(Unused) \in Unused
  BY <1>1, <1>2, MinOfNaturals
<1>4. [status |-> "BUILD", age |-> 0, size |-> IF rung = None THEN FlavorRung ELSE rung]
        \in ServerRecords
  BY LimitsAssumption, BoundsAssumption DEF ServerRecords, Statuses
<1>5. server' \in [Instances -> ServerRecords]
  BY <1>4 DEF Boots, TypeInv, TypeOK, WorldTypeOK
<1> QED
  BY <1>2, <1>3, <1>5

LEMMA CreateTyped == TypeInv /\ CreateInstance => TypeInv'
<1> SUFFICES ASSUME TypeInv, CreateInstance PROVE TypeInv'
  OBVIOUS
<1> USE DEF TypeInv, TypeOK, WorldTypeOK, Fault, NoFault
<1>1. to_create # << >> /\ Head(to_create) \in Creates /\ Tail(to_create) \in Seq(Creates)
  BY HeadTailProperties DEF CreateInstance
<1>2. Head(to_create).rung \in Nat \cup {None}
  BY <1>1 DEF Creates
<1>3. server' \in [Instances -> ServerRecords]
  BY <1>2, BootsTyped DEF CreateInstance
<1>4. to_create' \in Seq(Creates) /\ faults' \in Nat
  <2>1. to_create' = Tail(to_create) \/ to_create' = << >>
    BY DEF CreateInstance
  <2>2. faults' \in Nat
    BY DEF CreateInstance
  <2> QED
    BY <1>1, <2>1, <2>2, EmptySeq
<1>5. /\ consecutive_failures' \in 0..BreakerThreshold
      /\ last_failure' \in Nat \cup {None}
      /\ to_create' # << >> => consecutive_failures' < BreakerThreshold
  BY <1>1, LimitsAssumption DEF CreateInstance
<1> QED
  BY <1>3, <1>4, <1>5 DEF CreateInstance, girder, broker, workers

LEMMA NextTyped == TypeInv /\ [Next]_vars => TypeInv'
<1> SUFFICES ASSUME TypeInv, [Next]_vars PROVE TypeInv'
  OBVIOUS
<1>1. CASE Round
  BY <1>1, GatherTyped, StepTyped, CreateTyped DEF Round
<1>2. CASE Breakdown
  BY <1>2, GatherTyped, StepTyped DEF Breakdown
<1>3. CASE Environment
  BY <1>3, GirderTyped, WorkerTyped DEF Environment
<1>4. CASE Tick
  BY <1>4, TickTyped
<1>5. CASE UNCHANGED vars
  BY <1>5 DEF TypeInv, TypeOK, WorldTypeOK, vars, world, girder, broker, nova, workers,
              process, memory, decision
<1> QED
  BY <1>1, <1>2, <1>3, <1>4, <1>5 DEF Next

\* In every state the loop and its deployment reach, each variable has its type; in
\* particular the breaker's counter never passes its threshold (controller.py).
THEOREM TypeCorrect == Spec => []TypeOK
<1>1. TypeInv => TypeOK
  BY DEF TypeInv
<1> QED
  BY <1>1, InitTyped, NextTyped, PTL DEF Spec

LEMMA TypeInvHolds == Spec => []TypeInv
BY InitTyped, NextTyped, PTL DEF Spec

-----------------------------------------------------------------------------
(***************************************************************************)
(* One chain per submission.  A chain is published by submit_job, which    *)
(* leaves no marker, or by the controller, which needs the marker and the  *)
(* empty worker_queue; the claim fills worker_queue and is never undone.   *)
(***************************************************************************)

Unsent(s) == sent[s] = 0

ChainInv ==
  /\ \A s \in Submissions :
       /\ sent[s] <= 1
       /\ job[s].status = "absent" => Unsent(s) /\ job[s].queue = None /\ ~job[s].awaiting
       /\ job[s].queue = None /\ job[s].awaiting => Unsent(s)
  /\ binding # None =>
       LET s == binding[1] IN job[s].queue # None /\ job[s].awaiting /\ Unsent(s)

\* Nothing else about a submission matters to it.
MarkersKept ==
  /\ \A s \in Submissions :
       /\ job'[s].queue = job[s].queue /\ job'[s].awaiting = job[s].awaiting
       /\ job'[s].status = "absent" => job[s].status = "absent"
  /\ sent' = sent
  /\ binding' \in {binding, None}

LEMMA MarkersKeptIsEnough == TypeInv /\ ChainInv /\ MarkersKept => ChainInv'
<1> SUFFICES ASSUME TypeInv, ChainInv, MarkersKept PROVE ChainInv'
  OBVIOUS
<1>1. binding \in (Submissions \X Instances) \cup {None}
  BY DEF TypeInv, TypeOK
<1> QED
  BY <1>1 DEF ChainInv, MarkersKept, Unsent

LEMMA QueueIsNotNone == \A i \in Instances : i # None
BY IdsAssumption, NoneAssumption

LEMMA GirderKeepsChains ==
  TypeInv /\ ChainInv /\ Girder /\ UNCHANGED process => ChainInv'
<1> SUFFICES ASSUME TypeInv, ChainInv, Girder, UNCHANGED process PROVE ChainInv'
  OBVIOUS
<1>1. binding' = binding /\ binding \in (Submissions \X Instances) \cup {None}
  BY DEF process, decision, TypeInv, TypeOK
<1>2. job \in [Submissions -> JobRecords] /\ sent \in [Submissions -> Nat]
  BY DEF TypeInv, TypeOK, WorldTypeOK
<1>3. CASE FlipArmed
  BY <1>1, <1>3, MarkersKeptIsEnough DEF FlipArmed, broker, MarkersKept
<1>4. ASSUME NEW s \in Submissions, Submit(s) PROVE ChainInv'
  <2>1. job[s].status = "absent" /\ Unsent(s) /\ job[s].queue = None /\ ~job[s].awaiting
    BY <1>4 DEF Submit, ChainInv
  <2>2. /\ job'[s].status # "absent" /\ job'[s].queue = None
        /\ \A t \in Submissions \ {s} : job'[t] = job[t]
    BY <1>2, <1>4, <2>1 DEF Submit, JobRecords
  <2>3. /\ job'[s].awaiting = armed
        /\ armed => sent' = sent
        /\ ~armed => sent' = [sent EXCEPT ![s] = @ + 1]
    <3>1. job[s] \in JobRecords
      BY <1>2
    <3>2. job'[s].awaiting = armed
      BY <1>2, <1>4, <3>1 DEF Submit, JobRecords
    <3>3. (armed => sent' = sent) /\ (~armed => sent' = [sent EXCEPT ![s] = @ + 1])
      BY <1>4, Zenon DEF Submit
    <3> QED
      BY <3>2, <3>3
  <2>4. binding # None => binding[1] \in Submissions \ {s}
    BY <1>1, <2>1 DEF ChainInv
  <2>5. CASE armed
    BY <1>1, <1>2, <2>1, <2>2, <2>3, <2>4, <2>5 DEF ChainInv, Unsent
  <2>6. CASE ~armed
    <3>1. sent'[s] = 1 /\ \A t \in Submissions \ {s} : sent'[t] = sent[t]
      BY <1>2, <2>1, <2>3, <2>6 DEF Unsent
    <3> QED
      BY <1>1, <1>2, <2>1, <2>2, <2>3, <2>4, <2>6, <3>1 DEF ChainInv, Unsent
  <2> QED
    BY <2>5, <2>6
<1>5. ASSUME NEW s \in Submissions,
             ReapSubmission(s) \/ CancelSubmission(s) \/ RemoveSubmission(s)
      PROVE  ChainInv'
  <2>1. sent' = sent
    BY <1>5 DEF ReapSubmission, CancelSubmission, RemoveSubmission, broker
  <2>2. \E status \in {"done", "removed"} : job' = [job EXCEPT ![s].status = status]
    BY <1>5 DEF ReapSubmission, CancelSubmission, RemoveSubmission
  <2>3. MarkersKept
    BY <1>1, <1>2, <2>1, <2>2 DEF MarkersKept, JobRecords
  <2> QED
    BY <2>3, MarkersKeptIsEnough
<1> QED
  BY <1>3, <1>4, <1>5 DEF Girder

LEMMA WorkerKeepsChains ==
  ASSUME NEW i \in Instances, TypeInv, ChainInv, Worker(i), UNCHANGED process
  PROVE  ChainInv'
<1>1. binding' = binding
  BY DEF process, decision
<1>2. job \in [Submissions -> JobRecords]
  BY DEF TypeInv, TypeOK, WorldTypeOK
<1>3. CASE \/ Boot(i) \/ Announce(i) \/ TakeShared(i) \/ TakePrivate(i)
           \/ PowerOff(i) \/ DieMidRun(i) \/ Wedge(i) \/ NovaDeletes(i)
  <2>1. job' = job /\ sent' = sent
    BY <1>3 DEF Boot, Announce, TakeShared, TakePrivate, PowerOff, DieMidRun, Wedge,
                NovaDeletes, girder, broker
  <2> QED
    BY <1>1, <2>1, MarkersKeptIsEnough DEF MarkersKept
<1>4. CASE Prepare(i)
  <2>1. PICK s \in Unclaimed(i) : job' = [job EXCEPT ![s].queue = i]
    BY <1>4 DEF Prepare
  <2>2. s \in Submissions /\ job[s].status = "RUNNING"
    BY DEF Unclaimed, Running, TypeInv, TypeOK, WorldTypeOK
  <2>3. sent' = sent
    BY <1>4 DEF Prepare, broker
  <2>4. /\ job'[s].queue = i /\ job'[s].status = "RUNNING" /\ job'[s].awaiting = job[s].awaiting
        /\ \A t \in Submissions \ {s} : job'[t] = job[t]
    BY <1>2, <2>1, <2>2 DEF JobRecords
  <2>5. binding \in (Submissions \X Instances) \cup {None}
    BY DEF TypeInv, TypeOK
  <2> QED
    BY <1>1, <2>2, <2>3, <2>4, <2>5, QueueIsNotNone DEF ChainInv, Unsent
<1>5. CASE Finish(i)
  <2>1. PICK s \in held[i] \ Unclaimed(i) :
          job' = IF Running(s) THEN [job EXCEPT ![s].status = "done"] ELSE job
    BY <1>5 DEF Finish
  <2>2. sent' = sent
    BY <1>5 DEF Finish, broker
  <2>3. MarkersKept
    BY <1>1, <1>2, <2>1, <2>2 DEF MarkersKept, JobRecords
  <2> QED
    BY <2>3, MarkersKeptIsEnough
<1> QED
  BY <1>3, <1>4, <1>5 DEF Worker

LEMMA RoundKeepsChains == TypeInv /\ ChainInv /\ (Round \/ Breakdown) => ChainInv'
<1> SUFFICES ASSUME TypeInv, ChainInv, Round \/ Breakdown PROVE ChainInv'
  OBVIOUS
<1>1. /\ job \in [Submissions -> JobRecords] /\ sent \in [Submissions -> Nat]
      /\ binding \in (Submissions \X Instances) \cup {None}
  BY DEF TypeInv, TypeOK, WorldTypeOK
<1>2. CASE \/ BeginRound \/ ReadInstances \/ ReadDepth \/ ReadSpent \/ ReadWaiting \/ Decide
           \/ (\E i \in Instances : DeleteInstance(i))
           \/ CreateInstance \/ EndRound \/ Restart \/ Breakdown
  <2>1. job' = job /\ sent' = sent
    BY <1>2 DEF BeginRound, ReadInstances, ReadDepth, ReadSpent, ReadWaiting, Decide,
                DeleteInstance, CreateInstance, EndRound, Restart, Breakdown, SkipRound,
                VolumesFlagUnreadable, Crash, Forget, girder, broker
  <2>2. binding' \in {binding, None}
    BY <1>2 DEF BeginRound, ReadInstances, ReadDepth, ReadSpent, ReadWaiting, Decide,
                DeleteInstance, CreateInstance, EndRound, Restart, Breakdown, SkipRound,
                VolumesFlagUnreadable, Crash, Forget, decision
  <2> QED
    BY <2>1, <2>2, MarkersKeptIsEnough DEF MarkersKept
<1>3. ASSUME NEW s \in Submissions, NEW i \in Instances, Claim(s, i)
      PROVE  ChainInv'
  <2>1. sent' = sent
    BY <1>3 DEF Claim, broker
  <2>2. CASE job' = job /\ binding' = binding
    BY <2>1, <2>2, MarkersKeptIsEnough DEF MarkersKept
  <2>3. CASE Claimable(s) /\ job' = [job EXCEPT ![s].queue = i] /\ binding' = <<s, i>>
    <3>1. /\ job'[s].queue = i /\ job'[s].awaiting
          /\ job'[s].status = job[s].status
          /\ \A t \in Submissions \ {s} : job'[t] = job[t]
      BY <1>1, <2>3 DEF Claimable, JobRecords
    <3>2. job[s].queue = None /\ job[s].awaiting
      BY <2>3 DEF Claimable
    <3>3. Unsent(s) /\ job[s].status # "absent"
      BY <3>2 DEF ChainInv
    <3>4. binding'[1] = s
      BY <2>3
    <3> QED
      BY <2>1, <3>1, <3>3, <3>4, QueueIsNotNone DEF ChainInv, Unsent
  <2> QED
    BY <1>3, <2>2, <2>3 DEF Claim
<1>4. CASE Publish
  <2>1. PICK s \in Submissions, i \in Instances : binding = <<s, i>>
    BY <1>1, <1>4 DEF Publish
  <2>2. job' = job /\ binding' = None
    BY <1>4 DEF Publish, girder
  <2>3. job[s].queue # None /\ job[s].awaiting /\ Unsent(s)
    <3>1. binding # None /\ binding[1] = s
      BY <1>4, <2>1 DEF Publish
    <3> QED
      BY <3>1 DEF ChainInv
  <2>4. sent' = sent \/ sent' = [sent EXCEPT ![s] = @ + 1]
    BY <1>4, <2>1 DEF Publish
  <2>5. sent'[s] <= 1 /\ \A t \in Submissions \ {s} : sent'[t] = sent[t]
    BY <1>1, <2>3, <2>4 DEF Unsent
  <2>6. job[s].status # "absent"
    BY <2>3 DEF ChainInv
  <2> QED
    BY <2>2, <2>3, <2>5, <2>6 DEF ChainInv, Unsent
<1> QED
  BY <1>2, <1>3, <1>4 DEF Round

LEMMA NextKeepsChains == TypeInv /\ ChainInv /\ [Next]_vars => ChainInv'
<1> SUFFICES ASSUME TypeInv, ChainInv, [Next]_vars PROVE ChainInv'
  OBVIOUS
<1>1. CASE Round \/ Breakdown
  BY <1>1, RoundKeepsChains
<1>2. CASE Environment
  BY <1>2, GirderKeepsChains, WorkerKeepsChains DEF Environment
<1>3. CASE Tick
  <2>1. job \in [Submissions -> JobRecords]
    BY DEF TypeInv, TypeOK, WorldTypeOK
  <2>2. sent' = sent /\ binding' = binding
    BY <1>3 DEF Tick, AgesAdvance, broker, decision
  <2>3. MarkersKept
    BY <1>3, <2>1, <2>2 DEF Tick, AgesAdvance, MarkersKept, JobRecords
  <2> QED
    BY <2>3, MarkersKeptIsEnough
<1>4. CASE UNCHANGED vars
  <2>1. job' = job /\ sent' = sent /\ binding' = binding
    BY <1>4 DEF vars, world, process, girder, broker, decision
  <2> QED
    BY <2>1, MarkersKeptIsEnough DEF MarkersKept
<1> QED
  BY <1>1, <1>2, <1>3, <1>4 DEF Next

\* Whatever crashes, fails to publish, claims from a stale reading or flips the arm flag,
\* no submission's chain is published twice: dispatch.py never undoes a claim.
THEOREM NoSecondChain == Spec => []AtMostOneChain
<1>1. Init => ChainInv
  BY DEF Init, WorldInit, ControllerInit, ChainInv, Unsent
<1>2. ChainInv => AtMostOneChain
  BY DEF ChainInv, AtMostOneChain
<1> QED
  BY <1>1, <1>2, NextKeepsChains, TypeInvHolds, PTL DEF Spec

-----------------------------------------------------------------------------
(***************************************************************************)
(* The cap.  Between the listing and the creates only the controller makes *)
(* servers, so the listing keeps covering what occupies a slot, and every  *)
(* create still to come has its slot reserved.                             *)
(***************************************************************************)

SnapshotLive == {i \in DOMAIN snap.instances : snap.instances[i].status \in {"BUILD", "ACTIVE"}}

CapInv ==
  /\ pc \in {"depth", "spent", "waiting", "decide"} => Occupying \subseteq SnapshotLive
  /\ pc # "act" => to_create = << >>
  /\ Cardinality(Occupying) + Len(to_create) <= MaxInstances

LEMMA OccupyingIsFinite ==
  /\ IsFiniteSet(Occupying) /\ Cardinality(Occupying) \in Nat
  /\ \A S : S \subseteq Occupying => Cardinality(S) \in Nat /\ Cardinality(S) <= Cardinality(Occupying)
<1>1. IsFiniteSet(Occupying)
  BY IdsAssumption, FS_Subset DEF Occupying
<1>2. ASSUME NEW S, S \subseteq Occupying
      PROVE  Cardinality(S) \in Nat /\ Cardinality(S) <= Cardinality(Occupying)
  BY <1>1, <1>2, FS_Subset, FS_CardinalityType
<1> QED
  BY <1>1, <1>2, FS_CardinalityType

LEMMA NoMoreServers ==
  ASSUME TypeInv, CapInv, Occupying' \subseteq Occupying,
         pc' = pc, snap'.instances = snap.instances, to_create' = to_create
  PROVE  CapInv'
<1>1. Len(to_create) \in Nat
  BY LenProperties DEF TypeInv, TypeOK
<1>2. Cardinality(Occupying') \in Nat /\ Cardinality(Occupying') <= Cardinality(Occupying)
  BY OccupyingIsFinite
<1>3. Cardinality(Occupying') + Len(to_create') <= MaxInstances
  BY <1>1, <1>2, OccupyingIsFinite, LimitsAssumption DEF CapInv
<1> QED
  BY <1>3 DEF CapInv, SnapshotLive

LEMMA EnvironmentKeepsCap == TypeInv /\ CapInv /\ (Environment \/ Tick) => CapInv'
<1> SUFFICES ASSUME TypeInv, CapInv, Environment \/ Tick PROVE CapInv'
  OBVIOUS
<1>1. pc' = pc /\ snap' = snap /\ to_create' = to_create
  BY DEF Environment, Tick, process, decision
<1>2. server \in [Instances -> ServerRecords]
  BY DEF TypeInv, TypeOK, WorldTypeOK
<1>3. Occupying' \subseteq Occupying
  <2>1. CASE Girder
    <3>1. server' = server
      BY <2>1 DEF Girder, FlipArmed, Submit, ReapSubmission, CancelSubmission,
                  RemoveSubmission, nova
    <3> QED
      BY <3>1 DEF Occupying
  <2>2. ASSUME NEW i \in Instances, Worker(i) PROVE Occupying' \subseteq Occupying
    <3>1. CASE \/ Announce(i) \/ TakeShared(i) \/ TakePrivate(i) \/ Prepare(i) \/ Finish(i)
               \/ Wedge(i)
      <4>1. server' = server
        BY <3>1 DEF Announce, TakeShared, TakePrivate, Prepare, Finish, Wedge, nova
      <4> QED
        BY <4>1 DEF Occupying
    <3>2. CASE Boot(i)
      <4>1. server[i].status = "BUILD" /\ \E x : server' = [server EXCEPT ![i].status = x]
        BY <3>2 DEF Boot
      <4> QED
        BY <1>2, <4>1 DEF Occupying, ServerRecords
    <3>3. CASE PowerOff(i) \/ DieMidRun(i) \/ NovaDeletes(i)
      <4>1. \E x \in {"SHUTOFF", "gone"} : server' = [server EXCEPT ![i].status = x]
        BY <3>3 DEF PowerOff, DieMidRun, NovaDeletes
      <4> QED
        BY <1>2, <4>1 DEF Occupying, ServerRecords
    <3> QED
      BY <2>2, <3>1, <3>2, <3>3 DEF Worker
  <2>3. CASE Tick
    <3>1. \A i \in Instances : server'[i].status = server[i].status
      BY <1>2, <2>3 DEF Tick, AgesAdvance, ServerRecords
    <3> QED
      BY <3>1 DEF Occupying
  <2> QED
    BY <2>1, <2>2, <2>3 DEF Environment
<1> QED
  BY <1>1, <1>3, NoMoreServers

\* The listing covers what occupies a slot from the moment it is made.
LEMMA GatherKeepsCap ==
  TypeInv /\ CapInv /\ (ReadInstances \/ ReadDepth \/ ReadSpent \/ ReadWaiting) => CapInv'
<1> SUFFICES ASSUME TypeInv, CapInv, ReadInstances \/ ReadDepth \/ ReadSpent \/ ReadWaiting
             PROVE  CapInv'
  OBVIOUS
<1>1. server' = server /\ to_create' = to_create /\ pc # "act" /\ pc' # "act"
  BY DEF ReadInstances, ReadDepth, ReadSpent, ReadWaiting, nova, decision
<1>2. Occupying' = Occupying
  BY <1>1 DEF Occupying
<1>3. IsSnapshot(snap)
  BY DEF TypeInv, TypeOK
<1>4. Occupying \subseteq SnapshotLive'
  <2>1. CASE ReadInstances
    <3>1. snap'.instances = [i \in Listed |-> [status |-> server[i].status, size |-> server[i].size]]
      BY <1>3, <2>1 DEF ReadInstances, IsSnapshot
    <3> QED
      BY <3>1 DEF SnapshotLive, Occupying, Listed
  <2>2. CASE ReadDepth \/ ReadSpent \/ ReadWaiting
    <3>1. snap'.instances = snap.instances
      BY <1>3, <2>2 DEF ReadDepth, ReadSpent, ReadWaiting, IsSnapshot
    <3>2. Occupying \subseteq SnapshotLive
      BY <2>2 DEF ReadDepth, ReadSpent, ReadWaiting, CapInv
    <3> QED
      BY <3>1, <3>2 DEF SnapshotLive
  <2> QED
    BY <2>1, <2>2
<1> QED
  BY <1>1, <1>2, <1>4 DEF CapInv

LEMMA DecideKeepsCap == TypeInv /\ CapInv /\ Decide => CapInv'
<1> SUFFICES ASSUME TypeInv, CapInv, Decide PROVE CapInv'
  OBVIOUS
<1>1. server' = server /\ pc = "decide" /\ pc' = "act" /\ to_create' = Create(FleetState, Limits)
  BY DEF Decide, nova
<1>2. Occupying' = Occupying
  BY <1>1 DEF Occupying
<1>3. Occupying \subseteq SnapshotLive /\ to_create = << >>
  BY <1>1 DEF CapInv
<1>4. SnapshotLive = Live(FleetState)
  BY DEF SnapshotLive, Live, FleetState
<1>5. CASE to_create' = << >>
  BY <1>1, <1>2, <1>3, <1>5 DEF CapInv
<1>6. CASE to_create' # << >>
  <2>1. Cardinality(Live(FleetState)) + Len(to_create') <= MaxInstances /\ to_create' \in Seq(Creates)
    BY <1>1, <1>6, DecisionIsTyped DEF TypeInv
  <2>2. IsFiniteSet(Live(FleetState)) /\ Cardinality(Live(FleetState)) \in Nat
    BY SnapshotIsCountable, CountsAreNaturals DEF TypeInv
  <2>3. Cardinality(Occupying) <= Cardinality(Live(FleetState))
    BY <1>3, <1>4, <2>2, FS_Subset
  <2>4. Len(to_create') \in Nat
    BY <2>1, LenProperties
  <2>5. Cardinality(Occupying) + Len(to_create') <= MaxInstances
    BY <2>1, <2>2, <2>3, <2>4, OccupyingIsFinite, LimitsAssumption
  <2> QED
    BY <1>1, <1>2, <2>5 DEF CapInv
<1> QED
  BY <1>5, <1>6

LEMMA CreateKeepsCap == TypeInv /\ CapInv /\ CreateInstance => CapInv'
<1> SUFFICES ASSUME TypeInv, CapInv, CreateInstance PROVE CapInv'
  OBVIOUS
<1>1. pc = "act" /\ pc' = "act"
  BY DEF CreateInstance
<1>2. to_create # << >> /\ to_create \in Seq(Creates)
  BY DEF CreateInstance, TypeInv, TypeOK
<1>3. /\ Head(to_create).rung \in Nat \cup {None}
      /\ Len(to_create) \in Nat \ {0} /\ Len(Tail(to_create)) = Len(to_create) - 1
  <2>1. Head(to_create) \in Creates
    BY <1>2, HeadTailProperties
  <2>2. Len(to_create) \in Nat \ {0} /\ Len(Tail(to_create)) = Len(to_create) - 1
    BY <1>2, HeadTailProperties, EmptySeq
  <2> QED
    BY <2>1, <2>2 DEF Creates
<1>4. to_create' \in {Tail(to_create), << >>}
  BY DEF CreateInstance
<1>5. Len(to_create') <= Len(to_create) - 1 /\ Len(to_create') \in Nat
  BY <1>3, <1>4, EmptySeq
<1>6. ASSUME Boots(Head(to_create).rung)
      PROVE  /\ IsFiniteSet(Occupying')
             /\ Cardinality(Occupying') <= Cardinality(Occupying) + 1
             /\ Cardinality(Occupying') \in Nat
  <2>1. Occupying' \subseteq Occupying \cup {Min(Unused)}
    BY <1>6 DEF Boots, Occupying, TypeInv, TypeOK, WorldTypeOK
  <2>2. /\ IsFiniteSet(Occupying \cup {Min(Unused)})
        /\ Cardinality(Occupying \cup {Min(Unused)}) <= Cardinality(Occupying) + 1
    BY OccupyingIsFinite, FS_AddElement
  <2> QED
    BY <2>1, <2>2, OccupyingIsFinite, FS_Subset, FS_CardinalityType
<1>7. CASE Boots(Head(to_create).rung)
  <2>1. Cardinality(Occupying') + Len(to_create') <= MaxInstances
    BY <1>3, <1>5, <1>6, <1>7, OccupyingIsFinite, LimitsAssumption DEF CapInv
  <2> QED
    BY <1>1, <2>1 DEF CapInv
<1>8. CASE server' = server
  <2>1. Occupying' = Occupying
    BY <1>8 DEF Occupying
  <2>2. Cardinality(Occupying') + Len(to_create') <= MaxInstances
    BY <1>3, <1>5, <2>1, OccupyingIsFinite, LimitsAssumption DEF CapInv
  <2> QED
    BY <1>1, <2>2 DEF CapInv
<1> QED
  BY <1>7, <1>8 DEF CreateInstance

LEMMA StepKeepsCap ==
  ASSUME TypeInv, CapInv,
         \/ BeginRound \/ SkipRound \/ VolumesFlagUnreadable \/ Crash
         \/ (\E i \in Instances : DeleteInstance(i))
         \/ (\E s \in Submissions, i \in Instances : Claim(s, i))
         \/ Publish \/ EndRound \/ Restart
  PROVE  CapInv'
<1>1. server' = server
  BY DEF BeginRound, SkipRound, VolumesFlagUnreadable, Crash, Forget, DeleteInstance, Claim,
         Publish, EndRound, Restart, nova
<1>2. Occupying' = Occupying
  BY <1>1 DEF Occupying
<1>3. CASE BeginRound \/ SkipRound \/ EndRound \/ Restart
  <2>1. /\ to_create' = to_create /\ to_create = << >>
        /\ pc' \notin {"act", "depth", "spent", "waiting", "decide"}
    BY <1>3 DEF BeginRound, SkipRound, EndRound, Restart, CapInv, decision
  <2> QED
    BY <1>2, <2>1 DEF CapInv
<1>4. CASE VolumesFlagUnreadable \/ Crash
  <2>1. to_create' = << >> /\ pc' = "down"
    BY <1>4 DEF VolumesFlagUnreadable, Crash, Forget
  <2>2. Len(to_create) \in Nat /\ Len(<< >>) = 0
    BY LenProperties, EmptySeq DEF TypeInv, TypeOK
  <2> QED
    BY <1>2, <2>1, <2>2, OccupyingIsFinite, LimitsAssumption DEF CapInv
<1>5. CASE \/ (\E i \in Instances : DeleteInstance(i))
           \/ (\E s \in Submissions, i \in Instances : Claim(s, i)) \/ Publish
  <2>1. pc' = pc /\ snap' = snap /\ to_create' = to_create
    BY <1>5 DEF DeleteInstance, Claim, Publish
  <2> QED
    BY <1>2, <2>1, NoMoreServers
<1> QED
  BY <1>3, <1>4, <1>5

\* The servers that are booting or running never exceed max_instances, although the count
\* was taken several calls before the creates it allows, and whichever of them fail.
THEOREM CapHolds == Spec => []CapRespected
<1>1. Init => CapInv
  <2> SUFFICES ASSUME Init PROVE CapInv
    OBVIOUS
  <2>1. Occupying = {} /\ to_create = << >> /\ pc = "idle"
    BY DEF Init, WorldInit, ControllerInit, Occupying
  <2> QED
    BY <2>1, FS_EmptySet, EmptySeq, LimitsAssumption DEF CapInv
<1>2. TypeInv /\ CapInv /\ [Next]_vars => CapInv'
  <2> SUFFICES ASSUME TypeInv, CapInv, [Next]_vars PROVE CapInv'
    OBVIOUS
  <2>1. CASE Round \/ Breakdown
    BY <2>1, GatherKeepsCap, DecideKeepsCap, CreateKeepsCap, StepKeepsCap DEF Round, Breakdown
  <2>2. CASE Environment \/ Tick
    BY <2>2, EnvironmentKeepsCap
  <2>3. CASE UNCHANGED vars
    <3>1. server' = server /\ pc' = pc /\ snap' = snap /\ to_create' = to_create
      BY <2>3 DEF vars, world, nova, process, decision
    <3>2. Occupying' = Occupying
      BY <3>1 DEF Occupying
    <3> QED
      BY <3>1, <3>2, NoMoreServers
  <2> QED
    BY <2>1, <2>2, <2>3 DEF Next
<1>3. TypeInv /\ CapInv => CapRespected
  <2>1. TypeInv => Len(to_create) \in Nat
    BY LenProperties DEF TypeInv, TypeOK
  <2> QED
    BY <2>1, OccupyingIsFinite, LimitsAssumption DEF CapInv, CapRespected
<1> QED
  BY <1>1, <1>2, <1>3, TypeInvHolds, PTL DEF Spec

-----------------------------------------------------------------------------
(***************************************************************************)
(* Controller implements Placement.                                        *)
(*                                                                         *)
(* Beside ChainInv the argument needs to know where a chain is: HoldInv    *)
(* says that it is in one place, and that an instance that holds it is the *)
(* worker on record as soon as there is one.                               *)
(***************************************************************************)

HoldInv ==
  /\ \A m, n \in DOMAIN dispatch : dispatch[m] = dispatch[n] => m = n
  /\ \A s \in Queued :
       ~job[s].awaiting /\ job[s].queue = None /\ Holders(s) = {} /\ sent[s] = 1
  /\ \A s \in Submissions : \A i \in Holders(s) :
       /\ sent[s] = 1
       /\ \A j \in Holders(s) : j = i
       /\ job[s].awaiting \/ job[s].queue # None => job[s].queue = i
  /\ binding # None => job[binding[1]].queue = binding[2]

Inv == TypeInv /\ ChainInv /\ HoldInv

LEMMA InvTypes ==
  ASSUME Inv
  PROVE  /\ job \in [Submissions -> JobRecords]
         /\ sent \in [Submissions -> Nat]
         /\ dispatch \in Seq(Submissions) /\ Queued \subseteq Submissions
         /\ private \in [Instances -> SUBSET Submissions]
         /\ held \in [Instances -> SUBSET Submissions]
         /\ binding \in (Submissions \X Instances) \cup {None}
BY DEF Inv, TypeInv, TypeOK, WorldTypeOK, Queued

-----------------------------------------------------------------------------
(***************************************************************************)
(* Steps that move no chain.                                               *)
(***************************************************************************)

\* What each step must show.
Implements == HoldInv' /\ [Promise!Next]_(Promise!vars)

ChainsStay ==
  /\ dispatch' = dispatch /\ sent' = sent
  /\ \A s \in Submissions : Holders(s)' = Holders(s)

LEMMA ChainsUntouched == UNCHANGED <<dispatch, private, held, sent>> => ChainsStay
BY DEF ChainsStay, Holders

\* What the mapping reads of a job.
SameJob(s) ==
  /\ job'[s].status = job[s].status
  /\ job'[s].queue = job[s].queue
  /\ job'[s].awaiting = job[s].awaiting

LEMMA Stutter ==
  ASSUME Inv, ChainsStay, \A s \in Submissions : SameJob(s), binding' \in {binding, None}
  PROVE  Implements
<1>1. Queued' = Queued /\ Queued \subseteq Submissions
  BY InvTypes DEF ChainsStay, Queued
<1>2. HoldInv'
  <2>1. \A s \in Queued : ~job'[s].awaiting /\ job'[s].queue = None /\ Holders(s)' = {} /\ sent'[s] = 1
    BY <1>1 DEF Inv, HoldInv, ChainsStay, SameJob
  <2>2. \A s \in Submissions : \A i \in Holders(s)' :
          /\ sent'[s] = 1
          /\ \A j \in Holders(s)' : j = i
          /\ job'[s].awaiting \/ job'[s].queue # None => job'[s].queue = i
    BY DEF Inv, HoldInv, ChainsStay, SameJob
  <2>3. binding' # None => job'[binding'[1]].queue = binding'[2]
    BY InvTypes DEF Inv, HoldInv, SameJob
  <2> QED
    BY <1>1, <2>1, <2>2, <2>3 DEF Inv, HoldInv, ChainsStay
<1>3. \A s \in Submissions : Path(s)' = Path(s) /\ Running(s)' = Running(s)
  BY DEF SameJob, Path, Running
<1>4. UNCHANGED Promise!vars
  BY <1>1, <1>3 DEF Promise!vars, ChainsStay, SameJob
<1> QED
  BY <1>2, <1>4 DEF Implements

\* Chains that end where they are held, and are held nowhere else.
ChainsLost(lost) ==
  /\ dispatch' = dispatch /\ sent' = sent
  /\ \A s \in Submissions : Holders(s)' = IF s \in lost THEN {} ELSE Holders(s)

LEMMA LostChains ==
  ASSUME Inv, NEW lost \in SUBSET Submissions, ChainsLost(lost),
         \A s \in Submissions : SameJob(s), binding' = binding
  PROVE  Implements
<1>1. Queued' = Queued /\ Queued \subseteq Submissions
  BY InvTypes DEF ChainsLost, Queued
<1>2. HoldInv'
  <2>1. \A s \in Queued : ~job'[s].awaiting /\ job'[s].queue = None /\ Holders(s)' = {} /\ sent'[s] = 1
    BY <1>1 DEF Inv, HoldInv, ChainsLost, SameJob
  <2>2. \A s \in Submissions : \A i \in Holders(s)' :
          /\ sent'[s] = 1
          /\ \A j \in Holders(s)' : j = i
          /\ job'[s].awaiting \/ job'[s].queue # None => job'[s].queue = i
    BY DEF Inv, HoldInv, ChainsLost, SameJob
  <2>3. binding' # None => job'[binding'[1]].queue = binding'[2]
    BY InvTypes DEF Inv, HoldInv, SameJob
  <2> QED
    BY <1>1, <2>1, <2>2, <2>3 DEF Inv, HoldInv, ChainsLost
<1>3. \A s \in Submissions : Path(s)' = Path(s) /\ Running(s)' = Running(s)
  BY DEF SameJob, Path, Running
<1>4. Promise!Lose(lost)
  BY <1>1, <1>3 DEF Promise!Lose, ChainsLost, SameJob
<1> QED
  BY <1>2, <1>4 DEF Implements, Promise!Next

\* A submission ends, with its chain or while it is elsewhere.
LEMMA EndOfSubmission ==
  ASSUME Inv, binding' = binding, NEW s \in Submissions,
         ChainsStay \/ ChainsLost({s}),
         Running(s), job' = [job EXCEPT ![s].status = "done"]
  PROVE  Implements
<1>1. Queued' = Queued /\ Queued \subseteq Submissions /\ sent' = sent
  BY InvTypes DEF ChainsStay, ChainsLost, Queued
<1>2. /\ job'[s].status = "done" /\ job[s].status = "RUNNING"
      /\ job'[s].queue = job[s].queue /\ job'[s].awaiting = job[s].awaiting
      /\ \A t \in Submissions \ {s} : job'[t] = job[t]
  BY InvTypes DEF JobRecords, Running
<1>3. HoldInv'
  BY <1>1, <1>2, InvTypes DEF Inv, HoldInv, ChainsStay, ChainsLost
<1>4. Promise!End(s)
  <2>1. \A t \in Submissions : Path(t)' = Path(t)
    BY <1>2 DEF Path
  <2>2. {t \in Submissions : Running(t)}' = {t \in Submissions : Running(t)} \ {s}
    BY <1>2 DEF Running
  <2>3. \A t \in Submissions : job'[t].queue = job[t].queue
    BY <1>2
  <2>4. CASE ChainsStay
    BY <1>1, <1>2, <2>1, <2>2, <2>3, <2>4 DEF Promise!End, ChainsStay, Running
  <2>5. CASE ChainsLost({s})
    <3>1. [t \in Submissions |-> Holders(t)'] = [[t \in Submissions |-> Holders(t)] EXCEPT ![s] = {}]
      BY <2>5 DEF ChainsLost
    <3> QED
      BY <1>1, <1>2, <2>1, <2>2, <2>3, <3>1 DEF Promise!End, Running
  <2> QED
    BY <2>4, <2>5
<1> QED
  BY <1>3, <1>4 DEF Implements, Promise!Next

-----------------------------------------------------------------------------
(***************************************************************************)
(* Girder.                                                                 *)
(***************************************************************************)

LEMMA SubmitImplements ==
  ASSUME Inv, NEW s \in Submissions, Submit(s), UNCHANGED process
  PROVE  Implements
<1>1. /\ job[s].status = "absent" /\ sent[s] = 0 /\ job[s].queue = None /\ ~job[s].awaiting
      /\ binding' = binding
  BY DEF Inv, Submit, ChainInv, Unsent, process, decision
<1>2. /\ job'[s].status = "RUNNING" /\ job'[s].queue = None /\ job'[s].awaiting = armed
      /\ \A t \in Submissions \ {s} : job'[t] = job[t]
  <2>1. job[s] \in JobRecords
    BY InvTypes
  <2> QED
    BY <1>1, <2>1, InvTypes DEF Submit, JobRecords
<1>3. \A t \in Submissions : Holders(t)' = Holders(t)
  BY DEF Submit, workers, Holders
<1>4. Holders(s) = {} /\ s \notin Queued
  BY <1>1 DEF Inv, HoldInv
<1>5. /\ \A t \in Submissions \ {s} : Path(t)' = Path(t) /\ Running(t)' = Running(t)
      /\ Path(s) = "none" /\ Path(s)' = IF armed THEN "controller" ELSE "girder"
      /\ Running(s)'
      /\ \A t \in Submissions : job'[t].queue = job[t].queue
  BY <1>1, <1>2 DEF Path, Running
<1>6. binding # None => binding[1] \in Submissions \ {s}
  BY <1>1, InvTypes DEF Inv, ChainInv
<1>7. CASE armed
  <2>1. dispatch' = dispatch /\ sent' = sent /\ Queued' = Queued /\ Queued \subseteq Submissions
    BY <1>7, InvTypes DEF Submit, Queued
  <2>2. \A t \in Queued : ~job'[t].awaiting /\ job'[t].queue = None
    BY <1>2, <1>4, <2>1 DEF Inv, HoldInv
  <2>3. HoldInv'
    BY <1>1, <1>2, <1>3, <1>4, <1>6, <2>1, <2>2, InvTypes DEF Inv, HoldInv
  <2>4. Promise!Record(s)
    BY <1>3, <1>5, <1>7, <2>1 DEF Promise!Record
  <2> QED
    BY <2>3, <2>4 DEF Implements, Promise!Next
<1>8. CASE ~armed
  <2>1. dispatch' = Append(dispatch, s) /\ sent' = [sent EXCEPT ![s] = @ + 1]
    BY <1>8, Zenon DEF Submit
  <2>2. sent'[s] = 1 /\ \A t \in Submissions \ {s} : sent'[t] = sent[t]
    BY <1>1, <2>1, InvTypes
  <2>3. /\ DOMAIN dispatch = 1..Len(dispatch) /\ Len(dispatch) \in Nat
        /\ DOMAIN dispatch' = 1..(Len(dispatch) + 1)
        /\ \A n \in DOMAIN dispatch : dispatch'[n] = dispatch[n]
        /\ dispatch'[Len(dispatch) + 1] = s
    BY <2>1, InvTypes
  <2>4. Queued' = Queued \cup {s} /\ Queued \subseteq Submissions
    <3>1. DOMAIN dispatch' = DOMAIN dispatch \cup {Len(dispatch) + 1}
      BY <2>3
    <3> QED
      BY <2>3, <3>1, InvTypes DEF Queued
  <2>5. \A m, n \in DOMAIN dispatch' : dispatch'[m] = dispatch'[n] => m = n
    <3>1. \A n \in DOMAIN dispatch : dispatch[n] # s
      BY <1>4 DEF Queued
    <3> QED
      BY <2>3, <3>1 DEF Inv, HoldInv
  <2>6. \A t \in Queued' : ~job'[t].awaiting /\ job'[t].queue = None /\ Holders(t)' = {} /\ sent'[t] = 1
    BY <1>2, <1>3, <1>4, <1>8, <2>2, <2>4 DEF Inv, HoldInv
  <2>7. HoldInv'
    <3>1. \A t \in Submissions : \A i \in Holders(t)' :
            /\ sent'[t] = 1
            /\ \A j \in Holders(t)' : j = i
            /\ job'[t].awaiting \/ job'[t].queue # None => job'[t].queue = i
      BY <1>2, <1>3, <1>4, <2>2 DEF Inv, HoldInv
    <3>2. binding' # None => job'[binding'[1]].queue = binding'[2]
      BY <1>1, <1>2, <1>6 DEF Inv, HoldInv
    <3> QED
      BY <2>5, <2>6, <3>1, <3>2 DEF HoldInv
  <2>8. {t \in Submissions : sent[t] > 0}' = {t \in Submissions : sent[t] > 0} \cup {s}
    BY <2>2
  <2>9. Promise!Dispatch(s)
    BY <1>3, <1>5, <1>8, <2>4, <2>8 DEF Promise!Dispatch
  <2> QED
    BY <2>7, <2>9 DEF Implements, Promise!Next
<1> QED
  BY <1>7, <1>8

LEMMA GirderImplements ==
  ASSUME Inv, Girder, UNCHANGED process
  PROVE  Implements
<1>1. binding' = binding
  BY DEF process, decision
<1>2. CASE FlipArmed
  <2>1. job' = job /\ UNCHANGED <<dispatch, private, held, sent>>
    BY <1>2 DEF FlipArmed, broker, workers
  <2> QED
    BY <1>1, <2>1, ChainsUntouched, Stutter DEF SameJob
<1>3. ASSUME NEW s \in Submissions, ReapSubmission(s) \/ CancelSubmission(s)
      PROVE  Implements
  <2>1. /\ Running(s) /\ job' = [job EXCEPT ![s].status = "done"]
        /\ UNCHANGED <<dispatch, private, held, sent>>
    BY <1>3 DEF ReapSubmission, CancelSubmission, broker, workers
  <2> QED
    BY <1>1, <2>1, ChainsUntouched, EndOfSubmission
<1>4. ASSUME NEW s \in Submissions, RemoveSubmission(s)
      PROVE  Implements
  <2>1. UNCHANGED <<dispatch, private, held, sent>> /\ job[s].status = "done"
    BY <1>4 DEF RemoveSubmission, broker, workers
  <2>2. /\ job'[s].status = "removed"
        /\ job'[s].queue = job[s].queue /\ job'[s].awaiting = job[s].awaiting
        /\ \A t \in Submissions \ {s} : job'[t] = job[t]
    BY <1>4, InvTypes DEF RemoveSubmission, JobRecords
  <2>3. Queued' = Queued /\ Queued \subseteq Submissions
    BY <2>1, InvTypes DEF Queued
  <2>4. \A t \in Submissions : Holders(t)' = Holders(t)
    BY <2>1 DEF Holders
  <2>5. HoldInv'
    <3>1. \A t \in Submissions : job'[t].queue = job[t].queue /\ job'[t].awaiting = job[t].awaiting
      BY <2>2
    <3>2. \A t \in Queued : ~job'[t].awaiting /\ job'[t].queue = None /\ Holders(t)' = {} /\ sent'[t] = 1
      BY <2>1, <2>3, <2>4, <3>1 DEF Inv, HoldInv
    <3>3. \A t \in Submissions : \A i \in Holders(t)' :
            /\ sent'[t] = 1
            /\ \A j \in Holders(t)' : j = i
            /\ job'[t].awaiting \/ job'[t].queue # None => job'[t].queue = i
      BY <2>1, <2>4, <3>1 DEF Inv, HoldInv
    <3>4. binding' # None => job'[binding'[1]].queue = binding'[2]
      BY <1>1, <3>1, InvTypes DEF Inv, HoldInv
    <3> QED
      BY <2>1, <2>3, <3>2, <3>3, <3>4 DEF Inv, HoldInv
  <2>6. \A t \in Submissions :
          Path(t)' = Path(t) /\ Running(t)' = Running(t) /\ job'[t].queue = job[t].queue
    BY <2>1, <2>2 DEF Path, Running
  <2>7. UNCHANGED Promise!vars
    BY <2>1, <2>3, <2>4, <2>6 DEF Promise!vars
  <2> QED
    BY <2>5, <2>7 DEF Implements
<1> QED
  BY <1>2, <1>3, <1>4, SubmitImplements DEF Girder

-----------------------------------------------------------------------------
(***************************************************************************)
(* Workers.                                                                *)
(***************************************************************************)

LEMMA TakeSharedImplements ==
  ASSUME Inv, NEW i \in Instances, TakeShared(i), UNCHANGED process
  PROVE  Implements
<1>0. dispatch # << >> /\ dispatch' = Tail(dispatch)
  BY DEF TakeShared
<1>2. /\ DOMAIN dispatch = 1..Len(dispatch) /\ Len(dispatch) \in Nat \ {0}
      /\ DOMAIN dispatch' = 1..(Len(dispatch) - 1)
      /\ \A n \in DOMAIN dispatch' : dispatch'[n] = dispatch[n + 1]
      /\ Head(dispatch) = dispatch[1]
  BY <1>0, InvTypes
<1>3. PICK s \in Submissions : s = dispatch[1] /\ s \in Queued
  <2>1. 1 \in DOMAIN dispatch
    BY <1>2
  <2>2. dispatch[1] \in Queued
    BY <2>1 DEF Queued
  <2> QED
    BY <2>2, InvTypes
<1>1. /\ job' = job /\ sent' = sent /\ private' = private
      /\ held' = [held EXCEPT ![i] = @ \cup {s}] /\ binding' = binding
  BY <1>2, <1>3 DEF TakeShared, girder, process, decision
<1>4. ~job[s].awaiting /\ job[s].queue = None /\ Holders(s) = {} /\ sent[s] = 1
  BY <1>3 DEF Inv, HoldInv
<1>5. Queued' = Queued \ {s}
  <2>1. \A n \in DOMAIN dispatch' : n + 1 \in DOMAIN dispatch /\ n + 1 # 1
    BY <1>2
  <2>2. \A n \in DOMAIN dispatch : n # 1 => n - 1 \in DOMAIN dispatch' /\ (n - 1) + 1 = n
    BY <1>2
  <2>3. \A n \in DOMAIN dispatch : n # 1 => dispatch[n] # s
    BY <1>2, <1>3 DEF Inv, HoldInv
  <2>4. \A t \in Queued' : t \in Queued \ {s}
    BY <1>2, <2>1, <2>3 DEF Queued
  <2>5. \A t \in Queued \ {s} : t \in Queued'
    <3> SUFFICES ASSUME NEW t \in Queued \ {s} PROVE t \in Queued'
      OBVIOUS
    <3>1. PICK n \in DOMAIN dispatch : t = dispatch[n]
      BY DEF Queued
    <3>2. n # 1
      BY <1>3, <3>1
    <3>3. n - 1 \in DOMAIN dispatch' /\ (n - 1) + 1 = n
      BY <2>2, <3>2
    <3>4. dispatch'[n - 1] = t
      BY <1>2, <3>1, <3>3
    <3> QED
      BY <3>3, <3>4 DEF Queued
  <2> QED
    BY <2>4, <2>5
<1>6. /\ Holders(s)' = {i}
      /\ \A t \in Submissions \ {s} : Holders(t)' = Holders(t)
  BY <1>1, <1>4, InvTypes DEF Holders
<1>7. HoldInv'
  <2>1. \A m, n \in DOMAIN dispatch' : dispatch'[m] = dispatch'[n] => m = n
    BY <1>2 DEF Inv, HoldInv
  <2>2. \A t \in Queued' : ~job'[t].awaiting /\ job'[t].queue = None /\ Holders(t)' = {} /\ sent'[t] = 1
    BY <1>1, <1>5, <1>6, InvTypes DEF Inv, HoldInv
  <2>3. \A t \in Submissions : \A j \in Holders(t)' :
          /\ sent'[t] = 1
          /\ \A k \in Holders(t)' : k = j
          /\ job'[t].awaiting \/ job'[t].queue # None => job'[t].queue = j
    BY <1>1, <1>4, <1>6 DEF Inv, HoldInv
  <2> QED
    BY <1>1, <2>1, <2>2, <2>3 DEF Inv, HoldInv
<1>8. Promise!Reserve(s, i)
  <2>1. \A t \in Submissions : Path(t)' = Path(t) /\ Running(t)' = Running(t)
    BY <1>1 DEF Path, Running
  <2>2. [t \in Submissions |-> Holders(t)'] = [[t \in Submissions |-> Holders(t)] EXCEPT ![s] = {i}]
    BY <1>3, <1>6
  <2> QED
    BY <1>1, <1>3, <1>5, <2>1, <2>2 DEF Promise!Reserve
<1> QED
  BY <1>3, <1>7, <1>8 DEF Implements, Promise!Next

LEMMA PrepareImplements ==
  ASSUME Inv, NEW i \in Instances, Prepare(i), UNCHANGED process
  PROVE  Implements
<1>1. PICK s \in Unclaimed(i) : job' = [job EXCEPT ![s].queue = i]
  BY DEF Prepare
<1>2. /\ s \in Submissions /\ s \in held[i] /\ Running(s) /\ job[s].queue # i
      /\ binding' = binding /\ UNCHANGED <<dispatch, private, held, sent>>
  BY InvTypes DEF Unclaimed, Prepare, broker, process, decision
<1>3. /\ i \in Holders(s) /\ Holders(s) = {i} /\ sent[s] = 1
      /\ ~job[s].awaiting /\ job[s].queue = None
  <2>1. i \in Holders(s)
    BY <1>2 DEF Holders
  <2>2. sent[s] = 1 /\ \A j \in Holders(s) : j = i
    BY <1>2, <2>1 DEF Inv, HoldInv
  <2>3. job[s].awaiting \/ job[s].queue # None => job[s].queue = i
    BY <1>2, <2>1 DEF Inv, HoldInv
  <2> QED
    BY <1>2, <2>1, <2>2, <2>3
<1>4. /\ job'[s].queue = i /\ job'[s].status = job[s].status /\ ~job'[s].awaiting
      /\ \A t \in Submissions \ {s} : job'[t] = job[t]
  BY <1>1, <1>2, <1>3, InvTypes DEF JobRecords
<1>5. /\ Queued' = Queued /\ Queued \subseteq Submissions /\ s \notin Queued
      /\ \A t \in Submissions : Holders(t)' = Holders(t)
  <2>1. Queued' = Queued /\ Queued \subseteq Submissions
    BY <1>2, InvTypes DEF Queued
  <2>2. s \notin Queued
    BY <1>3 DEF Inv, HoldInv
  <2>3. \A t \in Submissions : Holders(t)' = Holders(t)
    BY <1>2 DEF Holders
  <2> QED
    BY <2>1, <2>2, <2>3
<1>6. binding # None => binding[1] \in Submissions \ {s}
  BY <1>3, InvTypes DEF Inv, ChainInv
<1>7. HoldInv'
  <2>1. \A t \in Queued : ~job'[t].awaiting /\ job'[t].queue = None /\ Holders(t)' = {} /\ sent'[t] = 1
    BY <1>2, <1>4, <1>5 DEF Inv, HoldInv
  <2>2. \A t \in Submissions : \A j \in Holders(t)' :
          /\ sent'[t] = 1
          /\ \A k \in Holders(t)' : k = j
          /\ job'[t].awaiting \/ job'[t].queue # None => job'[t].queue = j
    BY <1>2, <1>3, <1>4, <1>5 DEF Inv, HoldInv
  <2>3. binding' # None => job'[binding'[1]].queue = binding'[2]
    BY <1>2, <1>4, <1>6 DEF Inv, HoldInv
  <2> QED
    BY <1>2, <1>5, <2>1, <2>2, <2>3 DEF Inv, HoldInv
<1>8. Promise!Prepare(s, i)
  <2>1. Path(s) = "girder" /\ \A t \in Submissions : Path(t)' = Path(t) /\ Running(t)' = Running(t)
    BY <1>2, <1>3, <1>4 DEF Path, Running
  <2>2. [t \in Submissions |-> job'[t].queue] = [[t \in Submissions |-> job[t].queue] EXCEPT ![s] = i]
    BY <1>2, <1>4
  <2> QED
    BY <1>2, <1>3, <1>5, <2>1, <2>2 DEF Promise!Prepare
<1> QED
  BY <1>2, <1>7, <1>8 DEF Implements, Promise!Next

LEMMA WorkerImplements ==
  ASSUME Inv, NEW i \in Instances, Worker(i), UNCHANGED process
  PROVE  Implements
<1>1. binding' = binding
  BY DEF process, decision
<1>2. CASE Boot(i) \/ Announce(i) \/ PowerOff(i) \/ Wedge(i)
  <2>1. job' = job /\ UNCHANGED <<dispatch, private, held, sent>>
    BY <1>2 DEF Boot, Announce, PowerOff, Wedge, girder, broker, nova
  <2> QED
    BY <1>1, <2>1, ChainsUntouched, Stutter DEF SameJob
<1>3. CASE TakePrivate(i)
  <2>1. PICK s \in private[i] : /\ private' = [private EXCEPT ![i] = @ \ {s}]
                                /\ held' = [held EXCEPT ![i] = @ \cup {s}]
    BY <1>3 DEF TakePrivate
  <2>2. job' = job /\ dispatch' = dispatch /\ sent' = sent
    BY <1>3 DEF TakePrivate, girder
  <2>3. ChainsStay
    BY <2>1, <2>2, InvTypes DEF ChainsStay, Holders
  <2> QED
    BY <1>1, <2>2, <2>3, Stutter DEF SameJob
<1>4. CASE Finish(i)
  <2>1. PICK s \in held[i] \ Unclaimed(i) :
          /\ held' = [held EXCEPT ![i] = @ \ {s}]
          /\ job' = IF Running(s) THEN [job EXCEPT ![s].status = "done"] ELSE job
    BY <1>4 DEF Finish
  <2>2. dispatch' = dispatch /\ sent' = sent /\ private' = private /\ s \in Submissions
    BY <1>4, InvTypes DEF Finish, broker
  <2>3. \A t \in Submissions \ {s} : Holders(t)' = Holders(t)
    BY <2>1, <2>2, InvTypes DEF Holders
  <2>4. Holders(s)' = {} \/ Holders(s)' = Holders(s)
    <3>1. i \in Holders(s) /\ \A j \in Holders(s) : j = i
      BY <2>1, <2>2 DEF Holders, Inv, HoldInv
    <3>2. Holders(s)' \subseteq Holders(s)
      BY <2>1, <2>2, InvTypes DEF Holders
    <3> QED
      BY <3>1, <3>2
  <2>5. ChainsStay \/ ChainsLost({s})
    BY <2>2, <2>3, <2>4 DEF ChainsStay, ChainsLost
  <2>6. CASE Running(s)
    BY <1>1, <2>1, <2>2, <2>5, <2>6, EndOfSubmission
  <2>7. CASE ~Running(s)
    BY <1>1, <2>1, <2>2, <2>5, <2>7, Stutter, LostChains DEF SameJob
  <2> QED
    BY <2>6, <2>7
<1>5. CASE DieMidRun(i) \/ NovaDeletes(i)
  <2> DEFINE lost == held[i] \ private[i]
  <2>1. /\ job' = job /\ UNCHANGED <<dispatch, private, sent>>
        /\ held' = [held EXCEPT ![i] = {}]
    BY <1>5 DEF DieMidRun, NovaDeletes, girder, broker
  <2>2. lost \in SUBSET Submissions
    BY InvTypes
  <2>3. ASSUME NEW s \in Submissions
        PROVE  Holders(s)' = IF s \in lost THEN {} ELSE Holders(s)
    <3>1. \A j \in Instances : j \in Holders(s)' <=> s \in private[j] \/ (j # i /\ s \in held[j])
      BY <2>1, InvTypes DEF Holders
    <3>2. \A j \in Instances : j \in Holders(s) <=> s \in private[j] \/ s \in held[j]
      BY DEF Holders
    <3>3. s \in lost => \A j \in Holders(s) : j = i
      BY <3>2 DEF Inv, HoldInv
    <3>4. Holders(s) \subseteq Instances /\ Holders(s)' \subseteq Instances
      BY DEF Holders
    <3>5. CASE s \in lost
      <4>1. \A j \in Instances : j \notin Holders(s)'
        BY <3>1, <3>2, <3>3, <3>5
      <4> QED
        BY <3>4, <3>5, <4>1
    <3>6. CASE s \notin lost
      <4>1. \A j \in Instances : j \in Holders(s)' <=> j \in Holders(s)
        BY <3>1, <3>2, <3>6
      <4> QED
        BY <3>4, <3>6, <4>1
    <3> QED
      BY <3>5, <3>6
  <2>4. ChainsLost(lost)
    BY <2>1, <2>3 DEF ChainsLost
  <2> QED
    BY <1>1, <2>1, <2>2, <2>4, LostChains DEF SameJob
<1> QED
  BY <1>2, <1>3, <1>4, <1>5, TakeSharedImplements, PrepareImplements DEF Worker

-----------------------------------------------------------------------------
(***************************************************************************)
(* The controller.                                                         *)
(***************************************************************************)

LEMMA ClaimImplements ==
  ASSUME Inv, NEW s \in Submissions, NEW i \in Instances, Claim(s, i)
  PROVE  Implements
<1>1. /\ UNCHANGED <<dispatch, private, held, sent>>
      /\ ChainsStay
      /\ Queued' = Queued /\ Queued \subseteq Submissions
  <2>1. UNCHANGED <<dispatch, private, held, sent>>
    BY DEF Claim, broker, workers
  <2> QED
    BY <2>1, InvTypes, ChainsUntouched DEF Queued
<1>2. CASE UNCHANGED <<job, binding>>
  BY <1>1, <1>2, Stutter DEF SameJob
<1>3. CASE Claimable(s) /\ job' = [job EXCEPT ![s].queue = i] /\ binding' = <<s, i>>
  <2>1. job[s].queue = None /\ job[s].awaiting
    BY <1>3 DEF Claimable
  <2>2. job[s].status # "absent" /\ sent[s] = 0
    BY <2>1 DEF Inv, ChainInv, Unsent
  <2>3. Holders(s) = {} /\ s \notin Queued
    BY <2>1, <2>2 DEF Inv, HoldInv
  <2>4. /\ job'[s].queue = i /\ job'[s].status = job[s].status /\ job'[s].awaiting
        /\ \A t \in Submissions \ {s} : job'[t] = job[t]
    BY <1>3, <2>1, InvTypes DEF JobRecords
  <2>5. binding'[1] = s /\ binding'[2] = i
    BY <1>3
  <2>6. HoldInv'
    <3>1. \A t \in Queued : ~job'[t].awaiting /\ job'[t].queue = None /\ Holders(t)' = {} /\ sent'[t] = 1
      BY <1>1, <2>3, <2>4 DEF Inv, HoldInv, ChainsStay
    <3>2. \A t \in Submissions : \A j \in Holders(t)' :
            /\ sent'[t] = 1
            /\ \A k \in Holders(t)' : k = j
            /\ job'[t].awaiting \/ job'[t].queue # None => job'[t].queue = j
      BY <1>1, <2>3, <2>4 DEF Inv, HoldInv, ChainsStay
    <3> QED
      BY <1>1, <2>4, <2>5, <3>1, <3>2 DEF Inv, HoldInv
  <2>7. Promise!Bind(s, i)
    <3>1. Path(s) = "controller" /\ \A t \in Submissions : Path(t)' = Path(t) /\ Running(t)' = Running(t)
      BY <2>1, <2>2, <2>4 DEF Path, Running
    <3>2. [t \in Submissions |-> job'[t].queue] = [[t \in Submissions |-> job[t].queue] EXCEPT ![s] = i]
      BY <2>4
    <3> QED
      BY <1>1, <2>1, <3>1, <3>2 DEF Promise!Bind, ChainsStay
  <2> QED
    BY <2>6, <2>7 DEF Implements, Promise!Next
<1> QED
  BY <1>2, <1>3 DEF Claim

LEMMA PublishImplements == Inv /\ Publish => Implements
<1> SUFFICES ASSUME Inv, Publish PROVE Implements
  OBVIOUS
<1>1. PICK s \in Submissions, i \in Instances : binding = <<s, i>>
  BY InvTypes DEF Publish
<1>2. /\ job[s].queue = i /\ job[s].awaiting /\ sent[s] = 0 /\ i # None
      /\ Holders(s) = {} /\ s \notin Queued
  <2>1. binding # None /\ binding[1] = s /\ binding[2] = i
    BY <1>1 DEF Publish
  <2>2. job[s].queue = i /\ job[s].awaiting /\ sent[s] = 0
    BY <2>1 DEF Inv, HoldInv, ChainInv, Unsent
  <2> QED
    BY <2>2, QueueIsNotNone DEF Inv, HoldInv
<1>3. job' = job /\ dispatch' = dispatch /\ held' = held /\ binding' = None
  BY DEF Publish, girder, workers
<1>4. Queued' = Queued /\ Queued \subseteq Submissions
  BY <1>3, InvTypes DEF Queued
<1>5. CASE UNCHANGED <<private, sent>>
  BY <1>3, <1>5, ChainsUntouched, Stutter DEF SameJob
<1>6. CASE /\ private' = [private EXCEPT ![i] = @ \cup {s}]
           /\ sent' = [sent EXCEPT ![s] = @ + 1]
  <2>1. sent'[s] = 1 /\ \A t \in Submissions \ {s} : sent'[t] = sent[t]
    BY <1>2, <1>6, InvTypes
  <2>2. Holders(s)' = {i} /\ \A t \in Submissions \ {s} : Holders(t)' = Holders(t)
    BY <1>2, <1>3, <1>6, InvTypes DEF Holders
  <2>3. HoldInv'
    <3>1. \A t \in Queued : ~job'[t].awaiting /\ job'[t].queue = None /\ Holders(t)' = {} /\ sent'[t] = 1
      BY <1>2, <1>3, <1>4, <2>1, <2>2 DEF Inv, HoldInv
    <3>2. \A t \in Submissions : \A j \in Holders(t)' :
            /\ sent'[t] = 1
            /\ \A k \in Holders(t)' : k = j
            /\ job'[t].awaiting \/ job'[t].queue # None => job'[t].queue = j
      BY <1>2, <1>3, <2>1, <2>2 DEF Inv, HoldInv
    <3> QED
      BY <1>3, <1>4, <3>1, <3>2 DEF Inv, HoldInv
  <2>4. Promise!Publish(s)
    <3>1. \A t \in Submissions : Path(t)' = Path(t) /\ Running(t)' = Running(t)
      BY <1>3 DEF Path, Running
    <3>2. Path(s) = "controller"
      BY <1>2 DEF Path, Inv, ChainInv
    <3>3. {t \in Submissions : sent[t] > 0}' = {t \in Submissions : sent[t] > 0} \cup {s}
      BY <2>1
    <3>4. [t \in Submissions |-> Holders(t)'] =
            [[t \in Submissions |-> Holders(t)] EXCEPT ![s] = {[t \in Submissions |-> job[t].queue][s]}]
      BY <1>2, <2>2
    <3>5. s \notin {t \in Submissions : sent[t] > 0}
      BY <1>2
    <3>6. [t \in Submissions |-> job'[t].queue] = [t \in Submissions |-> job[t].queue]
      BY <1>3
    <3> QED
      BY <1>2, <1>4, <3>1, <3>2, <3>3, <3>4, <3>5, <3>6 DEF Promise!Publish
  <2> QED
    BY <2>3, <2>4 DEF Implements, Promise!Next
<1> QED
  BY <1>1, <1>5, <1>6 DEF Publish

LEMMA RoundImplements == Inv /\ (Round \/ Breakdown) => Implements
<1> SUFFICES ASSUME Inv, Round \/ Breakdown PROVE Implements
  OBVIOUS
<1>1. CASE \/ BeginRound \/ ReadInstances \/ ReadDepth \/ ReadSpent \/ ReadWaiting \/ Decide
           \/ (\E i \in Instances : DeleteInstance(i))
           \/ CreateInstance \/ EndRound \/ Restart \/ Breakdown
  <2>1. job' = job /\ UNCHANGED <<dispatch, private, held, sent>>
    BY <1>1 DEF BeginRound, ReadInstances, ReadDepth, ReadSpent, ReadWaiting, Decide,
                DeleteInstance, CreateInstance, EndRound, Restart, Breakdown, SkipRound,
                VolumesFlagUnreadable, Crash, Forget, girder, broker, workers
  <2>2. binding' \in {binding, None}
    BY <1>1 DEF BeginRound, ReadInstances, ReadDepth, ReadSpent, ReadWaiting, Decide,
                DeleteInstance, CreateInstance, EndRound, Restart, Breakdown, SkipRound,
                VolumesFlagUnreadable, Crash, Forget, decision
  <2> QED
    BY <2>1, <2>2, ChainsUntouched, Stutter DEF SameJob
<1> QED
  BY <1>1, ClaimImplements, PublishImplements DEF Round

LEMMA NextImplements == Inv /\ [Next]_vars => Implements
<1> SUFFICES ASSUME Inv, [Next]_vars PROVE Implements
  OBVIOUS
<1>1. CASE Environment
  BY <1>1, GirderImplements, WorkerImplements DEF Environment
<1>2. CASE Tick
  <2>1. UNCHANGED <<dispatch, private, held, sent>> /\ binding' = binding
    BY <1>2 DEF Tick, AgesAdvance, broker, workers, decision
  <2>2. \A s \in Submissions : SameJob(s)
    BY <1>2, InvTypes DEF Tick, AgesAdvance, SameJob, JobRecords
  <2> QED
    BY <2>1, <2>2, ChainsUntouched, Stutter
<1>3. CASE UNCHANGED vars
  <2>1. job' = job /\ UNCHANGED <<dispatch, private, held, sent>> /\ binding' = binding
    BY <1>3 DEF vars, world, process, girder, broker, workers, decision
  <2> QED
    BY <2>1, ChainsUntouched, Stutter DEF SameJob
<1> QED
  BY <1>1, <1>2, <1>3, RoundImplements DEF Next

LEMMA NextKeepsInv == Inv /\ [Next]_vars => Inv'
<1> SUFFICES ASSUME Inv, [Next]_vars PROVE Inv'
  OBVIOUS
<1>1. TypeInv' /\ ChainInv'
  BY NextTyped, NextKeepsChains DEF Inv
<1>2. HoldInv'
  BY NextImplements DEF Implements
<1> QED
  BY <1>1, <1>2 DEF Inv

LEMMA InitImplements == Init => Inv /\ Promise!Init
<1> SUFFICES ASSUME Init PROVE Inv /\ Promise!Init
  OBVIOUS
<1>1. /\ dispatch = << >> /\ binding = None
      /\ \A s \in Submissions : /\ job[s].status = "absent" /\ job[s].queue = None
                                /\ ~job[s].awaiting /\ sent[s] = 0
      /\ \A i \in Instances : private[i] = {} /\ held[i] = {}
  BY DEF Init, WorldInit, ControllerInit
<1>2. Queued = {} /\ DOMAIN dispatch = {} /\ \A s \in Submissions : Holders(s) = {}
  BY <1>1 DEF Queued, Holders
<1>3. TypeInv /\ ChainInv /\ HoldInv
  BY <1>1, <1>2, InitTyped DEF ChainInv, HoldInv, Unsent
<1>4. Promise!Init
  BY <1>1, <1>2 DEF Promise!Init, Path, Running
<1> QED
  BY <1>3, <1>4 DEF Inv

\* The deployment keeps dispatch.py's promise: every step of the controller, of Girder, of
\* a worker or of a fault is a step of Placement or leaves its state alone.
THEOREM ImplementsPlacement == Spec => KeepsThePromise
<1>1. Init => Inv /\ Promise!Init
  BY InitImplements
<1>2. Inv /\ [Next]_vars => Inv' /\ [Promise!Next]_(Promise!vars)
  BY NextImplements, NextKeepsInv DEF Implements
<1> QED
  BY <1>1, <1>2, PTL DEF Spec, KeepsThePromise, Promise!Spec

\* Never two workers on one workspace.
THEOREM OneWorkerPerWorkspace == Spec => []OneWorkspaceOneWorker
<1>1. Inv => OneWorkspaceOneWorker
  <2> SUFFICES ASSUME Inv, NEW s \in Submissions, NEW i \in Holders(s)
               PROVE  /\ \A j \in Holders(s) : i = j
                      /\ s \notin Queued
                      /\ job[s].queue # None => job[s].queue = i
    BY DEF OneWorkspaceOneWorker, Promise!OneWorkspaceOneWorker
  <2> QED
    BY DEF Inv, HoldInv
<1> QED
  BY <1>1, InitImplements, NextKeepsInv, PTL DEF Spec

-----------------------------------------------------------------------------
(***************************************************************************)
(* What a failure costs.  A chain that is bound and not out is in hand; it *)
(* leaves the hand published, or with a fault.                             *)
(***************************************************************************)

StrandedInv == faults \in Nat /\ OneStrandedPerFault

LEMMA StrandedFewer ==
  ASSUME StrandedInv, faults' \in Nat, faults' >= faults, Stranded' \subseteq Stranded
  PROVE  StrandedInv'
<1>1. IsFiniteSet(Stranded)
  BY IdsAssumption, FS_Subset DEF Stranded
<1>2. Cardinality(Stranded') <= Cardinality(Stranded) /\ IsFiniteSet(Stranded')
  BY <1>1, FS_Subset
<1>3. Cardinality(Stranded) \in Nat /\ Cardinality(Stranded') \in Nat
  BY <1>1, <1>2, FS_CardinalityType
<1> QED
  BY <1>2, <1>3 DEF StrandedInv, OneStrandedPerFault

LEMMA StrandedOneMore ==
  ASSUME StrandedInv, faults' = faults + 1, NEW s, Stranded' \subseteq Stranded \cup {s}
  PROVE  StrandedInv'
<1>1. IsFiniteSet(Stranded)
  BY IdsAssumption, FS_Subset DEF Stranded
<1>2. /\ IsFiniteSet(Stranded \cup {s})
      /\ Cardinality(Stranded \cup {s}) <= Cardinality(Stranded) + 1
  <2>1. Cardinality(Stranded) \in Nat
    BY <1>1, FS_CardinalityType
  <2>2. /\ IsFiniteSet(Stranded \cup {s})
        /\ \/ Cardinality(Stranded \cup {s}) = Cardinality(Stranded)
           \/ Cardinality(Stranded \cup {s}) = Cardinality(Stranded) + 1
    BY <1>1, FS_AddElement, Zenon
  <2> QED
    BY <2>1, <2>2
<1>3. Cardinality(Stranded') <= Cardinality(Stranded \cup {s}) /\ IsFiniteSet(Stranded')
  BY <1>2, FS_Subset
<1>4. /\ Cardinality(Stranded) \in Nat /\ Cardinality(Stranded') \in Nat
      /\ Cardinality(Stranded \cup {s}) \in Nat
  BY <1>1, <1>2, <1>3, FS_CardinalityType
<1> QED
  BY <1>2, <1>3, <1>4 DEF StrandedInv, OneStrandedPerFault

\* What a submission's chain is known by is left alone, and so is the one in hand.
HandStays ==
  /\ \A s \in Submissions :
       job'[s].queue = job[s].queue /\ job'[s].awaiting = job[s].awaiting
  /\ sent' = sent /\ binding' = binding

LEMMA HandStaysStrands ==
  ASSUME StrandedInv, HandStays, NoFault \/ faults' = faults + 1
  PROVE  StrandedInv'
<1>1. Stranded' = Stranded
  BY DEF Stranded, HandStays
<1> QED
  BY <1>1, StrandedFewer DEF NoFault, StrandedInv

LEMMA EnvironmentStrands == Inv /\ StrandedInv /\ Environment => StrandedInv'
<1> SUFFICES ASSUME Inv, StrandedInv, Environment PROVE StrandedInv'
  OBVIOUS
<1>1. /\ binding' = binding
      /\ job \in [Submissions -> JobRecords] /\ sent \in [Submissions -> Nat]
  BY InvTypes DEF Environment, process, decision
<1>2. CASE FlipArmed
  <2>1. HandStays /\ faults' = faults + 1
    BY <1>1, <1>2 DEF FlipArmed, Fault, broker, HandStays
  <2> QED
    BY <2>1, HandStaysStrands
<1>3. ASSUME NEW s \in Submissions, Submit(s) PROVE StrandedInv'
  <2>1. job'[s].queue = None /\ \A t \in Submissions \ {s} : job'[t] = job[t]
    BY <1>1, <1>3 DEF Submit, JobRecords, Inv, ChainInv
  <2>2. \A t \in Submissions \ {s} : sent'[t] = sent[t]
    BY <1>1, <1>3 DEF Submit
  <2>3. Stranded' \subseteq Stranded /\ faults' = faults
    BY <1>1, <1>3, <2>1, <2>2 DEF Stranded, Submit, NoFault
  <2> QED
    BY <2>3, StrandedFewer DEF StrandedInv
<1>4. ASSUME NEW s \in Submissions,
             ReapSubmission(s) \/ CancelSubmission(s) \/ RemoveSubmission(s)
      PROVE  StrandedInv'
  <2>1. /\ sent' = sent /\ (NoFault \/ faults' = faults + 1)
        /\ \E status \in {"done", "removed"} : job' = [job EXCEPT ![s].status = status]
    BY <1>4 DEF ReapSubmission, CancelSubmission, RemoveSubmission, Fault, broker
  <2>2. HandStays
    BY <1>1, <2>1 DEF HandStays, JobRecords
  <2> QED
    BY <2>1, <2>2, HandStaysStrands
<1>5. ASSUME NEW i \in Instances, Worker(i) PROVE StrandedInv'
  <2>1. CASE \/ Boot(i) \/ Announce(i) \/ TakeShared(i) \/ TakePrivate(i)
             \/ PowerOff(i) \/ DieMidRun(i) \/ Wedge(i) \/ NovaDeletes(i)
    <3>1. job' = job /\ sent' = sent /\ (NoFault \/ faults' = faults + 1)
      BY <2>1 DEF Boot, Announce, TakeShared, TakePrivate, PowerOff, DieMidRun, Wedge,
                  NovaDeletes, Fault, girder, broker
    <3> QED
      BY <1>1, <3>1, HandStaysStrands DEF HandStays
  <2>2. CASE Prepare(i)
    <3>1. PICK s \in Unclaimed(i) : job' = [job EXCEPT ![s].queue = i]
      BY <2>2 DEF Prepare
    <3>2. s \in Submissions /\ sent[s] = 1
      BY InvTypes DEF Unclaimed, Inv, HoldInv, Holders
    <3>3. sent' = sent /\ faults' = faults
      BY <2>2 DEF Prepare, broker, NoFault
    <3>4. Stranded' \subseteq Stranded
      BY <1>1, <3>1, <3>2, <3>3 DEF Stranded
    <3> QED
      BY <3>3, <3>4, StrandedFewer DEF StrandedInv
  <2>3. CASE Finish(i)
    <3>1. PICK s \in held[i] \ Unclaimed(i) :
            job' = IF Running(s) THEN [job EXCEPT ![s].status = "done"] ELSE job
      BY <2>3 DEF Finish
    <3>2. sent' = sent /\ NoFault
      BY <2>3 DEF Finish, broker
    <3>3. HandStays
      BY <1>1, <3>1, <3>2 DEF HandStays, JobRecords
    <3> QED
      BY <3>2, <3>3, HandStaysStrands
  <2> QED
    BY <1>5, <2>1, <2>2, <2>3 DEF Worker
<1> QED
  BY <1>2, <1>3, <1>4, <1>5 DEF Environment, Girder

LEMMA RoundStrands == Inv /\ StrandedInv /\ (Round \/ Breakdown) => StrandedInv'
<1> SUFFICES ASSUME Inv, StrandedInv, Round \/ Breakdown PROVE StrandedInv'
  OBVIOUS
<1>1. /\ job \in [Submissions -> JobRecords] /\ sent \in [Submissions -> Nat]
      /\ binding \in (Submissions \X Instances) \cup {None}
  BY InvTypes
<1>2. CASE \/ BeginRound \/ ReadInstances \/ ReadDepth \/ ReadSpent \/ ReadWaiting \/ Decide
           \/ (\E i \in Instances : DeleteInstance(i))
           \/ CreateInstance \/ EndRound \/ Restart \/ SkipRound
  <2>1. job' = job /\ sent' = sent
    BY <1>2 DEF BeginRound, ReadInstances, ReadDepth, ReadSpent, ReadWaiting, Decide,
                DeleteInstance, CreateInstance, EndRound, Restart, SkipRound, girder, broker
  <2>2. binding' = binding
    BY <1>2 DEF BeginRound, ReadInstances, ReadDepth, ReadSpent, ReadWaiting, Decide,
                DeleteInstance, CreateInstance, EndRound, Restart, SkipRound, decision
  <2>3. NoFault \/ faults' = faults + 1
    BY <1>2 DEF BeginRound, ReadInstances, ReadDepth, ReadSpent, ReadWaiting, Decide,
                DeleteInstance, CreateInstance, EndRound, Restart, SkipRound, Fault
  <2> QED
    BY <2>1, <2>2, <2>3, HandStaysStrands DEF HandStays
<1>3. CASE VolumesFlagUnreadable \/ Crash
  <2>1. job' = job /\ sent' = sent /\ faults' = faults + 1 /\ binding' = None
    BY <1>3 DEF VolumesFlagUnreadable, Crash, Forget, Fault, girder, broker
  <2>2. \A s, t \in Submissions, i, j \in Instances :
          binding = <<s, i>> /\ binding = <<t, j>> => s = t
    OBVIOUS
  <2>3. \E s : Stranded' \subseteq Stranded \cup {s}
    BY <2>1, <2>2 DEF Stranded
  <2> QED
    BY <2>1, <2>3, StrandedOneMore
<1>4. ASSUME NEW s \in Submissions, NEW i \in Instances, Claim(s, i)
      PROVE  StrandedInv'
  <2>1. sent' = sent /\ binding = None
    BY <1>4 DEF Claim, broker
  <2>2. CASE job' = job /\ binding' = binding
    <3>1. NoFault \/ faults' = faults + 1
      BY <1>4 DEF Claim, Fault
    <3> QED
      BY <2>1, <2>2, <3>1, HandStaysStrands DEF HandStays
  <2>3. CASE job' = [job EXCEPT ![s].queue = i] /\ binding' = <<s, i>> /\ NoFault
    <3>1. \A t \in Submissions, j \in Instances : binding # <<t, j>>
      BY <2>1, BindingAssumption
    <3>2. \A t \in Submissions \ {s} : job'[t] = job[t]
      BY <1>1, <2>3
    <3>3. s \notin Stranded'
      BY <2>3 DEF Stranded
    <3>4. Stranded' \subseteq Stranded
      BY <2>1, <3>1, <3>2, <3>3 DEF Stranded
    <3> QED
      BY <2>3, <3>4, StrandedFewer DEF StrandedInv, NoFault
  <2> QED
    BY <1>4, <2>2, <2>3 DEF Claim
<1>5. CASE Publish
  <2>1. PICK s \in Submissions, i \in Instances : binding = <<s, i>>
    BY <1>1, <1>5 DEF Publish
  <2>2. job' = job /\ binding' = None
    BY <1>5 DEF Publish, girder
  <2>3. CASE sent' = [sent EXCEPT ![s] = @ + 1] /\ (NoFault \/ faults' = faults + 1)
    <3>1. sent'[s] # 0 /\ \A t \in Submissions \ {s} : sent'[t] = sent[t]
      BY <1>1, <2>3
    <3>2. \A t \in Submissions \ {s}, j \in Instances : binding # <<t, j>>
      BY <2>1
    <3>3. \A t \in Stranded' : t \in Stranded
      BY <2>2, <3>1, <3>2 DEF Stranded
    <3> QED
      BY <2>3, <3>3, StrandedFewer DEF StrandedInv, NoFault
  <2>4. CASE sent' = sent /\ faults' = faults + 1
    <3>1. Stranded' \subseteq Stranded \cup {s}
      BY <2>1, <2>2, <2>4 DEF Stranded
    <3> QED
      BY <2>4, <3>1, StrandedOneMore
  <2> QED
    BY <1>5, <2>1, <2>3, <2>4 DEF Publish, Fault
<1> QED
  BY <1>2, <1>3, <1>4, <1>5 DEF Round, Breakdown

\* Each submission that is left bound and unpublished has cost a failure of its own: a
\* crash, or a publication that raised, takes the one dispatch.assign had in hand.
THEOREM FailuresStrandOne == Spec => []OneStrandedPerFault
<1>1. Init => StrandedInv
  <2> SUFFICES ASSUME Init PROVE StrandedInv
    OBVIOUS
  <2>1. faults = 0 /\ \A s \in Submissions : job[s].queue = None
    BY DEF Init, WorldInit
  <2>2. Stranded = {}
    BY <2>1 DEF Stranded
  <2> QED
    BY <2>1, <2>2, FS_EmptySet DEF StrandedInv, OneStrandedPerFault
<1>2. Inv /\ StrandedInv /\ [Next]_vars => StrandedInv'
  <2> SUFFICES ASSUME Inv, StrandedInv, [Next]_vars PROVE StrandedInv'
    OBVIOUS
  <2>1. CASE Tick
    <3>1. job \in [Submissions -> JobRecords] /\ sent' = sent /\ binding' = binding /\ NoFault
      BY <2>1, InvTypes DEF Tick, AgesAdvance, broker, decision
    <3>2. HandStays
      BY <2>1, <3>1 DEF Tick, AgesAdvance, HandStays, JobRecords
    <3> QED
      BY <3>1, <3>2, HandStaysStrands
  <2>2. CASE UNCHANGED vars
    <3>1. HandStays /\ NoFault
      BY <2>2 DEF vars, world, process, girder, broker, decision, HandStays, NoFault
    <3> QED
      BY <3>1, HandStaysStrands
  <2> QED
    BY <2>1, <2>2, EnvironmentStrands, RoundStrands DEF Next
<1>3. StrandedInv => OneStrandedPerFault
  BY DEF StrandedInv
<1> QED
  BY <1>1, <1>2, <1>3, InitImplements, NextKeepsInv, PTL DEF Spec
=============================================================================
