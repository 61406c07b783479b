-------------------------- MODULE AssignmentProofs --------------------------
(***************************************************************************)
(* What targeted assignment promises, for every value of the constants:    *)
(* the size, the worker and the order a submission is placed with.         *)
(*                                                                         *)
(* Each argument follows a reading from the moment it is made to the step  *)
(* that acts on it.  The lemmas of the first sections say what any step of *)
(* the deployment may do meanwhile; the later sections read nothing of the *)
(* other actions but that.                                                 *)
(***************************************************************************)
EXTENDS ControllerProofs

-----------------------------------------------------------------------------
(***************************************************************************)
(* What a step does to a server: it only goes forward in its life.         *)
(***************************************************************************)

Advances(i) ==
  server[i].status # "absent" =>
    /\ server'[i].status # "absent" /\ server'[i].size = server[i].size
    /\ server'[i].age >= server[i].age
    /\ server'[i].age = server[i].age \/ Tick
    /\ server[i].status \in {"SHUTOFF", "gone"} => server'[i].status \in {"SHUTOFF", "gone"}

LEMMA ServerTypes ==
  ASSUME Inv, NEW i \in Instances
  PROVE  /\ server \in [Instances -> ServerRecords]
         /\ server[i] \in ServerRecords
         /\ server[i].status \in Statuses /\ server[i].age \in Nat
         /\ server[i].size \in Nat \cup {None}
<1>1. server \in [Instances -> ServerRecords]
  BY DEF Inv, TypeInv, TypeOK, WorldTypeOK
<1> QED
  BY <1>1, BoundsAssumption DEF ServerRecords

LEMMA SameServersAdvance ==
  ASSUME Inv, server' = server, NEW i \in Instances
  PROVE  Advances(i)
BY ServerTypes DEF Advances

\* A new server takes an id that was never used.
LEMMA BootsElsewhere ==
  ASSUME Inv, NEW rung \in Nat \cup {None}, Boots(rung)
  PROVE  /\ Min(Unused) \in Instances /\ server[Min(Unused)].status = "absent"
         /\ \A i \in Instances \ {Min(Unused)} : server'[i] = server[i]
         /\ server'[Min(Unused)].status = "BUILD" /\ server'[Min(Unused)].age = 0
         /\ rung = None => server'[Min(Unused)].size = FlavorRung
         /\ rung # None => server'[Min(Unused)].size = rung
<1>1. Min(Unused) \in Unused
  BY BootsTyped DEF Inv
<1>2. server \in [Instances -> ServerRecords]
  BY DEF Inv, TypeInv, TypeOK, WorldTypeOK
<1> QED
  BY <1>1, <1>2 DEF Boots, Unused

LEMMA HeadOfCreates ==
  ASSUME Inv, to_create # << >>
  PROVE  /\ Head(to_create).rung \in Nat \cup {None}
         /\ Head(to_create) = to_create[1] /\ 1 \in DOMAIN to_create
<1>1. to_create \in Seq(Creates)
  BY DEF Inv, TypeInv, TypeOK
<1>2. Head(to_create) \in Creates
  BY <1>1, HeadTailProperties
<1>3. Head(to_create) = to_create[1] /\ 1 \in DOMAIN to_create
  BY <1>1, EmptySeq, LenProperties
<1> QED
  BY <1>2, <1>3 DEF Creates

LEMMA CreateAdvances ==
  ASSUME Inv, CreateInstance, NEW i \in Instances
  PROVE  Advances(i)
<1>1. CASE Boots(Head(to_create).rung)
  <2>1. Head(to_create).rung \in Nat \cup {None}
    BY HeadOfCreates DEF CreateInstance
  <2>2. server[i].status # "absent" => server'[i] = server[i]
    BY <1>1, <2>1, BootsElsewhere
  <2> QED
    BY <2>2, ServerTypes DEF Advances
<1>2. CASE server' = server
  BY <1>2, SameServersAdvance
<1> QED
  BY <1>1, <1>2 DEF CreateInstance

LEMMA WorkerAdvances ==
  ASSUME Inv, NEW k \in Instances, Worker(k), NEW i \in Instances
  PROVE  Advances(i)
<1>1. CASE \/ Announce(k) \/ TakeShared(k) \/ TakePrivate(k) \/ Prepare(k) \/ Finish(k)
           \/ Wedge(k)
  <2>1. server' = server
    BY <1>1 DEF Announce, TakeShared, TakePrivate, Prepare, Finish, Wedge, nova
  <2> QED
    BY <2>1, SameServersAdvance
<1>2. ASSUME NEW x, server' = [server EXCEPT ![k].status = x], x # "absent",
             server[k].status \in {"SHUTOFF", "gone"} => x \in {"SHUTOFF", "gone"}
      PROVE  Advances(i)
  <2>1. /\ server'[i].age = server[i].age /\ server'[i].size = server[i].size
        /\ server'[i].status = IF i = k THEN x ELSE server[i].status
    BY <1>2, ServerTypes DEF ServerRecords
  <2> QED
    BY <1>2, <2>1, ServerTypes DEF Advances
<1>3. CASE Boot(k)
  BY <1>2, <1>3 DEF Boot
<1>4. CASE PowerOff(k)
  BY <1>2, <1>4 DEF PowerOff
<1>5. CASE DieMidRun(k)
  BY <1>2, <1>5 DEF DieMidRun
<1>6. CASE NovaDeletes(k)
  BY <1>2, <1>6 DEF NovaDeletes
<1> QED
  BY <1>1, <1>3, <1>4, <1>5, <1>6 DEF Worker

LEMMA TickAdvances ==
  ASSUME Inv, Tick, NEW i \in Instances
  PROVE  /\ Advances(i)
         /\ server'[i].status = server[i].status /\ server'[i].size = server[i].size
         /\ server'[i].age <= server[i].age + 1
<1>1. server'[i] = IF server[i].status = "absent" THEN server[i]
                   ELSE [server[i] EXCEPT !.age = Aged(@, AgeBound)]
  BY DEF Tick, AgesAdvance
<1>2. /\ server'[i].status = server[i].status /\ server'[i].size = server[i].size
      /\ server'[i].age \in {server[i].age, Aged(server[i].age, AgeBound)}
  BY <1>1, ServerTypes DEF ServerRecords
<1>3. server'[i].age >= server[i].age /\ server'[i].age <= server[i].age + 1
  BY <1>2, ServerTypes DEF Aged
<1> QED
  BY <1>2, <1>3 DEF Advances

LEMMA ServersAdvance ==
  ASSUME Inv, [Next]_vars
  PROVE  \A i \in Instances : Advances(i)
<1> SUFFICES ASSUME NEW i \in Instances PROVE Advances(i)
  OBVIOUS
<1>1. CASE Round \/ Breakdown
  <2>1. CASE CreateInstance
    BY <2>1, CreateAdvances
  <2>2. CASE ~CreateInstance
    <3>1. server' = server
      BY <1>1, <2>2
      DEF Round, BeginRound, ReadInstances, ReadDepth, ReadSpent, ReadWaiting, Decide,
          DeleteInstance, Claim, Publish, EndRound, Restart, Breakdown, SkipRound,
          VolumesFlagUnreadable, Crash, Forget, nova
    <3> QED
      BY <3>1, SameServersAdvance
  <2> QED
    BY <2>1, <2>2
<1>2. CASE Environment
  <2>1. CASE Girder
    <3>1. server' = server
      BY <2>1 DEF Girder, FlipArmed, Submit, ReapSubmission, CancelSubmission,
                  RemoveSubmission, nova
    <3> QED
      BY <3>1, SameServersAdvance
  <2> QED
    BY <1>2, <2>1, WorkerAdvances DEF Environment
<1>3. CASE Tick
  BY <1>3, TickAdvances
<1>4. CASE UNCHANGED vars
  BY <1>4, SameServersAdvance DEF vars, world, nova
<1> QED
  BY <1>1, <1>2, <1>3, <1>4 DEF Next

-----------------------------------------------------------------------------
(***************************************************************************)
(* What a step does to a submission: who is to dispatch it is settled when *)
(* it is submitted, and the worker on record when it is claimed.           *)
(***************************************************************************)

Persists(s) ==
  job[s].status # "absent" =>
    /\ job'[s].status # "absent" /\ job'[s].awaiting = job[s].awaiting
    /\ Running(s)' => Running(s)
    /\ job[s].queue # None => job'[s].queue = job[s].queue

\* The two ways a submission comes by its worker.
Placed(s) ==
  \E i \in Instances :
    /\ job' = [job EXCEPT ![s].queue = i] /\ job[s].queue = None
    /\ \/ Claim(s, i) /\ Claimable(s) /\ binding' = <<s, i>>
       \/ Prepare(i) /\ ~job[s].awaiting

LEMMA JobTypes ==
  ASSUME Inv, NEW s \in Submissions
  PROVE  /\ job \in [Submissions -> JobRecords] /\ job[s] \in JobRecords
         /\ job[s].age \in Nat /\ job[s].awaiting \in BOOLEAN
         /\ job[s].queue \in Instances \cup {None}
         /\ job[s].status = "absent" => job[s].queue = None /\ ~job[s].awaiting
<1>1. job[s] \in JobRecords
  BY InvTypes
<1> QED
  BY <1>1, InvTypes, BoundsAssumption DEF JobRecords, Inv, ChainInv

LEMMA PlacedPersists ==
  ASSUME Inv, NEW t \in Submissions, Placed(t), job[t].status # "absent",
         NEW s \in Submissions
  PROVE  /\ Persists(s)
         /\ s # t => job'[s] = job[s]
<1>1. PICK i \in Instances : job' = [job EXCEPT ![t].queue = i] /\ job[t].queue = None
  BY DEF Placed
<1>2. /\ s # t => job'[s] = job[s]
      /\ job'[s].status = job[s].status /\ job'[s].awaiting = job[s].awaiting
  BY <1>1, JobTypes DEF JobRecords
<1> QED
  BY <1>1, <1>2 DEF Persists, Running

LEMMA ClaimPlaces ==
  ASSUME Inv, NEW s \in Submissions, NEW i \in Instances, Claim(s, i)
  PROVE  \/ job' = job /\ binding' = binding
         \/ Placed(s) /\ job[s].status # "absent"
<1>1. CASE job' = job /\ binding' = binding
  BY <1>1
<1>2. CASE Claimable(s) /\ job' = [job EXCEPT ![s].queue = i] /\ binding' = <<s, i>>
  <2>1. job[s].queue = None /\ job[s].awaiting
    BY <1>2 DEF Claimable
  <2> QED
    BY <1>2, <2>1, JobTypes DEF Placed
<1> QED
  BY <1>1, <1>2 DEF Claim

LEMMA PreparePlaces ==
  ASSUME Inv, NEW i \in Instances, Prepare(i)
  PROVE  \E s \in Submissions : Placed(s) /\ Running(s) /\ ~job[s].awaiting
<1>1. PICK s \in Unclaimed(i) : job' = [job EXCEPT ![s].queue = i]
  BY DEF Prepare
<1>2. s \in Submissions /\ s \in held[i] /\ Running(s) /\ job[s].queue # i
  BY InvTypes DEF Unclaimed
<1>3. i \in Holders(s)
  BY <1>2 DEF Holders
<1>4. ~job[s].awaiting /\ job[s].queue = None
  BY <1>2, <1>3 DEF Inv, HoldInv
<1> QED
  BY <1>1, <1>2, <1>4 DEF Placed

\* Every step leaves the workers on record alone, places one submission, or submits one.
JobStep ==
  \/ /\ \A s \in Submissions : Persists(s) /\ job'[s].queue = job[s].queue
     /\ \A s \in Submissions : job[s].status = "absent" => job'[s].status = "absent"
     /\ binding' \in {binding, None}
  \/ \E s \in Submissions : Placed(s) /\ job[s].status # "absent"
  \/ /\ \E s \in Submissions : Submit(s)
     /\ binding' = binding

LEMMA SameJobs ==
  ASSUME Inv, binding' \in {binding, None},
         \A s \in Submissions : SameJob(s)
  PROVE  JobStep
<1>1. \A s \in Submissions : Persists(s)
  BY DEF Persists, SameJob, Running
<1> QED
  BY <1>1 DEF JobStep, SameJob

LEMMA EndedJob ==
  ASSUME Inv, NEW s \in Submissions, binding' = binding, job[s].status # "absent",
         NEW x \in {"done", "removed"}, job' = [job EXCEPT ![s].status = x]
  PROVE  JobStep
<1>1. /\ job'[s].status = x /\ job'[s].queue = job[s].queue
      /\ job'[s].awaiting = job[s].awaiting
      /\ \A t \in Submissions \ {s} : job'[t] = job[t]
  BY JobTypes DEF JobRecords
<1>2. \A t \in Submissions : Persists(t) /\ job'[t].queue = job[t].queue
  BY <1>1 DEF Persists, Running
<1>3. \A t \in Submissions : job[t].status = "absent" => job'[t].status = "absent"
  BY <1>1
<1> QED
  BY <1>2, <1>3 DEF JobStep

LEMMA NextIsJobStep ==
  ASSUME Inv, [Next]_vars
  PROVE  JobStep
<1>1. CASE Round \/ Breakdown
  <2>1. ASSUME NEW s \in Submissions, NEW i \in Instances, Claim(s, i)
        PROVE  JobStep
    <3>1. CASE job' = job /\ binding' = binding
      BY <3>1, SameJobs DEF SameJob
    <3>2. CASE Placed(s) /\ job[s].status # "absent"
      BY <3>2 DEF JobStep
    <3> QED
      BY <2>1, <3>1, <3>2, ClaimPlaces
  <2>2. CASE \/ BeginRound \/ ReadInstances \/ ReadDepth \/ ReadSpent \/ ReadWaiting \/ Decide
             \/ (\E i \in Instances : DeleteInstance(i))
             \/ Publish \/ CreateInstance \/ EndRound \/ Restart \/ Breakdown
    <3>1. job' = job
      BY <2>2 DEF BeginRound, ReadInstances, ReadDepth, ReadSpent, ReadWaiting, Decide,
                  DeleteInstance, Publish, CreateInstance, EndRound, Restart, Breakdown,
                  SkipRound, VolumesFlagUnreadable, Crash, Forget, girder
    <3>2. binding' \in {binding, None}
      BY <2>2 DEF BeginRound, ReadInstances, ReadDepth, ReadSpent, ReadWaiting, Decide,
                  DeleteInstance, Publish, CreateInstance, EndRound, Restart, Breakdown,
                  SkipRound, VolumesFlagUnreadable, Crash, Forget, decision
    <3> QED
      BY <3>1, <3>2, SameJobs DEF SameJob
  <2> QED
    BY <1>1, <2>1, <2>2 DEF Round
<1>2. CASE Environment
  <2>1. binding' = binding
    BY <1>2 DEF Environment, process, decision
  <2>2. CASE FlipArmed
    BY <2>1, <2>2, SameJobs DEF FlipArmed, SameJob
  <2>3. ASSUME NEW s \in Submissions, Submit(s)
        PROVE  JobStep
    BY <2>1, <2>3 DEF JobStep
  <2>4. ASSUME NEW s \in Submissions,
               ReapSubmission(s) \/ CancelSubmission(s) \/ RemoveSubmission(s)
        PROVE  JobStep
    <3>1. /\ job[s].status # "absent"
          /\ \E x \in {"done", "removed"} : job' = [job EXCEPT ![s].status = x]
      BY <2>4 DEF ReapSubmission, CancelSubmission, RemoveSubmission, Running
    <3> QED
      BY <2>1, <3>1, EndedJob
  <2>5. ASSUME NEW i \in Instances, Worker(i)
        PROVE  JobStep
    <3>1. CASE \/ Boot(i) \/ Announce(i) \/ TakeShared(i) \/ TakePrivate(i)
               \/ PowerOff(i) \/ DieMidRun(i) \/ Wedge(i) \/ NovaDeletes(i)
      <4>1. job' = job
        BY <3>1 DEF Boot, Announce, TakeShared, TakePrivate, PowerOff, DieMidRun, Wedge,
                    NovaDeletes, girder
      <4> QED
        BY <2>1, <4>1, SameJobs DEF SameJob
    <3>2. CASE Prepare(i)
      BY <3>2, PreparePlaces DEF JobStep, Running
    <3>3. CASE Finish(i)
      <4>1. PICK s \in held[i] \ Unclaimed(i) :
              job' = IF Running(s) THEN [job EXCEPT ![s].status = "done"] ELSE job
        BY <3>3 DEF Finish
      <4>2. s \in Submissions
        BY InvTypes
      <4>3. CASE Running(s)
        BY <2>1, <4>1, <4>2, <4>3, EndedJob DEF Running
      <4>4. CASE ~Running(s)
        BY <2>1, <4>1, <4>4, SameJobs DEF SameJob
      <4> QED
        BY <4>3, <4>4
    <3> QED
      BY <2>5, <3>1, <3>2, <3>3 DEF Worker
  <2> QED
    BY <1>2, <2>2, <2>3, <2>4, <2>5 DEF Environment, Girder
<1>3. CASE Tick
  <2>1. \A s \in Submissions : SameJob(s)
    BY <1>3, InvTypes DEF Tick, AgesAdvance, SameJob, JobRecords
  <2>2. binding' = binding
    BY <1>3 DEF Tick, decision
  <2> QED
    BY <2>1, <2>2, SameJobs
<1>4. CASE UNCHANGED vars
  <2>1. job' = job /\ binding' = binding
    BY <1>4 DEF vars, world, process, girder, decision
  <2> QED
    BY <2>1, SameJobs DEF SameJob
<1> QED
  BY <1>1, <1>2, <1>3, <1>4 DEF Next

\* What submit_job does.
LEMMA SubmitAdds ==
  ASSUME Inv, NEW s \in Submissions, Submit(s)
  PROVE  /\ job[s].status = "absent" /\ job'[s].status = "RUNNING" /\ job'[s].queue = None
         /\ job'[s].awaiting = armed /\ job'[s].age = job[s].age
         /\ \A t \in Submissions \ {s} : job'[t] = job[t]
<1>1. job[s].status = "absent" /\ job[s].queue = None
  BY JobTypes DEF Submit
<1>2. job' = [job EXCEPT ![s].status = "RUNNING", ![s].awaiting = armed]
  BY DEF Submit
<1> QED
  BY <1>1, <1>2, JobTypes DEF JobRecords

LEMMA JobsPersist ==
  ASSUME Inv, [Next]_vars
  PROVE  \A s \in Submissions : Persists(s)
<1>1. ASSUME NEW s \in Submissions, Submit(s), NEW t \in Submissions
      PROVE  Persists(t)
  BY <1>1, SubmitAdds DEF Persists, Running
<1> QED
  BY <1>1, NextIsJobStep, PlacedPersists DEF JobStep

-----------------------------------------------------------------------------
(***************************************************************************)
(* What a step does to the round: readings are made one after another, the *)
(* decision is taken once, and after that there is only less of it.        *)
(***************************************************************************)

GatherStep ==
  \/ snap' = snap /\ (pc' \in {"waiting", "decide"} => pc \in {"waiting", "decide"})
  \/ snap' = NoSnapshot /\ pc' \notin {"waiting", "decide"}
  \/ ReadInstances \/ ReadDepth \/ ReadSpent \/ ReadWaiting

DecisionStep ==
  \/ Decide
  \/ /\ to_delete' \subseteq to_delete /\ to_assign' \in {to_assign, {}}
     /\ binding' \in {binding, None}
  \/ \E s \in Submissions, i \in Instances :
       /\ Claim(s, i) /\ <<s, i>> \in to_assign
       /\ to_delete' = to_delete /\ to_assign' = to_assign \ {<<s, i>>}
       /\ \/ binding' = binding
          \/ Placed(s) /\ binding' = <<s, i>>

\* Nothing of a decision outlives its round, and deletes come before claims.
Stages ==
  /\ pc # "act" => to_delete = {} /\ to_assign = {} /\ binding = None
  /\ binding # None => to_delete = {}

LEMMA SameRound ==
  ASSUME Stages, UNCHANGED process
  PROVE  GatherStep /\ DecisionStep /\ Stages'
<1>1. /\ snap' = snap /\ pc' = pc /\ binding' = binding
      /\ to_delete' = to_delete /\ to_assign' = to_assign
  BY DEF process, decision
<1> QED
  BY <1>1 DEF GatherStep, DecisionStep, Stages

LEMMA ClaimIsDecisionStep ==
  ASSUME Inv, Stages, NEW s \in Submissions, NEW i \in Instances, Claim(s, i)
  PROVE  DecisionStep /\ Stages'
<1>1. /\ pc = "act" /\ pc' = "act" /\ to_delete = {} /\ to_delete' = {}
      /\ to_assign' = to_assign \ {<<s, i>>} /\ <<s, i>> \in to_assign
  BY DEF Claim
<1>2. binding' = binding \/ binding' = <<s, i>>
  BY DEF Claim
<1>3. CASE binding' = binding
  BY <1>1, <1>3 DEF DecisionStep, Stages
<1>4. CASE binding' # binding
  <2>1. Placed(s)
    BY <1>4, ClaimPlaces
  <2> QED
    BY <1>1, <1>2, <1>4, <2>1 DEF DecisionStep, Stages
<1> QED
  BY <1>3, <1>4

LEMMA NextIsRoundStep ==
  ASSUME Inv, Stages, [Next]_vars
  PROVE  GatherStep /\ DecisionStep /\ Stages'
<1>1. CASE BeginRound \/ EndRound \/ Restart
  <2>1. /\ snap' = snap /\ binding' = binding /\ to_delete' = to_delete
        /\ to_assign' = to_assign
        /\ to_delete = {} /\ to_assign = {} /\ binding = None
        /\ pc' \notin {"waiting", "decide"}
    BY <1>1 DEF BeginRound, EndRound, Restart, decision, Stages
  <2> QED
    BY <2>1 DEF GatherStep, DecisionStep, Stages
<1>2. CASE ReadInstances \/ ReadDepth \/ ReadSpent \/ ReadWaiting
  <2>1. /\ binding' = binding /\ to_delete' = to_delete /\ to_assign' = to_assign
        /\ pc # "act"
    BY <1>2 DEF ReadInstances, ReadDepth, ReadSpent, ReadWaiting, decision
  <2> QED
    BY <1>2, <2>1 DEF GatherStep, DecisionStep, Stages
<1>3. CASE Decide
  <2>1. snap' = NoSnapshot /\ pc' = "act" /\ binding' = binding /\ pc = "decide"
    BY <1>3 DEF Decide
  <2> QED
    BY <1>3, <2>1 DEF GatherStep, DecisionStep, Stages
<1>4. CASE SkipRound
  <2>1. /\ snap' = NoSnapshot /\ pc' = "idle" /\ pc # "act"
        /\ binding' = binding /\ to_delete' = to_delete /\ to_assign' = to_assign
    BY <1>4 DEF SkipRound, decision
  <2> QED
    BY <2>1 DEF GatherStep, DecisionStep, Stages
<1>5. CASE VolumesFlagUnreadable \/ Crash
  <2>1. /\ snap' = NoSnapshot /\ pc' = "down"
        /\ binding' = None /\ to_delete' = {} /\ to_assign' = {}
    BY <1>5 DEF VolumesFlagUnreadable, Crash, Forget
  <2> QED
    BY <2>1 DEF GatherStep, DecisionStep, Stages
<1>6. CASE (\E i \in Instances : DeleteInstance(i)) \/ Publish \/ CreateInstance
  <2>1. /\ snap' = snap /\ pc' = pc /\ pc = "act" /\ binding' \in {binding, None}
        /\ to_delete' \subseteq to_delete /\ to_assign' = to_assign
    BY <1>6 DEF DeleteInstance, Publish, CreateInstance
  <2> QED
    BY <2>1 DEF GatherStep, DecisionStep, Stages
<1>7. ASSUME NEW s \in Submissions, NEW i \in Instances, Claim(s, i)
      PROVE  GatherStep /\ DecisionStep /\ Stages'
  <2>1. GatherStep
    BY <1>7 DEF GatherStep, Claim
  <2> QED
    BY <1>7, <2>1, ClaimIsDecisionStep
<1>8. CASE Environment
  BY <1>8, SameRound DEF Environment
<1>9. CASE Tick
  <2>1. /\ snap' = snap /\ pc' = pc /\ binding' = binding
        /\ to_delete' = to_delete /\ to_assign' = to_assign
    BY <1>9 DEF Tick, decision
  <2> QED
    BY <2>1 DEF GatherStep, DecisionStep, Stages
<1>10. CASE UNCHANGED vars
  BY <1>10, SameRound DEF vars
<1> QED
  BY <1>1, <1>2, <1>3, <1>4, <1>5, <1>6, <1>7, <1>8, <1>9, <1>10
  DEF Next, Round, Breakdown

-----------------------------------------------------------------------------
(***************************************************************************)
(* What a round has read stays true of the servers and the submissions.    *)
(***************************************************************************)

KnownServers == \A i \in deleting \cup ready : server[i].status # "absent"

ListingHolds ==
  \A i \in DOMAIN snap.instances :
    /\ server[i].status # "absent" /\ snap.instances[i].size = server[i].size
    /\ snap.instances[i].status = "SHUTOFF" => server[i].status \in {"SHUTOFF", "gone"}

ScanHolds ==
  \A w \in DOMAIN snap.waiting :
    /\ job[w].status # "absent" /\ snap.waiting[w].memory_gb = Memory[w]
    /\ snap.waiting[w].assignable = job[w].awaiting

PairsExist ==
  \A p \in to_assign :
    job[p[1]].status # "absent" /\ job[p[1]].awaiting /\ server[p[2]].status # "absent"

RoundInv == Stages /\ KnownServers /\ ListingHolds /\ ScanHolds /\ PairsExist

LEMMA SnapshotDomains ==
  ASSUME Inv
  PROVE  /\ DOMAIN snap.instances \subseteq Instances
         /\ DOMAIN snap.waiting \subseteq Submissions
         /\ snap = [instances |-> snap.instances, queue_depth |-> snap.queue_depth,
                    spent |-> snap.spent, waiting |-> snap.waiting]
         /\ \A w \in DOMAIN snap.waiting : snap.waiting[w].age \in Nat
         /\ to_assign \subseteq Submissions \X Instances
         /\ to_delete \subseteq Instances /\ deleting \subseteq Instances
         /\ ready \subseteq Instances
BY DEF Inv, TypeInv, TypeOK, WorldTypeOK, IsSnapshot, IsReading, WaitingRecords

LEMMA NoSnapshotIsEmpty == DOMAIN NoSnapshot.instances = {} /\ DOMAIN NoSnapshot.waiting = {}
BY DEF NoSnapshot, Empty

\* What each reading leaves of the others.
LEMMA ReadingsKept ==
  ASSUME Inv, GatherStep
  PROVE  /\ \/ snap'.instances = snap.instances
            \/ DOMAIN snap'.instances = {}
            \/ ReadInstances /\ snap'.instances =
                 [i \in Listed |-> [status |-> server[i].status, size |-> server[i].size]]
         /\ \/ snap'.waiting = snap.waiting
            \/ DOMAIN snap'.waiting = {}
            \/ ReadWaiting /\ snap'.waiting =
                 [s \in Oldest(Waiting) |->
                    [age |-> job[s].age, memory_gb |-> Memory[s],
                     disk_gb |-> None, assignable |-> job[s].awaiting]]
<1>1. CASE snap' = snap \/ snap' = NoSnapshot
  BY <1>1, NoSnapshotIsEmpty
<1>2. CASE ReadInstances
  BY <1>2, SnapshotDomains DEF ReadInstances
<1>3. CASE ReadDepth
  BY <1>3, SnapshotDomains DEF ReadDepth
<1>4. CASE ReadSpent
  <2>1. snap' = [snap EXCEPT !.spent = Spent]
    BY <1>4 DEF ReadSpent
  <2> QED
    BY <2>1, SnapshotDomains
<1>5. CASE ReadWaiting
  BY <1>5, SnapshotDomains DEF ReadWaiting
<1> QED
  BY <1>1, <1>2, <1>3, <1>4, <1>5 DEF GatherStep

LEMMA KnownServersKept ==
  ASSUME Inv, KnownServers, [Next]_vars
  PROVE  KnownServers'
<1>1. \A i \in deleting \cup ready : i \in Instances
  BY SnapshotDomains
<1>2. ASSUME NEW i \in deleting' \cup ready', i \notin deleting \cup ready
      PROVE  i \in Instances /\ server[i].status # "absent"
  <2>1. CASE \E k \in Instances : DeleteInstance(k)
    BY <1>2, <2>1 DEF DeleteInstance, Listed, broker
  <2>2. CASE \E k \in Instances : Worker(k)
    BY <1>2, <2>2 DEF Worker, Boot, Announce, TakeShared, TakePrivate, Prepare, Finish,
                      PowerOff, DieMidRun, Wedge, NovaDeletes, broker, nova
  <2>3. CASE ~\E k \in Instances : DeleteInstance(k) \/ Worker(k)
    <3>1. CASE Round \/ Breakdown
      BY <1>2, <2>3, <3>1
      DEF Round, BeginRound, ReadInstances, ReadDepth, ReadSpent, ReadWaiting, Decide,
          Claim, Publish, CreateInstance, EndRound, Restart, Breakdown, SkipRound,
          VolumesFlagUnreadable, Crash, Forget, broker, nova
    <3>2. CASE Girder
      BY <1>2, <3>2 DEF Girder, FlipArmed, Submit, ReapSubmission, CancelSubmission,
                        RemoveSubmission, broker, nova
    <3>3. CASE Tick \/ UNCHANGED vars
      BY <1>2, <3>3 DEF Tick, AgesAdvance, vars, world, broker, nova
    <3> QED
      BY <2>3, <3>1, <3>2, <3>3 DEF Next, Environment
  <2> QED
    BY <2>1, <2>2, <2>3
<1>3. \A i \in Instances : server[i].status # "absent" => server'[i].status # "absent"
  BY ServersAdvance DEF Advances
<1> QED
  BY <1>1, <1>2, <1>3 DEF KnownServers

LEMMA ListingKept ==
  ASSUME Inv, Stages, ListingHolds, [Next]_vars
  PROVE  ListingHolds'
<1>1. GatherStep
  BY NextIsRoundStep
<1>2. CASE snap'.instances = snap.instances
  <2> SUFFICES ASSUME NEW i \in DOMAIN snap.instances
               PROVE  /\ server'[i].status # "absent"
                      /\ snap.instances[i].size = server'[i].size
                      /\ snap.instances[i].status = "SHUTOFF" =>
                           server'[i].status \in {"SHUTOFF", "gone"}
    BY <1>2 DEF ListingHolds
  <2>1. i \in Instances /\ Advances(i)
    BY SnapshotDomains, ServersAdvance
  <2> QED
    BY <2>1 DEF ListingHolds, Advances
<1>3. CASE DOMAIN snap'.instances = {}
  BY <1>3 DEF ListingHolds
<1>4. CASE ReadInstances /\ snap'.instances =
             [i \in Listed |-> [status |-> server[i].status, size |-> server[i].size]]
  <2>1. server' = server
    BY <1>4 DEF ReadInstances, nova
  <2> QED
    BY <1>4, <2>1 DEF ListingHolds, Listed
<1> QED
  BY <1>1, <1>2, <1>3, <1>4, ReadingsKept

LEMMA ScanKept ==
  ASSUME Inv, Stages, ScanHolds, [Next]_vars
  PROVE  ScanHolds'
<1>1. GatherStep
  BY NextIsRoundStep
<1>2. CASE snap'.waiting = snap.waiting
  <2> SUFFICES ASSUME NEW w \in DOMAIN snap.waiting
               PROVE  /\ job'[w].status # "absent"
                      /\ snap.waiting[w].memory_gb = Memory[w]
                      /\ snap.waiting[w].assignable = job'[w].awaiting
    BY <1>2 DEF ScanHolds
  <2>1. w \in Submissions /\ Persists(w)
    BY SnapshotDomains, JobsPersist
  <2> QED
    BY <2>1 DEF ScanHolds, Persists
<1>3. CASE DOMAIN snap'.waiting = {}
  BY <1>3 DEF ScanHolds
<1>4. CASE ReadWaiting /\ snap'.waiting =
             [s \in Oldest(Waiting) |->
                [age |-> job[s].age, memory_gb |-> Memory[s],
                 disk_gb |-> None, assignable |-> job[s].awaiting]]
  <2>1. job' = job
    BY <1>4 DEF ReadWaiting, girder
  <2>2. \A w \in Oldest(Waiting) : job[w].status # "absent"
    BY DEF Oldest, Waiting, Running
  <2> QED
    BY <1>4, <2>1, <2>2 DEF ScanHolds
<1> QED
  BY <1>1, <1>2, <1>3, <1>4, ReadingsKept

\* What a pair of the decision says of the snapshot it was taken on.
LEMMA DecidedPairs ==
  ASSUME Inv, RoundInv, NEW p \in Assign(FleetState, Limits)
  PROVE  /\ p[1] \in Submissions /\ p[2] \in Instances
         /\ p[1] \in DOMAIN snap.waiting /\ p[2] \in DOMAIN snap.instances
         /\ p[1] \in Placeable(FleetState) /\ p[2] \in Assignable(FleetState, Limits)
         /\ job[p[1]].status # "absent" /\ job[p[1]].awaiting /\ server[p[2]].status # "absent"
<1>1. /\ DOMAIN FleetState.instances = DOMAIN snap.instances
      /\ FleetState.waiting = snap.waiting
  BY DEF FleetState
<1>2. p[1] \in Placeable(FleetState) /\ p[2] \in Assignable(FleetState, Limits)
  BY DEF Assign
<1>3. p[1] \in DOMAIN snap.waiting /\ snap.waiting[p[1]].assignable
  BY <1>1, <1>2 DEF Placeable
<1>4. p[2] \in DOMAIN snap.instances
  BY <1>1, <1>2 DEF Assignable, Unassigned, Live
<1>5. job[p[1]].awaiting
  BY <1>3 DEF RoundInv, ScanHolds
<1> QED
  BY <1>2, <1>3, <1>4, <1>5, SnapshotDomains DEF RoundInv, ListingHolds, ScanHolds

LEMMA PairsKept ==
  ASSUME Inv, RoundInv, [Next]_vars
  PROVE  PairsExist'
<1>1. CASE Decide
  <2>1. to_assign' = Assign(FleetState, Limits) /\ job' = job /\ server' = server
    BY <1>1 DEF Decide, girder, nova
  <2> QED
    BY <2>1, DecidedPairs DEF PairsExist
<1>2. CASE to_assign' \subseteq to_assign
  <2> SUFFICES ASSUME NEW p \in to_assign'
               PROVE  /\ job'[p[1]].status # "absent" /\ job'[p[1]].awaiting
                      /\ server'[p[2]].status # "absent"
    BY DEF PairsExist
  <2>1. p \in to_assign /\ p[1] \in Submissions /\ p[2] \in Instances
    BY <1>2, SnapshotDomains
  <2>2. Persists(p[1]) /\ Advances(p[2])
    BY <2>1, JobsPersist, ServersAdvance
  <2> QED
    BY <2>1, <2>2 DEF RoundInv, PairsExist, Persists, Advances
<1>3. DecisionStep => Decide \/ to_assign' \subseteq to_assign
  BY DEF DecisionStep
<1> QED
  BY <1>1, <1>2, <1>3, NextIsRoundStep DEF RoundInv

LEMMA InitRound == Init => RoundInv
<1> SUFFICES ASSUME Init PROVE RoundInv
  OBVIOUS
<1>1. /\ pc = "idle" /\ snap = NoSnapshot /\ to_delete = {} /\ to_assign = {}
      /\ binding = None /\ deleting = {} /\ ready = {}
  BY DEF Init, WorldInit, ControllerInit
<1> QED
  BY <1>1, NoSnapshotIsEmpty
  DEF RoundInv, Stages, KnownServers, ListingHolds, ScanHolds, PairsExist

LEMMA RoundInvKept == Inv /\ RoundInv /\ [Next]_vars => RoundInv'
BY NextIsRoundStep, KnownServersKept, ListingKept, ScanKept, PairsKept DEF RoundInv

LEMMA RoundInvHolds == Spec => [](Inv /\ RoundInv)
<1>1. Init => Inv
  BY InitImplements
<1> QED
  BY <1>1, InitRound, NextKeepsInv, RoundInvKept, PTL DEF Spec

LEMMA AbsentStays ==
  ASSUME Inv, KnownServers, [Next]_vars, NEW i \in Instances, server[i].status = "absent"
  PROVE  \/ server'[i] = server[i]
         \/ CreateInstance /\ Boots(Head(to_create).rung) /\ i = Min(Unused)
<1>1. CASE CreateInstance
  <2>1. CASE server' = server
    BY <2>1
  <2>2. CASE Boots(Head(to_create).rung)
    BY <1>1, <2>2, HeadOfCreates, BootsElsewhere DEF CreateInstance
  <2> QED
    BY <1>1, <2>1, <2>2 DEF CreateInstance
<1>2. CASE (Round \/ Breakdown) /\ ~CreateInstance
  BY <1>2
  DEF Round, BeginRound, ReadInstances, ReadDepth, ReadSpent, ReadWaiting, Decide,
      DeleteInstance, Claim, Publish, EndRound, Restart, Breakdown, SkipRound,
      VolumesFlagUnreadable, Crash, Forget, nova
<1>3. CASE Girder
  BY <1>3 DEF Girder, FlipArmed, Submit, ReapSubmission, CancelSubmission,
              RemoveSubmission, nova
<1>4. ASSUME NEW k \in Instances, Worker(k)
      PROVE  server'[i] = server[i]
  <2>1. CASE \/ Announce(k) \/ TakeShared(k) \/ TakePrivate(k) \/ Prepare(k) \/ Finish(k)
             \/ Wedge(k)
    BY <2>1 DEF Announce, TakeShared, TakePrivate, Prepare, Finish, Wedge, nova
  <2>2. CASE Boot(k) \/ PowerOff(k) \/ DieMidRun(k) \/ NovaDeletes(k)
    <3>1. server[k].status # "absent" /\ \E x : server' = [server EXCEPT ![k].status = x]
      BY <2>2 DEF Boot, PowerOff, DieMidRun, NovaDeletes, KnownServers
    <3> QED
      BY <3>1, ServerTypes
  <2> QED
    BY <1>4, <2>1, <2>2 DEF Worker
<1>5. CASE Tick
  BY <1>5 DEF Tick, AgesAdvance
<1>6. CASE UNCHANGED vars
  BY <1>6 DEF vars, world, nova
<1> QED
  BY <1>1, <1>2, <1>3, <1>4, <1>5, <1>6 DEF Next, Environment


-----------------------------------------------------------------------------
(***************************************************************************)
(* The size.  decide() pairs a submission with an instance of its rung;    *)
(* that is the size it asked for as long as every server has a size of the *)
(* catalogue, which the creates see to.                                    *)
(***************************************************************************)

\* The flavour a create without a size takes is one of the catalogue, so that there is a
\* catalogue; an instance of any other flavour counts as the smallest.
FlavorHasASize == FlavorRung \in DOMAIN Sizes

RightSize(s, i) == Memory[s] # None => server[i].size = Memory[s]

ServersHaveSizes ==
  \A i \in Instances : server[i].status # "absent" => server[i].size \in DOMAIN Sizes

CreatesHaveSizes == \A n \in DOMAIN to_create : to_create[n].rung \in DOMAIN Sizes \cup {None}

PairsFit == \A p \in to_assign : RightSize(p[1], p[2])

PlacedFit ==
  \A s \in Submissions : job[s].awaiting /\ job[s].queue # None =>
    server[job[s].queue].status # "absent" /\ RightSize(s, job[s].queue)

ShapeInv == ServersHaveSizes /\ CreatesHaveSizes /\ PairsFit /\ PlacedFit

LEMMA FleetIsOrdered ==
  ASSUME Inv
  PROVE  /\ Countable(FleetState, Limits)
         /\ Orderable(FleetState, DOMAIN FleetState.waiting)
         /\ Rankable(FleetState, DOMAIN FleetState.instances)
<1>1. /\ DOMAIN FleetState.instances = DOMAIN snap.instances
      /\ FleetState.waiting = snap.waiting
      /\ \A i \in DOMAIN snap.instances : FleetState.instances[i].age = server[i].age
  BY DEF FleetState
<1>2. Countable(FleetState, Limits)
  BY SnapshotIsCountable DEF Inv, TypeInv
<1>3. IsFiniteSet(DOMAIN snap.instances) /\ IsFiniteSet(DOMAIN snap.waiting)
  BY SnapshotDomains, IdsAssumption, FS_Subset
<1>4. DOMAIN snap.instances \subseteq Nat /\ DOMAIN snap.waiting \subseteq Nat
  BY SnapshotDomains, IdsAssumption
<1>5. Orderable(FleetState, DOMAIN FleetState.waiting)
  BY <1>1, <1>3, <1>4, SnapshotDomains DEF Orderable
<1>6. \A i \in DOMAIN snap.instances : server[i].age \in Nat
  BY SnapshotDomains, ServerTypes
<1> QED
  BY <1>1, <1>2, <1>3, <1>4, <1>5, <1>6 DEF Rankable

LEMMA DecidedPairsFit ==
  ASSUME FlavorHasASize, Inv, RoundInv, ServersHaveSizes, NEW p \in Assign(FleetState, Limits)
  PROVE  RightSize(p[1], p[2])
<1>1. InstanceRung(FleetState, Limits, p[2]) = SubmissionRung(FleetState, Limits, p[1])
  BY FleetIsOrdered, AssignIsAMatching
<1>2. /\ p[1] \in DOMAIN snap.waiting /\ p[2] \in DOMAIN snap.instances
      /\ p[2] \in Instances
      /\ server[p[2]].status # "absent"
  BY DecidedPairs
<1>3. Rungs(Limits) = DOMAIN Sizes /\ DOMAIN Sizes # {}
  BY DEF Rungs, Limits, FlavorHasASize
<1>4. FleetState.instances[p[2]].size = server[p[2]].size
  BY <1>2 DEF FleetState, RoundInv, ListingHolds
<1>5. server[p[2]].size \in DOMAIN Sizes
  BY <1>2 DEF ServersHaveSizes
<1>6. InstanceRung(FleetState, Limits, p[2]) = server[p[2]].size
  BY <1>3, <1>4, <1>5 DEF InstanceRung
<1>7. FleetState.waiting[p[1]].memory_gb = Memory[p[1]]
  BY <1>2 DEF FleetState, RoundInv, ScanHolds
<1>8. Memory[p[1]] # None => SubmissionRung(FleetState, Limits, p[1]) = Memory[p[1]]
  BY <1>3, <1>7 DEF SubmissionRung
<1> QED
  BY <1>1, <1>6, <1>8 DEF RightSize

LEMMA ServersKeepSizes ==
  ASSUME FlavorHasASize, Inv, RoundInv, ServersHaveSizes, CreatesHaveSizes, [Next]_vars
  PROVE  ServersHaveSizes'
<1> SUFFICES ASSUME NEW i \in Instances, server'[i].status # "absent"
             PROVE  server'[i].size \in DOMAIN Sizes
  BY DEF ServersHaveSizes
<1>1. CASE server[i].status # "absent"
  BY <1>1, ServersAdvance DEF Advances, ServersHaveSizes
<1>2. CASE server[i].status = "absent"
  <2>1. CreateInstance /\ Boots(Head(to_create).rung) /\ i = Min(Unused)
    BY <1>2, AbsentStays DEF RoundInv
  <2>2. /\ Head(to_create).rung \in Nat \cup {None}
        /\ Head(to_create).rung \in DOMAIN Sizes \cup {None}
    BY <2>1, HeadOfCreates DEF CreateInstance, CreatesHaveSizes
  <2>3. server'[i].size \in {FlavorRung, Head(to_create).rung}
    BY <2>1, <2>2, BootsElsewhere
  <2>4. Head(to_create).rung = None => server'[i].size = FlavorRung
    BY <2>1, <2>2, BootsElsewhere
  <2> QED
    BY <2>2, <2>3, <2>4 DEF FlavorHasASize
<1> QED
  BY <1>1, <1>2

LEMMA CreatesKeepSizes ==
  ASSUME Inv, CreatesHaveSizes, [Next]_vars
  PROVE  CreatesHaveSizes'
<1>1. CASE Decide
  <2>1. to_create' = Create(FleetState, Limits) /\ Rungs(Limits) = DOMAIN Sizes
    BY <1>1 DEF Decide, Rungs, Limits
  <2>2. Wanted(FleetState, Limits) \in Seq(Creates)
    BY FleetIsOrdered, WantsAreCreates, WantedIsAList DEF Inv, TypeInv
  <2>3. Len(Wanted(FleetState, Limits)) \in Nat
    BY <2>2, LenProperties
  <2>4. \A n \in DOMAIN Create(FleetState, Limits) :
          \/ Create(FleetState, Limits)[n].rung = None
          \/ Create(FleetState, Limits)[n].rung \in Rungs(Limits)
    BY <2>3, FleetIsOrdered, CreateNamesARung
  <2> QED
    BY <2>1, <2>4 DEF CreatesHaveSizes
<1>2. CASE CreateInstance
  <2>1. to_create \in Seq(Creates) /\ to_create # << >>
    BY <1>2 DEF Inv, TypeInv, TypeOK, CreateInstance
  <2>2. \A n \in DOMAIN Tail(to_create) : n + 1 \in DOMAIN to_create /\ Tail(to_create)[n] = to_create[n + 1]
    <3> TAKE n \in DOMAIN Tail(to_create)
    <3>1. /\ Tail(to_create) \in Seq(Creates) /\ Len(Tail(to_create)) = Len(to_create) - 1
          /\ \A m \in 1..Len(Tail(to_create)) : Tail(to_create)[m] = to_create[m + 1]
      BY <2>1, HeadTailProperties
    <3>2. /\ Len(to_create) \in Nat /\ DOMAIN to_create = 1..Len(to_create)
          /\ DOMAIN Tail(to_create) = 1..Len(Tail(to_create))
      BY <2>1, <3>1, LenProperties
    <3> QED
      BY <3>1, <3>2
  <2>3. to_create' = Tail(to_create) \/ to_create' = << >>
    BY <1>2 DEF CreateInstance
  <2>4. CASE to_create' = Tail(to_create)
    BY <2>2, <2>4 DEF CreatesHaveSizes
  <2>5. CASE to_create' = << >>
    BY <2>5 DEF CreatesHaveSizes
  <2> QED
    BY <2>3, <2>4, <2>5
<1>3. CASE to_create' = to_create \/ to_create' = << >>
  BY <1>3 DEF CreatesHaveSizes
<1>4. \/ Decide \/ CreateInstance
      \/ to_create' = to_create \/ to_create' = << >>
  BY DEF Next, Round, BeginRound, ReadInstances, ReadDepth, ReadSpent, ReadWaiting,
         DeleteInstance, Claim, Publish, EndRound, Restart, Breakdown, SkipRound,
         VolumesFlagUnreadable, Crash, Forget, Environment, Tick, vars, process, decision
<1> QED
  BY <1>1, <1>2, <1>3, <1>4

LEMMA PairsKeepFit ==
  ASSUME FlavorHasASize, Inv, RoundInv, ServersHaveSizes, PairsFit, [Next]_vars
  PROVE  PairsFit'
<1>1. CASE Decide
  <2>1. to_assign' = Assign(FleetState, Limits) /\ server' = server
    BY <1>1 DEF Decide, nova
  <2> QED
    BY <2>1, DecidedPairsFit DEF PairsFit, RightSize
<1>2. CASE to_assign' \subseteq to_assign
  <2> SUFFICES ASSUME NEW p \in to_assign PROVE RightSize(p[1], p[2])'
    BY <1>2 DEF PairsFit
  <2>1. server'[p[2]].size = server[p[2]].size
    BY SnapshotDomains, ServersAdvance DEF RoundInv, PairsExist, Advances
  <2> QED
    BY <2>1 DEF PairsFit, RightSize
<1>3. DecisionStep => Decide \/ to_assign' \subseteq to_assign
  BY DEF DecisionStep
<1> QED
  BY <1>1, <1>2, <1>3, NextIsRoundStep DEF RoundInv

\* A worker on record that a pair put there.
LEMMA PlacedByAPair ==
  ASSUME Inv, NEW t \in Submissions, Placed(t), NEW s \in Submissions,
         job'[s].queue # job[s].queue
  PROVE  /\ s = t
         /\ \/ ~job[s].awaiting
            \/ \E i \in Instances : /\ Claim(s, i) /\ <<s, i>> \in to_assign
                                    /\ job'[s].queue = i /\ binding' = <<s, i>>
<1>1. s = t
  BY JobTypes DEF Placed
<1>2. PICK i \in Instances :
        /\ job' = [job EXCEPT ![s].queue = i]
        /\ \/ Claim(s, i) /\ binding' = <<s, i>>
           \/ ~job[s].awaiting
  BY <1>1 DEF Placed
<1>3. job'[s].queue = i
  BY <1>2, JobTypes DEF JobRecords
<1> QED
  BY <1>1, <1>2, <1>3 DEF Claim

LEMMA PlacedKeepFit ==
  ASSUME Inv, RoundInv, PairsFit, PlacedFit, [Next]_vars
  PROVE  PlacedFit'
<1> SUFFICES ASSUME NEW s \in Submissions, job'[s].awaiting, job'[s].queue # None
             PROVE  server'[job'[s].queue].status # "absent" /\ RightSize(s, job[s].queue)'
  BY DEF PlacedFit
<1>1. ASSUME NEW i \in Instances, server[i].status # "absent", RightSize(s, i)
      PROVE  server'[i].status # "absent" /\ RightSize(s, i)'
  BY <1>1, ServersAdvance DEF Advances, RightSize
<1>2. CASE job'[s].queue = job[s].queue /\ job[s].status # "absent"
  <2>1. job[s].awaiting
    BY <1>2, JobsPersist DEF Persists
  <2>2. job[s].queue \in Instances
    BY <1>2, JobTypes
  <2> QED
    BY <1>1, <1>2, <2>1, <2>2 DEF PlacedFit, RightSize
<1>3. CASE job'[s].queue # job[s].queue /\ job[s].status # "absent"
  <2>1. PICK t \in Submissions : Placed(t)
    BY <1>3, NextIsJobStep, SubmitAdds DEF JobStep
  <2>2. job[s].awaiting
    BY <1>3, JobsPersist DEF Persists
  <2>3. PICK i \in Instances : <<s, i>> \in to_assign /\ job'[s].queue = i
    BY <1>3, <2>1, <2>2, PlacedByAPair
  <2>4. server[i].status # "absent" /\ RightSize(s, i)
    BY <2>3 DEF PairsFit, RoundInv, PairsExist
  <2> QED
    BY <1>1, <2>3, <2>4 DEF RightSize
<1>4. CASE job[s].status = "absent"
  <2>1. job[s].queue = None
    BY <1>4, JobTypes
  <2>2. job'[s].queue = None
    BY <1>4, <2>1, NextIsJobStep, SubmitAdds, PlacedPersists DEF JobStep
  <2> QED
    BY <2>2
<1> QED
  BY <1>2, <1>3, <1>4

LEMMA InitShape == Init => ShapeInv
BY DEF Init, WorldInit, ControllerInit, ShapeInv, ServersHaveSizes, CreatesHaveSizes,
       PairsFit, PlacedFit

\* A submission that names a size runs on an instance of that size, although the pair was
\* decided on a listing made several calls earlier (S6, plan.py); as long as the configured
\* flavour is a size of the catalogue.
THEOREM AssignedTheRightShape ==
  ASSUME FlavorHasASize
  PROVE  Spec => []RightShape
<1>1. Inv /\ RoundInv /\ ShapeInv /\ [Next]_vars => ShapeInv'
  BY ServersKeepSizes, CreatesKeepSizes, PairsKeepFit, PlacedKeepFit DEF ShapeInv
<1>2. ShapeInv => RightShape
  BY DEF ShapeInv, PlacedFit, RightSize, RightShape
<1> QED
  BY <1>1, <1>2, InitShape, RoundInvHolds, PTL DEF Spec

-----------------------------------------------------------------------------
(***************************************************************************)
(* The claim.  While the flag stays up nothing is dispatched but by the    *)
(* controller, so that what it claims, and only that, has a worker.        *)
(***************************************************************************)

\* Girder's setting is up from the start and nobody changes it.
StaysArmed == ArmedAtStart \subseteq {TRUE} /\ "flip" \notin Faults

\* _spent finds every claim: no document is removed, and the scan is as long as the list.
ClaimsAreFound == Cardinality(Submissions) <= ScanLimit /\ "remove" \notin Faults

ArmedInv ==
  /\ armed /\ dispatch = << >>
  /\ \A s \in Submissions : job[s].status # "absent" => job[s].awaiting

LEMMA InitArmed ==
  ASSUME StaysArmed
  PROVE  Init => ArmedInv
<1> SUFFICES ASSUME Init PROVE ArmedInv
  OBVIOUS
<1>1. armed = TRUE
  BY DEF StaysArmed, Init, WorldInit
<1>2. dispatch = << >> /\ \A s \in Submissions : job[s].status = "absent"
  BY DEF Init, WorldInit
<1> QED
  BY <1>1, <1>2 DEF ArmedInv

LEMMA ArmedKept ==
  ASSUME StaysArmed, Inv, ArmedInv, [Next]_vars
  PROVE  ArmedInv'
<1>1. armed' = armed /\ dispatch' = dispatch
  <2>1. CASE Round \/ Breakdown
    BY <2>1
    DEF Round, BeginRound, ReadInstances, ReadDepth, ReadSpent, ReadWaiting, Decide,
        DeleteInstance, Claim, Publish, CreateInstance, EndRound, Restart, Breakdown,
        SkipRound, VolumesFlagUnreadable, Crash, Forget, girder, broker
  <2>2. CASE Girder
    BY <2>2 DEF Girder, FlipArmed, Submit, ReapSubmission, CancelSubmission,
                RemoveSubmission, broker, ArmedInv, StaysArmed, Fault
  <2>3. ASSUME NEW i \in Instances, Worker(i) PROVE armed' = armed /\ dispatch' = dispatch
    BY <2>3 DEF Worker, Boot, Announce, TakeShared, TakePrivate, Prepare, Finish, PowerOff,
                DieMidRun, Wedge, NovaDeletes, girder, broker, ArmedInv
  <2>4. CASE Tick
    BY <2>4 DEF Tick, AgesAdvance, broker
  <2>5. CASE UNCHANGED vars
    BY <2>5 DEF vars, world, girder, broker
  <2> QED
    BY <2>1, <2>2, <2>3, <2>4, <2>5 DEF Next, Environment
<1>2. ASSUME NEW s \in Submissions, job'[s].status # "absent"
      PROVE  job'[s].awaiting
  <2>1. CASE job[s].status # "absent"
    BY <2>1, JobsPersist DEF Persists, ArmedInv
  <2>2. CASE job[s].status = "absent"
    <3>1. CASE \E t \in Submissions : Submit(t)
      BY <1>2, <2>2, <3>1, SubmitAdds DEF ArmedInv
    <3>2. CASE \E t \in Submissions : Placed(t) /\ job[t].status # "absent"
      BY <1>2, <2>2, <3>2, PlacedPersists
    <3> QED
      BY <1>2, <2>2, <3>1, <3>2, NextIsJobStep DEF JobStep
  <2> QED
    BY <2>1, <2>2
<1> QED
  BY <1>1, <1>2 DEF ArmedInv

\* A worker on record, while the flag stays up: by a pair of the round's, and only then.
LEMMA OnlyPairsPlace ==
  ASSUME Inv, ArmedInv, Stages, [Next]_vars,
         NEW s \in Submissions, job'[s].queue # job[s].queue
  PROVE  \E i \in Instances :
           /\ Claim(s, i) /\ <<s, i>> \in to_assign
           /\ job'[s].queue = i /\ binding' = <<s, i>>
           /\ \A t \in Submissions \ {s} : job'[t] = job[t]
<1>1. PICK t \in Submissions : Placed(t) /\ job[t].status # "absent"
  <2>1. ASSUME NEW t \in Submissions, Submit(t) PROVE job'[s].queue = job[s].queue
    BY <2>1, SubmitAdds, JobTypes
  <2> QED
    BY <2>1, NextIsJobStep DEF JobStep
<1>2. s = t /\ (~job[s].awaiting \/ \E i \in Instances :
        Claim(s, i) /\ <<s, i>> \in to_assign /\ job'[s].queue = i /\ binding' = <<s, i>>)
  BY <1>1, PlacedByAPair
<1>3. job[s].awaiting
  BY <1>1, <1>2 DEF ArmedInv
<1>4. \A u \in Submissions \ {s} : job'[u] = job[u]
  BY <1>1, <1>2, PlacedPersists
<1> QED
  BY <1>2, <1>3, <1>4

-----------------------------------------------------------------------------
\* One submission per instance: every claim older than the listing is in the reading of
\* the spent instances, and no claim is made between that and the decision.

NoneRemoved == \A s \in Submissions : job[s].status # "removed"

SpentIsSeen ==
  pc \in {"waiting", "decide"} =>
    \A i \in DOMAIN snap.instances, s \in Submissions : job[s].queue = i => i \in snap.spent

PairsAreFree ==
  /\ \A p \in to_assign, s \in Submissions : job[s].queue # p[2]
  /\ \A p, q \in to_assign : p[2] = q[2] => p = q

SeenInv == NoneRemoved /\ SpentIsSeen /\ PairsAreFree /\ OneSubmissionPerInstance

LEMMA NoneRemovedKept ==
  ASSUME ClaimsAreFound, Inv, NoneRemoved, [Next]_vars
  PROVE  NoneRemoved'
<1> SUFFICES ASSUME NEW s \in Submissions, job'[s].status = "removed" PROVE FALSE
  BY DEF NoneRemoved
<1>1. job[s].status # "removed"
  BY DEF NoneRemoved
<1>2. ASSUME NEW t \in Submissions, NEW x \in {"RUNNING", "done"}, NEW y \in BOOLEAN,
             job' = [job EXCEPT ![t].status = x]
      PROVE  FALSE
  BY <1>1, <1>2, JobTypes DEF JobRecords
<1>3. CASE Girder
  <2>1. ASSUME NEW t \in Submissions, Submit(t) PROVE FALSE
    BY <1>1, <2>1, SubmitAdds
  <2> QED
    BY <1>1, <1>2, <1>3, <2>1
    DEF Girder, FlipArmed, ReapSubmission, CancelSubmission, RemoveSubmission,
        ClaimsAreFound, Fault
<1>4. ASSUME NEW t \in Submissions, Placed(t) PROVE FALSE
  BY <1>1, <1>4, JobTypes DEF Placed, JobRecords
<1>5. ASSUME NEW i \in Instances, Worker(i) PROVE FALSE
  <2>1. CASE Prepare(i)
    BY <2>1, <1>4, PreparePlaces
  <2>2. CASE Finish(i)
    <3>1. PICK t \in held[i] \ Unclaimed(i) :
            job' = IF Running(t) THEN [job EXCEPT ![t].status = "done"] ELSE job
      BY <2>2 DEF Finish
    <3>2. t \in Submissions
      BY InvTypes
    <3> QED
      BY <1>1, <1>2, <3>1, <3>2
  <2>3. job' # job
    BY <1>1
  <2> QED
    BY <1>5, <2>1, <2>2, <2>3
    DEF Worker, Boot, Announce, TakeShared, TakePrivate, PowerOff, DieMidRun, Wedge,
        NovaDeletes, girder
<1>6. CASE Round \/ Breakdown
  <2>1. ASSUME NEW t \in Submissions, NEW i \in Instances, Claim(t, i) PROVE FALSE
    BY <1>1, <1>4, <2>1, ClaimPlaces
  <2> QED
    BY <1>1, <1>6, <2>1
    DEF Round, BeginRound, ReadInstances, ReadDepth, ReadSpent, ReadWaiting, Decide,
        DeleteInstance, Publish, CreateInstance, EndRound, Restart, Breakdown,
        SkipRound, VolumesFlagUnreadable, Crash, Forget, girder
<1>7. CASE Tick
  BY <1>1, <1>7, JobTypes DEF Tick, AgesAdvance, JobRecords
<1> QED
  BY <1>1, <1>3, <1>5, <1>6, <1>7 DEF Next, Environment, vars, world, girder

LEMMA EveryClaimIsRead ==
  ASSUME ClaimsAreFound, Inv, NoneRemoved,
         NEW s \in Submissions, NEW i \in Instances, job[s].queue = i
  PROVE  i \in Claimed
<1>1. s \in Recorded
  <2>1. job[s].queue # None
    BY QueueIsNotNone
  <2>2. job[s].status # "absent" /\ job[s].status # "removed" /\ job[s] \in JobRecords
    BY <2>1, JobTypes DEF NoneRemoved
  <2> QED
    BY <2>2 DEF Recorded, JobRecords
<1>2. Cardinality({t \in Recorded : t > s}) < ScanLimit
  <2> DEFINE newer == {t \in Recorded : t > s}
  <2>1. newer \subseteq Submissions \ {s}
    BY IdsAssumption DEF Recorded
  <2>2. /\ IsFiniteSet(Submissions) /\ IsFiniteSet(Submissions \ {s})
        /\ Cardinality(Submissions \ {s}) = Cardinality(Submissions) - 1
    BY IdsAssumption, FS_RemoveElement
  <2>3. Cardinality(newer) <= Cardinality(Submissions \ {s}) /\ IsFiniteSet(newer)
    BY <2>1, <2>2, FS_Subset
  <2>4. Cardinality(newer) \in Nat /\ Cardinality(Submissions) \in Nat
    BY <2>2, <2>3, FS_CardinalityType
  <2> HIDE DEF newer
  <2>5. Cardinality(newer) < ScanLimit
    BY <2>2, <2>3, <2>4, BoundsAssumption DEF ClaimsAreFound
  <2> QED
    BY <2>5 DEF newer
<1> QED
  BY <1>1, <1>2, QueueIsNotNone DEF Claimed, Newest

LEMMA SpentKept ==
  ASSUME ClaimsAreFound, Inv, RoundInv, ArmedInv, NoneRemoved, SpentIsSeen, [Next]_vars
  PROVE  SpentIsSeen'
<1> SUFFICES ASSUME pc' \in {"waiting", "decide"}, NEW i \in DOMAIN snap'.instances,
                    NEW s \in Submissions, job'[s].queue = i
             PROVE  i \in snap'.spent
  BY DEF SpentIsSeen
<1>1. CASE ReadSpent
  <2>1. job' = job /\ snap' = [snap EXCEPT !.spent = Spent]
    BY <1>1 DEF ReadSpent, girder
  <2>2. snap'.instances = snap.instances /\ snap'.spent = Spent
    BY <2>1, SnapshotDomains
  <2>3. i \in Instances /\ i \in Claimed
    BY <2>1, <2>2, SnapshotDomains, EveryClaimIsRead
  <2> QED
    BY <2>2, <2>3 DEF Spent
<1>2. CASE ReadInstances \/ ReadDepth
  BY <1>2 DEF ReadInstances, ReadDepth
<1>3. CASE ReadWaiting
  <2>1. job' = job /\ snap'.instances = snap.instances /\ snap'.spent = snap.spent
    BY <1>3, SnapshotDomains DEF ReadWaiting, girder
  <2> QED
    BY <1>3, <2>1 DEF ReadWaiting, SpentIsSeen
<1>4. CASE snap' = snap /\ pc \in {"waiting", "decide"}
  <2>1. job'[s].queue = job[s].queue
    <3> SUFFICES ASSUME job'[s].queue # job[s].queue PROVE FALSE
      OBVIOUS
    <3>1. pc = "act"
      BY OnlyPairsPlace DEF RoundInv, Claim
    <3> QED
      BY <1>4, <3>1
  <2> QED
    BY <1>4, <2>1 DEF SpentIsSeen
<1> QED
  BY <1>1, <1>2, <1>3, <1>4, NextIsRoundStep DEF RoundInv, GatherStep

\* What decide() takes for capacity, or gives work to, nothing is on record for.
LEMMA CapacityIsFree ==
  ASSUME Inv, SpentIsSeen, pc = "decide", NEW i \in Live(FleetState) \ snap.spent,
         NEW s \in Submissions
  PROVE  job[s].queue # i
<1>1. i \in DOMAIN snap.instances
  BY DEF Live, FleetState
<1> QED
  BY <1>1 DEF SpentIsSeen

LEMMA FreeKept ==
  ASSUME Inv, RoundInv, ArmedInv, SpentIsSeen, PairsAreFree, [Next]_vars
  PROVE  PairsAreFree'
<1>1. CASE Decide
  <2>1. to_assign' = Assign(FleetState, Limits) /\ job' = job /\ pc = "decide"
    BY <1>1 DEF Decide, girder
  <2>2. ASSUME NEW p \in Assign(FleetState, Limits), NEW s \in Submissions
        PROVE  job[s].queue # p[2]
    <3>1. p[2] \in Live(FleetState) \ snap.spent
      BY DecidedPairs DEF Assignable, Unassigned, FleetState
    <3> QED
      BY <2>1, <3>1, CapacityIsFree
  <2>3. ASSUME NEW p \in Assign(FleetState, Limits), NEW q \in Assign(FleetState, Limits),
               p[2] = q[2]
        PROVE  p = q
    <3>1. p[1] = q[1]
      BY <2>3, FleetIsOrdered, AssignIsAMatching
    <3>2. p \in Submissions \X Instances /\ q \in Submissions \X Instances
      BY DecisionIsTyped DEF Inv, TypeInv
    <3> QED
      BY <2>3, <3>1, <3>2
  <2> QED
    BY <2>1, <2>2, <2>3 DEF PairsAreFree
<1>2. CASE to_assign' \subseteq to_assign /\ \A s \in Submissions : job'[s].queue = job[s].queue
  BY <1>2 DEF PairsAreFree
<1>3. ASSUME NEW s \in Submissions, job'[s].queue # job[s].queue
      PROVE  PairsAreFree'
  <2>1. PICK i \in Instances : /\ Claim(s, i) /\ <<s, i>> \in to_assign
                               /\ job'[s].queue = i
                               /\ \A t \in Submissions \ {s} : job'[t] = job[t]
    BY <1>3, OnlyPairsPlace DEF RoundInv
  <2>2. to_assign' = to_assign \ {<<s, i>>}
    BY <2>1 DEF Claim
  <2>3. \A p \in to_assign' : p \in to_assign /\ p[2] # i
    BY <2>1, <2>2 DEF PairsAreFree
  <2>4. \A p \in to_assign', t \in Submissions : job'[t].queue # p[2]
    BY <2>1, <2>3 DEF PairsAreFree
  <2> QED
    BY <2>3, <2>4 DEF PairsAreFree
<1>4. DecisionStep => Decide \/ to_assign' \subseteq to_assign
  BY DEF DecisionStep
<1> QED
  BY <1>1, <1>2, <1>3, <1>4, NextIsRoundStep DEF RoundInv

LEMMA OnePerInstanceKept ==
  ASSUME Inv, RoundInv, ArmedInv, PairsAreFree, OneSubmissionPerInstance, [Next]_vars
  PROVE  OneSubmissionPerInstance'
<1> SUFFICES ASSUME NEW s \in Submissions, NEW t \in Submissions,
                    job'[s].queue # None, job'[s].queue = job'[t].queue
             PROVE  s = t
  BY DEF OneSubmissionPerInstance
<1>1. CASE job'[s].queue = job[s].queue /\ job'[t].queue = job[t].queue
  BY <1>1 DEF OneSubmissionPerInstance
<1>2. ASSUME NEW u \in Submissions, NEW v \in Submissions, job'[u].queue # job[u].queue,
             job'[u].queue = job'[v].queue
      PROVE  u = v
  <2>1. PICK i \in Instances : /\ <<u, i>> \in to_assign /\ job'[u].queue = i
                               /\ \A x \in Submissions \ {u} : job'[x] = job[x]
    BY <1>2, OnlyPairsPlace DEF RoundInv
  <2>2. \A x \in Submissions : job[x].queue # i
    BY <2>1 DEF PairsAreFree
  <2> QED
    BY <1>2, <2>1, <2>2
<1> QED
  BY <1>1, <1>2

LEMMA InitSeen == Init => SeenInv
BY QueueIsNotNone DEF Init, WorldInit, ControllerInit, SeenInv, NoneRemoved, SpentIsSeen,
                      PairsAreFree, OneSubmissionPerInstance

LEMMA SeenInvHolds ==
  ASSUME StaysArmed, ClaimsAreFound
  PROVE  Spec => [](Inv /\ SeenInv)
<1>1. Inv /\ RoundInv /\ ArmedInv /\ SeenInv /\ [Next]_vars => ArmedInv' /\ SeenInv'
  BY ArmedKept, NoneRemovedKept, SpentKept, FreeKept, OnePerInstanceKept DEF SeenInv
<1> QED
  BY <1>1, InitArmed, InitSeen, RoundInvHolds, PTL DEF Spec

\* Under targeted assignment an instance is given one submission in its life, although the
\* claims a round reads are those of some calls ago and a restart forgets what it had seen.
THEOREM OneSubmissionEach ==
  ASSUME StaysArmed, ClaimsAreFound
  PROVE  Spec => []OneSubmissionPerInstance
<1>1. SeenInv => OneSubmissionPerInstance
  BY DEF SeenInv
<1> QED
  BY <1>1, SeenInvHolds, PTL

\* What a round counts as capacity was given to no submission, finished or not: none waits
\* behind a worker that is spent (controller.py, _spent and the incident its comment recounts).
THEOREM CapacityWasNeverClaimed ==
  ASSUME StaysArmed, ClaimsAreFound
  PROVE  Spec => []CapacityIsUnclaimed
<1>1. Inv /\ SeenInv => CapacityIsUnclaimed
  <2> SUFFICES ASSUME Inv, SeenInv, pc = "decide",
                      NEW i \in Available(FleetState, Limits), NEW s \in Submissions
               PROVE  job[s].queue # i
    BY DEF CapacityIsUnclaimed
  <2>1. i \in Live(FleetState) \ snap.spent
    BY DEF Available, FleetState
  <2> QED
    BY <2>1, CapacityIsFree DEF SeenInv
<1> QED
  BY <1>1, SeenInvHolds, PTL

-----------------------------------------------------------------------------
(***************************************************************************)
(* The reaper and live runs.  A worker that holds a submission registered  *)
(* before it was given one, so that neither a stopped server nor one       *)
(* written off for never registering holds any.                            *)
(***************************************************************************)

Work(i) == held[i] \cup private[i]

\* The instances the rest of this round will give work to.
Due == {i \in Instances : (\E p \in to_assign : p[2] = i) \/ (binding # None /\ binding[2] = i)}

WorkersRegistered == \A i \in Instances : Work(i) # {} => i \in ready

DueRegistered == Due \subseteq ready

DeletesAreSafe ==
  \A i \in to_delete :
    /\ server[i].status # "absent"
    /\ server[i].status \in {"SHUTOFF", "gone"} \/ server[i].age > MaxLifetime \/ Work(i) = {}

ReapInv == WorkersRegistered /\ DueRegistered /\ DeletesAreSafe

\* Why decide() deletes an instance, in terms of what it is by now.
LEMMA DecidedDeletes ==
  ASSUME Inv, RoundInv, NEW i \in Delete(FleetState, Limits)
  PROVE  /\ i \in Instances /\ i \in DOMAIN snap.instances /\ server[i].status # "absent"
         /\ \/ snap.instances[i].status = "SHUTOFF" /\ server[i].status \in {"SHUTOFF", "gone"}
            \/ /\ ProvisionDeadline # None /\ server[i].age > ProvisionDeadline
               /\ i \notin ready
            \/ server[i].age > MaxLifetime
<1>1. DOMAIN FleetState.instances = DOMAIN snap.instances
  BY DEF FleetState
<1>2. i \in DOMAIN snap.instances
  BY <1>1 DEF Delete, ShutOff, FailedToProvision, OverLifetime, Live
<1>3. /\ FleetState.instances[i].status = snap.instances[i].status
      /\ FleetState.instances[i].age = server[i].age
  BY <1>2 DEF FleetState
<1>4. i \in Instances /\ server[i].status # "absent"
  BY <1>2, SnapshotDomains DEF RoundInv, ListingHolds
<1>5. CASE i \in ShutOff(FleetState)
  <2>1. snap.instances[i].status = "SHUTOFF"
    BY <1>3, <1>5 DEF ShutOff
  <2> QED
    BY <1>2, <1>4, <2>1 DEF RoundInv, ListingHolds
<1>6. CASE i \in FailedToProvision(FleetState, Limits)
  <2>1. /\ i \notin FleetState.ready /\ ProvisionDeadline # None
        /\ server[i].age > ProvisionDeadline
    BY <1>3, <1>6 DEF FailedToProvision, PastAge, Limits
  <2>2. FleetState.ready = ready
    BY <2>1 DEF FleetState
  <2> QED
    BY <1>2, <1>4, <2>1, <2>2
<1>7. CASE i \in OverLifetime(FleetState, Limits)
  BY <1>2, <1>3, <1>4, <1>7 DEF OverLifetime, PastAge, Limits
<1> QED
  BY <1>5, <1>6, <1>7 DEF Delete

\* The instances that are due: those of a fresh decision, and fewer after that.
LEMMA DueStep ==
  ASSUME Inv, RoundInv, [Next]_vars
  PROVE  \/ /\ Decide /\ binding' = None
            /\ Due' \subseteq {i \in Instances : i \in Assignable(FleetState, Limits)}
         \/ Due' \subseteq Due
<1>1. CASE Decide
  <2>1. /\ to_assign' = Assign(FleetState, Limits) /\ binding' = None
    BY <1>1 DEF Decide, RoundInv, Stages
  <2>2. \A p \in Assign(FleetState, Limits) : p[2] \in Assignable(FleetState, Limits)
    BY DecidedPairs
  <2> QED
    BY <1>1, <2>1, <2>2 DEF Due
<1>2. CASE to_assign' \subseteq to_assign /\ binding' \in {binding, None}
  BY <1>2 DEF Due
<1>3. ASSUME NEW s \in Submissions, NEW i \in Instances, <<s, i>> \in to_assign,
             to_assign' \subseteq to_assign, binding' = <<s, i>>
      PROVE  Due' \subseteq Due
  BY <1>3 DEF Due
<1>4. DecisionStep => \/ Decide
                      \/ to_assign' \subseteq to_assign /\ binding' \in {binding, None}
                      \/ \E s \in Submissions, i \in Instances :
                           /\ <<s, i>> \in to_assign /\ to_assign' \subseteq to_assign
                           /\ binding' = <<s, i>>
  BY DEF DecisionStep
<1> QED
  BY <1>1, <1>2, <1>3, <1>4, NextIsRoundStep DEF RoundInv

LEMMA ServerTypesKept ==
  ASSUME Inv, [Next]_vars, NEW i \in Instances
  PROVE  server'[i].status \in Statuses /\ server'[i].age \in Nat
<1>1. server' \in [Instances -> ServerRecords]
  BY NextKeepsInv DEF Inv, TypeInv, TypeOK, WorldTypeOK
<1> QED
  BY <1>1, BoundsAssumption DEF ServerRecords

LEMMA AgesGrow ==
  ASSUME Inv, [Next]_vars, NEW i \in Instances, server[i].status # "absent", NEW n \in Nat
  PROVE  server[i].age > n => server'[i].age > n
<1>1. server' \in [Instances -> ServerRecords]
  BY NextKeepsInv DEF Inv, TypeInv, TypeOK, WorldTypeOK
<1>2. server'[i].age \in Nat /\ server[i].age \in Nat
  BY <1>1, ServerTypes, BoundsAssumption DEF ServerRecords
<1>3. server'[i].age >= server[i].age
  BY ServersAdvance DEF Advances
<1> QED
  BY <1>2, <1>3

\* What a step does to the work of an instance.
WorkStep(i) ==
  \/ Work(i)' \subseteq Work(i)
  \/ dispatch # << >>
  \/ Publish /\ i \in Due

LEMMA MarkersStay ==
  ASSUME [Next]_vars
  PROVE  \/ ready' = ready
         \/ \E i \in Instances : Announce(i)
<1>1. CASE Round \/ Breakdown
  BY <1>1
  DEF Round, BeginRound, ReadInstances, ReadDepth, ReadSpent, ReadWaiting, Decide,
      DeleteInstance, Claim, Publish, CreateInstance, EndRound, Restart, Breakdown,
      SkipRound, VolumesFlagUnreadable, Crash, Forget, broker
<1>2. CASE Girder
  BY <1>2 DEF Girder, FlipArmed, Submit, ReapSubmission, CancelSubmission,
              RemoveSubmission, broker
<1>3. ASSUME NEW i \in Instances, Worker(i)
      PROVE  ready' = ready \/ Announce(i)
  BY <1>3 DEF Worker, Boot, TakeShared, TakePrivate, Prepare, Finish, PowerOff,
              DieMidRun, Wedge, NovaDeletes, broker
<1>4. CASE Tick \/ UNCHANGED vars
  BY <1>4 DEF Tick, AgesAdvance, vars, world, broker
<1> QED
  BY <1>1, <1>2, <1>3, <1>4 DEF Next, Environment

LEMMA NextIsWorkStep ==
  ASSUME Inv, [Next]_vars, NEW i \in Instances
  PROVE  WorkStep(i)
<1>1. /\ private \in [Instances -> SUBSET Submissions]
      /\ held \in [Instances -> SUBSET Submissions]
  BY InvTypes
<1>2. CASE private' = private /\ held' = held
  BY <1>2 DEF WorkStep, Work
<1>3. CASE Publish
  <2>1. PICK s \in Submissions, k \in Instances : binding = <<s, k>>
    BY <1>3, InvTypes DEF Publish
  <2>2. k \in Due
    BY <1>3, <2>1 DEF Due, Publish
  <2>3. held' = held /\ (private' = private \/ private' = [private EXCEPT ![k] = @ \cup {s}])
    BY <1>3, <2>1 DEF Publish, workers
  <2>4. i # k => Work(i)' \subseteq Work(i)
    BY <1>1, <2>3 DEF Work
  <2> QED
    BY <1>3, <2>2, <2>4 DEF WorkStep
<1>4. CASE (Round \/ Breakdown) /\ ~Publish
  BY <1>2, <1>4
  DEF Round, BeginRound, ReadInstances, ReadDepth, ReadSpent, ReadWaiting, Decide,
      DeleteInstance, Claim, CreateInstance, EndRound, Restart, Breakdown,
      SkipRound, VolumesFlagUnreadable, Crash, Forget, broker, workers
<1>5. CASE Girder
  BY <1>2, <1>5 DEF Girder, FlipArmed, Submit, ReapSubmission, CancelSubmission,
                    RemoveSubmission, broker, workers
<1>6. ASSUME NEW k \in Instances, Worker(k)
      PROVE  WorkStep(i)
  <2>1. CASE Boot(k) \/ Announce(k) \/ Prepare(k) \/ PowerOff(k) \/ Wedge(k)
    BY <1>2, <2>1 DEF Boot, Announce, Prepare, PowerOff, Wedge, broker
  <2>2. CASE TakeShared(k)
    BY <2>2 DEF TakeShared, WorkStep
  <2>3. CASE TakePrivate(k)
    <3>1. PICK s \in private[k] : /\ private' = [private EXCEPT ![k] = @ \ {s}]
                                  /\ held' = [held EXCEPT ![k] = @ \cup {s}]
      BY <2>3 DEF TakePrivate
    <3> QED
      BY <1>1, <3>1 DEF WorkStep, Work
  <2>4. CASE Finish(k) \/ DieMidRun(k) \/ NovaDeletes(k)
    <3>1. private' = private /\ \E h \in SUBSET held[k] : held' = [held EXCEPT ![k] = h]
      BY <2>4 DEF Finish, DieMidRun, NovaDeletes, broker
    <3> QED
      BY <1>1, <3>1 DEF WorkStep, Work
  <2> QED
    BY <1>6, <2>1, <2>2, <2>3, <2>4 DEF Worker
<1>7. CASE Tick \/ UNCHANGED vars
  BY <1>2, <1>7 DEF Tick, AgesAdvance, vars, world, broker, workers
<1> QED
  BY <1>3, <1>4, <1>5, <1>6, <1>7 DEF Next, Environment

LEMMA ReapKept ==
  ASSUME Inv, RoundInv, ArmedInv, ReapInv, [Next]_vars
  PROVE  ReapInv'
<1>1. ready \subseteq ready'
  BY MarkersStay DEF Announce
<1>2. ASSUME NEW i \in Instances
      PROVE  Work(i)' \subseteq Work(i) \/ (Publish /\ i \in Due)
  BY NextIsWorkStep DEF WorkStep, ArmedInv
<1>3. WorkersRegistered'
  BY <1>1, <1>2 DEF ReapInv, WorkersRegistered, DueRegistered
<1>4. DueRegistered'
  <2>1. Assignable(FleetState, Limits) \subseteq ready
    BY DEF Assignable, FleetState
  <2> QED
    BY <1>1, <2>1, DueStep DEF ReapInv, DueRegistered
<1>5. DeletesAreSafe'
  <2>1. CASE Decide
    <3>1. to_delete' = Delete(FleetState, Limits) /\ UNCHANGED <<server, held, private>>
      BY <2>1 DEF Decide, nova, broker, workers
    <3>2. \A i \in Delete(FleetState, Limits) :
            /\ server[i].status # "absent"
            /\ \/ server[i].status \in {"SHUTOFF", "gone"}
               \/ server[i].age > MaxLifetime \/ Work(i) = {}
      BY DecidedDeletes DEF ReapInv, WorkersRegistered
    <3> QED
      BY <3>1, <3>2 DEF DeletesAreSafe, Work
  <2>2. CASE ~Decide
    <3>1. to_delete' \subseteq to_delete
      BY <2>2, NextIsRoundStep DEF RoundInv, DecisionStep
    <3> SUFFICES ASSUME NEW i \in to_delete
                 PROVE  /\ server'[i].status # "absent"
                        /\ \/ server'[i].status \in {"SHUTOFF", "gone"}
                           \/ server'[i].age > MaxLifetime \/ Work(i)' = {}
      BY <3>1 DEF DeletesAreSafe
    <3>2. i \in Instances /\ server[i].status # "absent"
      BY SnapshotDomains DEF ReapInv, DeletesAreSafe
    <3>3. ~Publish
      BY DEF Publish, RoundInv, Stages
    <3>4. Work(i) = {} => Work(i)' = {}
      BY <1>2, <3>2, <3>3
    <3>5. server[i].age > MaxLifetime => server'[i].age > MaxLifetime
      BY <3>2, AgesGrow, LimitsAssumption
    <3> QED
      BY <3>2, <3>4, <3>5, ServersAdvance DEF Advances, ReapInv, DeletesAreSafe
  <2> QED
    BY <2>1, <2>2
<1> QED
  BY <1>3, <1>4, <1>5 DEF ReapInv

LEMMA InitReap == Init => ReapInv
BY DEF Init, WorldInit, ControllerInit, ReapInv, WorkersRegistered, DueRegistered,
       DeletesAreSafe, Due, Work

LEMMA OnlyDecidedAreDeleted ==
  ASSUME [Next]_vars, NEW i \in deleting' \ deleting
  PROVE  DeleteInstance(i) /\ i \in to_delete
<1>1. CASE \E k \in Instances : DeleteInstance(k)
  BY <1>1 DEF DeleteInstance
<1>2. CASE (Round \/ Breakdown) /\ ~\E k \in Instances : DeleteInstance(k)
  BY <1>2
  DEF Round, BeginRound, ReadInstances, ReadDepth, ReadSpent, ReadWaiting, Decide,
      Claim, Publish, CreateInstance, EndRound, Restart, Breakdown,
      SkipRound, VolumesFlagUnreadable, Crash, Forget, nova
<1>3. CASE Girder
  BY <1>3 DEF Girder, FlipArmed, Submit, ReapSubmission, CancelSubmission,
              RemoveSubmission, nova
<1>4. ASSUME NEW k \in Instances, Worker(k)
      PROVE  FALSE
  BY <1>4 DEF Worker, Boot, Announce, TakeShared, TakePrivate, Prepare, Finish, PowerOff,
              DieMidRun, Wedge, NovaDeletes, nova
<1>5. CASE Tick \/ UNCHANGED vars
  BY <1>5 DEF Tick, AgesAdvance, vars, world, nova
<1> QED
  BY <1>1, <1>2, <1>3, <1>4, <1>5 DEF Next, Environment

\* The controller never deletes a running server whose worker holds a submission, unless it
\* is past max_lifetime: not on a listing that is several calls old, not when its marker
\* came late, and not when it has been given work since (S1 and S5, plan.py).
THEOREM LiveRunsAreSpared ==
  ASSUME StaysArmed
  PROVE  Spec => NoLiveRunReaped
<1>1. Inv /\ RoundInv /\ ArmedInv /\ ReapInv /\ [Next]_vars => ArmedInv' /\ ReapInv'
  BY ArmedKept, ReapKept
<1>2. ReapInv /\ [Next]_vars =>
        [\A i \in deleting' \ deleting :
           server[i].status = "ACTIVE" /\ held[i] \cup private[i] # {} =>
             server[i].age > MaxLifetime]_vars
  BY OnlyDecidedAreDeleted DEF ReapInv, DeletesAreSafe, Work
<1> QED
  BY <1>1, <1>2, InitArmed, InitReap, RoundInvHolds, PTL DEF Spec, NoLiveRunReaped

-----------------------------------------------------------------------------
(***************************************************************************)
(* The margins.  Nothing but its age tells decide() that a worker it gives *)
(* work to will still be up when the message arrives: the ages at which it *)
(* may be powered off, or deleted, lie further than a round from the last  *)
(* at which it is given any.                                               *)
(***************************************************************************)

\* assign_max_age leaves a round's time before the supervisor's grace and the lifetime
\* ceiling, and an instance is not written off before it is too old for work.
Margins ==
  /\ AssignMaxAge + RoundTime <= BootGrace
  /\ AssignMaxAge + RoundTime <= MaxLifetime
  /\ ProvisionDeadline # None => AssignMaxAge <= ProvisionDeadline

RoundsAreShort == round <= RoundTime

\* What has stopped, or is not to stay, is past the age at which work is given out.
StoppedAreOld ==
  /\ \A i \in Instances : server[i].status = "SHUTOFF" => server[i].age > BootGrace
  /\ \A i \in DOMAIN snap.instances :
       snap.instances[i].status = "SHUTOFF" => server[i].age > BootGrace

DeletedAreOld ==
  \A i \in deleting \cup to_delete : server[i].status # "absent" /\ server[i].age > AssignMaxAge

ReadyAreUpOrOld == \A i \in ready : server[i].status = "ACTIVE" \/ server[i].age > AssignMaxAge

\* Up, registered, and not to be deleted.
Stays(i) == server[i].status = "ACTIVE" /\ i \in ready /\ i \notin deleting \cup to_delete

DueStay == \A i \in Due : Stays(i) /\ server[i].age <= AssignMaxAge + round

WorkStays ==
  \A i \in Instances : private[i] # {} => Stays(i) /\ server[i].age <= AssignMaxAge + RoundTime

MarginInv ==
  /\ RoundsAreShort /\ StoppedAreOld /\ DeletedAreOld /\ ReadyAreUpOrOld
  /\ DueStay /\ WorkStays

LEMMA MarginTypes ==
  /\ AssignMaxAge \in Nat /\ RoundTime \in Nat /\ BootGrace \in Nat /\ MaxLifetime \in Nat
  /\ ProvisionDeadline \in Nat \cup {None}
  /\ Margins => AssignMaxAge <= BootGrace /\ AssignMaxAge <= MaxLifetime
<1>1. /\ AssignMaxAge \in Nat /\ RoundTime \in Nat /\ BootGrace \in Nat /\ MaxLifetime \in Nat
      /\ ProvisionDeadline \in Nat \cup {None}
  BY LimitsAssumption, BoundsAssumption
<1> QED
  BY <1>1 DEF Margins

LEMMA RoundsKept ==
  ASSUME Inv, RoundsAreShort, [Next]_vars
  PROVE  /\ RoundsAreShort'
         /\ Tick /\ pc # "down" => round' = round + 1
         /\ ~Tick /\ pc = "act" => round' = round
<1>1. round \in Nat
  BY DEF Inv, TypeInv, TypeOK, WorldTypeOK
<1>2. CASE Tick
  <2>1. \/ pc = "down" /\ round' = round
        \/ pc # "down" /\ round < RoundTime /\ round' = round + 1
    BY <1>2 DEF Tick
  <2>2. round' <= RoundTime
    BY <1>1, <2>1, MarginTypes DEF RoundsAreShort
  <2> QED
    BY <1>2, <2>1, <2>2 DEF RoundsAreShort
<1>3. CASE ~Tick
  <2>1. round' = round \/ (round' = 0 /\ pc # "act")
    <3>1. CASE Round \/ Breakdown
      BY <3>1
      DEF Round, BeginRound, ReadInstances, ReadDepth, ReadSpent, ReadWaiting, Decide,
          DeleteInstance, Claim, Publish, CreateInstance, EndRound, Restart, Breakdown,
          SkipRound, VolumesFlagUnreadable, Crash, Forget
    <3>2. CASE Girder
      BY <3>2 DEF Girder, FlipArmed, Submit, ReapSubmission, CancelSubmission,
                  RemoveSubmission
    <3>3. ASSUME NEW k \in Instances, Worker(k)
          PROVE  round' = round
      BY <3>3 DEF Worker, Boot, Announce, TakeShared, TakePrivate, Prepare, Finish, PowerOff,
                  DieMidRun, Wedge, NovaDeletes
    <3>4. CASE UNCHANGED vars
      BY <3>4 DEF vars, world
    <3> QED
      BY <1>3, <3>1, <3>2, <3>3, <3>4 DEF Next, Environment
  <2> QED
    BY <1>3, <2>1, MarginTypes DEF RoundsAreShort
<1> QED
  BY <1>2, <1>3

\* How the status of a server changes, if not by a fault of the server.
LEMMA StatusChanges ==
  ASSUME Inv, KnownServers, [Next]_vars, NEW i \in Instances,
         server'[i].status # server[i].status, "vm" \notin Faults
  PROVE  \/ server[i].status = "absent" /\ server'[i].status = "BUILD"
         \/ server[i].status = "BUILD" /\ server'[i].status \in {"ACTIVE", "ERROR"}
         \/ server[i].status = "ACTIVE" /\ server'[i].status = "SHUTOFF" /\ PowerOff(i)
         \/ i \in deleting /\ server'[i].status = "gone"
<1>1. ASSUME NEW k \in Instances, NEW x, server' = [server EXCEPT ![k].status = x]
      PROVE  i = k /\ server'[i].status = x
  BY <1>1, ServerTypes DEF ServerRecords
<1>2. CASE server[i].status = "absent"
  <2>1. CreateInstance /\ Boots(Head(to_create).rung) /\ i = Min(Unused)
    BY <1>2, AbsentStays
  <2> QED
    BY <1>2, <2>1, HeadOfCreates, BootsElsewhere DEF CreateInstance
<1>3. CASE server[i].status # "absent"
  <2>1. CASE CreateInstance
    <3>1. CASE Boots(Head(to_create).rung)
      BY <1>3, <2>1, <3>1, HeadOfCreates, BootsElsewhere DEF CreateInstance
    <3>2. CASE server' = server
      BY <3>2
    <3> QED
      BY <2>1, <3>1, <3>2 DEF CreateInstance
  <2>2. CASE (Round \/ Breakdown) /\ ~CreateInstance
    BY <2>2
    DEF Round, BeginRound, ReadInstances, ReadDepth, ReadSpent, ReadWaiting, Decide,
        DeleteInstance, Claim, Publish, EndRound, Restart, Breakdown,
        SkipRound, VolumesFlagUnreadable, Crash, Forget, nova
  <2>3. CASE Girder
    BY <2>3 DEF Girder, FlipArmed, Submit, ReapSubmission, CancelSubmission,
                RemoveSubmission, nova
  <2>4. ASSUME NEW k \in Instances, Worker(k)
        PROVE  \/ server[i].status = "BUILD" /\ server'[i].status \in {"ACTIVE", "ERROR"}
               \/ server[i].status = "ACTIVE" /\ server'[i].status = "SHUTOFF" /\ PowerOff(i)
               \/ i \in deleting /\ server'[i].status = "gone"
    <3>1. CASE \/ Announce(k) \/ TakeShared(k) \/ TakePrivate(k) \/ Prepare(k) \/ Finish(k)
               \/ Wedge(k) \/ DieMidRun(k)
      BY <3>1 DEF Announce, TakeShared, TakePrivate, Prepare, Finish, Wedge, DieMidRun, nova,
                  Fault
    <3>2. CASE Boot(k)
      <4>1. /\ server[k].status = "BUILD"
            /\ \E x \in {"ACTIVE", "ERROR"} : server' = [server EXCEPT ![k].status = x]
        BY <3>2 DEF Boot
      <4> QED
        BY <1>1, <4>1
    <3>3. CASE PowerOff(k)
      <4>1. server[k].status = "ACTIVE" /\ server' = [server EXCEPT ![k].status = "SHUTOFF"]
        BY <3>3 DEF PowerOff
      <4> QED
        BY <1>1, <3>3, <4>1
    <3>4. CASE NovaDeletes(k)
      <4>1. k \in deleting /\ server' = [server EXCEPT ![k].status = "gone"]
        BY <3>4 DEF NovaDeletes
      <4> QED
        BY <1>1, <4>1
    <3> QED
      BY <2>4, <3>1, <3>2, <3>3, <3>4 DEF Worker
  <2>5. CASE Tick
    BY <2>5, TickAdvances
  <2>6. CASE UNCHANGED vars
    BY <2>6 DEF vars, world, nova
  <2> QED
    BY <2>1, <2>2, <2>3, <2>4, <2>5, <2>6 DEF Next, Environment
<1> QED
  BY <1>2, <1>3

LEMMA StoppedKept ==
  ASSUME "vm" \notin Faults, Inv, RoundInv, StoppedAreOld, [Next]_vars
  PROVE  StoppedAreOld'
<1>1. ASSUME NEW i \in Instances, server'[i].status = "SHUTOFF"
      PROVE  server'[i].age > BootGrace
  <2>1. server[i].status # "absent" /\ server[i].age > BootGrace
    <3>1. CASE server[i].status = "SHUTOFF"
      BY <3>1 DEF StoppedAreOld
    <3>2. CASE server[i].status # "SHUTOFF"
      <4>1. server[i].status = "ACTIVE" /\ PowerOff(i)
        BY <1>1, <3>2, StatusChanges DEF RoundInv
      <4> QED
        BY <4>1 DEF PowerOff
    <3> QED
      BY <3>1, <3>2
  <2> QED
    BY <2>1, AgesGrow, MarginTypes
<1>2. ASSUME NEW i \in DOMAIN snap'.instances, snap'.instances[i].status = "SHUTOFF"
      PROVE  server'[i].age > BootGrace
  <2>1. CASE snap'.instances = snap.instances
    <3>1. server[i].age > BootGrace /\ i \in Instances /\ server[i].status # "absent"
      BY <1>2, <2>1, SnapshotDomains DEF StoppedAreOld, RoundInv, ListingHolds
    <3> QED
      BY <3>1, AgesGrow, MarginTypes
  <2>2. CASE DOMAIN snap'.instances = {}
    BY <1>2, <2>2
  <2>3. CASE ReadInstances /\ snap'.instances =
               [k \in Listed |-> [status |-> server[k].status, size |-> server[k].size]]
    <3>1. server' = server /\ i \in Instances /\ server[i].status = "SHUTOFF"
      BY <1>2, <2>3 DEF ReadInstances, nova, Listed
    <3> QED
      BY <3>1 DEF StoppedAreOld
  <2> QED
    BY <2>1, <2>2, <2>3, NextIsRoundStep, ReadingsKept DEF RoundInv
<1> QED
  BY <1>1, <1>2 DEF StoppedAreOld

\* Whatever decide() deletes is too old to be given work.
LEMMA DecidedDeletesAreOld ==
  ASSUME Margins, Inv, RoundInv, StoppedAreOld, NEW i \in Delete(FleetState, Limits)
  PROVE  /\ server[i].status # "absent" /\ server[i].age > AssignMaxAge
         /\ Stays(i) => server[i].age > AssignMaxAge + RoundTime
<1>1. i \in Instances /\ server[i].age \in Nat /\ server[i].status # "absent"
  BY DecidedDeletes, ServerTypes
<1>2. \/ server[i].age > BootGrace /\ server[i].status # "ACTIVE"
      \/ ProvisionDeadline # None /\ server[i].age > ProvisionDeadline /\ i \notin ready
      \/ server[i].age > MaxLifetime
  BY DecidedDeletes DEF StoppedAreOld
<1> QED
  BY <1>1, <1>2, MarginTypes DEF Margins, Stays

LEMMA DeletedKept ==
  ASSUME Margins, Inv, RoundInv, StoppedAreOld, DeletedAreOld, [Next]_vars
  PROVE  DeletedAreOld'
<1>1. ASSUME NEW i \in deleting' \cup to_delete'
      PROVE  i \in Instances /\ server[i].status # "absent" /\ server[i].age > AssignMaxAge
  <2>1. CASE i \in deleting \cup to_delete
    BY <2>1, SnapshotDomains DEF DeletedAreOld
  <2>2. CASE i \in deleting' \ deleting
    BY <2>2, OnlyDecidedAreDeleted, SnapshotDomains DEF DeletedAreOld
  <2>3. CASE i \in to_delete' \ to_delete
    <3>1. Decide
      BY <2>3, NextIsRoundStep DEF RoundInv, DecisionStep
    <3>2. i \in Delete(FleetState, Limits)
      BY <2>3, <3>1 DEF Decide
    <3> QED
      BY <3>2, DecidedDeletes, DecidedDeletesAreOld
  <2> QED
    BY <1>1, <2>1, <2>2, <2>3
<1> QED
  BY <1>1, ServersAdvance, AgesGrow, MarginTypes DEF Advances, DeletedAreOld

LEMMA ReadyKept ==
  ASSUME Margins, "vm" \notin Faults, Inv, RoundInv, DeletedAreOld, ReadyAreUpOrOld, [Next]_vars
  PROVE  ReadyAreUpOrOld'
<1> SUFFICES ASSUME NEW i \in ready', server'[i].status # "ACTIVE"
             PROVE  server'[i].age > AssignMaxAge
  BY DEF ReadyAreUpOrOld
<1>1. i \in Instances /\ server[i].status # "absent" /\ (i \in ready \/ server[i].status = "ACTIVE")
  <2>1. CASE ready' = ready
    BY <2>1, SnapshotDomains DEF RoundInv, KnownServers
  <2>2. CASE \E k \in Instances : Announce(k)
    BY <2>2, SnapshotDomains DEF RoundInv, KnownServers, Announce
  <2> QED
    BY <2>1, <2>2, MarkersStay
<1>2. server[i].age > AssignMaxAge
  <2>1. CASE server[i].status = "ACTIVE"
    <3>1. PowerOff(i) \/ i \in deleting
      BY <1>1, <2>1, StatusChanges DEF RoundInv
    <3>2. CASE PowerOff(i)
      <4>1. server[i].age \in Nat /\ server[i].age > BootGrace
        BY <1>1, <3>2, ServerTypes DEF PowerOff
      <4> QED
        BY <4>1, MarginTypes
    <3>3. CASE i \in deleting
      BY <3>3 DEF DeletedAreOld
    <3> QED
      BY <3>1, <3>2, <3>3
  <2>2. CASE server[i].status # "ACTIVE"
    BY <1>1, <2>2 DEF ReadyAreUpOrOld
  <2> QED
    BY <2>1, <2>2
<1> QED
  BY <1>1, <1>2, AgesGrow, MarginTypes

\* An instance with work, of an age at which it may still have any, keeps its place.
LEMMA StaysKept ==
  ASSUME Margins, "vm" \notin Faults, Inv, RoundInv, StoppedAreOld, [Next]_vars,
         NEW i \in Instances, Stays(i), server[i].age <= AssignMaxAge + RoundTime
  PROVE  Stays(i)'
<1>1. server[i].age \in Nat
  BY ServerTypes
<1>2. server'[i].status = "ACTIVE"
  <2> SUFFICES ASSUME server'[i].status # "ACTIVE" PROVE FALSE
    OBVIOUS
  <2>1. PowerOff(i)
    BY StatusChanges DEF Stays, RoundInv
  <2>2. server[i].age > BootGrace
    BY <2>1 DEF PowerOff
  <2> QED
    BY <1>1, <2>2, MarginTypes DEF Margins
<1>3. i \in ready'
  BY MarkersStay DEF Stays, Announce
<1>4. i \notin deleting'
  BY OnlyDecidedAreDeleted DEF Stays
<1>5. i \notin to_delete'
  <2>1. CASE Decide
    <3>1. to_delete' = Delete(FleetState, Limits)
      BY <2>1 DEF Decide
    <3>2. ~(server[i].age > AssignMaxAge + RoundTime)
      BY <1>1, MarginTypes
    <3> QED
      BY <3>1, <3>2, DecidedDeletesAreOld
  <2>2. CASE ~Decide
    BY <2>2, NextIsRoundStep DEF RoundInv, DecisionStep, Stays
  <2> QED
    BY <2>1, <2>2
<1> QED
  BY <1>2, <1>3, <1>4, <1>5 DEF Stays

\* What decide() gives work to is young enough for it.
LEMMA DecidedAreYoung ==
  ASSUME Inv, RoundInv, ReadyAreUpOrOld, DeletedAreOld, Decide,
         NEW i \in Assignable(FleetState, Limits)
  PROVE  /\ i \in Instances /\ Stays(i) /\ i \notin Delete(FleetState, Limits)
         /\ server[i].age <= AssignMaxAge
<1>1. /\ i \in FleetState.ready /\ i \in Live(FleetState) /\ i \notin Delete(FleetState, Limits)
      /\ i \notin AgedOut(FleetState, Limits) /\ i \in Unassigned(FleetState, Limits)
      /\ Limits.assign
  BY DEF Assignable, Unassigned
<1>2. i \in DOMAIN snap.instances /\ FleetState.instances[i].age = server[i].age
  BY <1>1 DEF Live, FleetState
<1>3. i \in Instances /\ server[i].age \in Nat
  BY <1>2, SnapshotDomains, ServerTypes
<1>4. ~PastAge(FleetState, i, Limits.assign_max_age)
  BY <1>1 DEF AgedOut
<1>5. ~(server[i].age > AssignMaxAge)
  <2>1. server[i].age # None
    BY <1>3, NoneAssumption
  <2>2. Limits.assign_max_age = AssignMaxAge
    BY DEF Limits
  <2> QED
    BY <1>2, <1>4, <2>1, <2>2 DEF PastAge
<1>6. i \in ready
  BY <1>1 DEF FleetState
<1>7. server[i].status = "ACTIVE" /\ i \notin deleting
  BY <1>5, <1>6 DEF ReadyAreUpOrOld, DeletedAreOld
<1>8. i \notin to_delete
  BY DEF Decide, RoundInv, Stages
<1> QED
  BY <1>1, <1>3, <1>5, <1>6, <1>7, <1>8, MarginTypes DEF Stays

LEMMA DueKept ==
  ASSUME Margins, "vm" \notin Faults, Inv, RoundInv, MarginInv, [Next]_vars
  PROVE  DueStay'
<1>1. round \in Nat
  BY DEF Inv, TypeInv, TypeOK, WorldTypeOK
<1>2. CASE Decide /\ Due' \subseteq {i \in Instances : i \in Assignable(FleetState, Limits)}
  <2>1. /\ UNCHANGED <<server, ready, deleting, round>>
        /\ to_delete' = Delete(FleetState, Limits)
    BY <1>2 DEF Decide, broker, nova
  <2> SUFFICES ASSUME NEW i \in Due'
               PROVE  Stays(i)' /\ server'[i].age <= AssignMaxAge + round'
    BY DEF DueStay
  <2>2. /\ i \in Instances /\ Stays(i) /\ i \notin Delete(FleetState, Limits)
        /\ server[i].age <= AssignMaxAge
    BY <1>2, DecidedAreYoung DEF MarginInv
  <2>3. server[i].age \in Nat
    BY <2>2, ServerTypes
  <2>4. Stays(i)' /\ server'[i] = server[i]
    BY <2>1, <2>2 DEF Stays
  <2>5. server[i].age <= AssignMaxAge + round
    BY <1>1, <2>2, <2>3, MarginTypes
  <2> QED
    BY <2>1, <2>4, <2>5
<1>3. CASE Due' \subseteq Due
  <2> SUFFICES ASSUME NEW i \in Due, i \in Due'
               PROVE  Stays(i)' /\ server'[i].age <= AssignMaxAge + round'
    BY <1>3 DEF DueStay
  <2>1. i \in Instances /\ Stays(i) /\ server[i].age <= AssignMaxAge + round
    BY DEF Due, MarginInv, DueStay
  <2>2. server[i].age \in Nat /\ server[i].status # "absent"
    BY <2>1, ServerTypes DEF Stays
  <2>3. Stays(i)'
    BY <1>1, <2>1, <2>2, StaysKept, MarginTypes DEF MarginInv, RoundsAreShort
  <2>4. pc = "act"
    BY DEF Due, RoundInv, Stages
  <2>5. CASE Tick
    <3>1. server'[i].age <= server[i].age + 1 /\ round' = round + 1
      BY <2>1, <2>4, <2>5, TickAdvances, RoundsKept DEF MarginInv
    <3>2. server'[i].age \in Nat
      BY <2>1, ServerTypesKept
    <3> QED
      BY <1>1, <2>1, <2>2, <2>3, <3>1, <3>2, MarginTypes
  <2>6. CASE ~Tick
    <3>1. server'[i].age = server[i].age
      BY <2>1, <2>2, <2>6, ServersAdvance DEF Advances
    <3> QED
      BY <2>1, <2>3, <2>4, <2>6, <3>1, RoundsKept DEF MarginInv
  <2> QED
    BY <2>3, <2>5, <2>6
<1> QED
  BY <1>2, <1>3, DueStep

\* Only a publication brings work to a private queue.
LEMMA NextIsPublication ==
  ASSUME Inv, [Next]_vars, NEW i \in Instances, private'[i] # {}
  PROVE  private[i] # {} \/ (Publish /\ ~Tick /\ i \in Due)
<1>1. private \in [Instances -> SUBSET Submissions]
  BY InvTypes
<1>2. CASE private' = private
  BY <1>2
<1>3. CASE Publish
  <2>1. PICK s \in Submissions, k \in Instances : binding = <<s, k>>
    BY <1>3, InvTypes DEF Publish
  <2>2. k \in Due
    BY <1>3, <2>1 DEF Due, Publish
  <2>3. private' = private \/ private' = [private EXCEPT ![k] = @ \cup {s}]
    BY <1>3, <2>1 DEF Publish
  <2>4. i # k => private'[i] = private[i]
    BY <1>1, <2>3
  <2>5. ~Tick
    BY <1>3 DEF Publish, Tick, decision
  <2> QED
    BY <1>3, <2>2, <2>4, <2>5
<1>4. CASE (Round \/ Breakdown) /\ ~Publish
  BY <1>2, <1>4
  DEF Round, BeginRound, ReadInstances, ReadDepth, ReadSpent, ReadWaiting, Decide,
      DeleteInstance, Claim, CreateInstance, EndRound, Restart, Breakdown,
      SkipRound, VolumesFlagUnreadable, Crash, Forget, broker
<1>5. CASE Girder
  BY <1>2, <1>5 DEF Girder, FlipArmed, Submit, ReapSubmission, CancelSubmission,
                    RemoveSubmission, broker
<1>6. ASSUME NEW k \in Instances, Worker(k)
      PROVE  private[i] # {}
  <2>1. CASE TakePrivate(k)
    <3>1. PICK s \in private[k] : private' = [private EXCEPT ![k] = @ \ {s}]
      BY <2>1 DEF TakePrivate
    <3> QED
      BY <1>1, <3>1
  <2>2. CASE ~TakePrivate(k)
    BY <1>2, <1>6, <2>2 DEF Worker, Boot, Announce, TakeShared, Prepare, Finish, PowerOff,
                            DieMidRun, Wedge, NovaDeletes, broker
  <2> QED
    BY <2>1, <2>2
<1>7. CASE Tick \/ UNCHANGED vars
  BY <1>2, <1>7 DEF Tick, AgesAdvance, vars, world, broker
<1> QED
  BY <1>3, <1>4, <1>5, <1>6, <1>7 DEF Next, Environment

LEMMA WorkKept ==
  ASSUME Margins, "vm" \notin Faults, Inv, RoundInv, MarginInv, [Next]_vars
  PROVE  WorkStays'
<1> SUFFICES ASSUME NEW i \in Instances, private'[i] # {}
             PROVE  Stays(i)' /\ server'[i].age <= AssignMaxAge + RoundTime
  BY DEF WorkStays
<1>1. round \in Nat /\ server[i].age \in Nat
  BY ServerTypes DEF Inv, TypeInv, TypeOK, WorldTypeOK
<1>2. Stays(i) /\ server[i].age <= AssignMaxAge + RoundTime /\ ~Tick
  <2>1. CASE private[i] # {}
    <3>1. Stays(i) /\ server[i].age <= AssignMaxAge + RoundTime
      BY <2>1 DEF MarginInv, WorkStays
    <3>2. ~Prompt
      BY <2>1, <3>1 DEF Prompt, Stays
    <3> QED
      BY <3>1, <3>2 DEF Tick
  <2>2. CASE Publish /\ ~Tick /\ i \in Due
    <3>1. Stays(i) /\ server[i].age <= AssignMaxAge + round
      BY <2>2 DEF MarginInv, DueStay
    <3> QED
      BY <1>1, <2>2, <3>1, MarginTypes DEF MarginInv, RoundsAreShort
  <2> QED
    BY <2>1, <2>2, NextIsPublication
<1>3. Stays(i)'
  BY <1>2, StaysKept DEF MarginInv
<1>4. server'[i].age = server[i].age
  BY <1>2, ServersAdvance DEF Advances, Stays
<1> QED
  BY <1>2, <1>3, <1>4

LEMMA InitMargin == Init => MarginInv
BY MarginTypes
DEF Init, WorldInit, ControllerInit, MarginInv, RoundsAreShort, StoppedAreOld, DeletedAreOld,
    ReadyAreUpOrOld, DueStay, Due, WorkStays, NoSnapshot, Empty

LEMMA MarginKept ==
  ASSUME Margins, "vm" \notin Faults, Inv, RoundInv, MarginInv, [Next]_vars
  PROVE  MarginInv'
BY RoundsKept, StoppedKept, DeletedKept, ReadyKept, DueKept, WorkKept DEF MarginInv

\* Wherever work is bound or waits in a private queue, its worker is up, registered and not
\* being deleted, although the controller looked at it up to a round before: what the
\* margins between assign_max_age and the other ages are for (plan.py, assign_max_age).  It assumes no
\* worker that dies of itself, and nothing of the arm flag.
THEOREM WorkFindsItsWorker ==
  ASSUME Margins, "vm" \notin Faults
  PROVE  Spec => []WorkReachesAWorker
<1>1. Inv /\ RoundInv /\ MarginInv /\ [Next]_vars => MarginInv'
  BY MarginKept
<1>2. Inv /\ RoundInv /\ MarginInv => WorkReachesAWorker
  <2> SUFFICES ASSUME Inv, RoundInv, MarginInv, NEW i \in Instances,
                      private[i] # {} \/ (binding # None /\ binding[2] = i)
               PROVE  server[i].status = "ACTIVE" /\ i \in ready /\ i \notin deleting
    BY DEF WorkReachesAWorker
  <2>1. Stays(i)
    BY DEF MarginInv, WorkStays, DueStay, Due
  <2> QED
    BY <2>1 DEF Stays
<1> QED
  BY <1>1, <1>2, InitMargin, RoundInvHolds, PTL DEF Spec

-----------------------------------------------------------------------------
(***************************************************************************)
(* First come, first served.  A submission ages from the moment it is      *)
(* submitted, so an earlier one that still waits is never the younger of   *)
(* two; every reading, every decision and every claim keeps that order.    *)
(***************************************************************************)

SubmittedInOrder ==
  \A s, t \in Submissions :
    s < t /\ job[t].status # "absent" =>
      job[s].status # "absent" /\ (s \in Waiting => job[s].age >= job[t].age)

UnsubmittedAreNew == \A s \in Submissions : job[s].status = "absent" => job[s].age = 0

\* The scan leaves out the newest, if any.
ScanIsOldest ==
  \A t \in DOMAIN snap.waiting, s \in Submissions :
    s < t =>
      /\ s \in Waiting => s \in DOMAIN snap.waiting
      /\ s \in DOMAIN snap.waiting => snap.waiting[s].age >= snap.waiting[t].age

PairsAreOldest ==
  \A p \in to_assign, s \in Waiting :
    s < p[1] /\ job[s].awaiting => \E q \in to_assign : q[1] = s

OrderInv ==
  /\ SubmittedInOrder /\ UnsubmittedAreNew /\ ScanIsOldest /\ PairsAreOldest
  /\ OldestServedFirst

LEMMA JobsAge ==
  ASSUME Inv, [Next]_vars, NEW s \in Submissions
  PROVE  /\ ~Tick => job'[s].age = job[s].age
         /\ Tick => /\ s \in Waiting => job'[s].age = Aged(job[s].age, JobAgeBound)
                    /\ s \notin Waiting => job'[s].age = job[s].age
<1>1. CASE Tick
  <2>1. job'[s] = IF s \in Waiting THEN [job[s] EXCEPT !.age = Aged(@, JobAgeBound)]
                  ELSE job[s]
    BY <1>1 DEF Tick, AgesAdvance
  <2> QED
    BY <1>1, <2>1, JobTypes DEF JobRecords
<1>2. CASE ~Tick
  <2>1. CASE job' = job
    BY <1>2, <2>1
  <2>2. ASSUME NEW u \in Submissions, NEW x, job' = [job EXCEPT ![u].queue = x]
        PROVE  job'[s].age = job[s].age
    BY <2>2, JobTypes DEF JobRecords
  <2>3. ASSUME NEW u \in Submissions, NEW x, job' = [job EXCEPT ![u].status = x]
        PROVE  job'[s].age = job[s].age
    BY <2>3, JobTypes DEF JobRecords
  <2>4. CASE Round \/ Breakdown
    <3>1. job' = job \/ \E u \in Submissions, i \in Instances : job' = [job EXCEPT ![u].queue = i]
      BY <2>4
      DEF Round, BeginRound, ReadInstances, ReadDepth, ReadSpent, ReadWaiting, Decide,
          DeleteInstance, Claim, Publish, CreateInstance, EndRound, Restart, Breakdown,
          SkipRound, VolumesFlagUnreadable, Crash, Forget, girder
    <3> QED
      BY <1>2, <2>2, <3>1
  <2>5. CASE Girder
    <3>1. CASE FlipArmed
      BY <1>2, <3>1 DEF FlipArmed
    <3>2. CASE \E u \in Submissions : Submit(u)
      BY <1>2, <3>2, SubmitAdds
    <3>3. CASE \E u \in Submissions :
                 ReapSubmission(u) \/ CancelSubmission(u) \/ RemoveSubmission(u)
      BY <1>2, <2>3, <3>3 DEF ReapSubmission, CancelSubmission, RemoveSubmission
    <3> QED
      BY <2>5, <3>1, <3>2, <3>3 DEF Girder
  <2>6. ASSUME NEW i \in Instances, Worker(i)
        PROVE  job'[s].age = job[s].age
    <3>1. CASE Prepare(i)
      <4>1. \E u \in Submissions : job' = [job EXCEPT ![u].queue = i]
        BY <3>1, InvTypes DEF Prepare, Unclaimed
      <4> QED
        BY <2>2, <4>1
    <3>2. CASE Finish(i)
      <4>1. job' = job \/ \E u \in Submissions : job' = [job EXCEPT ![u].status = "done"]
        BY <3>2, InvTypes DEF Finish
      <4> QED
        BY <2>3, <4>1
    <3>3. CASE ~Prepare(i) /\ ~Finish(i)
      BY <2>6, <3>3 DEF Worker, Boot, Announce, TakeShared, TakePrivate, PowerOff,
                        DieMidRun, Wedge, NovaDeletes, girder
    <3> QED
      BY <3>1, <3>2, <3>3
  <2>7. CASE UNCHANGED vars
    BY <1>2, <2>7 DEF vars, world, girder
  <2> QED
    BY <1>2, <2>4, <2>5, <2>6, <2>7 DEF Next, Environment
<1> QED
  BY <1>1, <1>2

\* Nothing that was submitted comes back to the waiting set.
LEMMA WaitingShrinks ==
  ASSUME Inv, [Next]_vars, NEW s \in Submissions, job[s].status # "absent", s \in Waiting'
  PROVE  s \in Waiting /\ job'[s].awaiting = job[s].awaiting
<1>1. Running(s)' /\ job'[s].queue = None
  BY DEF Waiting
<1>2. job[s].queue \in Instances \cup {None}
  BY JobTypes
<1> QED
  BY <1>1, <1>2, JobsPersist DEF Persists, Waiting

LEMMA OnlySubmitted ==
  ASSUME Inv, [Next]_vars, NEW t \in Submissions,
         job[t].status = "absent", job'[t].status # "absent"
  PROVE  Submit(t)
<1>1. ASSUME NEW u \in Submissions, Placed(u), job[u].status # "absent"
      PROVE  FALSE
  BY <1>1, PlacedPersists
<1>2. ASSUME NEW u \in Submissions, Submit(u)
      PROVE  Submit(t)
  BY <1>2, SubmitAdds
<1> QED
  BY <1>1, <1>2, NextIsJobStep DEF JobStep

LEMMA SubmittedKept ==
  ASSUME Inv, SubmittedInOrder, UnsubmittedAreNew, [Next]_vars
  PROVE  SubmittedInOrder' /\ UnsubmittedAreNew'
<1>1. \A s \in Submissions : job[s].status # "absent" => job'[s].status # "absent"
  BY JobsPersist DEF Persists
<1>2. UnsubmittedAreNew'
  <2> SUFFICES ASSUME NEW s \in Submissions, job'[s].status = "absent"
               PROVE  job'[s].age = 0
    BY DEF UnsubmittedAreNew
  <2>1. job[s].status = "absent" /\ s \notin Waiting
    BY <1>1 DEF Waiting, Running
  <2> QED
    BY <2>1, JobsAge DEF UnsubmittedAreNew
<1>3. ASSUME NEW s \in Submissions, NEW t \in Submissions, s < t, job'[t].status # "absent"
      PROVE  job'[s].status # "absent" /\ (s \in Waiting' => job'[s].age >= job'[t].age)
  <2>1. /\ job[s].age \in 0..JobAgeBound /\ job[t].age \in 0..JobAgeBound
        /\ JobAgeBound \in Nat
    BY JobTypes, BoundsAssumption DEF JobRecords
  <2>2. CASE job[t].status # "absent"
    <3>1. job[s].status # "absent" /\ (s \in Waiting => job[s].age >= job[t].age)
      BY <1>3, <2>2 DEF SubmittedInOrder
    <3>2. ASSUME s \in Waiting'
          PROVE  job'[s].age >= job'[t].age
      <4>1. s \in Waiting /\ job[s].age >= job[t].age
        BY <3>1, <3>2, WaitingShrinks
      <4>2. CASE Tick
        <5>1. job'[s].age = Aged(job[s].age, JobAgeBound)
          BY <4>1, <4>2, JobsAge
        <5>2. job'[t].age = job[t].age \/ job'[t].age = Aged(job[t].age, JobAgeBound)
          BY <4>2, JobsAge
        <5> QED
          BY <2>1, <4>1, <5>1, <5>2 DEF Aged
      <4>3. CASE ~Tick
        BY <4>1, <4>3, JobsAge
      <4> QED
        BY <4>2, <4>3
    <3> QED
      BY <1>1, <3>1, <3>2
  <2>3. CASE job[t].status = "absent"
    <3>1. Submit(t) /\ s # t
      BY <1>3, <2>3, OnlySubmitted, IdsAssumption
    <3>2. job[s].status # "absent" /\ job'[s] = job[s] /\ job'[t].age = 0
      BY <1>3, <2>3, <3>1, SubmitAdds DEF Submit, UnsubmittedAreNew
    <3> QED
      BY <2>1, <3>2
  <2> QED
    BY <2>2, <2>3
<1> QED
  BY <1>2, <1>3 DEF SubmittedInOrder

\* What is among the oldest leaves out nothing older.
LEMMA OldestIsDownwardClosed ==
  ASSUME NEW W \in SUBSET Submissions, NEW t \in Oldest(W), NEW s \in W, s < t
  PROVE  s \in Oldest(W)
<1> DEFINE Below(u) == {v \in W : v < u}
<1>1. t \in W /\ Cardinality(Below(t)) < ScanLimit
  BY DEF Oldest
<1>2. IsFiniteSet(W) /\ \A v \in W : v \in Nat
  BY IdsAssumption, FS_Subset
<1>3. Below(s) \subseteq Below(t)
  BY <1>1, <1>2
<1>4. IsFiniteSet(Below(t)) /\ IsFiniteSet(Below(s))
  BY <1>2, FS_Subset
<1>5. Cardinality(Below(s)) <= Cardinality(Below(t))
  BY <1>3, <1>4, FS_Subset
<1>6. Cardinality(Below(s)) \in Nat /\ Cardinality(Below(t)) \in Nat
  BY <1>4, FS_CardinalityType
<1>7. Cardinality(Below(s)) < ScanLimit
  <2> HIDE DEF Below
  <2> QED
    BY <1>1, <1>5, <1>6, BoundsAssumption
<1> QED
  BY <1>7 DEF Oldest

LEMMA ScanOrderKept ==
  ASSUME Inv, RoundInv, SubmittedInOrder, ScanIsOldest, [Next]_vars
  PROVE  ScanIsOldest'
<1>1. GatherStep
  BY NextIsRoundStep DEF RoundInv
<1>2. CASE snap'.waiting = snap.waiting
  <2> SUFFICES ASSUME NEW t \in DOMAIN snap.waiting, NEW s \in Submissions, s < t
               PROVE  /\ s \in Waiting' => s \in DOMAIN snap.waiting
                      /\ s \in DOMAIN snap.waiting =>
                           snap.waiting[s].age >= snap.waiting[t].age
    BY <1>2 DEF ScanIsOldest
  <2>1. t \in Submissions /\ job[t].status # "absent"
    BY SnapshotDomains DEF RoundInv, ScanHolds
  <2>2. s \in Waiting' => s \in Waiting
    BY <2>1, WaitingShrinks DEF SubmittedInOrder
  <2> QED
    BY <2>2 DEF ScanIsOldest
<1>3. CASE DOMAIN snap'.waiting = {}
  BY <1>3 DEF ScanIsOldest
<1>4. CASE ReadWaiting /\ snap'.waiting =
             [s \in Oldest(Waiting) |->
                [age |-> job[s].age, memory_gb |-> Memory[s],
                 disk_gb |-> None, assignable |-> job[s].awaiting]]
  <2>1. Waiting' = Waiting
    BY <1>4 DEF ReadWaiting, girder, Waiting, Running
  <2>2. ASSUME NEW t \in Oldest(Waiting), NEW s \in Submissions, s < t
        PROVE  /\ s \in Waiting => s \in Oldest(Waiting)
               /\ s \in Oldest(Waiting) => job[s].age >= job[t].age
    <3>1. Waiting \subseteq Submissions /\ Oldest(Waiting) \subseteq Waiting
      BY DEF Waiting, Oldest
    <3>2. s \in Waiting => s \in Oldest(Waiting)
      BY <2>2, <3>1, OldestIsDownwardClosed
    <3>3. job[t].status # "absent"
      BY <3>1 DEF Waiting, Running
    <3> QED
      BY <2>2, <3>1, <3>2, <3>3 DEF SubmittedInOrder
  <2> QED
    BY <1>4, <2>1, <2>2 DEF ScanIsOldest
<1> QED
  BY <1>1, <1>2, <1>3, <1>4, ReadingsKept

\* A round that places a submission places every earlier one that waits to be placed.
LEMMA DecidedInOrder ==
  ASSUME Inv, RoundInv, ScanIsOldest, NEW p \in Assign(FleetState, Limits),
         NEW s \in Waiting, s < p[1], job[s].awaiting
  PROVE  \E q \in Assign(FleetState, Limits) : q[1] = s
<1>1. FleetState.waiting = snap.waiting
  BY DEF FleetState
<1>2. p[1] \in DOMAIN snap.waiting /\ p[1] \in Submissions /\ s \in Submissions
  BY DecidedPairs DEF Waiting
<1>3. s \in DOMAIN snap.waiting /\ snap.waiting[s].age >= snap.waiting[p[1]].age
  BY <1>2 DEF ScanIsOldest
<1>4. s \in Placeable(FleetState)
  BY <1>1, <1>3 DEF Placeable, RoundInv, ScanHolds
<1>5. Older(FleetState, s, p[1])
  <2>1. snap.waiting[s].age \in Nat /\ snap.waiting[p[1]].age \in Nat
    BY <1>2, <1>3, SnapshotDomains
  <2> QED
    BY <1>1, <1>3, <2>1 DEF Older
<1> QED
  BY <1>4, <1>5, FleetIsOrdered, NoneIsSkipped

\* A claim that nothing hinders claims what still waits.
LEMMA ClaimServes ==
  ASSUME "claim" \notin Faults, Inv, NEW s \in Submissions, NEW i \in Instances, Claim(s, i)
  PROVE  s \in Waiting' => ~job'[s].awaiting
<1> SUFFICES ASSUME s \in Waiting', job'[s].awaiting PROVE FALSE
  OBVIOUS
<1>1. \/ Claimable(s) /\ job' = [job EXCEPT ![s].queue = i]
      \/ ~Claimable(s) /\ job' = job
  BY DEF Claim, Fault
<1>2. job'[s].status = "RUNNING" /\ job'[s].queue = None
  BY DEF Waiting, Running
<1>3. CASE Claimable(s) /\ job' = [job EXCEPT ![s].queue = i]
  <2>1. job'[s].queue = i
    BY <1>3, JobTypes DEF JobRecords
  <2> QED
    BY <1>2, <2>1, NoneAssumption, IdsAssumption
<1>4. CASE ~Claimable(s) /\ job' = job
  BY <1>2, <1>4 DEF Claimable
<1> QED
  BY <1>1, <1>3, <1>4

LEMMA PairOrderKept ==
  ASSUME "claim" \notin Faults, Inv, RoundInv, SubmittedInOrder, ScanIsOldest,
         PairsAreOldest, [Next]_vars
  PROVE  PairsAreOldest'
<1>1. CASE Decide
  <2>1. to_assign' = Assign(FleetState, Limits) /\ job' = job
    BY <1>1 DEF Decide, girder
  <2>2. Waiting' = Waiting
    BY <2>1 DEF Waiting, Running
  <2> QED
    BY <2>1, <2>2, DecidedInOrder DEF PairsAreOldest
<1>2. ASSUME NEW p \in to_assign, NEW s \in Waiting', s < p[1], job'[s].awaiting
      PROVE  s \in Submissions /\ \E q \in to_assign : q[1] = s
  <2>1. s \in Submissions /\ p[1] \in Submissions /\ job[p[1]].status # "absent"
    BY SnapshotDomains DEF Waiting, RoundInv, PairsExist
  <2>2. s \in Waiting /\ job[s].awaiting
    BY <1>2, <2>1, WaitingShrinks DEF SubmittedInOrder
  <2> QED
    BY <1>2, <2>1, <2>2 DEF PairsAreOldest
<1>3. CASE to_assign' \in {to_assign, {}}
  BY <1>2, <1>3 DEF PairsAreOldest
<1>4. ASSUME NEW u \in Submissions, NEW i \in Instances, Claim(u, i),
             to_assign' = to_assign \ {<<u, i>>}
      PROVE  PairsAreOldest'
  <2> SUFFICES ASSUME NEW p \in to_assign', NEW s \in Waiting', s < p[1], job'[s].awaiting
               PROVE  \E q \in to_assign' : q[1] = s
    BY DEF PairsAreOldest
  <2>1. PICK q \in to_assign : q[1] = s
    BY <1>2, <1>4
  <2>2. s # u
    BY <1>4, ClaimServes
  <2> QED
    BY <1>4, <2>1, <2>2
<1> QED
  BY <1>1, <1>3, <1>4, NextIsRoundStep DEF RoundInv, DecisionStep

LEMMA ServiceKept ==
  ASSUME Inv, RoundInv, SubmittedInOrder, PairsAreOldest, OldestServedFirst, [Next]_vars
  PROVE  OldestServedFirst'
<1> SUFFICES ASSUME NEW s \in Waiting', NEW t \in Submissions, s < t,
                    job'[s].awaiting, job'[t].awaiting, job'[t].queue # None
             PROVE  FALSE
  BY DEF OldestServedFirst
<1>1. s \in Submissions /\ job'[s].queue = None
  BY DEF Waiting
<1>2. ASSUME job[t].status # "absent"
      PROVE  s \in Waiting /\ job[s].awaiting /\ job[t].awaiting
  BY <1>1, <1>2, WaitingShrinks, JobsPersist DEF SubmittedInOrder, Persists
<1>3. job[t].queue = None
  <2> SUFFICES ASSUME job[t].queue # None PROVE FALSE
    OBVIOUS
  <2> QED
    BY <1>1, <1>2, JobTypes DEF OldestServedFirst
<1>4. PICK u \in Submissions : (Placed(u) /\ job[u].status # "absent") \/ Submit(u)
  BY <1>3, NextIsJobStep DEF JobStep
<1>5. CASE Submit(u)
  BY <1>3, <1>5, SubmitAdds
<1>6. CASE Placed(u) /\ job[u].status # "absent"
  <2>1. u = t
    BY <1>3, <1>6, PlacedPersists
  <2>2. job[t].awaiting /\ s \in Waiting /\ job[s].awaiting
    BY <1>2, <1>6, <2>1
  <2>3. PICK i \in Instances : Claim(t, i)
    BY <1>6, <2>1, <2>2 DEF Placed
  <2>4. <<t, i>> \in to_assign /\ \A p \in to_assign : t <= p[1]
    BY <2>3 DEF Claim
  <2>5. PICK q \in to_assign : q[1] = s
    BY <2>2, <2>4 DEF PairsAreOldest
  <2> QED
    BY <1>1, <2>4, <2>5, IdsAssumption
<1> QED
  BY <1>4, <1>5, <1>6

LEMMA InitOrder == Init => OrderInv
BY DEF Init, WorldInit, ControllerInit, OrderInv, SubmittedInOrder, UnsubmittedAreNew,
       ScanIsOldest, PairsAreOldest, OldestServedFirst, Waiting, Running, NoSnapshot, Empty

\* S7: no submission is given a worker while one submitted before it still waits for one,
\* over every round, restart and flip of the flag, and however few of the oldest a scan
\* returns (plan.py, decide and _oldest_first; signals.py, waiting_submissions).  It
\* assumes no claim that fails: the controller passes over one and serves the next.
THEOREM ServedInOrder ==
  ASSUME "claim" \notin Faults
  PROVE  Spec => []OldestServedFirst
<1>1. Inv /\ RoundInv /\ OrderInv /\ [Next]_vars => OrderInv'
  BY SubmittedKept, ScanOrderKept, PairOrderKept, ServiceKept DEF OrderInv
<1> QED
  BY <1>1, InitOrder, RoundInvHolds, PTL DEF Spec, OrderInv

-----------------------------------------------------------------------------
(***************************************************************************)
(* The provisioning count.  A server that was made for a submission is     *)
(* either given one, or was left over by one that ended before it was      *)
(* given any: there are never more of them than submissions.               *)
(***************************************************************************)

\* The controller runs and reads all it asks for, its claims are answered, every server boots
\* and its worker announces itself and keeps running.
Steady ==
  Faults \cap {"crash", "flag", "read", "waiting", "claim", "late", "error", "vm"} = {}

\* A worker made in one round, and found by the next, is still young enough for work.
TwoRounds == 2 * RoundTime <= AssignMaxAge

\* One flavour: the catalogue has one size at most, and no submission names another.
OneSize ==
  /\ \A q, r \in DOMAIN Sizes : q = r
  /\ DOMAIN Sizes # {} => \A s \in Submissions : Memory[s] \in DOMAIN Sizes \cup {None}

Existing == {i \in Instances : server[i].status # "absent"}
Submitted == {s \in Submissions : job[s].status # "absent"}

\* The submissions that have an instance, on record or by a pair of this round's, and theirs.
Settled == {s \in Submissions : job[s].queue # None \/ \E p \in to_assign : p[1] = s}
Taken ==
  {i \in Instances : (\E s \in Submissions : job[s].queue = i) \/ \E p \in to_assign : p[2] = i}
Free == Existing \ Taken

Gathering == {"instances", "depth", "spent", "waiting", "decide"}

SpentWereClaimed ==
  \A i \in spent_seen \cup snap.spent : \E s \in Submissions : job[s].queue = i

PlacedExist == \A s \in Submissions, i \in Instances : job[s].queue = i => i \in Existing

ScannedWait == pc = "decide" => \A s \in DOMAIN snap.waiting : job[s].queue = None

PairsWait ==
  /\ \A p \in to_assign : job[p[1]].queue = None
  /\ \A p, q \in to_assign : p[1] = q[1] => p = q

SupplyInv ==
  /\ pc # "down" /\ late = {} /\ (pc # "idle" => assign) /\ snap.queue_depth = 0
  /\ SpentWereClaimed /\ PlacedExist /\ ScannedWait /\ PairsWait

\* What there is to a step that is no fault of the controller's or of a server.
LEMMA SteadyStep ==
  ASSUME Steady, pc # "down", [Next]_vars
  PROVE  \/ BeginRound \/ ReadInstances \/ ReadDepth \/ ReadSpent \/ ReadWaiting
         \/ Decide \/ EndRound
         \/ (\E i \in Instances : DeleteInstance(i))
         \/ (\E s \in Submissions, i \in Instances : Claim(s, i))
         \/ Publish \/ CreateInstance \/ Tick
         \/ UNCHANGED process
<1>1. ~Fault("crash") /\ ~Fault("flag") /\ ~Fault("read")
  BY DEF Steady, Fault
<1>2. ~Breakdown
  BY <1>1 DEF Breakdown, SkipRound, VolumesFlagUnreadable, Crash
<1>3. ~Restart
  BY DEF Restart
<1> QED
  BY <1>2, <1>3 DEF Next, Round, Environment, vars

\* A scan that is answered, and as long as the list, finds all that wait.
LEMMA ScanFindsAll ==
  ASSUME Steady, ClaimsAreFound, Inv, ReadWaiting
  PROVE  /\ DOMAIN snap'.waiting = Waiting
         /\ snap'.instances = snap.instances /\ job' = job
<1>1. ~Fault("waiting")
  BY DEF Steady, Fault
<1>2. snap' = [snap EXCEPT !.waiting =
                 [s \in Oldest(Waiting) |->
                    [age |-> job[s].age, memory_gb |-> Memory[s],
                     disk_gb |-> None, assignable |-> job[s].awaiting]]]
  BY <1>1 DEF ReadWaiting
<1>3. DOMAIN snap'.waiting = Oldest(Waiting) /\ snap'.instances = snap.instances
  BY <1>2, SnapshotDomains
<1>4. ASSUME NEW s \in Waiting
      PROVE  s \in Oldest(Waiting)
  <2> DEFINE older == {t \in Waiting : t < s}
  <2>1. older \subseteq Submissions \ {s} /\ s \in Submissions
    BY IdsAssumption DEF Waiting
  <2>2. /\ IsFiniteSet(Submissions) /\ IsFiniteSet(Submissions \ {s})
        /\ Cardinality(Submissions \ {s}) = Cardinality(Submissions) - 1
    BY <2>1, IdsAssumption, FS_RemoveElement
  <2>3. Cardinality(older) <= Cardinality(Submissions \ {s}) /\ IsFiniteSet(older)
    BY <2>1, <2>2, FS_Subset
  <2>4. Cardinality(older) \in Nat /\ Cardinality(Submissions) \in Nat
    BY <2>2, <2>3, FS_CardinalityType
  <2> HIDE DEF older
  <2>5. Cardinality(older) < ScanLimit
    BY <2>2, <2>3, <2>4, BoundsAssumption DEF ClaimsAreFound
  <2> QED
    BY <2>5 DEF older, Oldest
<1>5. Oldest(Waiting) = Waiting
  BY <1>4 DEF Oldest
<1> QED
  BY <1>3, <1>5 DEF ReadWaiting, girder

\* Only an answered claim turns a pair into a worker on record, and each one is answered.
LEMMA ClaimSettles ==
  ASSUME Steady, Inv, RoundInv, NoneRemoved, PairsWait,
         NEW s \in Submissions, NEW i \in Instances, Claim(s, i)
  PROVE  /\ job[s].queue = None /\ job' = [job EXCEPT ![s].queue = i]
         /\ <<s, i>> \in to_assign /\ to_assign' = to_assign \ {<<s, i>>}
         /\ job'[s].queue = i /\ \A t \in Submissions \ {s} : job'[t] = job[t]
<1>1. <<s, i>> \in to_assign /\ to_assign' = to_assign \ {<<s, i>>}
  BY DEF Claim
<1>2. job[s].queue = None
  BY <1>1 DEF PairsWait
<1>3. Claimable(s)
  BY <1>1, <1>2 DEF Claimable, RoundInv, PairsExist, NoneRemoved
<1>4. ~Fault("claim")
  BY DEF Steady, Fault
<1>5. job' = [job EXCEPT ![s].queue = i]
  BY <1>3, <1>4 DEF Claim
<1> QED
  BY <1>1, <1>2, <1>5, JobTypes DEF JobRecords

LEMMA SettledKept ==
  ASSUME Steady, Inv, RoundInv, ArmedInv, NoneRemoved, SupplyInv, [Next]_vars, ~Decide
  PROVE  /\ Settled' = Settled /\ Taken' = Taken
         /\ \A s \in Submissions :
              job'[s].queue # None => job[s].queue = job'[s].queue \/ <<s, job'[s].queue>> \in to_assign
         /\ PairsWait'
<1>1. CASE \E s \in Submissions, i \in Instances : Claim(s, i)
  <2>1. PICK s \in Submissions, i \in Instances : Claim(s, i)
    BY <1>1
  <2>2. /\ job[s].queue = None /\ job'[s].queue = i /\ i # None
        /\ <<s, i>> \in to_assign /\ to_assign' = to_assign \ {<<s, i>>}
        /\ \A t \in Submissions \ {s} : job'[t].queue = job[t].queue
    BY <2>1, ClaimSettles, QueueIsNotNone DEF SupplyInv
  <2>3. \A p \in to_assign' : p \in to_assign /\ p # <<s, i>> /\ p[1] \in Submissions
    BY <2>2, SnapshotDomains
  <2>4. \A p \in to_assign' : p[1] # s
    BY <2>2, <2>3 DEF SupplyInv, PairsWait
  <2>5. Settled' = Settled
    <3>1. \A t \in Submissions \ {s} :
            (\E p \in to_assign' : p[1] = t) <=> (\E p \in to_assign : p[1] = t)
      BY <2>2
    <3>2. s \in Settled /\ s \in Settled'
      BY <2>2 DEF Settled
    <3>3. \A t \in Submissions \ {s} : t \in Settled' <=> t \in Settled
      BY <2>2, <3>1 DEF Settled
    <3> QED
      BY <3>2, <3>3 DEF Settled
  <2>6. Taken' = Taken
    <3>1. ASSUME NEW k \in Instances, k \in Taken PROVE k \in Taken'
      <4>1. CASE \E t \in Submissions : job[t].queue = k
        <5>1. PICK t \in Submissions : job[t].queue = k
          BY <4>1
        <5>2. job'[t].queue = k
          BY <2>2, <5>1, QueueIsNotNone
        <5> QED
          BY <5>2 DEF Taken
      <4>2. CASE \E p \in to_assign : p[2] = k
        BY <2>2, <4>2 DEF Taken
      <4> QED
        BY <3>1, <4>1, <4>2 DEF Taken
    <3>2. ASSUME NEW k \in Instances, k \in Taken' PROVE k \in Taken
      <4>1. CASE \E t \in Submissions : job'[t].queue = k
        BY <2>2, <4>1 DEF Taken
      <4>2. CASE \E p \in to_assign' : p[2] = k
        BY <2>3, <4>2 DEF Taken
      <4> QED
        BY <3>2, <4>1, <4>2 DEF Taken
    <3> QED
      BY <3>1, <3>2 DEF Taken
  <2>7. PairsWait'
    BY <2>2, <2>3, <2>4 DEF SupplyInv, PairsWait
  <2> QED
    BY <2>2, <2>5, <2>6, <2>7
<1>2. CASE ~\E s \in Submissions, i \in Instances : Claim(s, i)
  <2>1. \A s \in Submissions : job'[s].queue = job[s].queue
    BY <1>2, OnlyPairsPlace DEF RoundInv
  <2>2. to_assign' = to_assign
    BY <1>2, SteadyStep
    DEF SupplyInv, BeginRound, ReadInstances, ReadDepth, ReadSpent, ReadWaiting, EndRound,
        DeleteInstance, Publish, CreateInstance, Tick, process, decision
  <2>3. \A p \in to_assign : p[1] \in Submissions
    BY SnapshotDomains
  <2> QED
    BY <2>1, <2>2, <2>3 DEF Settled, Taken, SupplyInv, PairsWait
<1> QED
  BY <1>1, <1>2

\* A server stays, and a new one takes an id nobody had.
LEMMA ExistingKept ==
  ASSUME Inv, RoundInv, [Next]_vars
  PROVE  /\ Existing \subseteq Existing'
         /\ ~CreateInstance => Existing' = Existing
<1>1. Existing \subseteq Existing'
  BY ServersAdvance DEF Existing, Advances
<1>2. ~CreateInstance => Existing' \subseteq Existing
  BY AbsentStays DEF Existing, RoundInv
<1> QED
  BY <1>1, <1>2

LEMMA SpentClaimsKept ==
  ASSUME Steady, Inv, RoundInv, SupplyInv, [Next]_vars
  PROVE  SpentWereClaimed'
<1>1. ASSUME NEW i \in spent_seen' \cup snap'.spent
      PROVE  \E s \in Submissions : job[s].queue = i
  <2>1. CASE ReadSpent
    <3>1. spent_seen' = Spent /\ snap'.spent = Spent
      BY <2>1, SnapshotDomains DEF ReadSpent
    <3>2. i \in spent_seen \/ i \in Claimed
      BY <1>1, <3>1 DEF Spent
    <3> QED
      BY <3>2 DEF SupplyInv, SpentWereClaimed, Claimed, Newest, Recorded
  <2>2. CASE ~ReadSpent
    <3>1. spent_seen' = spent_seen
      BY <2>2, SteadyStep
      DEF SupplyInv, BeginRound, ReadInstances, ReadDepth, ReadWaiting, Decide, EndRound,
          DeleteInstance, Claim, Publish, CreateInstance, Tick, process, memory
    <3>2. snap'.spent \subseteq snap.spent
      <4>1. CASE ReadInstances \/ ReadDepth
        BY <4>1, SnapshotDomains DEF ReadInstances, ReadDepth
      <4>2. CASE ReadWaiting
        BY <4>2, SnapshotDomains DEF ReadWaiting
      <4> QED
        BY <2>2, <4>1, <4>2, NextIsRoundStep DEF RoundInv, GatherStep, NoSnapshot
    <3> QED
      BY <1>1, <3>1, <3>2 DEF SupplyInv, SpentWereClaimed
  <2> QED
    BY <2>1, <2>2
<1>2. ASSUME NEW s \in Submissions, job[s].queue # None
      PROVE  job'[s].queue = job[s].queue
  BY <1>2, JobsPersist, JobTypes DEF Persists
<1>3. \A i \in spent_seen' \cup snap'.spent : i # None
  <2>1. spent_seen' \subseteq Instances /\ snap'.spent \subseteq Instances
    BY NextKeepsInv DEF Inv, TypeInv, TypeOK, IsSnapshot
  <2> QED
    BY <2>1, QueueIsNotNone
<1> QED
  BY <1>1, <1>2, <1>3 DEF SpentWereClaimed

LEMMA SupplyKept ==
  ASSUME Steady, ClaimsAreFound, Inv, RoundInv, ArmedInv, NoneRemoved, SupplyInv, [Next]_vars
  PROVE  SupplyInv'
<1>1. pc' # "down" /\ (pc' # "idle" => assign')
  BY SteadyStep
  DEF SupplyInv, ArmedInv, BeginRound, ReadInstances, ReadDepth, ReadSpent, ReadWaiting, Decide,
      EndRound, DeleteInstance, Claim, Publish, CreateInstance, Tick, process
<1>2. late' = {}
  <2>1. ~Fault("late")
    BY DEF Steady, Fault
  <2>2. CASE Round
    BY <2>2
    DEF SupplyInv, Round, BeginRound, ReadInstances, ReadDepth, ReadSpent, ReadWaiting, Decide,
        DeleteInstance, Claim, Publish, CreateInstance, EndRound, Restart, workers
  <2>3. CASE Breakdown
    BY <2>3 DEF SupplyInv, Breakdown, SkipRound, VolumesFlagUnreadable, Crash, Forget, workers
  <2>4. CASE Girder
    BY <2>4 DEF SupplyInv, Girder, FlipArmed, Submit, ReapSubmission, CancelSubmission,
                RemoveSubmission, workers
  <2>5. ASSUME NEW k \in Instances, Worker(k)
        PROVE  late' = {}
    BY <2>1, <2>5 DEF SupplyInv, Worker, Boot, Announce, TakeShared, TakePrivate, Prepare,
                      Finish, PowerOff, DieMidRun, Wedge, NovaDeletes
  <2>6. CASE Tick \/ UNCHANGED vars
    BY <2>6 DEF SupplyInv, Tick, AgesAdvance, workers, vars, world
  <2> QED
    BY <2>2, <2>3, <2>4, <2>5, <2>6 DEF Next, Environment
<1>3. snap'.queue_depth = 0
  <2>1. CASE ReadDepth
    BY <2>1, SnapshotDomains DEF ReadDepth, ArmedInv
  <2>2. CASE ReadInstances \/ ReadSpent \/ ReadWaiting
    BY <2>2, SnapshotDomains DEF ReadInstances, ReadSpent, ReadWaiting, SupplyInv
  <2> QED
    BY <2>1, <2>2, NextIsRoundStep DEF RoundInv, GatherStep, NoSnapshot, SupplyInv
<1>4. SpentWereClaimed'
  BY SpentClaimsKept
<1>5. PlacedExist'
  <2> SUFFICES ASSUME NEW s \in Submissions, NEW i \in Instances, job'[s].queue = i
               PROVE  i \in Existing'
    BY DEF PlacedExist
  <2>1. i \in Existing
    <3>1. CASE job[s].queue = i
      BY <3>1 DEF SupplyInv, PlacedExist
    <3>2. CASE job[s].queue # i
      <4>1. PICK k \in Instances : <<s, k>> \in to_assign /\ job'[s].queue = k
        BY <3>2, OnlyPairsPlace DEF RoundInv
      <4> QED
        BY <4>1 DEF RoundInv, PairsExist, Existing
    <3> QED
      BY <3>1, <3>2
  <2> QED
    BY <2>1, ExistingKept
<1>6. ScannedWait'
  <2> SUFFICES ASSUME pc' = "decide", NEW s \in DOMAIN snap'.waiting
               PROVE  job'[s].queue = None
    BY DEF ScannedWait
  <2>1. CASE ReadWaiting
    <3>1. s \in Waiting /\ job' = job
      BY <2>1, ScanFindsAll
    <3> QED
      BY <3>1 DEF Waiting
  <2>2. CASE pc = "decide" /\ snap' = snap
    <3>1. s \in Submissions /\ job[s].queue = None
      BY <2>2, SnapshotDomains DEF SupplyInv, ScannedWait
    <3>2. job'[s].queue = job[s].queue
      <4> SUFFICES ASSUME job'[s].queue # job[s].queue PROVE FALSE
        OBVIOUS
      <4>1. pc = "act"
        BY <3>1, OnlyPairsPlace DEF RoundInv, Claim
      <4> QED
        BY <2>2, <4>1
    <3> QED
      BY <3>1, <3>2
  <2>3. \/ ReadWaiting
        \/ pc = "decide" /\ snap' = snap
    BY SteadyStep
    DEF SupplyInv, BeginRound, ReadInstances, ReadDepth, ReadSpent, Decide,
        EndRound, DeleteInstance, Claim, Publish, CreateInstance, Tick, process
  <2> QED
    BY <2>1, <2>2, <2>3
<1>7. PairsWait'
  <2>1. CASE Decide
    <3>1. to_assign' = Assign(FleetState, Limits) /\ job' = job /\ pc = "decide"
      BY <2>1 DEF Decide, girder
    <3>2. \A p \in Assign(FleetState, Limits) : job[p[1]].queue = None
      BY <3>1, DecidedPairs DEF SupplyInv, ScannedWait
    <3>3. ASSUME NEW p \in Assign(FleetState, Limits), NEW q \in Assign(FleetState, Limits),
                 p[1] = q[1]
          PROVE  p = q
      <4>1. p[2] = q[2]
        BY <3>3, FleetIsOrdered, AssignIsAMatching
      <4>2. p \in Submissions \X Instances /\ q \in Submissions \X Instances
        BY DecisionIsTyped DEF Inv, TypeInv
      <4> QED
        BY <3>3, <4>1, <4>2
    <3> QED
      BY <3>1, <3>2, <3>3 DEF PairsWait
  <2>2. CASE ~Decide
    BY <2>2, SettledKept
  <2> QED
    BY <2>1, <2>2
<1> QED
  BY <1>1, <1>2, <1>3, <1>4, <1>5, <1>6, <1>7 DEF SupplyInv

LEMMA InitSupply == Init => SupplyInv
BY QueueIsNotNone
DEF Init, WorldInit, ControllerInit, SupplyInv, SpentWereClaimed, PlacedExist, ScannedWait,
    PairsWait, NoSnapshot, Empty

-----------------------------------------------------------------------------
\* An instance that has not been passed over: made in this round or the last, it will be
\* given work by the next decision if its worker has announced itself by then.
Fresh(i) ==
  /\ server[i].status \in {"BUILD", "ACTIVE"} /\ i \notin deleting \cup to_delete
  /\ i \notin ready => server[i].age = 0
  /\ server[i].age <= (IF pc \in Gathering THEN RoundTime + round ELSE round)
  /\ pc \in Gathering \ {"instances"} =>
       /\ i \in DOMAIN snap.instances
       /\ snap.instances[i].status \in {"BUILD", "ACTIVE"}

LEMMA FreshIsYoung ==
  ASSUME TwoRounds, Margins, Inv, MarginInv, NEW i \in Instances, Fresh(i)
  PROVE  /\ server[i].age \in Nat /\ server[i].age <= AssignMaxAge
         /\ server[i].age <= BootGrace /\ server[i].age <= MaxLifetime
<1>1. server[i].age \in Nat /\ round \in Nat /\ round <= RoundTime
  BY ServerTypes DEF Inv, TypeInv, TypeOK, WorldTypeOK, MarginInv, RoundsAreShort
<1>2. server[i].age <= RoundTime + round
  BY <1>1, MarginTypes DEF Fresh
<1>3. server[i].age <= AssignMaxAge
  BY <1>1, <1>2, MarginTypes DEF TwoRounds
<1> QED
  BY <1>1, <1>3, MarginTypes

LEMMA FreshIsNotDeleted ==
  ASSUME TwoRounds, Margins, Inv, RoundInv, MarginInv, NEW i \in Instances, Fresh(i), pc = "decide"
  PROVE  i \notin Delete(FleetState, Limits)
<1> SUFFICES ASSUME i \in Delete(FleetState, Limits) PROVE FALSE
  OBVIOUS
<1>1. server[i].age \in Nat /\ server[i].age <= MaxLifetime
  BY FreshIsYoung
<1>2. /\ snap.instances[i].status # "SHUTOFF"
      /\ i \notin ready => server[i].age = 0
  BY DEF Fresh, Gathering
<1>3. /\ ProvisionDeadline # None /\ server[i].age > ProvisionDeadline /\ i \notin ready
  BY <1>1, <1>2, DecidedDeletes, MarginTypes
<1> QED
  BY <1>1, <1>2, <1>3, MarginTypes

LEMMA FreshServerKept ==
  ASSUME Steady, TwoRounds, Margins, Inv, RoundInv, MarginInv, SupplyInv, [Next]_vars,
         NEW i \in Instances, Fresh(i)
  PROVE  /\ server'[i].status \in {"BUILD", "ACTIVE"} /\ i \notin deleting'
         /\ i \notin ready' => server'[i].age = 0
         /\ ~Tick => server'[i].age = server[i].age
<1>1. server[i].age \in Nat /\ server[i].age <= BootGrace /\ server[i].status # "absent"
  BY FreshIsYoung DEF Fresh
<1>2. server'[i].status \in {"BUILD", "ACTIVE"}
  <2>1. ~PowerOff(i)
    BY <1>1, MarginTypes DEF PowerOff
  <2>2. server'[i].status # "ERROR"
    <3>1. ~Fault("error")
      BY DEF Steady, Fault
    <3> SUFFICES ASSUME server'[i].status = "ERROR" PROVE FALSE
      OBVIOUS
    <3>2. server'[i].status # server[i].status
      BY DEF Fresh
    <3>3. ~Tick
      BY <3>2, TickAdvances
    <3>4. ~\E k \in Instances : Worker(k)
      <4> SUFFICES ASSUME NEW k \in Instances, Worker(k) PROVE FALSE
        OBVIOUS
      <4>1. ASSUME NEW x, server' = [server EXCEPT ![k].status = x]
            PROVE  x = "ERROR"
        BY <3>2, <4>1, ServerTypes DEF ServerRecords
      <4> QED
        BY <3>1, <3>2, <4>1
        DEF Worker, Boot, Announce, TakeShared, TakePrivate, Prepare,
            Finish, PowerOff, DieMidRun, Wedge, NovaDeletes, nova
    <3>5. CASE CreateInstance
      <4>1. CASE Boots(Head(to_create).rung)
        BY <1>1, <3>2, <3>5, <4>1, HeadOfCreates, BootsElsewhere DEF CreateInstance
      <4> QED
        BY <3>2, <3>5, <4>1 DEF CreateInstance
    <3>6. CASE ~CreateInstance
      BY <3>2, <3>3, <3>4, <3>6, SteadyStep
      DEF Next, Round, Environment, Girder, FlipArmed, Submit, ReapSubmission, CancelSubmission,
          RemoveSubmission, BeginRound, ReadInstances, ReadDepth, ReadSpent, ReadWaiting, Decide,
          DeleteInstance, Claim, Publish, EndRound, Restart, Breakdown,
          SkipRound, VolumesFlagUnreadable, Crash, Forget, nova, vars, world
    <3> QED
      BY <3>5, <3>6
  <2>3. ~("vm" \in Faults)
    BY DEF Steady
  <2> QED
    BY <2>1, <2>2, <2>3, StatusChanges DEF Fresh, RoundInv
<1>3. i \notin deleting'
  BY OnlyDecidedAreDeleted DEF Fresh
<1>4. ~Tick => server'[i].age = server[i].age
  BY <1>1, ServersAdvance DEF Advances
<1>5. i \notin ready' => server'[i].age = 0
  <2> SUFFICES ASSUME i \notin ready' PROVE server'[i].age = 0
    OBVIOUS
  <2>1. i \notin ready
    BY MarkersStay DEF Announce
  <2>2. ~Tick
    BY <2>1 DEF Tick, Prompt, Fresh, SupplyInv
  <2> QED
    BY <1>4, <2>1, <2>2 DEF Fresh
<1> QED
  BY <1>2, <1>3, <1>4, <1>5

\* Short of a decision, which may pass it over, an instance stays as it is.
LEMMA FreshKept ==
  ASSUME Steady, TwoRounds, Margins, Inv, RoundInv, MarginInv, SupplyInv, [Next]_vars, ~Decide,
         NEW i \in Instances, Fresh(i)
  PROVE  Fresh(i)'
<1>1. /\ server[i].age \in Nat /\ server'[i].age \in Nat /\ round \in Nat /\ round <= RoundTime
      /\ RoundTime \in Nat
  BY ServerTypes, ServerTypesKept, MarginTypes
  DEF Inv, TypeInv, TypeOK, WorldTypeOK, MarginInv, RoundsAreShort
<1>2. i \notin to_delete'
  BY NextIsRoundStep DEF RoundInv, DecisionStep, Fresh
<1>3. server'[i].age <= (IF pc' \in Gathering THEN RoundTime + round' ELSE round')
  <2>1. CASE Tick
    <3>1. /\ server'[i].age <= server[i].age + 1 /\ round' = round + 1 /\ pc' = pc
      BY <2>1, TickAdvances, RoundsKept DEF Tick, MarginInv, SupplyInv
    <3> QED
      BY <1>1, <3>1 DEF Fresh
  <2>2. CASE BeginRound
    BY <1>1, <2>2, FreshServerKept DEF BeginRound, Tick, Fresh, Gathering
  <2>3. CASE ~Tick /\ ~BeginRound
    <3>1. server'[i].age = server[i].age
      BY <2>3, FreshServerKept
    <3>2. (pc' \in Gathering <=> pc \in Gathering) /\ round' = round
      <4>1. pc' \in Gathering <=> pc \in Gathering
        BY <2>3, SteadyStep
        DEF SupplyInv, ReadInstances, ReadDepth, ReadSpent, ReadWaiting, EndRound, DeleteInstance,
            Claim, Publish, CreateInstance, process, Gathering
      <4>2. round' = round
        <5>1. CASE Round \/ Breakdown
          BY <2>3, <5>1, SteadyStep
          DEF SupplyInv, Round, ReadInstances, ReadDepth, ReadSpent, ReadWaiting, Decide,
              DeleteInstance, Claim, Publish, CreateInstance, EndRound, Restart, Breakdown,
              SkipRound, VolumesFlagUnreadable, Crash, Forget, Steady, Fault
        <5>2. CASE Girder
          BY <5>2 DEF Girder, FlipArmed, Submit, ReapSubmission, CancelSubmission,
                      RemoveSubmission
        <5>3. ASSUME NEW k \in Instances, Worker(k)
              PROVE  round' = round
          BY <5>3 DEF Worker, Boot, Announce, TakeShared, TakePrivate, Prepare, Finish, PowerOff,
                      DieMidRun, Wedge, NovaDeletes
        <5>4. CASE UNCHANGED vars
          BY <5>4 DEF vars, world
        <5> QED
          BY <2>3, <5>1, <5>2, <5>3, <5>4 DEF Next, Environment
      <4> QED
        BY <4>1, <4>2
    <3> QED
      BY <3>1, <3>2 DEF Fresh
  <2> QED
    BY <2>1, <2>2, <2>3
<1>4. pc' \in Gathering \ {"instances"} =>
        /\ i \in DOMAIN snap'.instances
        /\ snap'.instances[i].status \in {"BUILD", "ACTIVE"}
  <2>1. CASE ReadInstances
    <3>1. snap'.instances =
            [k \in Listed |-> [status |-> server[k].status, size |-> server[k].size]]
      BY <2>1, SnapshotDomains DEF ReadInstances
    <3>2. i \in Listed
      BY DEF Listed, Fresh
    <3> QED
      BY <3>1, <3>2 DEF Fresh
  <2>2. CASE ~ReadInstances /\ pc' \in Gathering \ {"instances"}
    <3>1. pc \in Gathering \ {"instances"} /\ snap'.instances = snap.instances
      BY <2>2, SteadyStep, SnapshotDomains
      DEF SupplyInv, BeginRound, ReadDepth, ReadSpent, ReadWaiting, EndRound, DeleteInstance,
          Claim, Publish, CreateInstance, Tick, process, Gathering
    <3> QED
      BY <3>1 DEF Fresh
  <2> QED
    BY <2>1, <2>2
<1> QED
  BY <1>2, <1>3, <1>4, FreshServerKept DEF Fresh

-----------------------------------------------------------------------------
\* What decide() is shown while the flag is up: everything that waits is ours to place and
\* stalled, and what is counted as capacity is there and is nobody's.
LEMMA WaitingIsAll ==
  ASSUME Inv, RoundInv, ArmedInv, SupplyInv, pc = "decide"
  PROVE  /\ Limits.assign /\ FleetState.ready = ready
         /\ Placeable(FleetState) = DOMAIN snap.waiting
         /\ Stalled(FleetState, Limits) = DOMAIN snap.waiting
         /\ FleetState.queue_depth = 0
<1>1. Limits.assign /\ FleetState.ready = ready /\ FleetState.queue_depth = 0
  BY DEF SupplyInv, Limits, FleetState
<1>2. FleetState.waiting = snap.waiting
  BY DEF FleetState
<1>3. \A w \in DOMAIN snap.waiting : snap.waiting[w].assignable
  BY SnapshotDomains DEF RoundInv, ScanHolds, ArmedInv
<1> QED
  BY <1>1, <1>2, <1>3 DEF Placeable, Stalled

LEMMA CapacityIsThere ==
  ASSUME Inv, RoundInv, SpentIsSeen, pc = "decide"
  PROVE  Available(FleetState, Limits) \subseteq Free
<1> SUFFICES ASSUME NEW i \in Available(FleetState, Limits) PROVE i \in Free
  OBVIOUS
<1>1. i \in Live(FleetState) \ snap.spent /\ i \in DOMAIN snap.instances
  BY DEF Available, Live, FleetState
<1>2. i \in Existing
  BY <1>1, SnapshotDomains DEF RoundInv, ListingHolds, Existing
<1>3. \A s \in Submissions : job[s].queue # i
  BY <1>1, CapacityIsFree
<1>4. to_assign = {}
  BY DEF RoundInv, Stages
<1> QED
  BY <1>2, <1>3, <1>4 DEF Free, Taken

LEMMA FreshIsCapacity ==
  ASSUME TwoRounds, Margins, Inv, RoundInv, MarginInv, SupplyInv, pc = "decide",
         NEW i \in Free, Fresh(i)
  PROVE  /\ i \in Available(FleetState, Limits)
         /\ i \in ready => i \in Assignable(FleetState, Limits)
<1>1. i \in Instances /\ i \notin Taken
  BY DEF Free, Existing
<1>2. /\ i \in DOMAIN snap.instances /\ snap.instances[i].status \in {"BUILD", "ACTIVE"}
      /\ i \notin ready => server[i].age = 0
  BY DEF Fresh, Gathering
<1>3. /\ i \in DOMAIN FleetState.instances
      /\ FleetState.instances[i].status = snap.instances[i].status
      /\ FleetState.instances[i].age = server[i].age
      /\ FleetState.spent = snap.spent /\ FleetState.ready = ready
  BY <1>2 DEF FleetState, SupplyInv
<1>4. i \in Live(FleetState)
  BY <1>2, <1>3 DEF Live
<1>5. i \notin FleetState.spent
  BY <1>1, <1>3 DEF Taken, SupplyInv, SpentWereClaimed
<1>6. server[i].age \in Nat /\ server[i].age <= AssignMaxAge
  BY <1>1, FreshIsYoung
<1>7. i \notin FailedToProvision(FleetState, Limits)
  <2>1. Limits.provision_deadline = ProvisionDeadline
    BY DEF Limits
  <2> QED
    BY <1>2, <1>3, <1>6, <2>1, MarginTypes DEF FailedToProvision, PastAge
<1>8. i \notin AgedOut(FleetState, Limits)
  <2>1. Limits.assign_max_age = AssignMaxAge
    BY DEF Limits
  <2> QED
    BY <1>3, <1>6, <2>1, MarginTypes DEF AgedOut, PastAge
<1>9. i \notin Delete(FleetState, Limits)
  BY <1>1, FreshIsNotDeleted
<1>10. Limits.assign
  BY DEF Limits, SupplyInv
<1> QED
  BY <1>3, <1>4, <1>5, <1>7, <1>8, <1>9, <1>10 DEF Available, Assignable, Unassigned

LEMMA FleetIsOneBucket ==
  ASSUME OneSize, Inv, RoundInv
  PROVE  OneBucket(FleetState, Limits, SmallestRung(Limits))
<1>1. /\ Rungs(Limits) = DOMAIN Sizes /\ FleetState.waiting = snap.waiting
      /\ DOMAIN FleetState.instances = DOMAIN snap.instances
  BY DEF Rungs, Limits, FleetState
<1>2. \A r \in Rungs(Limits) : r = SmallestRung(Limits)
  <2> SUFFICES ASSUME NEW r \in Rungs(Limits) PROVE r = SmallestRung(Limits)
    OBVIOUS
  <2>1. Min(Rungs(Limits)) \in Rungs(Limits)
    BY <1>1, LimitsAssumption, MinOfNaturals
  <2> QED
    BY <1>1, <2>1 DEF SmallestRung, OneSize
<1>3. ASSUME NEW w \in DOMAIN snap.waiting
      PROVE  SubmissionRung(FleetState, Limits, w) = SmallestRung(Limits)
  <2>1. w \in Submissions /\ FleetState.waiting[w].memory_gb = Memory[w]
    BY <1>1, SnapshotDomains DEF RoundInv, ScanHolds
  <2> QED
    BY <1>1, <1>2, <2>1 DEF SubmissionRung, OneSize
<1>4. ASSUME NEW i \in DOMAIN snap.instances
      PROVE  InstanceRung(FleetState, Limits, i) = SmallestRung(Limits)
  BY <1>2 DEF InstanceRung
<1> QED
  BY <1>1, <1>3, <1>4 DEF OneBucket

\* The decision: it places all that wait, and then creates nothing, or it gives away all that
\* is registered, and creates no more than is missing.
LEMMA DecidesEnough ==
  ASSUME OneSize, Inv, RoundInv, ArmedInv, SupplyInv, pc = "decide"
  PROVE  LET W == DOMAIN snap.waiting
             A == Assign(FleetState, Limits)
             m == Len(Create(FleetState, Limits))
         IN  /\ m \in Nat
             /\ m = 0 \/ m + Cardinality(Available(FleetState, Limits)) <= Cardinality(W)
             /\ \/ \A w \in W : \E p \in A : p[1] = w
                \/ \A i \in Assignable(FleetState, Limits) : \E p \in A : p[2] = i
<1> DEFINE m == Len(Create(FleetState, Limits))
           a == Cardinality(Available(FleetState, Limits))
<1>1. /\ Countable(FleetState, Limits)
      /\ Orderable(FleetState, DOMAIN FleetState.waiting)
      /\ Rankable(FleetState, DOMAIN FleetState.instances)
      /\ OneBucket(FleetState, Limits, SmallestRung(Limits))
  BY FleetIsOrdered, FleetIsOneBucket
<1>2. Wanted(FleetState, Limits) \in Seq(Creates)
  BY <1>1, WantsAreCreates, WantedIsAList DEF Inv, TypeInv
<1>3. Len(Wanted(FleetState, Limits)) \in Nat
  BY <1>2
<1>4. /\ CreateCount(FleetState, Limits) \in Nat
      /\ \/ CreateCount(FleetState, Limits) = 0
         \/ CreateCount(FleetState, Limits) + a <= Cardinality(DOMAIN snap.waiting)
  BY <1>1, <1>3, WaitingIsAll, ShortfallOfOneBucket
<1>5. m \in Nat /\ (m = 0 \/ m = CreateCount(FleetState, Limits))
  <2>1. Create(FleetState, Limits) \in Seq(Creates)
    BY DecisionIsTyped DEF Inv, TypeInv
  <2>2. CASE BreakerOpen(FleetState, Limits)
    BY <2>2 DEF Create
  <2>3. CASE ~BreakerOpen(FleetState, Limits)
    <3>1. DOMAIN Create(FleetState, Limits) = 1..CreateCount(FleetState, Limits)
      BY <2>3 DEF Create
    <3>2. DOMAIN Create(FleetState, Limits) = 1..m /\ m \in Nat
      BY <2>1
    <3> HIDE DEF m
    <3> QED
      BY <1>4, <3>1, <3>2
  <2> QED
    BY <2>2, <2>3
<1>6. \/ \A w \in DOMAIN snap.waiting : \E p \in Assign(FleetState, Limits) : p[1] = w
      \/ \A i \in Assignable(FleetState, Limits) : \E p \in Assign(FleetState, Limits) : p[2] = i
  <2>1. Placeable(FleetState) = DOMAIN snap.waiting
    BY WaitingIsAll
  <2>2. \/ \A w \in Placeable(FleetState) : \E p \in Assign(FleetState, Limits) : p[1] = w
        \/ \A i \in Assignable(FleetState, Limits) : \E p \in Assign(FleetState, Limits) : p[2] = i
    BY <1>1, AllServedOrAllTaken, Zenon
  <2> QED
    BY <2>1, <2>2
<1> HIDE DEF m, a
<1>7. m = 0 \/ m + a <= Cardinality(DOMAIN snap.waiting)
  BY <1>4, <1>5
<1> QED
  BY <1>5, <1>6, <1>7 DEF m, a

-----------------------------------------------------------------------------
\* Of Z, those that ended and are no longer in the list of what waits.
Ended(Z) == {s \in Z : job[s].status = "done" /\ s \notin DOMAIN snap.waiting}

\* Every instance nobody was given, and every create that is left, is charged to a submission
\* of Z, which has no other; one that was passed over, in O, to a submission that has ended.
ChargedTo(Z, O) ==
  /\ Z \subseteq Submitted /\ Z \cap Settled = {} /\ O \subseteq Free
  /\ Cardinality(Free) + Len(to_create) <= Cardinality(Z)
  /\ Cardinality(O) <= Cardinality(Ended(Z))
  /\ \A i \in Free \ O : Fresh(i)
  /\ pc = "decide" => \A s \in Z : s \in DOMAIN snap.waiting \/ job[s].status = "done"

Charge == \E Z \in SUBSET Submissions, O \in SUBSET Instances : ChargedTo(Z, O)

LEMMA FreeIsFinite ==
  /\ IsFiniteSet(Submissions) /\ IsFiniteSet(Instances)
  /\ Free \subseteq Instances /\ IsFiniteSet(Free) /\ Cardinality(Free) \in Nat
  /\ Settled \subseteq Submissions /\ Taken \subseteq Instances
<1>1. IsFiniteSet(Submissions) /\ IsFiniteSet(Instances) /\ Free \subseteq Instances
  BY IdsAssumption DEF Free, Existing
<1>2. IsFiniteSet(Free)
  BY <1>1, FS_Subset
<1> QED
  BY <1>1, <1>2, FS_CardinalityType DEF Settled, Taken

LEMMA FiniteParts ==
  ASSUME NEW S, IsFiniteSet(S), NEW A \in SUBSET S, NEW B \in SUBSET S
  PROVE  /\ IsFiniteSet(A) /\ Cardinality(A) \in Nat
         /\ IsFiniteSet(A \ B) /\ Cardinality(A \ B) \in Nat
         /\ Cardinality(A \ B) <= Cardinality(A)
         /\ B \subseteq A => Cardinality(A \ B) = Cardinality(A) - Cardinality(B)
         /\ A \subseteq B => Cardinality(A) <= Cardinality(B)
         /\ IsFiniteSet(A \cup B) /\ Cardinality(A \cup B) \in Nat
         /\ Cardinality(A \cup B) <= Cardinality(A) + Cardinality(B)
         /\ A \cap B = {} => Cardinality(A \cup B) = Cardinality(A) + Cardinality(B)
<1>1. IsFiniteSet(A) /\ IsFiniteSet(B) /\ IsFiniteSet(A \ B) /\ IsFiniteSet(A \cap B)
  BY FS_Subset
<1>2. /\ Cardinality(A) \in Nat /\ Cardinality(B) \in Nat /\ Cardinality(A \ B) \in Nat
      /\ Cardinality(A \cap B) \in Nat
  BY <1>1, FS_CardinalityType
<1>3. Cardinality(A \ B) = Cardinality(A) - Cardinality(A \cap B)
  BY <1>1, FS_Difference
<1>4. /\ IsFiniteSet(A \cup B)
      /\ Cardinality(A \cup B) = Cardinality(A) + Cardinality(B) - Cardinality(A \cap B)
  BY <1>1, FS_Union
<1>5. A \subseteq B => Cardinality(A) <= Cardinality(B)
  BY <1>1, FS_Subset
<1>6. B \subseteq A => A \cap B = B
  OBVIOUS
<1>7. A \cap B = {} => Cardinality(A \cap B) = 0
  BY FS_EmptySet
<1>8. Cardinality(A \cup B) \in Nat
  BY <1>4, FS_CardinalityType
<1>9. Cardinality(A \ B) <= Cardinality(A)
  BY <1>2, <1>3
<1>10. B \subseteq A => Cardinality(A \ B) = Cardinality(A) - Cardinality(B)
  BY <1>3, <1>6
<1>11. Cardinality(A \cup B) <= Cardinality(A) + Cardinality(B)
  BY <1>2, <1>4
<1>12. A \cap B = {} => Cardinality(A \cup B) = Cardinality(A) + Cardinality(B)
  BY <1>2, <1>4, <1>7
<1> QED
  BY <1>1, <1>2, <1>4, <1>5, <1>8, <1>9, <1>10, <1>11, <1>12

\* Two parts of a set that share nothing are together no more than the set.
LEMMA PartsAddUp ==
  ASSUME NEW U, IsFiniteSet(U), NEW A \in SUBSET U, NEW B \in SUBSET U, A \cap B = {}
  PROVE  /\ Cardinality(A) + Cardinality(B) <= Cardinality(U)
         /\ Cardinality(A) \in Nat /\ Cardinality(B) \in Nat /\ Cardinality(U) \in Nat
<1>1. Cardinality(A \cup B) = Cardinality(A) + Cardinality(B)
  <2>1. IsFiniteSet(A) /\ IsFiniteSet(B)
    BY FS_Subset
  <2>2. Cardinality(A \cup B) = Cardinality(A) + Cardinality(B) - Cardinality({})
    BY <2>1, FS_Union
  <2> QED
    BY <2>1, <2>2, FS_EmptySet, FS_CardinalityType
<1>2. A \cup B \in SUBSET U
  OBVIOUS
<1>3. Cardinality(A \cup B) <= Cardinality(U)
  BY <1>2, FS_Subset
<1>4. /\ Cardinality(A) \in Nat /\ Cardinality(B) \in Nat
  BY FiniteParts
<1> QED
  BY <1>1, <1>3, <1>4, FS_CardinalityType

\* A submission that has ended stays so, and is not found waiting again.
LEMMA DoneStays ==
  ASSUME Steady, ClaimsAreFound, Inv, RoundInv, NoneRemoved, [Next]_vars,
         NEW s \in Submissions, job[s].status = "done"
  PROVE  /\ job'[s].status = "done"
         /\ s \notin DOMAIN snap.waiting => s \notin DOMAIN snap'.waiting
<1>1. job'[s].status = "done"
  <2>1. ~Running(s)' /\ job'[s].status # "absent"
    BY JobsPersist DEF Persists, Running
  <2>2. job'[s].status # "removed"
    BY NoneRemovedKept DEF NoneRemoved
  <2>3. job'[s] \in JobRecords
    BY NextKeepsInv DEF Inv, TypeInv, TypeOK, WorldTypeOK
  <2> QED
    BY <2>1, <2>2, <2>3 DEF JobRecords, Running
<1>2. s \notin DOMAIN snap.waiting => s \notin DOMAIN snap'.waiting
  <2>1. ReadWaiting => s \notin DOMAIN snap'.waiting
    BY ScanFindsAll DEF Waiting, Running
  <2> QED
    BY <2>1, NextIsRoundStep, ReadingsKept DEF RoundInv
<1> QED
  BY <1>1, <1>2

\* What the charge says of the submissions is kept whatever happens to them.
LEMMA ChargedKept ==
  ASSUME Steady, ClaimsAreFound, Inv, RoundInv, NoneRemoved, SupplyInv, [Next]_vars,
         NEW Z \in SUBSET Submissions, Z \subseteq Submitted, Z \cap Settled = {},
         pc = "decide" => \A s \in Z : s \in DOMAIN snap.waiting \/ job[s].status = "done"
  PROVE  /\ Z \subseteq Submitted'
         /\ Ended(Z) \subseteq Ended(Z)'
         /\ pc' = "decide" =>
              \A s \in Z : s \in DOMAIN snap'.waiting \/ job'[s].status = "done"
<1>1. Z \subseteq Submitted'
  BY JobsPersist DEF Persists, Submitted
<1>2. Ended(Z) \subseteq Ended(Z)'
  BY DoneStays DEF Ended
<1>3. ASSUME pc' = "decide", NEW s \in Z
      PROVE  s \in DOMAIN snap'.waiting \/ job'[s].status = "done"
  <2>1. CASE ReadWaiting
    <3>1. DOMAIN snap'.waiting = Waiting /\ job' = job
      BY <2>1, ScanFindsAll
    <3>2. job[s].queue = None /\ job[s].status \notin {"absent", "removed"}
      BY DEF Settled, Submitted, NoneRemoved
    <3>3. job[s].status \in {"RUNNING", "done"}
      BY <3>2, JobTypes DEF JobRecords
    <3> QED
      BY <3>1, <3>2, <3>3 DEF Waiting, Running
  <2>2. CASE pc = "decide" /\ snap' = snap
    BY <2>2, DoneStays
  <2>3. \/ ReadWaiting
        \/ pc = "decide" /\ snap' = snap
    BY <1>3, SteadyStep
    DEF SupplyInv, BeginRound, ReadInstances, ReadDepth, ReadSpent, Decide,
        EndRound, DeleteInstance, Claim, Publish, CreateInstance, Tick, process
  <2> QED
    BY <2>1, <2>2, <2>3
<1> QED
  BY <1>1, <1>2, <1>3

\* A create makes an instance nobody was given, and is one less of those that are left.
LEMMA CreateMakesOne ==
  ASSUME Inv, RoundInv, SupplyInv, CreateInstance, Taken' = Taken
  PROVE  /\ Len(to_create) \in Nat /\ Len(to_create') \in Nat
         /\ \/ Free' = Free /\ Len(to_create') <= Len(to_create)
            \/ \E m \in Instances : /\ m \notin Free /\ Free' = Free \cup {m} /\ Fresh(m)'
                                    /\ Len(to_create') + 1 <= Len(to_create)
<1>1. /\ to_create \in Seq(Creates) /\ to_create # << >>
      /\ to_create' = Tail(to_create) \/ to_create' = << >>
  BY DEF CreateInstance, Inv, TypeInv, TypeOK
<1>2. /\ Len(to_create) \in Nat /\ Len(to_create') \in Nat
      /\ Len(to_create') + 1 <= Len(to_create)
  <2>1. Len(to_create) \in Nat /\ Len(to_create) # 0
    BY <1>1
  <2>2. to_create' = Tail(to_create) => Len(to_create') = Len(to_create) - 1
    BY <1>1
  <2>3. to_create' = << >> => Len(to_create') = 0
    OBVIOUS
  <2> QED
    BY <1>1, <2>1, <2>2, <2>3
<1>3. CASE server' = server
  <2>1. Free' = Free
    BY <1>3 DEF Free, Existing
  <2> QED
    BY <1>2, <2>1
<1>4. CASE Boots(Head(to_create).rung)
  <2> DEFINE m == Min(Unused)
  <2>1. /\ m \in Instances /\ server[m].status = "absent"
        /\ \A i \in Instances \ {m} : server'[i] = server[i]
        /\ server'[m].status = "BUILD" /\ server'[m].age = 0
    BY <1>1, <1>4, HeadOfCreates, BootsElsewhere
  <2>2. PICK k \in Instances : k = m
    BY <2>1
  <2>3. k \notin Existing /\ Existing' = Existing \cup {k}
    BY <2>1, <2>2 DEF Existing
  <2>4. k \notin Taken
    <3>1. to_assign = {}
      BY DEF CreateInstance
    <3> QED
      BY <2>3, <3>1 DEF Taken, SupplyInv, PlacedExist
  <2>5. k \notin Free /\ Free' = Free \cup {k}
    BY <2>3, <2>4 DEF Free
  <2>6. Fresh(k)'
    <3>1. /\ pc' = "act" /\ deleting' = deleting /\ to_delete' = {} /\ round' = round
          /\ round \in Nat
      BY DEF CreateInstance, Inv, TypeInv, TypeOK, WorldTypeOK
    <3>2. k \notin deleting
      BY <2>3 DEF RoundInv, KnownServers, Existing
    <3> QED
      BY <2>1, <2>2, <3>1, <3>2 DEF Fresh, Gathering
  <2> QED
    BY <1>2, <2>5, <2>6
<1> QED
  BY <1>3, <1>4 DEF CreateInstance

LEMMA ChargeKept ==
  ASSUME Steady, ClaimsAreFound, TwoRounds, Margins, Inv, RoundInv, ArmedInv, NoneRemoved,
         MarginInv, SupplyInv, [Next]_vars, ~Decide, Charge
  PROVE  Charge'
<1>1. PICK Z \in SUBSET Submissions, O \in SUBSET Instances : ChargedTo(Z, O)
  BY DEF Charge
<1>2. /\ Z \subseteq Submitted' /\ Ended(Z) \subseteq Ended(Z)'
      /\ pc' = "decide" =>
           \A s \in Z : s \in DOMAIN snap'.waiting \/ job'[s].status = "done"
  BY <1>1, ChargedKept DEF ChargedTo
<1>3. Settled' = Settled /\ Taken' = Taken
  BY SettledKept
<1>4. ASSUME NEW i \in Free \ O
      PROVE  Fresh(i)'
  BY <1>1, <1>4, FreeIsFinite, FreshKept DEF ChargedTo
<1>5. Cardinality(O) <= Cardinality(Ended(Z)')
  <2>1. Ended(Z) \in SUBSET Submissions /\ Ended(Z)' \in SUBSET Submissions
    BY DEF Ended
  <2>2. /\ Cardinality(Ended(Z)) \in Nat /\ Cardinality(Ended(Z)') \in Nat
        /\ Cardinality(Ended(Z)) <= Cardinality(Ended(Z)')
    BY <1>2, <2>1, FreeIsFinite, FiniteParts
  <2>3. Cardinality(O) \in Nat
    BY FreeIsFinite, FiniteParts
  <2> QED
    BY <1>1, <2>2, <2>3 DEF ChargedTo
<1>6. /\ O \subseteq Free'
      /\ Cardinality(Free') + Len(to_create') <= Cardinality(Z)
      /\ \A i \in Free' \ O : Fresh(i)'
  <2>1. /\ Cardinality(Free) \in Nat /\ Cardinality(Z) \in Nat /\ IsFiniteSet(Free)
        /\ O \subseteq Free /\ Cardinality(Free) + Len(to_create) <= Cardinality(Z)
    BY <1>1, FreeIsFinite, FiniteParts DEF ChargedTo
  <2>2. CASE CreateInstance
    <3>1. CASE Free' = Free /\ Len(to_create') <= Len(to_create)
      BY <1>3, <1>4, <2>1, <2>2, <3>1, CreateMakesOne
    <3>2. CASE \E m \in Instances : /\ m \notin Free /\ Free' = Free \cup {m} /\ Fresh(m)'
                                    /\ Len(to_create') + 1 <= Len(to_create)
      <4>1. PICK m \in Instances : /\ m \notin Free /\ Free' = Free \cup {m} /\ Fresh(m)'
                                   /\ Len(to_create') + 1 <= Len(to_create)
        BY <3>2
      <4>2. Cardinality(Free') = Cardinality(Free) + 1
        BY <2>1, <4>1, FS_AddElement
      <4>3. Len(to_create) \in Nat /\ Len(to_create') \in Nat
        BY <1>3, <2>2, CreateMakesOne
      <4> QED
        BY <1>4, <2>1, <4>1, <4>2, <4>3
    <3> QED
      BY <1>3, <2>2, <3>1, <3>2, CreateMakesOne
  <2>3. CASE ~CreateInstance
    <3>1. Free' = Free
      BY <1>3, <2>3, ExistingKept DEF Free
    <3>2. to_create' = to_create
      BY <2>3, SteadyStep
      DEF SupplyInv, BeginRound, ReadInstances, ReadDepth, ReadSpent, ReadWaiting, EndRound,
          DeleteInstance, Claim, Publish, Tick, process, decision
    <3> QED
      BY <1>4, <2>1, <3>1, <3>2
  <2> QED
    BY <2>2, <2>3
<1>7. Z \cap Settled' = {}
  BY <1>1, <1>3 DEF ChargedTo
<1> QED
  BY <1>2, <1>5, <1>6, <1>7 DEF Charge, ChargedTo

-----------------------------------------------------------------------------
\* A matching of the submissions of one set with the instances of the other.
Matching(P, from, to) ==
  /\ P \subseteq Submissions \X Instances /\ \A p, q \in P : p[1] = q[1] <=> p[2] = q[2]
  /\ from \subseteq Submissions /\ \A s \in from : \E p \in P : p[1] = s
  /\ to \subseteq Instances /\ \A i \in to : \E p \in P : p[2] = i
  /\ \A p \in P : p[1] \in from /\ p[2] \in to

\* There are as many of the ones as of the others.
LEMMA PairsMatchUp ==
  ASSUME NEW P, NEW from, NEW to, Matching(P, from, to)
  PROVE  IsFiniteSet(to) /\ Cardinality(to) = Cardinality(from)
<1> DEFINE partner(s) == CHOOSE i \in to : <<s, i>> \in P
           f == [s \in from |-> partner(s)]
<1>1. IsFiniteSet(from)
  BY IdsAssumption, FS_Subset DEF Matching
<1>2. ASSUME NEW s \in from
      PROVE  partner(s) \in to /\ <<s, partner(s)>> \in P
  <2>1. PICK p \in P : p[1] = s
    BY <1>2 DEF Matching
  <2>2. p = <<s, p[2]>> /\ p[2] \in to
    BY <2>1 DEF Matching
  <2>3. \E i \in to : <<s, i>> \in P
    BY <2>2
  <2> QED
    BY <2>3
<1> HIDE DEF partner
<1>3. f \in [from -> to]
  BY <1>2
<1>4. ASSUME NEW s \in from, NEW t \in from, f[s] = f[t]
      PROVE  s = t
  <2>1. <<s, partner(s)>> \in P /\ <<t, partner(t)>> \in P /\ partner(s) = partner(t)
    BY <1>2, <1>4
  <2> QED
    BY <2>1 DEF Matching
<1>5. ASSUME NEW i \in to
      PROVE  \E s \in from : f[s] = i
  <2>1. PICK p \in P : p[2] = i
    BY <1>5 DEF Matching
  <2>2. p = <<p[1], i>> /\ p[1] \in from
    BY <2>1 DEF Matching
  <2>3. <<p[1], partner(p[1])>> \in P
    BY <1>2, <2>2
  <2>4. partner(p[1]) = i
    BY <2>1, <2>2, <2>3 DEF Matching
  <2> QED
    BY <2>2, <2>4
<1> HIDE DEF f
<1>6. f \in Bijection(from, to)
  BY <1>3, <1>4, <1>5 DEF Bijection, Injection, IsInjective, Surjection
<1>7. ExistsBijection(from, to)
  BY <1>6 DEF ExistsBijection
<1> QED
  BY <1>1, <1>7, FS_Bijection

\* Who is settled, and what is taken, once the pairs are decided.
LEMMA DecisionSettles ==
  ASSUME Inv, RoundInv, ArmedInv, SpentIsSeen, SupplyInv, Decide,
         NEW PS, PS = {s \in Submissions : \E p \in Assign(FleetState, Limits) : p[1] = s},
         NEW PI, PI = {i \in Instances : \E p \in Assign(FleetState, Limits) : p[2] = i}
  PROVE  /\ PS \subseteq DOMAIN snap.waiting /\ DOMAIN snap.waiting \cap Settled = {}
         /\ Settled' = Settled \cup PS /\ Free' = Free \ PI
         /\ PI \subseteq Available(FleetState, Limits)
         /\ PI \subseteq Assignable(FleetState, Limits)
         /\ Cardinality(PI) = Cardinality(PS)
<1> DEFINE A == Assign(FleetState, Limits)
<1>1. /\ pc = "decide" /\ to_assign' = A /\ job' = job /\ server' = server /\ to_assign = {}
  BY DEF Decide, girder, nova, RoundInv, Stages
<1>2. \A p \in A : /\ p[1] \in DOMAIN snap.waiting /\ p[2] \in Assignable(FleetState, Limits)
                   /\ p[1] \in Submissions /\ p[2] \in Instances
  BY DecidedPairs
<1>3. Assignable(FleetState, Limits) \subseteq Available(FleetState, Limits)
  BY DEF Assignable, Unassigned, Available
<1>4. PS \subseteq DOMAIN snap.waiting /\ PI \subseteq Assignable(FleetState, Limits)
  BY <1>2
<1>5. DOMAIN snap.waiting \cap Settled = {}
  BY <1>1 DEF Settled, SupplyInv, ScannedWait
<1>6. Settled' = Settled \cup PS
  BY <1>1 DEF Settled
<1>7. Free' = Free \ PI
  <2>1. Taken' = Taken \cup PI
    BY <1>1 DEF Taken
  <2>2. Existing' = Existing
    BY <1>1 DEF Existing
  <2> QED
    BY <2>1, <2>2 DEF Free
<1>8. Cardinality(PI) = Cardinality(PS)
  <2>1. PICK P : P = A
    OBVIOUS
  <2>2. P \in SUBSET (Submissions \X Instances)
    BY <2>1, DecisionIsTyped DEF Inv, TypeInv
  <2>3. \A p, q \in P : p[1] = q[1] <=> p[2] = q[2]
    BY <2>1, FleetIsOrdered, AssignIsAMatching
  <2>4. /\ PS \in SUBSET Submissions /\ \A s \in PS : \E p \in P : p[1] = s
        /\ PI \in SUBSET Instances /\ \A i \in PI : \E p \in P : p[2] = i
        /\ \A p \in P : p[1] \in PS /\ p[2] \in PI
    BY <2>1, <2>2
  <2>5. Matching(P, PS, PI)
    BY <2>2, <2>3, <2>4 DEF Matching
  <2> QED
    BY <2>5, PairsMatchUp
<1> QED
  BY <1>3, <1>4, <1>5, <1>6, <1>7, <1>8

LEMMA DecisionIsCharged ==
  ASSUME Steady, ClaimsAreFound, TwoRounds, OneSize, Margins, Inv, RoundInv, ArmedInv,
         NoneRemoved, SpentIsSeen, MarginInv, SupplyInv, Decide, Charge
  PROVE  Charge'
<1>1. PICK Z \in SUBSET Submissions, O \in SUBSET Instances : ChargedTo(Z, O)
  BY DEF Charge
<1>2. PICK W : W = DOMAIN snap.waiting
  OBVIOUS
<1>3. PICK PS : PS = {s \in Submissions : \E p \in Assign(FleetState, Limits) : p[1] = s}
  OBVIOUS
<1>4. PICK PI : PI = {i \in Instances : \E p \in Assign(FleetState, Limits) : p[2] = i}
  OBVIOUS
<1>5. PICK V : V = Available(FleetState, Limits)
  OBVIOUS
<1> DEFINE m == Len(to_create')
<1>6. /\ pc = "decide" /\ pc' = "act" /\ job' = job /\ DOMAIN snap'.waiting = {}
      /\ to_create' = Create(FleetState, Limits) /\ to_delete' = Delete(FleetState, Limits)
      /\ UNCHANGED <<server, deleting, ready, round>>
  BY NoSnapshotIsEmpty DEF Decide, girder, nova, broker
<1>7. /\ PS \subseteq W /\ W \cap Settled = {} /\ W \subseteq Submitted /\ W \subseteq Submissions
      /\ Settled' = Settled \cup PS /\ Free' = Free \ PI /\ PI \subseteq V
      /\ Cardinality(PI) = Cardinality(PS)
  <2>1. W \subseteq Submitted /\ W \subseteq Submissions
    BY <1>2, SnapshotDomains DEF RoundInv, ScanHolds, Submitted
  <2> QED
    BY <1>2, <1>3, <1>4, <1>5, <2>1, DecisionSettles
<1>8. V \subseteq Free /\ Free \ O \subseteq V
  BY <1>1, <1>5, <1>6, CapacityIsThere, FreshIsCapacity DEF ChargedTo
<1>9. /\ m \in Nat /\ (m = 0 \/ m + Cardinality(V) <= Cardinality(W))
      /\ \/ W \subseteq PS
         \/ Assignable(FleetState, Limits) \subseteq PI
  <2>1. Assignable(FleetState, Limits) \subseteq Instances
    BY SnapshotDomains DEF Assignable, Unassigned, Live, FleetState
  <2> QED
    BY <1>2, <1>3, <1>4, <1>5, <1>6, <1>7, <2>1, DecidesEnough
<1>10. /\ Z \subseteq Submitted /\ Z \cap Settled = {} /\ O \subseteq Free
       /\ Cardinality(Free) + Len(to_create) <= Cardinality(Z)
       /\ Cardinality(O) <= Cardinality(Ended(Z))
       /\ \A s \in Z : s \in W \/ job[s].status = "done"
  BY <1>1, <1>2, <1>6 DEF ChargedTo
<1>11. Len(to_create) \in Nat
  BY DEF Inv, TypeInv, TypeOK
<1>12. /\ IsFiniteSet(Submissions) /\ IsFiniteSet(Instances) /\ Free \in SUBSET Instances
       /\ Cardinality(Free) \in Nat
  BY FreeIsFinite
<1>13. CASE W \subseteq PS
  <2>1. PICK Y \in SUBSET Submissions : Y = Z \ W
    OBVIOUS
  <2>2. PICK X \in SUBSET Instances : X = Free \ PI
    BY <1>12
  <2>3. W = PS
    BY <1>7, <1>13
  <2>4. m = 0
    <3>1. Cardinality(W) <= Cardinality(V) /\ Cardinality(W) \in Nat /\ Cardinality(V) \in Nat
      <4>1. IsFiniteSet(V) /\ IsFiniteSet(W)
        BY <1>7, <1>8, <1>12, FS_Subset
      <4>2. Cardinality(PI) <= Cardinality(V)
        BY <1>7, <4>1, FS_Subset
      <4> QED
        BY <1>7, <2>3, <4>1, <4>2, FS_CardinalityType
    <3> HIDE DEF m
    <3>2. CASE m # 0
      <4>1. m + Cardinality(V) <= Cardinality(W) /\ m \in Nat
        BY <1>9, <3>2
      <4> QED
        BY <3>1, <4>1
    <3> QED
      BY <3>2
  <2>5. Cardinality(Free') <= Cardinality(Y)
    <3>1. Cardinality(Free \ PI) = Cardinality(Free) - Cardinality(PI)
      <4>1. Free \cap PI = PI /\ IsFiniteSet(Free)
        BY <1>7, <1>8, FreeIsFinite
      <4> QED
        BY <4>1, FS_Difference
    <3>2. /\ Cardinality(Z \ W) >= Cardinality(Z) - Cardinality(W)
          /\ Cardinality(Z) \in Nat /\ Cardinality(W) \in Nat
      <4>1. /\ IsFiniteSet(Z) /\ IsFiniteSet(W) /\ Cardinality(Z) \in Nat /\ Cardinality(W) \in Nat
        BY <1>7, <1>12, FS_Subset, FS_CardinalityType
      <4>2. /\ Cardinality(Z \ W) = Cardinality(Z) - Cardinality(Z \cap W)
        BY <4>1, FS_Difference
      <4>3. /\ Cardinality(Z \cap W) <= Cardinality(W) /\ Cardinality(Z \cap W) \in Nat
        BY <4>1, FS_Subset, FS_CardinalityType
      <4> QED
        BY <4>1, <4>2, <4>3
    <3>3. Cardinality(Free) <= Cardinality(Z)
      BY <1>10, <1>11, <1>12, <3>2
    <3>4. Cardinality(PI) = Cardinality(W)
      BY <1>7, <2>3
    <3>5. Cardinality(Free') = Cardinality(Free) - Cardinality(PI)
      BY <1>7, <3>1
    <3>6. Cardinality(Y) >= Cardinality(Z) - Cardinality(W) /\ Cardinality(Y) \in Nat
      BY <1>12, <2>1, <3>2, FiniteParts
    <3> QED
      BY <1>12, <3>2, <3>3, <3>4, <3>5, <3>6
  <2>6. Ended(Y)' = Y
    BY <1>6, <1>10, <2>1 DEF Ended
  <2>7. /\ Y \subseteq Submitted' /\ Y \cap Settled' = {}
        /\ X \subseteq Free' /\ Free' \ X = {}
    BY <1>6, <1>7, <1>10, <2>1, <2>2, <2>3 DEF Submitted
  <2>8. Cardinality(Free') + m <= Cardinality(Y) /\ Cardinality(X) <= Cardinality(Y)
    <3>1. Cardinality(Free') \in Nat
      BY <1>7, <1>12, FreeIsFinite, FiniteParts
    <3> QED
      BY <1>7, <2>2, <2>4, <2>5, <3>1
  <2> QED
    BY <1>6, <2>6, <2>7, <2>8 DEF Charge, ChargedTo
<1>14. CASE Assignable(FleetState, Limits) \subseteq PI
  <2>1. PICK Y \in SUBSET Submissions : Y = (Z \cup W) \ PS
    BY <1>7
  <2>2. PICK X \in SUBSET Instances : X = O \ PI
    OBVIOUS
  <2>3. PICK E \in SUBSET Submissions : E = Ended(Z)
    BY DEF Ended
  <2>4. E \cap W = {} /\ E \subseteq Z /\ E \subseteq Ended(Y)'
    BY <1>2, <1>6, <1>7, <2>1, <2>3 DEF Ended
  <2>5. Y \subseteq Submitted' /\ Y \cap Settled' = {} /\ X \subseteq Free'
    BY <1>6, <1>7, <1>10, <2>1, <2>2 DEF Submitted
  <2>6. Cardinality(X) <= Cardinality(Ended(Y)')
    <3>1. /\ Cardinality(X) <= Cardinality(O) /\ Cardinality(X) \in Nat /\ Cardinality(O) \in Nat
      BY <1>12, <2>2, FiniteParts
    <3>2. /\ Cardinality(E) <= Cardinality(Ended(Y)')
          /\ Cardinality(E) \in Nat /\ Cardinality(Ended(Y)') \in Nat
      <4>1. Ended(Y)' \in SUBSET Submissions
        BY DEF Ended
      <4> QED
        BY <1>12, <2>4, <4>1, FiniteParts
    <3> QED
      BY <1>10, <2>3, <3>1, <3>2
  <2>7. Cardinality(Free') + m <= Cardinality(Y)
    <3>1. Cardinality(Free \ PI) = Cardinality(Free) - Cardinality(PI)
      <4>1. Free \cap PI = PI /\ IsFiniteSet(Free)
        BY <1>7, <1>8, FreeIsFinite
      <4> QED
        BY <4>1, FS_Difference
    <3> DEFINE U == Z \cup W
    <3>2. /\ U \in SUBSET Submissions
          /\ Cardinality(Y) = Cardinality(U) - Cardinality(PS)
          /\ Cardinality(Z) <= Cardinality(U) /\ Cardinality(Z) \in Nat
          /\ Cardinality(U) \in Nat /\ Cardinality(PS) \in Nat
      <4>1. /\ U \in SUBSET Submissions /\ PS \in SUBSET Submissions
            /\ PS \subseteq U /\ Z \subseteq U /\ Y = U \ PS
        BY <1>7, <2>1
      <4> HIDE DEF U
      <4>2. Cardinality(U \ PS) = Cardinality(U) - Cardinality(PS)
        <5>1. IsFiniteSet(U) /\ U \cap PS = PS
          BY <1>12, <4>1, FS_Subset
        <5> QED
          BY <5>1, FS_Difference
      <4>3. Cardinality(U) \in Nat /\ Cardinality(PS) \in Nat
        BY <1>12, <4>1, FiniteParts
      <4>4. Cardinality(Z) <= Cardinality(U) /\ Cardinality(Z) \in Nat
        BY <1>12, <4>1, FiniteParts
      <4> QED
        BY <4>1, <4>2, <4>3, <4>4
    <3>3. Cardinality(Free) + m <= Cardinality(U)
      <4>1. CASE m = 0
        BY <1>10, <1>11, <1>12, <3>2, <4>1
      <4>2. CASE m # 0
        <5>1. m \in Nat /\ m + Cardinality(V) <= Cardinality(W)
          BY <1>9, <4>2
        <5>2. /\ Cardinality(Free) <= Cardinality(V) + Cardinality(O)
              /\ Cardinality(V) \in Nat /\ Cardinality(O) \in Nat
          <6>1. /\ V \in SUBSET Instances /\ V \cup O \in SUBSET Instances
                /\ Free \subseteq V \cup O
            BY <1>8, <1>12
          <6>2. /\ Cardinality(Free) <= Cardinality(V \cup O)
                /\ Cardinality(V \cup O) <= Cardinality(V) + Cardinality(O)
                /\ Cardinality(V \cup O) \in Nat
                /\ Cardinality(V) \in Nat /\ Cardinality(O) \in Nat
            BY <1>12, <6>1, FiniteParts
          <6> QED
            BY <1>12, <6>2
        <5>3. /\ Cardinality(E) + Cardinality(W) <= Cardinality(U)
              /\ Cardinality(E) \in Nat /\ Cardinality(W) \in Nat
          <6>1. E \subseteq U /\ W \subseteq U /\ E \cap W = {} /\ IsFiniteSet(U)
            BY <1>12, <2>4, <3>2, FS_Subset
          <6> QED
            BY <6>1, PartsAddUp
        <5>4. Cardinality(O) <= Cardinality(E)
          BY <1>10, <2>3
        <5> HIDE DEF m
        <5> QED
          BY <1>12, <3>2, <5>1, <5>2, <5>3, <5>4
      <4> QED
        BY <4>1, <4>2
    <3> HIDE DEF m, U
    <3> QED
      BY <1>7, <1>9, <1>12, <3>1, <3>2, <3>3
  <2>8. ASSUME NEW i \in Free' \ X
        PROVE  Fresh(i)'
    <3>1. i \in Free \ O /\ i \notin PI /\ i \in Instances
      BY <1>7, <1>12, <2>2
    <3>2. Fresh(i)
      BY <1>1, <3>1 DEF ChargedTo
    <3>3. i \notin ready
      BY <1>6, <1>14, <3>1, <3>2, FreshIsCapacity
    <3>4. i \notin Delete(FleetState, Limits)
      BY <1>6, <3>1, <3>2, FreshIsNotDeleted
    <3>5. round \in Nat
      BY DEF Inv, TypeInv, TypeOK, WorldTypeOK
    <3> QED
      BY <1>6, <3>2, <3>3, <3>4, <3>5 DEF Fresh, Gathering
  <2> QED
    BY <1>6, <2>5, <2>6, <2>7, <2>8 DEF Charge, ChargedTo
<1> QED
  BY <1>9, <1>13, <1>14

LEMMA InitCharge == Init => Charge
<1> SUFFICES ASSUME Init
             PROVE  ChargedTo({}, {})
  BY DEF Charge
<1>1. Free = {} /\ to_create = << >> /\ pc # "decide"
  BY DEF Init, WorldInit, ControllerInit, Free, Existing
<1> QED
  BY <1>1, FS_EmptySet DEF ChargedTo, Ended

\* No instance is taken for two submissions, so no more are taken than are settled.
LEMMA TakenBySettled ==
  ASSUME Inv, PairsWait
  PROVE  /\ Cardinality(Taken) <= Cardinality(Settled)
         /\ Cardinality(Taken) \in Nat /\ Cardinality(Settled) \in Nat
<1> DEFINE own(s) == IF job[s].queue # None THEN job[s].queue
                     ELSE CHOOSE i \in Instances : <<s, i>> \in to_assign
           chosen == {s \in Settled : own(s) \in Taken}
           f == [s \in chosen |-> own(s)]
<1>1. ASSUME NEW i \in Taken
      PROVE  \E s \in chosen : own(s) = i
  <2>1. CASE \E s \in Submissions : job[s].queue = i
    <3>1. PICK s \in Submissions : job[s].queue = i
      BY <2>1
    <3>2. i # None
      BY <1>1, QueueIsNotNone DEF Taken
    <3> QED
      BY <1>1, <3>1, <3>2 DEF Settled
  <2>2. CASE \E p \in to_assign : p[2] = i
    <3>1. PICK p \in to_assign : p[2] = i
      BY <2>2
    <3>2. p \in Submissions \X Instances /\ p = <<p[1], i>> /\ job[p[1]].queue = None
      BY <3>1 DEF PairsWait, Inv, TypeInv, TypeOK
    <3>3. \A j \in Instances : <<p[1], j>> \in to_assign => j = i
      <4>1. ASSUME NEW j \in Instances, <<p[1], j>> \in to_assign
            PROVE  <<p[1], j>> = p
        BY <3>1, <4>1 DEF PairsWait
      <4> QED
        BY <3>2, <4>1
    <3>4. own(p[1]) = i
      <4>1. i \in Instances /\ <<p[1], i>> \in to_assign
        BY <3>1, <3>2
      <4> QED
        BY <3>2, <3>3, <4>1
    <3>5. p[1] \in Settled
      BY <3>1, <3>2 DEF Settled
    <3> HIDE DEF own
    <3> QED
      BY <1>1, <3>4, <3>5
  <2> QED
    BY <1>1, <2>1, <2>2 DEF Taken
<1> HIDE DEF own
<1>2. f \in Surjection(chosen, Taken)
  BY <1>1 DEF Surjection
<1>3. IsFiniteSet(Settled) /\ chosen \in SUBSET Settled
  BY FreeIsFinite, FS_Subset
<1> HIDE DEF chosen, f
<1>4. IsFiniteSet(chosen) /\ Cardinality(chosen) <= Cardinality(Settled)
  BY <1>3, FS_Subset
<1>5. IsFiniteSet(Taken) /\ Cardinality(Taken) <= Cardinality(chosen)
  BY <1>2, <1>4, FS_Surjection
<1>6. /\ Cardinality(Taken) \in Nat /\ Cardinality(chosen) \in Nat
      /\ Cardinality(Settled) \in Nat
  BY <1>3, <1>4, <1>5, FS_CardinalityType
<1> QED
  BY <1>4, <1>5, <1>6

LEMMA ChargeIsEnough ==
  ASSUME Inv, RoundInv, PairsWait, Charge
  PROVE  OneInstancePerSubmission
<1>1. PICK Z \in SUBSET Submissions, O \in SUBSET Instances : ChargedTo(Z, O)
  BY DEF Charge
<1>2. /\ IsFiniteSet(Submitted) /\ IsFiniteSet(Instances)
      /\ Taken \in SUBSET Instances /\ Free \in SUBSET Instances
  BY FreeIsFinite, FS_Subset DEF Submitted
<1>3. Cardinality(Z) + Cardinality(Settled) <= Cardinality(Submitted) /\ Cardinality(Z) \in Nat
  <2>1. Settled \subseteq Submitted
    <3>1. \A s \in Submissions : job[s].queue # None => s \in Submitted
      BY JobTypes DEF Submitted
    <3> QED
      BY <3>1 DEF Settled, Submitted, RoundInv, PairsExist
  <2>2. Z \in SUBSET Submitted /\ Settled \in SUBSET Submitted /\ Z \cap Settled = {}
    BY <1>1, <2>1 DEF ChargedTo
  <2> QED
    BY <1>2, <2>2, PartsAddUp
<1>4. Cardinality(Existing) <= Cardinality(Free) + Cardinality(Taken)
  <2>1. Existing \subseteq Free \cup Taken /\ Free \cup Taken \in SUBSET Instances
    BY <1>2 DEF Free
  <2>2. Cardinality(Existing) <= Cardinality(Free \cup Taken)
    BY <1>2, <2>1, FS_Subset
  <2>3. /\ Cardinality(Free \cup Taken) <= Cardinality(Free) + Cardinality(Taken)
        /\ Cardinality(Free \cup Taken) \in Nat
    BY <1>2, FiniteParts
  <2>4. /\ Cardinality(Existing) \in Nat /\ Cardinality(Free) \in Nat
        /\ Cardinality(Taken) \in Nat
    <3>1. Existing \in SUBSET Instances
      BY DEF Existing
    <3> QED
      BY <1>2, <3>1, FS_Subset, FS_CardinalityType
  <2> QED
    BY <2>2, <2>3, <2>4
<1>5. Cardinality(Free) <= Cardinality(Z)
  <2>1. Len(to_create) \in Nat /\ Cardinality(Free) \in Nat
    BY FreeIsFinite DEF Inv, TypeInv, TypeOK
  <2> QED
    BY <1>1, <1>3, <2>1 DEF ChargedTo
<1>6. /\ Cardinality(Existing) \in Nat /\ Cardinality(Free) \in Nat
      /\ Cardinality(Submitted) \in Nat
  <2>1. Existing \in SUBSET Instances
    BY DEF Existing
  <2> QED
    BY <1>2, <2>1, FreeIsFinite, FS_Subset, FS_CardinalityType
<1>7. Cardinality(Existing) <= Cardinality(Submitted)
  BY <1>3, <1>4, <1>5, <1>6, TakenBySettled
<1> QED
  BY <1>7 DEF OneInstancePerSubmission, Existing, Submitted

\* Under targeted assignment no submission is provisioned for twice: neither by the next round,
\* which takes the worker still booting for capacity, nor by the rounds after it, since that
\* worker is assigned before it is past assign_max_age (plan.py, assign_max_age and the
\* shortfall of decide).  Of the controller's calls only a create may fail, or a publish.
THEOREM EachIsProvidedForOnce ==
  ASSUME StaysArmed, ClaimsAreFound, Margins, Steady, TwoRounds, OneSize
  PROVE  Spec => []OneInstancePerSubmission
<1> DEFINE IInv == ArmedInv /\ SeenInv /\ MarginInv /\ SupplyInv /\ Charge
<1>1. "vm" \notin Faults
  BY DEF Steady
<1>2. Inv /\ RoundInv /\ IInv /\ [Next]_vars => IInv'
  <2> SUFFICES ASSUME Inv, RoundInv, IInv, [Next]_vars
               PROVE  IInv'
    OBVIOUS
  <2>1. ArmedInv' /\ SeenInv'
    BY ArmedKept, NoneRemovedKept, SpentKept, FreeKept, OnePerInstanceKept DEF SeenInv
  <2>2. MarginInv'
    BY <1>1, MarginKept
  <2>3. SupplyInv'
    BY SupplyKept DEF SeenInv
  <2>4. Charge'
    <3>1. CASE Decide
      BY <3>1, DecisionIsCharged DEF SeenInv
    <3>2. CASE ~Decide
      BY <3>2, ChargeKept DEF SeenInv
    <3> QED
      BY <3>1, <3>2
  <2> QED
    BY <2>1, <2>2, <2>3, <2>4
<1>3. Inv /\ RoundInv /\ IInv => OneInstancePerSubmission
  BY ChargeIsEnough DEF SupplyInv
<1>4. Init => IInv
  BY InitArmed, InitSeen, InitMargin, InitSupply, InitCharge
<1> QED
  BY <1>2, <1>3, <1>4, RoundInvHolds, PTL DEF Spec
=============================================================================
