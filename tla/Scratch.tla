------------------------------ MODULE Scratch -------------------------------
(***************************************************************************)
(* The scratch disks: Cinder volumes that the controller creates for the   *)
(* submissions that ask for one, hands to a server in its build, and       *)
(* leaves to Nova's delete_on_termination, to the rollback of a failed     *)
(* create, or to the sweep of orphans.                                     *)
(*                                                                         *)
(* Every call to Cinder and Nova is a step of its own.  The readings of    *)
(* Girder and Redis, which Controller interleaves, are one step here, and  *)
(* an instance's age is its rank in the order of creation: no limit on     *)
(* instance ages binds.                                                    *)
(***************************************************************************)
EXTENDS Plan

CONSTANTS
  Submissions,   \* numbered in the order they are submitted
  Instances, VolumeIds,  \* numbered in the order of creation; never reused
  Disk,          \* submission -> the disk_gb it requests, or None
  Rung, Cores,   \* a catalogue of one size
  MaxInstances, MaxVolumes, OrphanGrace, BreakerThreshold, BreakerCooldown,
  CinderQuota,   \* volumes Cinder lets this deployment have
  AgeBound,      \* a volume's ages stop here
  RoundTime,     \* ticks that fit between the starts of two rounds
  EnabledAtStart, Faults, MaxFaults

ASSUME ScratchAssumption ==
  /\ Submissions \subseteq Nat /\ IsFiniteSet(Submissions)
  /\ Instances \subseteq Nat /\ IsFiniteSet(Instances)
  /\ VolumeIds \subseteq Nat /\ IsFiniteSet(VolumeIds)
  /\ Disk \in [Submissions -> Nat \cup {None}]
  /\ Rung \in Nat /\ Cores \in Nat
  /\ MaxInstances \in Nat /\ MaxVolumes \in Nat \cup {None}
  /\ OrphanGrace \in Nat \cup {None} /\ CinderQuota \in Nat
  /\ BreakerThreshold \in Nat \ {0} /\ BreakerCooldown \in Nat
  /\ AgeBound \in Nat /\ RoundTime \in Nat /\ MaxFaults \in Nat
  /\ EnabledAtStart \subseteq BOOLEAN

VARIABLES
  enabled,     \* Girder's setting sivacor.volumes_enabled
  submission,  \* submission -> its job document
  server,      \* instance -> [status, volume_gb: its tag, volume: its block device]
  deleting,    \* instances whose delete Nova accepted and has not finished
  volume,      \* volume -> [state, age, free: ticks since it was last attached]
  faults,
  round,       \* ticks since the controller last started a round
  pc,          \* where step() is
  snap,        \* what gather() has listed so far: instances, spent, volumes
  volumes_on,  \* the setting as read this round
  to_delete, to_sweep, to_assign, to_create,  \* what is left of the decision
  volume_id,   \* the volume created for the first of to_create, or None
  consecutive_failures, last_failure

world == <<enabled, submission, server, deleting, volume>>
breaker == <<consecutive_failures, last_failure>>
decision == <<to_delete, to_sweep, to_assign, to_create>>
process == <<pc, snap, volumes_on, decision, volume_id, breaker>>
vars == <<world, faults, round, process>>

NoSnapshot == [instances |-> << >>, spent |-> {}, volumes |-> << >>]

Init ==
  /\ enabled \in EnabledAtStart
  /\ submission = [s \in Submissions |-> [status |-> "absent", queue |-> None]]
  /\ server = [i \in Instances |-> [status |-> "absent", volume_gb |-> None, volume |-> None]]
  /\ deleting = {}
  /\ volume = [v \in VolumeIds |-> [state |-> "absent", age |-> 0, free |-> 0]]
  /\ faults = 0 /\ round = 0
  /\ pc = "idle" /\ snap = NoSnapshot /\ volumes_on = FALSE
  /\ to_delete = {} /\ to_sweep = {} /\ to_assign = {} /\ to_create = << >>
  /\ volume_id = None /\ consecutive_failures = 0 /\ last_failure = None

Fault(kind) == kind \in Faults /\ faults < MaxFaults /\ faults' = faults + 1
NoFault == faults' = faults

-----------------------------------------------------------------------------
(***************************************************************************)
(* Girder, Nova, Cinder and the workers.                                   *)
(***************************************************************************)

Running(s) == submission[s].status = "RUNNING"
Waiting == {s \in Submissions : Running(s) /\ submission[s].queue = None}
Occupying == {i \in Instances : server[i].status \in {"BUILD", "ACTIVE"}}
Named(i) == {v \in VolumeIds : server[i].volume = v}
Existing == {v \in VolumeIds : volume[v].state \notin {"absent", "gone"}}

\* Girder accepts a request for a disk only while the setting is on.
Submit(s) ==
  /\ submission[s].status = "absent"
  /\ \A t \in Submissions : t < s => submission[t].status # "absent"
  /\ Disk[s] # None => enabled
  /\ submission' = [submission EXCEPT ![s].status = "RUNNING"]
  /\ NoFault
  /\ UNCHANGED <<enabled, server, deleting, volume>>

FlipEnabled ==
  /\ Fault("flip")
  /\ enabled' = ~enabled
  /\ UNCHANGED <<submission, server, deleting, volume>>

\* Nova attaches in the build.  Without its volume a build ends in ERROR.
Attach(i) ==
  /\ server[i].status = "BUILD"
  /\ \E v \in Named(i) :
       \/ /\ volume[v].state = "available"
          /\ volume' = [volume EXCEPT ![v].state = "attached", ![v].free = 0]
          /\ server' = server
       \/ /\ volume[v].state = "gone"
          /\ server' = [server EXCEPT ![i].status = "ERROR"]
          /\ volume' = volume
  /\ NoFault
  /\ UNCHANGED <<enabled, submission, deleting>>

Boot(i) ==
  /\ server[i].status = "BUILD"
  /\ \A v \in Named(i) : volume[v].state = "attached"
  /\ server' = [server EXCEPT ![i].status = "ACTIVE"]
  /\ NoFault
  /\ UNCHANGED <<enabled, submission, deleting, volume>>

Given(i) == {s \in Submissions : submission[s].queue = i}

Finish(i) ==
  /\ server[i].status = "ACTIVE"
  /\ \E s \in Given(i) : /\ Running(s)
                         /\ submission' = [submission EXCEPT ![s].status = "done"]
  /\ NoFault
  /\ UNCHANGED <<enabled, server, deleting, volume>>

\* An unclaimed worker idles for longer than a submission waits for it.
PowerOff(i) ==
  /\ server[i].status = "ACTIVE" /\ \A s \in Given(i) : ~Running(s)
  /\ Given(i) # {} \/ Waiting = {}
  /\ server' = [server EXCEPT ![i].status = "SHUTOFF"]
  /\ NoFault
  /\ UNCHANGED <<enabled, submission, deleting, volume>>

\* The server goes first, and some time later its volume, if Nova honours the flag.
NovaDeletes(i) ==
  /\ i \in deleting
  /\ server' = [server EXCEPT ![i].status = "gone"]
  /\ deleting' = deleting \ {i}
  /\ \E state \in {"doomed", "available"} :
       /\ volume' = [v \in VolumeIds |->
                       IF v \in Named(i) /\ volume[v].state = "attached"
                       THEN [volume[v] EXCEPT !.state = state, !.free = 0] ELSE volume[v]]
       /\ IF state = "doomed" THEN NoFault ELSE Fault("kept")
  /\ UNCHANGED <<enabled, submission>>

NovaReclaims(v) ==
  /\ volume[v].state = "doomed"
  /\ volume' = [volume EXCEPT ![v].state = "gone"]
  /\ NoFault
  /\ UNCHANGED <<enabled, submission, server, deleting>>

\* Nova builds, and deletes, well within a tick.
Prompt ==
  /\ \A i \in Instances : server[i].status # "BUILD" /\ i \notin deleting
  /\ \A v \in VolumeIds : volume[v].state # "doomed"

Aged(age, bound) == IF age < bound THEN age + 1 ELSE age

Tick ==
  /\ Prompt /\ (pc = "down" \/ round < RoundTime)
  /\ volume' = [v \in VolumeIds |->
                  IF v \notin Existing THEN volume[v]
                  ELSE [volume[v] EXCEPT
                          !.age = Aged(@, AgeBound),
                          !.free = IF volume[v].state = "attached" THEN 0 ELSE Aged(@, AgeBound)]]
  /\ round' = IF pc = "down" THEN round ELSE round + 1
  /\ last_failure' = IF last_failure = None THEN None ELSE Aged(last_failure, BreakerCooldown)
  /\ NoFault
  /\ UNCHANGED <<enabled, submission, server, deleting, pc, snap, volumes_on, decision,
                 volume_id, consecutive_failures>>

-----------------------------------------------------------------------------
(***************************************************************************)
(* gather() and decide().                                                  *)
(***************************************************************************)

Limits ==
  [max_instances |-> MaxInstances, max_lifetime |-> Cardinality(Instances),
   breaker_threshold |-> BreakerThreshold,
   provision_deadline |-> None, unclaimed_grace |-> 0,
   assign |-> TRUE, assign_max_age |-> Cardinality(Instances),
   sizes |-> [rung \in {Rung} |-> Cores], max_vcpus |-> None, max_ram_gb |-> None,
   max_volumes |-> MaxVolumes, max_volume_gb |-> None,
   volume_orphan_grace |-> OrphanGrace]

FleetState ==
  [instances |-> [i \in DOMAIN snap.instances |->
                    [status |-> snap.instances[i].status,
                     age |-> Cardinality({j \in DOMAIN snap.instances : j > i}),
                     size |-> Rung, volume_gb |-> snap.instances[i].volume_gb]],
   queue_depth |-> 0,
   spent |-> snap.spent,
   waiting |-> [s \in Waiting |-> [age |-> 0, memory_gb |-> None,
                                   disk_gb |-> Disk[s], assignable |-> TRUE]],
   ready |-> {i \in Instances : server[i].status = "ACTIVE"},
   running_jobs |-> {}, house_paid |-> {}, volumes |-> snap.volumes,
   consecutive_failures |-> consecutive_failures]

BeginRound ==
  /\ pc = "idle"
  /\ LET expired == /\ consecutive_failures # 0
                    /\ last_failure # None /\ last_failure >= BreakerCooldown
     IN  /\ consecutive_failures' = IF expired THEN 0 ELSE consecutive_failures
         /\ last_failure' = IF expired THEN None ELSE last_failure
  /\ pc' = "instances" /\ round' = 0
  /\ NoFault
  /\ UNCHANGED <<world, snap, volumes_on, decision, volume_id>>

\* list_fleet, and the claims found since: only this process writes them.
ReadInstances ==
  /\ pc = "instances"
  /\ LET listed == {i \in Instances : server[i].status \notin {"absent", "gone"}}
     IN  snap' = [snap EXCEPT !.instances = [i \in listed |-> server[i]],
                              !.spent = {i \in listed : Given(i) # {}}]
  /\ pc' = "volumes"
  /\ NoFault
  /\ UNCHANGED <<world, round, volumes_on, decision, volume_id, breaker>>

\* Faulty: only what a server has is listed.
ReadingInUse ==
  [v \in {w \in Existing : volume[w].state = "attached"} |->
     [attached |-> TRUE, age |-> volume[v].age]]

\* Listed volumes: of ours, with a creation time.  A failed listing disables the sweep.
Reading == [v \in Existing |-> [attached |-> volume[v].state = "attached", age |-> volume[v].age]]

ReadVolumes ==
  /\ pc = "volumes"
  /\ \/ /\ snap' = IF OrphanGrace = None THEN snap ELSE [snap EXCEPT !.volumes = Reading]
        /\ NoFault
     \/ snap' = snap /\ Fault("listing")
  /\ pc' = "decide"
  /\ UNCHANGED <<world, round, volumes_on, decision, volume_id, breaker>>

\* The setting is read once, after the decision, for the whole round.
Decide ==
  /\ pc = "decide" /\ pc' = "act"
  /\ \E state \in {FleetState}, limits \in {Limits} :
       /\ to_delete' = Delete(state, limits)
       /\ to_sweep' = DeleteVolumes(state, limits)
       /\ to_assign' = Assign(state, limits)
       /\ to_create' = Create(state, limits)
  /\ volumes_on' = enabled /\ snap' = NoSnapshot
  /\ NoFault
  /\ UNCHANGED <<world, round, volume_id, breaker>>

-----------------------------------------------------------------------------
(***************************************************************************)
(* The decision executed: deletes, sweep, assignments, creates.            *)
(***************************************************************************)

\* delete_on_termination takes the volume with the server: nothing else is called.
DeleteInstance(i) ==
  /\ pc = "act" /\ i \in to_delete
  /\ to_delete' = to_delete \ {i}
  /\ \/ /\ deleting' = IF server[i].status = "gone" THEN deleting ELSE deleting \cup {i}
        /\ NoFault
     \/ deleting' = deleting /\ Fault("delete")
  /\ UNCHANGED <<enabled, submission, server, volume, round, pc, snap, volumes_on, to_sweep,
                 to_assign, to_create, volume_id, breaker>>

\* delete_volume.  Cinder refuses what is attached; a failure is swallowed.
DeletesVolume(v) ==
  \/ /\ volume' = IF volume[v].state \in {"available", "doomed"}
                    THEN [volume EXCEPT ![v].state = "gone"] ELSE volume
     /\ NoFault
  \/ volume' = volume /\ Fault("volume")

SweepVolume(v) ==
  /\ pc = "act" /\ to_delete = {} /\ v \in to_sweep
  /\ to_sweep' = to_sweep \ {v}
  /\ DeletesVolume(v)
  /\ UNCHANGED <<enabled, submission, server, deleting, round, pc, snap, volumes_on,
                 to_delete, to_assign, to_create, volume_id, breaker>>

\* The claim and the chain together: Controller takes them apart.
AssignSubmission(s, i) ==
  /\ pc = "act" /\ to_delete = {} /\ to_sweep = {}
  /\ <<s, i>> \in to_assign /\ \A p \in to_assign : s <= p[1]
  /\ to_assign' = to_assign \ {<<s, i>>}
  /\ submission' = [submission EXCEPT ![s].queue = i]
  /\ NoFault
  /\ UNCHANGED <<enabled, server, deleting, volume, round, pc, snap, volumes_on,
                 to_delete, to_sweep, to_create, volume_id, breaker>>

\* What an exception out of a create does: it ends the round's creates, and counts unless
\* the allocation was full.
Backpressure ==
  /\ pc' = "act" /\ to_create' = << >> /\ volume_id' = None
  /\ UNCHANGED breaker
CreationFailed ==
  /\ pc' = "act" /\ to_create' = << >> /\ volume_id' = None
  /\ consecutive_failures' = consecutive_failures + 1 /\ last_failure' = 0

FirstUnused(set, unused) == set # {} /\ unused = Min(set)

\* The volume comes before the server, whose user data names it.
CreateVolume ==
  /\ pc = "act" /\ to_delete = {} /\ to_sweep = {} /\ to_assign = {} /\ to_create # << >>
  /\ IF ~volumes_on \/ DiskGb(Head(to_create)) = 0
       THEN /\ pc' = "user_data"
            /\ NoFault
            /\ UNCHANGED <<volume, to_create, volume_id, breaker>>
       ELSE \/ /\ Cardinality(Existing) < CinderQuota
               /\ \E v \in VolumeIds :
                    /\ FirstUnused({w \in VolumeIds : volume[w].state = "absent"}, v)
                    /\ volume' = [volume EXCEPT ![v].state = "available"]
                    /\ \/ /\ volume_id' = v /\ pc' = "user_data"
                          /\ NoFault
                          /\ UNCHANGED <<to_create, breaker>>
                       \/ Fault("lost_volume") /\ CreationFailed
            \/ /\ \/ Cardinality(Existing) >= CinderQuota
                  \/ \A w \in VolumeIds : volume[w].state # "absent"
               /\ Backpressure
               /\ NoFault
               /\ volume' = volume
            \/ Fault("create") /\ CreationFailed /\ volume' = volume
  /\ UNCHANGED <<enabled, submission, server, deleting, round, snap, volumes_on,
                 to_delete, to_sweep, to_assign>>

\* No rollback covers build_user_data: a template that does not fit leaves the volume.
BuildUserData ==
  /\ pc = "user_data"
  /\ \/ /\ pc' = "server"
        /\ NoFault
        /\ UNCHANGED <<to_create, volume_id, breaker>>
     \/ Fault("user_data") /\ CreationFailed
  /\ UNCHANGED <<world, round, snap, volumes_on, to_delete, to_sweep, to_assign>>

Boots(i) ==
  /\ FirstUnused({j \in Instances : server[j].status = "absent"}, i)
  /\ server' = [server EXCEPT ![i] =
                  [status |-> "BUILD", volume |-> volume_id,
                   volume_gb |-> IF volume_id = None THEN None ELSE Head(to_create).disk_gb]]

\* A failed create deletes its volume before the exception goes on.
CreateServer ==
  /\ pc = "server"
  /\ \/ /\ \E i \in Instances : Boots(i)
        /\ pc' = "act" /\ to_create' = Tail(to_create) /\ volume_id' = None
        /\ consecutive_failures' = 0 /\ last_failure' = None
        /\ NoFault
     \/ /\ \/ Fault("quota")
           \/ (\A i \in Instances : server[i].status # "absent") /\ NoFault
        /\ server' = server
        /\ IF volume_id = None THEN Backpressure
           ELSE pc' = "rollback_quota" /\ UNCHANGED <<to_create, volume_id, breaker>>
     \/ /\ \/ Fault("create") /\ server' = server
           \/ Fault("lost_answer") /\ \E i \in Instances : Boots(i)
        /\ IF volume_id = None THEN CreationFailed
           ELSE pc' = "rollback_failure" /\ UNCHANGED <<to_create, volume_id, breaker>>
  /\ UNCHANGED <<enabled, submission, deleting, volume, round, snap, volumes_on,
                 to_delete, to_sweep, to_assign>>

Rollback ==
  /\ pc \in {"rollback_quota", "rollback_failure"}
  /\ DeletesVolume(volume_id)
  /\ \/ pc = "rollback_quota" /\ Backpressure
     \/ pc = "rollback_failure" /\ CreationFailed
  /\ UNCHANGED <<enabled, submission, server, deleting, round, snap, volumes_on,
                 to_delete, to_sweep, to_assign>>

EndRound ==
  /\ pc = "act" /\ to_delete = {} /\ to_sweep = {} /\ to_assign = {} /\ to_create = << >>
  /\ pc' = "idle"
  /\ NoFault
  /\ UNCHANGED <<world, round, snap, volumes_on, decision, volume_id, breaker>>

\* The process dies anywhere; volume_id is a local variable, nothing remembers it.
Crash ==
  /\ pc # "down" /\ Fault("crash")
  /\ pc' = "down" /\ snap' = NoSnapshot /\ volumes_on' = FALSE
  /\ to_delete' = {} /\ to_sweep' = {} /\ to_assign' = {} /\ to_create' = << >>
  /\ volume_id' = None /\ consecutive_failures' = 0 /\ last_failure' = None
  /\ UNCHANGED <<world, round>>

Restart ==
  /\ pc = "down" /\ pc' = "idle"
  /\ NoFault
  /\ UNCHANGED <<world, round, snap, volumes_on, decision, volume_id, breaker>>

-----------------------------------------------------------------------------
Round ==
  \/ BeginRound \/ ReadInstances \/ ReadVolumes \/ Decide
  \/ (\E i \in Instances : DeleteInstance(i))
  \/ (\E v \in VolumeIds : SweepVolume(v))
  \/ (\E s \in Submissions, i \in Instances : AssignSubmission(s, i))
  \/ CreateVolume \/ BuildUserData \/ CreateServer \/ Rollback \/ EndRound \/ Restart

Nova(i) ==
  Attach(i) \/ Boot(i) \/ Finish(i) \/ PowerOff(i) \/ NovaDeletes(i)

External == (\E i \in Instances : Nova(i)) \/ (\E v \in VolumeIds : NovaReclaims(v))

Environment ==
  /\ \/ FlipEnabled
     \/ \E s \in Submissions : Submit(s)
     \/ External
  /\ UNCHANGED <<round, process>>

Next == Round \/ Crash \/ Environment \/ Tick

Spec == Init /\ [][Next]_vars

\* The loop sleeps and runs again, time passes, Nova and the workers get on with it: each of
\* their steps is taken finitely often.
Fairness ==
  /\ WF_vars(Round) /\ WF_vars(Tick)
  /\ WF_vars(External /\ NoFault /\ UNCHANGED <<round, process>>)

FairSpec == Spec /\ Fairness

-----------------------------------------------------------------------------
\* Every variable has its type, and a volume in hand is one that was just created.
TypeOK ==
  /\ enabled \in BOOLEAN
  /\ submission \in [Submissions -> [status : {"absent", "RUNNING", "done"},
                                     queue : Instances \cup {None}]]
  /\ server \in [Instances -> [status : {"absent", "BUILD", "ACTIVE", "SHUTOFF", "ERROR", "gone"},
                               volume_gb : Nat \cup {None}, volume : VolumeIds \cup {None}]]
  /\ deleting \subseteq Instances
  /\ volume \in [VolumeIds -> [state : {"absent", "available", "attached", "doomed", "gone"},
                               age : 0..AgeBound, free : 0..AgeBound]]
  /\ faults \in Nat /\ round \in Nat
  /\ pc \in {"idle", "instances", "volumes", "decide", "act", "user_data", "server",
             "rollback_quota", "rollback_failure", "down"}
  /\ volumes_on \in BOOLEAN
  /\ to_delete \subseteq Instances /\ to_sweep \subseteq VolumeIds
  /\ to_assign \subseteq Submissions \X Instances
  /\ volume_id \in VolumeIds \cup {None}
  /\ consecutive_failures \in 0..BreakerThreshold
  /\ last_failure \in Nat \cup {None}

\* No call of the controller's deletes the volume of a server that is building or running,
\* or the one it is about to hand to a server.  Only the rollback of a create that failed
\* does, whose server Nova may have accepted all the same: not that of one it refused.
SparesWorkers ==
  [][\A v \in VolumeIds :
       volume[v].state \in {"available", "attached"} /\ volume'[v].state = "gone" =>
         \/ v = volume_id /\ pc = "rollback_failure"
         \/ /\ v = volume_id => pc = "rollback_quota"
            /\ \A i \in Occupying : server[i].volume # v]_vars

\* The volume quota bounds the workers that hold a volume, orphans and all.
WorkersWithinQuota ==
  MaxVolumes # None =>
    Cardinality({i \in Occupying : server[i].volume # None}) <= MaxVolumes

\* No volume outlives every use for it: whatever left it behind, it goes in the end.  There
\* are finitely many, and one that is gone stays so.
Orphan(v) ==
  /\ v \in Existing /\ volume_id # v
  /\ \A i \in Instances : server[i].volume = v => server[i].status = "gone"
OrphansGo == <>[](\A v \in VolumeIds : ~Orphan(v))

\* Every submission ends, although orphans may fill the quota Cinder enforces; each is
\* submitted once.
EverySubmissionEnds == <>[](\A s \in Submissions : ~Running(s))
=============================================================================
