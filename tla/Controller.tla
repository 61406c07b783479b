----------------------------- MODULE Controller -----------------------------
(***************************************************************************)
(* controller.py: the loop that gathers a snapshot, decides, and executes  *)
(* the decision, beside the other processes of the deployment.             *)
(*                                                                         *)
(* A round is not atomic.  gather() reads one party after another and      *)
(* every delete, claim, publication and create is a call of its own, so    *)
(* the world moves between any two of them; only decide() is one step, on  *)
(* the snapshot.  The memory of the process (spent_seen and the breaker's  *)
(* counter) is lost when it restarts.                                      *)
(***************************************************************************)
EXTENDS Deployment, Plan

CONSTANTS
  MaxInstances, MaxLifetime, ProvisionDeadline, UnclaimedGrace, AssignMaxAge,
  BreakerThreshold, BreakerCooldown,
  Sizes,          \* the catalogue: rung -> vcpus, << >> when there is none
  MaxVcpus,
  FlavorRung      \* the rung whose flavour SIVACOR_OS_FLAVOR names, None if none

ASSUME LimitsAssumption ==
  /\ MaxInstances \in Nat /\ MaxLifetime \in Nat /\ AssignMaxAge \in Nat
  /\ ProvisionDeadline \in Nat \cup {None}
  /\ UnclaimedGrace \in Nat
  /\ BreakerThreshold \in Nat \ {0} /\ BreakerCooldown \in Nat
  /\ DOMAIN Sizes \subseteq Nat
  /\ FlavorRung \in Nat \cup {None}

ASSUME BindingAssumption == None \notin Submissions \X Instances

VARIABLES
  pc,                    \* where step() is
  snap,                  \* the FleetState gathered so far this round
  assign,                \* limits.assign: the arm flag as read this round
  spent_seen,            \* _spent_seen
  consecutive_failures,
  last_failure,          \* ticks since the last creation failure, or None
  to_delete, to_assign, to_create,  \* what is left of the decision
  binding                \* the pair claimed and not yet published, or None

memory == <<spent_seen, consecutive_failures, last_failure>>
decision == <<to_delete, to_assign, to_create, binding>>
process == <<pc, snap, assign, memory, decision>>
vars == <<world, process>>

-----------------------------------------------------------------------------
\* Limits and the snapshot.

Limits ==
  [max_instances |-> MaxInstances, max_lifetime |-> MaxLifetime,
   breaker_threshold |-> BreakerThreshold,
   provision_deadline |-> ProvisionDeadline, unclaimed_grace |-> UnclaimedGrace,
   assign |-> assign, assign_max_age |-> AssignMaxAge,
   sizes |-> Sizes, max_vcpus |-> MaxVcpus, max_ram_gb |-> None,
   max_volumes |-> None, max_volume_gb |-> None, volume_orphan_grace |-> None]

Empty == [x \in {} |-> None]

NoSnapshot ==
  [instances |-> Empty, queue_depth |-> 0, spent |-> {}, waiting |-> Empty]

\* decide() takes its own time, so an instance's age is its age when it decides.
FleetState ==
  [instances |-> [i \in DOMAIN snap.instances |->
                    [status |-> snap.instances[i].status, age |-> server[i].age,
                     size |-> snap.instances[i].size, volume_gb |-> None]],
   queue_depth |-> snap.queue_depth,
   spent |-> snap.spent,
   waiting |-> snap.waiting,
   ready |-> IF assign \/ ProvisionDeadline # None THEN ready ELSE {},
   running_jobs |-> {}, house_paid |-> {}, volumes |-> Empty,
   consecutive_failures |-> consecutive_failures]

-----------------------------------------------------------------------------
ControllerInit ==
  /\ pc = "idle" /\ snap = NoSnapshot /\ assign = FALSE
  /\ spent_seen = {} /\ consecutive_failures = 0 /\ last_failure = None
  /\ to_delete = {} /\ to_assign = {} /\ to_create = << >> /\ binding = None

Init == WorldInit /\ ControllerInit

(***************************************************************************)
(* step(): the breaker's cooldown, the arm flag, then gather().            *)
(***************************************************************************)

\* Faulty: only a creation that works clears the counter.
ExpireBreakerNever == UNCHANGED <<consecutive_failures, last_failure>>

ExpireBreaker ==
  LET expired == /\ consecutive_failures # 0
                 /\ last_failure # None /\ last_failure >= BreakerCooldown
  IN  /\ consecutive_failures' = IF expired THEN 0 ELSE consecutive_failures
      /\ last_failure' = IF expired THEN None ELSE last_failure

\* limits() reads the arm flag once, for the whole round.
BeginRound ==
  /\ pc = "idle"
  /\ ExpireBreaker
  /\ assign' = armed
  /\ pc' = "instances"
  /\ round' = 0
  /\ NoFault
  /\ UNCHANGED <<girder, broker, nova, workers, snap, spent_seen, decision>>

ReadInstances ==
  /\ pc = "instances"
  /\ snap' = [snap EXCEPT !.instances =
                [i \in Listed |-> [status |-> server[i].status, size |-> server[i].size]]]
  /\ pc' = "depth"
  /\ NoFault
  /\ UNCHANGED <<girder, broker, nova, workers, round, assign, memory, decision>>

ReadDepth ==
  /\ pc = "depth"
  /\ snap' = [snap EXCEPT !.queue_depth = Len(dispatch)]
  /\ pc' = "spent"
  /\ NoFault
  /\ UNCHANGED <<girder, broker, nova, workers, round, assign, memory, decision>>

\* _spent: remembered for as long as Nova lists the instance.
Spent == (spent_seen \cup Claimed) \cap DOMAIN snap.instances

ReadSpent ==
  /\ pc = "spent"
  /\ spent_seen' = Spent
  /\ snap' = [snap EXCEPT !.spent = spent_seen']
  /\ pc' = "waiting"
  /\ NoFault
  /\ UNCHANGED <<girder, broker, nova, workers, round, assign,
                 consecutive_failures, last_failure, decision>>

\* waiting_submissions swallows its errors: a failed reading is an empty one.
ReadWaiting ==
  /\ pc = "waiting"
  /\ \/ /\ snap' = [snap EXCEPT !.waiting =
                      [s \in Oldest(Waiting) |->
                         [age |-> job[s].age, memory_gb |-> Memory[s],
                          disk_gb |-> None, assignable |-> job[s].awaiting]]]
        /\ NoFault
     \/ snap' = snap /\ Fault("waiting")
  /\ pc' = "decide"
  /\ UNCHANGED <<girder, broker, nova, workers, round, assign, memory, decision>>

\* Any other reading that fails skips the round; what _spent learnt is kept.  The first
\* is the arm flag; the last, the readiness markers, is made only when it is of use.
SkipRound ==
  /\ Fault("read")
  /\ \/ pc = "idle" /\ ExpireBreaker /\ round' = 0
     \/ /\ pc \in {"instances", "depth", "spent", "decide"}
        /\ pc = "decide" => assign \/ ProvisionDeadline # None
        /\ UNCHANGED <<consecutive_failures, last_failure, round>>
  /\ pc' = "idle" /\ snap' = NoSnapshot
  /\ UNCHANGED <<girder, broker, nova, workers, assign, spent_seen, decision>>

(***************************************************************************)
(* The readiness markers, decide(), and the volumes flag.                  *)
(***************************************************************************)

Decide ==
  /\ pc = "decide"
  /\ to_delete' = Delete(FleetState, Limits)
  /\ to_assign' = Assign(FleetState, Limits)
  /\ to_create' = Create(FleetState, Limits)
  /\ pc' = "act" /\ snap' = NoSnapshot
  /\ NoFault
  /\ UNCHANGED <<girder, broker, nova, workers, round, assign, memory, binding>>

Forget ==
  /\ pc' = "down"
  /\ snap' = NoSnapshot
  /\ spent_seen' = {} /\ consecutive_failures' = 0 /\ last_failure' = None
  /\ to_delete' = {} /\ to_assign' = {} /\ to_create' = << >> /\ binding' = None
  /\ UNCHANGED <<girder, broker, nova, workers, round, assign>>

\* volumes_enabled is read outside the try: its failure ends the process.
VolumesFlagUnreadable == pc = "decide" /\ Fault("flag") /\ Forget

(***************************************************************************)
(* The decision executed: deletes, then assignments, then creates.         *)
(***************************************************************************)

\* A refused delete is logged; the next round decides it again.
DeleteInstance(i) ==
  /\ pc = "act" /\ i \in to_delete
  /\ to_delete' = to_delete \ {i}
  /\ \/ /\ deleting' = IF i \in Listed THEN deleting \cup {i} ELSE deleting
        /\ NoFault
     \/ deleting' = deleting /\ Fault("delete")
  /\ UNCHANGED <<girder, broker, server, workers, round, pc, snap, assign, memory,
                 to_assign, to_create, binding>>

\* The predicate of claim()'s find_one_and_update; a removed document matches nothing.
Claimable(s) == job[s].status # "removed" /\ job[s].queue = None /\ job[s].awaiting

\* Faulty: claims the round's submissions one after the other before it publishes.
ClaimBeforePublished(s, i) ==
  /\ pc = "act" /\ to_delete = {}
  /\ <<s, i>> \in to_assign /\ \A p \in to_assign : s <= p[1]
  /\ to_assign' = to_assign \ {<<s, i>>}
  /\ Claimable(s)
  /\ job' = [job EXCEPT ![s].queue = i]
  /\ binding' = <<s, i>>
  /\ NoFault
  /\ UNCHANGED <<armed, broker, nova, workers, round, pc, snap, assign, memory,
                 to_delete, to_create>>

\* dispatch.assign, first half: the atomic claim, oldest submission first.  Without a
\* match the instance stays free.
Claim(s, i) ==
  /\ pc = "act" /\ to_delete = {} /\ binding = None
  /\ <<s, i>> \in to_assign /\ \A p \in to_assign : s <= p[1]
  /\ to_assign' = to_assign \ {<<s, i>>}
  /\ \/ /\ Claimable(s)
        /\ job' = [job EXCEPT ![s].queue = i]
        /\ binding' = <<s, i>>
        /\ NoFault
     \/ ~Claimable(s) /\ NoFault /\ UNCHANGED <<job, binding>>
     \/ Fault("claim") /\ UNCHANGED <<job, binding>>
  /\ UNCHANGED <<armed, broker, nova, workers, round, pc, snap, assign, memory,
                 to_delete, to_create>>

\* Faulty: a publication that raised gives the submission back.
PublishWithRollback ==
  /\ pc = "act" /\ binding # None
  /\ \/ /\ private' = [private EXCEPT ![binding[2]] = @ \cup {binding[1]}]
        /\ sent' = [sent EXCEPT ![binding[1]] = @ + 1]
        /\ \/ NoFault /\ job' = job
           \/ Fault("publish") /\ job' = [job EXCEPT ![binding[1]].queue = None]
     \/ /\ Fault("publish") /\ job' = [job EXCEPT ![binding[1]].queue = None]
        /\ UNCHANGED <<private, sent>>
  /\ binding' = None
  /\ UNCHANGED <<armed, dispatch, ready, nova, workers, round, pc, snap, assign, memory,
                 to_delete, to_assign, to_create>>

\* Second half.  apply_async may fail with the message already on the broker, or before
\* it got there; either way the claim stands.
Publish ==
  /\ pc = "act" /\ binding # None
  /\ \/ /\ private' = [private EXCEPT ![binding[2]] = @ \cup {binding[1]}]
        /\ sent' = [sent EXCEPT ![binding[1]] = @ + 1]
        /\ NoFault \/ Fault("publish")
     \/ Fault("publish") /\ UNCHANGED <<private, sent>>
  /\ binding' = None
  /\ UNCHANGED <<girder, dispatch, ready, nova, workers, round, pc, snap, assign, memory,
                 to_delete, to_assign, to_create>>

Unused == {i \in Instances : server[i].status = "absent"}
Boots(rung) ==
  /\ Unused # {}
  /\ server' = [server EXCEPT ![Min(Unused)] =
                  [status |-> "BUILD", age |-> 0,
                   size |-> IF rung = None THEN FlavorRung ELSE rung]]

CreateInstance ==
  /\ pc = "act" /\ to_delete = {} /\ to_assign = {} /\ binding = None
  /\ to_create # << >>
  /\ \/ \* a server: the breaker's counter is cleared
        /\ Boots(Head(to_create).rung)
        /\ to_create' = Tail(to_create)
        /\ consecutive_failures' = 0 /\ last_failure' = None
        /\ NoFault
     \/ \* QuotaExceeded: backpressure, the rest of the round's creates wait
        /\ (Unused = {} /\ NoFault) \/ Fault("quota")
        /\ to_create' = << >>
        /\ UNCHANGED <<server, consecutive_failures, last_failure>>
     \/ \* any other failure, with or without a server left behind
        /\ Fault("create")
        /\ to_create' = << >>
        /\ consecutive_failures' = consecutive_failures + 1 /\ last_failure' = 0
        /\ UNCHANGED server \/ Boots(Head(to_create).rung)
  /\ UNCHANGED <<girder, broker, deleting, workers, round, pc, snap, assign, spent_seen,
                 to_delete, to_assign, binding>>

EndRound ==
  /\ pc = "act" /\ to_delete = {} /\ to_assign = {} /\ binding = None /\ to_create = << >>
  /\ pc' = "idle"
  /\ NoFault
  /\ UNCHANGED <<girder, broker, nova, workers, round, snap, assign, memory, decision>>

-----------------------------------------------------------------------------
\* The process dies anywhere; its memory starts empty again.

Crash == pc # "down" /\ Fault("crash") /\ Forget

Restart ==
  /\ pc = "down"
  /\ pc' = "idle"
  /\ NoFault
  /\ UNCHANGED <<girder, broker, nova, workers, round, snap, assign, memory, decision>>

Tick ==
  /\ Prompt /\ (pc = "down" \/ round < RoundTime)
  /\ AgesAdvance
  /\ round' = IF pc = "down" THEN round ELSE round + 1
  /\ last_failure' = IF last_failure = None THEN None ELSE Aged(last_failure, BreakerCooldown)
  /\ NoFault
  /\ UNCHANGED <<pc, snap, assign, spent_seen, consecutive_failures, decision>>

-----------------------------------------------------------------------------
Round ==
  \/ BeginRound \/ ReadInstances \/ ReadDepth \/ ReadSpent \/ ReadWaiting \/ Decide
  \/ (\E i \in Instances : DeleteInstance(i))
  \/ (\E s \in Submissions, i \in Instances : Claim(s, i))
  \/ Publish \/ CreateInstance \/ EndRound \/ Restart

Breakdown == SkipRound \/ VolumesFlagUnreadable \/ Crash

Girder ==
  \/ FlipArmed
  \/ \E s \in Submissions :
       Submit(s) \/ ReapSubmission(s) \/ CancelSubmission(s) \/ RemoveSubmission(s)

Worker(i) ==
  \/ Boot(i) \/ Announce(i) \/ TakeShared(i) \/ TakePrivate(i) \/ Prepare(i) \/ Finish(i)
  \/ PowerOff(i) \/ DieMidRun(i) \/ Wedge(i) \/ NovaDeletes(i)

Environment == (Girder \/ \E i \in Instances : Worker(i)) /\ UNCHANGED process

Next == Round \/ Breakdown \/ Environment \/ Tick

Spec == Init /\ [][Next]_vars

-----------------------------------------------------------------------------
(***************************************************************************)
(* Types.                                                                  *)
(***************************************************************************)

InstanceRecords == [status : Statuses, size : Nat \cup {None}]
WaitingRecords == [age : Nat, memory_gb : Nat \cup {None}, disk_gb : {None},
                   assignable : BOOLEAN]
IsReading(r, ids, records) == \E D \in SUBSET ids : r \in [D -> records]
IsSnapshot(s) ==
  /\ s = [instances |-> s.instances, queue_depth |-> s.queue_depth,
           spent |-> s.spent, waiting |-> s.waiting]
  /\ IsReading(s.instances, Instances, InstanceRecords)
  /\ s.queue_depth \in Nat /\ s.spent \subseteq Instances
  /\ IsReading(s.waiting, Submissions, WaitingRecords)
Creates == [rung : Nat \cup {None}, disk_gb : {None}]

\* Every variable has its type: a snapshot is partial functions over the ids, and the
\* breaker's counter stops at its threshold.
TypeOK ==
  /\ WorldTypeOK
  /\ pc \in {"idle", "instances", "depth", "spent", "waiting", "decide", "act", "down"}
  /\ IsSnapshot(snap)
  /\ assign \in BOOLEAN
  /\ spent_seen \subseteq Instances
  /\ consecutive_failures \in 0..BreakerThreshold
  /\ last_failure \in Nat \cup {None}
  /\ to_delete \subseteq Instances
  /\ to_assign \subseteq Submissions \X Instances
  /\ to_create \in Seq(Creates)
  /\ binding \in (Submissions \X Instances) \cup {None}

(***************************************************************************)
(* Safety.                                                                 *)
(***************************************************************************)

\* A submission's chain is published at most once, whichever path it takes: never two
\* workers on one workspace, across crashes, failed publications and flips of the flag.
AtMostOneChain == \A s \in Submissions : sent[s] <= 1

\* A submission bound to a worker, whose chain is not out and which nobody is publishing:
\* only Girder's reaper ends it.
Stranded ==
  {s \in Submissions : /\ job[s].awaiting /\ job[s].queue # None /\ sent[s] = 0
                       /\ \A i \in Instances : binding # <<s, i>>}

\* A failure strands one submission at most, and nothing else does: a claim is followed by
\* its publication before the next, so that a crash or a publication that fails costs the
\* one submission dispatch.assign has in hand and not the rest of the round's.
OneStrandedPerFault == Cardinality(Stranded) <= faults

\* The instances that occupy a slot never exceed the configured cap, although the
\* count was taken several calls before the creates it allows.
Occupying == {i \in Instances : server[i].status \in {"BUILD", "ACTIVE"}}
CapRespected == Cardinality(Occupying) <= MaxInstances

\* Under targeted assignment an instance is given one submission in its life.
OneSubmissionPerInstance ==
  \A s, t \in Submissions : job[s].queue # None /\ job[s].queue = job[t].queue => s = t

\* Work is bound to, and waits in the queue of, a registered worker that neither has
\* powered itself off nor is being deleted.
WorkReachesAWorker ==
  \A i \in Instances :
    private[i] # {} \/ (binding # None /\ binding[2] = i) =>
      /\ server[i].status = "ACTIVE" /\ i \in ready /\ i \notin deleting

\* A delete hits a worker that holds a submission only past the lifetime ceiling.
NoLiveRunReaped ==
  [][\A i \in deleting' \ deleting :
       server[i].status = "ACTIVE" /\ held[i] \cup private[i] # {} =>
         server[i].age > MaxLifetime]_vars

\* Targeted assignment counts as capacity nothing that was given a submission before,
\* finished or not: the reading that left a submission waiting behind a spent worker.
CapacityIsUnclaimed ==
  pc = "decide" /\ assign =>
    \A i \in Available(FleetState, Limits), s \in Submissions : job[s].queue # i

\* Under targeted assignment no submission is provisioned for twice, although every round
\* takes its decision from readings made at different times.
OneInstancePerSubmission ==
  Cardinality({i \in Instances : server[i].status # "absent"})
    <= Cardinality({s \in Submissions : job[s].status # "absent"})

\* S7: while a submission waits to be placed, none submitted after it is placed.
OldestServedFirst ==
  \A s \in Waiting, t \in Submissions :
    s < t /\ job[s].awaiting /\ job[t].awaiting => job[t].queue = None

\* A placed submission is on an instance of the size it asked for.
RightShape ==
  \A s \in Submissions :
    job[s].awaiting /\ job[s].queue # None /\ Memory[s] # None =>
      server[job[s].queue].size = Memory[s]

(***************************************************************************)
(* Liveness.  The loop sleeps and runs again; booted workers announce and  *)
(* run what they are given; the idle supervisor fires; Nova deletes; the   *)
(* server-side reaper fails what has no worker; time passes.               *)
(***************************************************************************)

\* The life of a worker, but for its faults; each step of it happens finitely often.
Lifecycle(i) ==
  \/ Boot(i) \/ (Announce(i) /\ i \notin late) \/ TakeShared(i) \/ TakePrivate(i)
  \/ Prepare(i) \/ Finish(i) \/ PowerOff(i) \/ NovaDeletes(i)

Fairness ==
  /\ WF_vars(Round)
  /\ WF_vars(Tick)
  /\ \A i \in Instances : WF_vars(Lifecycle(i) /\ NoFault /\ UNCHANGED process)
  /\ \A s \in Submissions : WF_vars(ReapSubmission(s) /\ UNCHANGED process)

FairSpec == Spec /\ Fairness

\* Every submission ends: no reading of the fleet leaves it waiting behind capacity that
\* will never take it, and none stays RUNNING once its worker or its chain is lost.  Each is
\* submitted once, so they all end if from some moment on none is RUNNING.
EverySubmissionEnds == <>[](\A s \in Submissions : ~Running(s))

\* Scale to zero: when nothing is submitted any more, no server remains.
ScalesToZero == <>[](Listed = {})

-----------------------------------------------------------------------------
(***************************************************************************)
(* What of all this dispatch.py promises.                                  *)
(***************************************************************************)

Path(s) ==
  IF job[s].status = "absent" THEN "none"
  ELSE IF job[s].awaiting THEN "controller" ELSE "girder"

Queued == {dispatch[n] : n \in DOMAIN dispatch}
Holders(s) == {i \in Instances : s \in private[i] \cup held[i]}

Promise == INSTANCE Placement WITH
  path      <- [s \in Submissions |-> Path(s)],
  running   <- {s \in Submissions : Running(s)},
  worker    <- [s \in Submissions |-> job[s].queue],
  published <- {s \in Submissions : sent[s] > 0},
  shared    <- Queued,
  holders   <- [s \in Submissions |-> Holders(s)]

\* Every behaviour of the deployment, faults included, is one Placement allows: one chain,
\* one worker, in that order, whatever the round read and wherever it died.
KeepsThePromise == Promise!Spec

\* Never two workers on one workspace: a chain waits in the shared queue or is with one
\* instance, and that is the worker on record, however many rounds tried to place it.
OneWorkspaceOneWorker == Promise!OneWorkspaceOneWorker
=============================================================================
