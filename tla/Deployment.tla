----------------------------- MODULE Deployment -----------------------------
(***************************************************************************)
(* What the controller shares with the processes it does not own: Girder's *)
(* job documents and arm flag, the broker's queues and readiness markers,  *)
(* Nova's servers and the celery worker each server boots.                 *)
(*                                                                         *)
(* Nothing here is under src/: each action is what signals.py, fleet.py,   *)
(* dispatch.py and their comments say of that party.  Time passes in       *)
(* ticks; every age stops at the last value some limit tells apart.        *)
(***************************************************************************)
EXTENDS Common

CONSTANTS
  Submissions,   \* ids, numbered in the order they are submitted
  Instances,     \* ids Nova gives out, in the order of creation; never reused
  Memory,        \* submission -> the memory_gb it requests, or None
  AgeBound,      \* an instance's age stops here
  JobAgeBound,   \* a waiting submission's age stops here
  BootGrace,     \* a worker never powers itself off before it is older than this
  ScanLimit,     \* signals.CLAIM_SCAN_LIMIT: no query of the jobs returns more
  RoundTime,     \* ticks that fit between the starts of two rounds
  ArmedAtStart,  \* values the arm flag may have initially
  Faults,        \* the kinds of fault that may happen ...
  MaxFaults      \* ... and how many of them in a behaviour

ASSUME IdsAssumption ==
  /\ Submissions \subseteq Nat /\ IsFiniteSet(Submissions)
  /\ Instances \subseteq Nat /\ IsFiniteSet(Instances)

ASSUME BoundsAssumption ==
  /\ AgeBound \in Nat /\ JobAgeBound \in Nat /\ BootGrace \in Nat
  /\ ScanLimit \in Nat /\ RoundTime \in Nat /\ MaxFaults \in Nat
  /\ ArmedAtStart \subseteq BOOLEAN
  /\ Memory \in [Submissions -> Nat \cup {None}]

VARIABLES
  armed,      \* Girder's setting sivacor.targeted_assignment
  job,        \* submission -> its job document
  dispatch,   \* the shared queue's list in Redis
  private,    \* instance -> the chains waiting in its private queue
  ready,      \* instances whose worker wrote its readiness marker
  server,     \* instance -> what Nova reports of it
  deleting,   \* instances whose delete Nova accepted and has not finished
  held,       \* instance -> the chains its worker has reserved or executes
  consuming,  \* instances whose worker consumes the shared queue
  late,       \* instances whose provisioning went wrong: may announce late or never
  sent,       \* history: submission -> how many chains were published for it
  round,      \* ticks since the controller last started a round
  faults      \* how many faults have happened

girder == <<armed, job>>
broker == <<dispatch, private, ready, sent>>
nova == <<server, deleting>>
workers == <<held, consuming, late>>
world == <<girder, broker, nova, workers, round, faults>>

Statuses == {"absent", "BUILD", "ACTIVE", "SHUTOFF", "ERROR", "gone"}

JobRecords == [status   : {"absent", "RUNNING", "done", "removed"},
               queue    : Instances \cup {None},
               awaiting : BOOLEAN,
               age      : 0..JobAgeBound]

ServerRecords == [status : Statuses, age : 0..AgeBound, size : Nat \cup {None}]

WorldTypeOK ==
  /\ armed \in BOOLEAN
  /\ job \in [Submissions -> JobRecords]
  /\ dispatch \in Seq(Submissions)
  /\ private \in [Instances -> SUBSET Submissions]
  /\ ready \subseteq Instances
  /\ server \in [Instances -> ServerRecords]
  /\ deleting \subseteq Instances
  /\ held \in [Instances -> SUBSET Submissions]
  /\ consuming \subseteq Instances
  /\ late \subseteq Instances
  /\ sent \in [Submissions -> Nat]
  /\ round \in Nat
  /\ faults \in Nat

WorldInit ==
  /\ armed \in ArmedAtStart
  /\ job = [s \in Submissions |->
              [status |-> "absent", queue |-> None, awaiting |-> FALSE, age |-> 0]]
  /\ dispatch = << >>
  /\ private = [i \in Instances |-> {}]
  /\ ready = {}
  /\ server = [i \in Instances |-> [status |-> "absent", age |-> 0, size |-> None]]
  /\ deleting = {}
  /\ held = [i \in Instances |-> {}]
  /\ consuming = {}
  /\ late = {}
  /\ sent = [s \in Submissions |-> 0]
  /\ round = 0
  /\ faults = 0

\* A fault of this kind happens now; a step without faults leaves the count alone.
Fault(kind) == kind \in Faults /\ faults < MaxFaults /\ faults' = faults + 1
NoFault == faults' = faults

-----------------------------------------------------------------------------
\* What the controller reads.

Listed == {i \in Instances : server[i].status \notin {"absent", "gone"}}
Running(s) == job[s].status = "RUNNING"
Waiting == {s \in Submissions : Running(s) /\ job[s].queue = None}
Recorded == {s \in Submissions : job[s].status \in {"RUNNING", "done"}}

\* What a query sorted by `created` and limited returns: -1 the newest, 1 the oldest.
Newest(jobs) == {s \in jobs : Cardinality({t \in jobs : t > s}) < ScanLimit}

Oldest(jobs) == {s \in jobs : Cardinality({t \in jobs : t < s}) < ScanLimit}

\* Faulty: a claim counts only while the submission is RUNNING.
ClaimedByRunning == {job[s].queue : s \in {t \in Submissions :
                      Running(t) /\ job[t].queue # None}}

\* Claims are looked for among the newest jobs of any status, unclaimed ones included.
Claimed == {job[s].queue : s \in {t \in Newest(Recorded) : job[t].queue # None}}

-----------------------------------------------------------------------------
\* Girder.

\* submit_job: while armed it records the submission and publishes nothing.
Submit(s) ==
  /\ job[s].status = "absent"
  /\ \A t \in Submissions : t < s => job[t].status # "absent"
  /\ job' = [job EXCEPT ![s].status = "RUNNING", ![s].awaiting = armed]
  /\ IF armed THEN UNCHANGED <<dispatch, sent>>
              ELSE /\ dispatch' = Append(dispatch, s)
                   /\ sent' = [sent EXCEPT ![s] = @ + 1]
  /\ NoFault
  /\ UNCHANGED <<armed, private, ready, nova, workers, round>>

FlipArmed ==
  /\ Fault("flip")
  /\ armed' = ~armed
  /\ UNCHANGED <<job, broker, nova, workers, round>>

\* The server-side reaper fails a submission that has no sign of life: it was claimed,
\* or dispatched, and no live worker holds its chain.
HasWorker(s) ==
  \/ \E i \in Instances : server[i].status = "ACTIVE" /\ s \in held[i] \cup private[i]
  \/ \E n \in 1..Len(dispatch) : dispatch[n] = s

ReapSubmission(s) ==
  /\ Running(s) /\ ~HasWorker(s)
  /\ job[s].queue # None \/ ~job[s].awaiting
  /\ job' = [job EXCEPT ![s].status = "done"]
  /\ NoFault
  /\ UNCHANGED <<armed, broker, nova, workers, round>>

\* Its user cancels a submission: the status changes, the markers stay.
CancelSubmission(s) ==
  /\ Fault("cancel")
  /\ Running(s)
  /\ job' = [job EXCEPT ![s].status = "done"]
  /\ UNCHANGED <<armed, broker, nova, workers, round>>

\* DELETE /sivacor/submission/:id, allowed once the submission is completed.
RemoveSubmission(s) ==
  /\ Fault("remove")
  /\ job[s].status = "done"
  /\ job' = [job EXCEPT ![s].status = "removed"]
  /\ UNCHANGED <<armed, broker, nova, workers, round>>

-----------------------------------------------------------------------------
\* Servers and their workers.

Boot(i) ==
  /\ server[i].status = "BUILD"
  /\ \/ /\ server' = [server EXCEPT ![i].status = "ACTIVE"]
        /\ NoFault
        /\ UNCHANGED late
     \/ /\ server' = [server EXCEPT ![i].status = "ACTIVE"]
        /\ late' = late \cup {i}
        /\ Fault("late")
     \/ /\ server' = [server EXCEPT ![i].status = "ERROR"]
        /\ Fault("error")
        /\ UNCHANGED late
  /\ UNCHANGED <<girder, broker, deleting, held, consuming, round>>

\* What a worker has reserved and not claimed, and what it has claimed.
Unclaimed(i) == {s \in held[i] : Running(s) /\ job[s].queue # i}
Executing(i) == {s \in held[i] : job[s].queue = i}

\* The worker_ready handler: celery is up, consumes its queues, writes the marker.
Announce(i) ==
  /\ server[i].status = "ACTIVE" /\ i \notin ready
  /\ ready' = ready \cup {i}
  /\ consuming' = consuming \cup {i}
  /\ late' = late \ {i}
  /\ NoFault
  /\ UNCHANGED <<girder, dispatch, private, sent, nova, held, round>>

\* A second message before the claim of the first is celery's prefetch.
TakeShared(i) ==
  /\ server[i].status = "ACTIVE" /\ i \in consuming /\ dispatch # << >>
  /\ IF Unclaimed(i) = {} THEN NoFault ELSE Fault("prefetch")
  /\ held' = [held EXCEPT ![i] = @ \cup {Head(dispatch)}]
  /\ dispatch' = Tail(dispatch)
  /\ UNCHANGED <<girder, private, ready, sent, nova, consuming, late, round>>

\* The chain names this worker already: prepare_submission only stops consuming.
TakePrivate(i) ==
  /\ server[i].status = "ACTIVE" /\ i \in ready
  /\ \E s \in private[i] :
       /\ private' = [private EXCEPT ![i] = @ \ {s}]
       /\ held' = [held EXCEPT ![i] = @ \cup {s}]
  /\ consuming' = consuming \ {i}
  /\ NoFault
  /\ UNCHANGED <<girder, dispatch, ready, sent, nova, late, round>>

\* prepare_submission, the first task of a chain, once the worker is free to run it:
\* write worker_queue, stop consuming the shared queue.
Prepare(i) ==
  /\ server[i].status = "ACTIVE" /\ Executing(i) = {}
  /\ \E s \in Unclaimed(i) : job' = [job EXCEPT ![s].queue = i]
  /\ consuming' = consuming \ {i}
  /\ NoFault
  /\ UNCHANGED <<armed, broker, nova, held, late, round>>

\* The chain ends; one whose submission was failed meanwhile is dropped.
Finish(i) ==
  /\ server[i].status = "ACTIVE"
  /\ \E s \in held[i] \ Unclaimed(i) :
       /\ held' = [held EXCEPT ![i] = @ \ {s}]
       /\ job' = IF Running(s) THEN [job EXCEPT ![s].status = "done"] ELSE job
  /\ NoFault
  /\ UNCHANGED <<armed, broker, nova, consuming, late, round>>

\* The idle supervisor, written by the script that failed when the boot is late.
PowerOff(i) ==
  /\ server[i].status = "ACTIVE" /\ i \notin late
  /\ server[i].age > BootGrace /\ held[i] = {} /\ private[i] = {}
  /\ server' = [server EXCEPT ![i].status = "SHUTOFF"]
  /\ consuming' = consuming \ {i}
  /\ NoFault
  /\ UNCHANGED <<girder, broker, deleting, held, late, round>>

\* celery unreachable for 8 ticks: powered off under a live run.
DieMidRun(i) ==
  /\ Fault("vm")
  /\ server[i].status = "ACTIVE"
  /\ server' = [server EXCEPT ![i].status = "SHUTOFF"]
  /\ consuming' = consuming \ {i}
  /\ held' = [held EXCEPT ![i] = {}]
  /\ UNCHANGED <<girder, broker, deleting, late, round>>

\* The supervisor restarts a wedged worker, which subscribes to the shared queue again.
Wedge(i) ==
  /\ Fault("wedge")
  /\ server[i].status = "ACTIVE" /\ held[i] # {} /\ i \notin consuming
  /\ consuming' = consuming \cup {i}
  /\ UNCHANGED <<girder, broker, nova, held, late, round>>

NovaDeletes(i) ==
  /\ i \in deleting
  /\ server' = [server EXCEPT ![i].status = "gone"]
  /\ deleting' = deleting \ {i}
  /\ held' = [held EXCEPT ![i] = {}]
  /\ consuming' = consuming \ {i}
  /\ NoFault
  /\ UNCHANGED <<girder, broker, late, round>>

-----------------------------------------------------------------------------
\* Time.  A tick is long against a boot and against the delivery of a message.

Prompt ==
  \A i \in Instances :
    /\ server[i].status # "BUILD"
    /\ server[i].status = "ACTIVE" =>
         /\ i \in ready \cup late
         /\ i \in ready => private[i] = {}
         /\ i \in consuming /\ held[i] = {} => dispatch = << >>
         /\ Unclaimed(i) # {} => Executing(i) # {}

Aged(age, bound) == IF age < bound THEN age + 1 ELSE age

AgesAdvance ==
  /\ server' = [i \in Instances |->
                  IF server[i].status = "absent" THEN server[i]
                  ELSE [server[i] EXCEPT !.age = Aged(@, AgeBound)]]
  /\ job' = [s \in Submissions |->
               IF s \in Waiting THEN [job[s] EXCEPT !.age = Aged(@, JobAgeBound)]
               ELSE job[s]]
  /\ UNCHANGED <<armed, broker, deleting, workers>>
=============================================================================
