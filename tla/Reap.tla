-------------------------------- MODULE Reap --------------------------------
(***************************************************************************)
(* What a reap keeps: the console of a worker that misbehaved or whose run *)
(* the house pays for, and the lifetime that accounting needs.  Both live  *)
(* on the server, so both are lost with it; every reading, the capture and *)
(* the record may fail, and none may stop the reap.                        *)
(*                                                                         *)
(* Each instance has one run, as under targeted assignment, and its age is *)
(* only young (0) or past the lifetime ceiling (1).                        *)
(***************************************************************************)
EXTENDS Plan

CONSTANTS
  Instances,
  DiagnosticsDir,   \* whether SIVACOR_DIAGNOSTICS_DIR is set
  Faults, MaxFaults \* of a delete that is refused and of a crash

ASSUME ReapAssumption ==
  /\ IsFiniteSet(Instances) /\ None \notin Instances
  /\ DiagnosticsDir \in BOOLEAN /\ MaxFaults \in Nat

VARIABLES
  server,       \* instance -> [status, age]
  run,          \* instance -> the state of its submission
  attribution,  \* instance -> its usage row: none, "house" or "user", or "drained"
  lifetimes,    \* instances whose lifetime Girder was told
  dumps,        \* instance -> the dumps written for it
  unread,       \* history: instances a failed reading, capture or record was about
  faults,
  pc,           \* "idle", "gather", "decide", "act" or "down"
  snap, to_delete, abnormal,
  reaping,      \* the instance being reaped
  stage         \* the position in GatherOrder or ReapOrder

vars == <<server, run, attribution, lifetimes, dumps, unread, faults,
          pc, snap, to_delete, abnormal, reaping, stage>>
world == <<server, run, attribution>>
kept == <<lifetimes, dumps, unread>>

NoSnapshot == [instances |-> << >>, running_jobs |-> {}, house_paid |-> {}]

Init ==
  /\ server = [i \in Instances |-> [status |-> "absent", age |-> 0]]
  /\ run = [i \in Instances |-> "none"]
  /\ attribution = [i \in Instances |-> "none"]
  /\ lifetimes = {} /\ dumps = [i \in Instances |-> {}] /\ unread = {}
  /\ faults = 0 /\ pc = "idle" /\ snap = NoSnapshot
  /\ to_delete = {} /\ abnormal = {} /\ reaping = None /\ stage = 0

Fault(kind) == kind \in Faults /\ faults < MaxFaults /\ faults' = faults + 1
NoFault == faults' = faults

-----------------------------------------------------------------------------
(***************************************************************************)
(* Workers, Girder and Nova.                                               *)
(***************************************************************************)

Appear(i) ==
  /\ server[i].status = "absent"
  /\ server' = [server EXCEPT ![i].status = "ACTIVE"]
  /\ run' = [run EXCEPT ![i] = "RUNNING"]
  /\ attribution' = attribution

\* A run ends with its usage row; one that dies with its worker is failed by Girder's
\* reaper, at the house's expense.
EndRun(i) ==
  /\ run[i] = "RUNNING" /\ server[i].status # "absent"
  /\ \E end \in {"finished", "failed"} :
       /\ server[i].status # "ACTIVE" => end = "failed"
       /\ run' = [run EXCEPT ![i] = end]
       /\ \E payer \in {"house", "user"} :
            /\ end = "finished" => payer = "user"
            /\ server[i].status # "ACTIVE" => payer = "house"
            /\ attribution' = [attribution EXCEPT ![i] = payer]
  /\ server' = server

\* The idle supervisor, or a VM that dies under a live run.
PowerOff(i) ==
  /\ server[i].status = "ACTIVE"
  /\ server' = [server EXCEPT ![i].status = "SHUTOFF"]
  /\ UNCHANGED <<run, attribution>>

GrowOld(i) ==
  /\ server[i].status = "ACTIVE" /\ server[i].age = 0
  /\ server' = [server EXCEPT ![i].age = 1]
  /\ UNCHANGED <<run, attribution>>

\* usage.drain claims a row once the matching lifetime is there.
Drain(i) ==
  /\ i \in lifetimes /\ attribution[i] \in {"house", "user"}
  /\ attribution' = [attribution EXCEPT ![i] = "drained"]
  /\ UNCHANGED <<server, run>>

Environment ==
  /\ \E i \in Instances : Appear(i) \/ EndRun(i) \/ PowerOff(i) \/ GrowOld(i) \/ Drain(i)
  /\ UNCHANGED <<kept, faults, pc, snap, to_delete, abnormal, reaping, stage>>

-----------------------------------------------------------------------------
(***************************************************************************)
(* gather() and decide().                                                  *)
(***************************************************************************)

\* Faulty: who pays is asked before who runs.
GatherHouseFirst == <<"instances", "house_paid", "running_jobs">>

GatherOrder == <<"instances", "running_jobs", "house_paid">>

Limits ==
  [max_instances |-> 0, max_lifetime |-> 0, breaker_threshold |-> 1,
   provision_deadline |-> None, volume_orphan_grace |-> None]

FleetState ==
  [instances |-> [i \in DOMAIN snap.instances |->
                    [status |-> snap.instances[i].status, age |-> snap.instances[i].age,
                     size |-> None, volume_gb |-> None]],
   spent |-> {}, ready |-> {}, running_jobs |-> snap.running_jobs,
   house_paid |-> snap.house_paid, volumes |-> << >>]

BeginRound ==
  /\ pc = "idle" /\ pc' = "gather" /\ stage' = 1
  /\ NoFault
  /\ UNCHANGED <<world, kept, snap, to_delete, abnormal, reaping>>

Listed == {i \in Instances : server[i].status \notin {"absent", "gone"}}

\* Both lookups swallow their errors: a failed one is empty.
Lookup(field, found) ==
  \/ snap' = [snap EXCEPT ![field] = found] /\ unread' = unread
  \/ snap' = snap /\ unread' = unread \cup DOMAIN snap.instances

Read ==
  /\ pc = "gather"
  /\ CASE GatherOrder[stage] = "instances" ->
            /\ snap' = [snap EXCEPT !.instances = [i \in Listed |-> server[i]]]
            /\ unread' = unread
       [] GatherOrder[stage] = "running_jobs" ->
            Lookup("running_jobs", {i \in Instances : run[i] = "RUNNING"})
       [] GatherOrder[stage] = "house_paid" ->
            Lookup("house_paid", {i \in DOMAIN snap.instances : attribution[i] = "house"})
  /\ IF stage < Len(GatherOrder) THEN pc' = pc /\ stage' = stage + 1
                                 ELSE pc' = "decide" /\ stage' = 0
  /\ NoFault
  /\ UNCHANGED <<world, lifetimes, dumps, to_delete, abnormal, reaping>>

Decide ==
  /\ pc = "decide" /\ pc' = "act"
  /\ to_delete' = Delete(FleetState, Limits)
  /\ abnormal' = Abnormal(FleetState, Limits)
  /\ NoFault
  /\ UNCHANGED <<world, kept, snap, reaping, stage>>

-----------------------------------------------------------------------------
(***************************************************************************)
(* The reap of one instance.                                               *)
(***************************************************************************)

\* Faulty: a server that is gone is accounted for.
ReapOrderRecordLast == <<"capture", "delete", "record">>

ReapOrder == <<"capture", "record", "delete">>

At(step) == pc = "act" /\ stage \in DOMAIN ReapOrder /\ ReapOrder[stage] = step

Onwards ==
  IF stage < Len(ReapOrder) THEN stage' = stage + 1 /\ reaping' = reaping
                            ELSE stage' = 0 /\ reaping' = None

BeginReap ==
  /\ pc = "act" /\ reaping = None
  /\ \E i \in to_delete : reaping' = i /\ to_delete' = to_delete \ {i}
  /\ stage' = 1
  /\ NoFault
  /\ UNCHANGED <<world, kept, pc, snap, abnormal>>

\* What the dump says: whether a submission was still RUNNING, and the console.
Render(console) ==
  [running |-> reaping \in snap.running_jobs, console |-> console]

\* Nova has the console until it accepts the delete.
HasConsole == server[reaping].status # "gone"

\* Faulty: a capture that fails ends the round.
CaptureRaises ==
  /\ At("capture")
  /\ \/ /\ dumps' = IF reaping \in abnormal /\ DiagnosticsDir
                    THEN [dumps EXCEPT ![reaping] = @ \cup {Render(HasConsole)}] ELSE dumps
        /\ Onwards
        /\ UNCHANGED <<pc, snap, to_delete, abnormal>>
     \/ /\ reaping \in abnormal /\ DiagnosticsDir
        /\ pc' = "idle" /\ snap' = NoSnapshot /\ to_delete' = {} /\ abnormal' = {}
        /\ reaping' = None /\ stage' = 0 /\ dumps' = dumps
  /\ NoFault
  /\ UNCHANGED <<world, lifetimes, unread>>

\* An unreadable console is missing from the dump; any other failure leaves no dump.
Capture ==
  /\ At("capture")
  /\ IF reaping \in abnormal /\ DiagnosticsDir
     THEN \/ /\ dumps' = [dumps EXCEPT ![reaping] = @ \cup {Render(HasConsole)}]
             /\ unread' = unread
          \/ /\ dumps' \in {dumps, [dumps EXCEPT ![reaping] = @ \cup {Render(FALSE)}]}
             /\ unread' = unread \cup {reaping}
     ELSE UNCHANGED <<dumps, unread>>
  /\ Onwards
  /\ NoFault
  /\ UNCHANGED <<world, lifetimes, pc, snap, to_delete, abnormal>>

RecordLifetime ==
  /\ At("record")
  /\ \/ lifetimes' = lifetimes \cup {reaping} /\ unread' = unread
     \/ lifetimes' = lifetimes /\ unread' = unread \cup {reaping}
  /\ Onwards
  /\ NoFault
  /\ UNCHANGED <<world, dumps, pc, snap, to_delete, abnormal>>

DeleteInstance ==
  /\ At("delete")
  /\ \/ server' = [server EXCEPT ![reaping].status = "gone"] /\ NoFault
     \/ server' = server /\ Fault("delete")
  /\ Onwards
  /\ UNCHANGED <<run, attribution, kept, pc, snap, to_delete, abnormal>>

EndRound ==
  /\ pc = "act" /\ reaping = None /\ to_delete = {}
  /\ pc' = "idle" /\ snap' = NoSnapshot /\ abnormal' = {}
  /\ NoFault
  /\ UNCHANGED <<world, kept, to_delete, reaping, stage>>

Crash ==
  /\ pc # "down" /\ Fault("crash")
  /\ pc' = "down" /\ snap' = NoSnapshot
  /\ to_delete' = {} /\ abnormal' = {} /\ reaping' = None /\ stage' = 0
  /\ UNCHANGED <<world, kept>>

Restart ==
  /\ pc = "down" /\ pc' = "idle"
  /\ NoFault
  /\ UNCHANGED <<world, kept, snap, to_delete, abnormal, reaping, stage>>

Round ==
  \/ BeginRound \/ Read \/ Decide \/ BeginReap \/ Capture \/ RecordLifetime
  \/ DeleteInstance \/ EndRound \/ Restart

Next == Round \/ Crash \/ Environment

Spec == Init /\ [][Next]_vars

FairSpec == Spec /\ WF_vars(Round)

-----------------------------------------------------------------------------
\* Every variable has its type: what is reaped and what is captured are instances of
\* this round's listing (by_id[instance_id]), and a reap in progress has its stage.
TypeOK ==
  /\ server \in [Instances -> [status : {"absent", "ACTIVE", "SHUTOFF", "gone"}, age : 0..1]]
  /\ run \in [Instances -> {"none", "RUNNING", "finished", "failed"}]
  /\ attribution \in [Instances -> {"none", "house", "user", "drained"}]
  /\ lifetimes \subseteq Instances /\ unread \subseteq Instances
  /\ dumps \in [Instances -> SUBSET [running : BOOLEAN, console : BOOLEAN]]
  /\ faults \in 0..MaxFaults
  /\ pc \in {"idle", "gather", "decide", "act", "down"}
  /\ to_delete \cup abnormal \cup ({reaping} \ {None}) \subseteq DOMAIN snap.instances
  /\ DOMAIN snap.instances \subseteq Instances
  /\ CASE pc = "gather" -> stage \in DOMAIN GatherOrder
       [] reaping # None -> stage \in DOMAIN ReapOrder
       [] OTHER -> stage = 0

\* What a dump is owed for: a worker that died under its run, a run that failed at the
\* house's expense, a supervisor that never fired.
DiedMidRun(i) == server[i].status # "ACTIVE" /\ run[i] = "RUNNING"
Owed(i) == DiedMidRun(i) \/ attribution[i] = "house"

\* No worker's evidence goes with it unless something failed to be read or written: the
\* readings are taken at different times, and a refused delete or a crash repeats them.
EvidenceSurvives ==
  DiagnosticsDir =>
    \A i \in Instances \ unread :
      server[i].status = "gone" /\ Owed(i) => \E d \in dumps[i] : d.console

\* No instance goes before its lifetime is on record, or the record failed.
AccountedBeforeGone ==
  \A i \in Instances \ unread : server[i].status = "gone" => i \in lifetimes

\* Nothing that fails along the way stops a reap: every server that powered off goes.
ReapWins == \A i \in Instances : server[i].status = "SHUTOFF" ~> server[i].status = "gone"

=============================================================================
