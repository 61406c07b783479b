----------------------------- MODULE ReapProofs -----------------------------
(***************************************************************************)
(* What a reap keeps, for every fleet and every fault: the console of each *)
(* run that is owed one, and a lifetime for each instance.                 *)
(*                                                                         *)
(* The argument follows the evidence through the round.  A server that was *)
(* listed as SHUTOFF stays so, hence a run that is not RUNNING when it is  *)
(* asked for has ended for good, and an attribution that is not the        *)
(* house's when it is asked for after that never becomes so.               *)
(***************************************************************************)
EXTENDS Reap, TLAPS

\* What is known, during the gathering, of the instances no lookup failed for.
KnownDead == \A i \in DOMAIN snap.instances :
  snap.instances[i].status = "SHUTOFF" => server[i].status = "SHUTOFF"

KnownEnded == \A i \in DOMAIN snap.instances \ unread :
  snap.instances[i].status = "SHUTOFF" /\ i \notin snap.running_jobs => run[i] # "RUNNING"

KnownPaid == \A i \in DOMAIN snap.instances \ unread :
  snap.instances[i].status = "SHUTOFF" /\ i \notin snap.running_jobs \cup snap.house_paid
    => attribution[i] # "house"

Reaped == to_delete \cup ({reaping} \ {None})

GatherInv ==
  /\ pc \in {"gather", "decide"} =>
       \A i \in DOMAIN snap.instances : server[i].status \notin {"absent", "gone"}
  /\ pc \in {"gather", "decide"} => KnownDead
  /\ pc = "decide" \/ (pc = "gather" /\ stage = 3) => KnownEnded
  /\ pc = "decide" => KnownPaid

Settled(i) == run[i] # "RUNNING" /\ attribution[i] # "house" /\ server[i].status # "ACTIVE"

HasDump(i) == \E d \in dumps[i] : d.console

ReapInv ==
  /\ reaping \notin to_delete
  /\ \A i \in Reaped : server[i].status \notin {"absent", "gone"}
  /\ \A i \in Reaped \ (abnormal \cup unread) : Settled(i)
  /\ pc = "act" /\ stage \in {2, 3} /\ reaping \in abnormal \ unread /\ DiagnosticsDir =>
       HasDump(reaping)
  /\ pc = "act" /\ stage = 3 /\ reaping \notin unread => reaping \in lifetimes

SnapTyped ==
  snap = [instances |-> snap.instances, running_jobs |-> snap.running_jobs,
          house_paid |-> snap.house_paid]

Inv ==
  /\ TypeOK /\ SnapTyped
  /\ to_delete # {} \/ reaping # None => pc = "act"
  /\ pc \in {"idle", "down"} \/ (pc = "gather" /\ stage = 1) => DOMAIN snap.instances = {}
  /\ GatherInv /\ ReapInv
  /\ EvidenceSurvives /\ AccountedBeforeGone

LEMMA GatherOrderIs ==
  /\ DOMAIN GatherOrder = 1..3 /\ Len(GatherOrder) = 3
  /\ GatherOrder[1] = "instances" /\ GatherOrder[2] = "running_jobs"
  /\ GatherOrder[3] = "house_paid"
  BY DEF GatherOrder

LEMMA ReapOrderIs ==
  /\ DOMAIN ReapOrder = 1..3 /\ Len(ReapOrder) = 3
  /\ ReapOrder[1] = "capture" /\ ReapOrder[2] = "record" /\ ReapOrder[3] = "delete"
  BY DEF ReapOrder

LEMMA InitInv == Init => Inv
<1> SUFFICES ASSUME Init PROVE Inv
  OBVIOUS
<1>1. TypeOK
  BY ReapAssumption DEF Init, TypeOK, NoSnapshot
<1>2. SnapTyped /\ GatherInv
  BY DEF Init, SnapTyped, NoSnapshot, GatherInv
<1>3. ReapInv
  BY DEF Init, ReapInv, Reaped
<1>4. EvidenceSurvives /\ AccountedBeforeGone
  BY DEF Init, EvidenceSurvives, AccountedBeforeGone
<1>5. DOMAIN snap.instances = {}
  BY DEF Init, NoSnapshot
<1> QED
  BY <1>1, <1>2, <1>3, <1>4, <1>5 DEF Init, Inv

-----------------------------------------------------------------------------
\* Workers, Girder and Nova: what they do to one instance.

LEMMA AppearKeepsInv ==
  ASSUME Inv, NEW i \in Instances, Appear(i),
         UNCHANGED <<kept, faults, pc, snap, to_delete, abnormal, reaping, stage>>
  PROVE  Inv'
<1> USE ReapAssumption
<1>1. /\ server[i].status = "absent"
      /\ server' = [server EXCEPT ![i].status = "ACTIVE"]
      /\ run' = [run EXCEPT ![i] = "RUNNING"]
      /\ attribution' = attribution
  BY DEF Appear
<1>2. TypeOK' /\ SnapTyped'
  BY <1>1 DEF Inv, TypeOK, SnapTyped, kept
<1>3. GatherInv'
  BY <1>1 DEF Inv, TypeOK, GatherInv, KnownDead, KnownEnded, KnownPaid, kept
<1>4. ReapInv'
  BY <1>1 DEF Inv, TypeOK, ReapInv, Reaped, Settled, HasDump, kept
<1>5. EvidenceSurvives' /\ AccountedBeforeGone'
  BY <1>1 DEF Inv, TypeOK, EvidenceSurvives, AccountedBeforeGone, Owed, DiedMidRun, kept
<1> QED
  BY <1>2, <1>3, <1>4, <1>5 DEF Inv

LEMMA EndRunKeepsInv ==
  ASSUME Inv, NEW i \in Instances, EndRun(i),
         UNCHANGED <<kept, faults, pc, snap, to_delete, abnormal, reaping, stage>>
  PROVE  Inv'
<1> USE ReapAssumption
<1>1. PICK end \in {"finished", "failed"}, payer \in {"house", "user"} :
        /\ run[i] = "RUNNING"
        /\ run' = [run EXCEPT ![i] = end]
        /\ attribution' = [attribution EXCEPT ![i] = payer]
        /\ server' = server
  BY DEF EndRun
<1>2. TypeOK' /\ SnapTyped'
  BY <1>1 DEF Inv, TypeOK, SnapTyped, kept
<1>3. GatherInv'
  BY <1>1 DEF Inv, TypeOK, GatherInv, KnownDead, KnownEnded, KnownPaid, kept
<1>4. ReapInv'
  BY <1>1 DEF Inv, TypeOK, ReapInv, Reaped, Settled, HasDump, kept
<1>5. EvidenceSurvives' /\ AccountedBeforeGone'
  BY <1>1 DEF Inv, TypeOK, EvidenceSurvives, AccountedBeforeGone, Owed, DiedMidRun, kept
<1> QED
  BY <1>2, <1>3, <1>4, <1>5, <1>1 DEF Inv

LEMMA ServerKeepsInv ==
  ASSUME Inv, NEW i \in Instances, PowerOff(i) \/ GrowOld(i) \/ Drain(i),
         UNCHANGED <<kept, faults, pc, snap, to_delete, abnormal, reaping, stage>>
  PROVE  Inv'
<1> USE ReapAssumption
<1>1. /\ run' = run
      /\ \A j \in Instances :
           /\ server'[j].status = server[j].status
                \/ (server[j].status = "ACTIVE" /\ server'[j].status = "SHUTOFF")
           /\ attribution'[j] = attribution[j] \/ attribution'[j] = "drained"
  BY DEF Inv, TypeOK, PowerOff, GrowOld, Drain
<1>2. TypeOK' /\ SnapTyped'
  <2>1. CASE PowerOff(i)
    BY <2>1 DEF Inv, TypeOK, SnapTyped, kept, PowerOff
  <2>2. CASE GrowOld(i)
    BY <2>2 DEF Inv, TypeOK, SnapTyped, kept, GrowOld
  <2>3. CASE Drain(i)
    BY <2>3 DEF Inv, TypeOK, SnapTyped, kept, Drain
  <2> QED
    BY <2>1, <2>2, <2>3
<1>3. GatherInv'
  BY <1>1 DEF Inv, TypeOK, GatherInv, KnownDead, KnownEnded, KnownPaid, kept
<1>4. ReapInv'
  BY <1>1 DEF Inv, TypeOK, ReapInv, Reaped, Settled, HasDump, kept
<1>5. EvidenceSurvives' /\ AccountedBeforeGone'
  BY <1>1 DEF Inv, TypeOK, EvidenceSurvives, AccountedBeforeGone, Owed, DiedMidRun, kept
<1> QED
  BY <1>2, <1>3, <1>4, <1>5 DEF Inv

LEMMA EnvironmentKeepsInv == Inv /\ Environment => Inv'
  BY AppearKeepsInv, EndRunKeepsInv, ServerKeepsInv DEF Environment

-----------------------------------------------------------------------------
\* The gathering and the decision.

LEMMA BeginRoundKeepsInv == Inv /\ BeginRound => Inv'
<1> SUFFICES ASSUME Inv, BeginRound PROVE Inv'
  OBVIOUS
<1> USE ReapAssumption, GatherOrderIs, ReapOrderIs
<1>1. to_delete = {} /\ reaping = None /\ DOMAIN snap.instances = {}
  BY DEF Inv, BeginRound
<1>2. TypeOK' /\ SnapTyped'
  BY <1>1 DEF Inv, TypeOK, SnapTyped, BeginRound, NoFault, world, kept
<1>3. GatherInv' /\ ReapInv'
  BY <1>1 DEF Inv, BeginRound, GatherInv, KnownDead, ReapInv, Reaped
<1>4. EvidenceSurvives' /\ AccountedBeforeGone'
  BY DEF Inv, BeginRound, EvidenceSurvives, AccountedBeforeGone, Owed, DiedMidRun, HasDump,
         world, kept
<1> QED
  BY <1>1, <1>2, <1>3, <1>4 DEF Inv, BeginRound

\* A reading leaves the world and what was kept alone.
LEMMA ReadKeepsWorld ==
  ASSUME Inv, Read
  PROVE  /\ UNCHANGED <<world, lifetimes, dumps, to_delete, abnormal, reaping>>
         /\ to_delete = {} /\ reaping = None
         /\ unread \subseteq unread' /\ unread' \subseteq unread \cup DOMAIN snap.instances
         /\ ReapInv' /\ EvidenceSurvives' /\ AccountedBeforeGone'
<1>1. /\ UNCHANGED <<world, lifetimes, dumps, to_delete, abnormal, reaping>>
      /\ pc = "gather" /\ pc' # "act"
  BY DEF Read
<1>2. to_delete = {} /\ reaping = None
  BY <1>1 DEF Inv
<1>3. unread \subseteq unread' /\ unread' \subseteq unread \cup DOMAIN snap.instances
  <2>1. stage \in 1..3
    BY <1>1, GatherOrderIs DEF Inv, TypeOK
  <2>2. CASE stage = 1
    BY <2>2, <1>1, GatherOrderIs DEF Read
  <2>3. CASE stage = 2
    BY <2>3, <1>1, GatherOrderIs DEF Read, Lookup
  <2>4. CASE stage = 3
    BY <2>4, <1>1, GatherOrderIs DEF Read, Lookup
  <2> QED
    BY <2>1, <2>2, <2>3, <2>4
<1>4. ReapInv'
  BY <1>1, <1>2 DEF ReapInv, Reaped
<1>5. EvidenceSurvives' /\ AccountedBeforeGone'
  BY <1>1, <1>3 DEF Inv, EvidenceSurvives, AccountedBeforeGone, Owed, DiedMidRun, world
<1> QED
  BY <1>1, <1>2, <1>3, <1>4, <1>5

LEMMA ReadInstancesKeepsInv ==
  ASSUME Inv, Read, stage = 1
  PROVE  Inv'
<1> USE ReapAssumption, GatherOrderIs
<1>1. /\ pc = "gather" /\ pc' = "gather" /\ stage' = 2 /\ unread' = unread
      /\ snap' = [snap EXCEPT !.instances = [i \in Listed |-> server[i]]]
      /\ NoFault
  BY DEF Read
<1>2. /\ DOMAIN snap'.instances = Listed
      /\ \A i \in Listed : snap'.instances[i] = server[i]
      /\ SnapTyped'
  BY <1>1 DEF Inv, SnapTyped
<1>3. TypeOK'
  BY <1>1, <1>2, ReadKeepsWorld DEF Inv, TypeOK, NoFault, world, Listed
<1>4. GatherInv'
  BY <1>1, <1>2, ReadKeepsWorld DEF GatherInv, KnownDead, Listed, world
<1> QED
  BY <1>1, <1>2, <1>3, <1>4, ReadKeepsWorld DEF Inv

LEMMA ReadRunningKeepsInv ==
  ASSUME Inv, Read, stage = 2
  PROVE  Inv'
<1> USE ReapAssumption, GatherOrderIs
<1>1. /\ pc = "gather" /\ pc' = "gather" /\ stage' = 3
      /\ NoFault
      /\ Lookup("running_jobs", {i \in Instances : run[i] = "RUNNING"})
  BY DEF Read
<1>2. snap'.instances = snap.instances /\ SnapTyped'
  BY <1>1 DEF Inv, SnapTyped, Lookup
<1>3. TypeOK'
  BY <1>1, <1>2, ReadKeepsWorld DEF Inv, TypeOK, NoFault, world
<1>4. KnownDead'
  BY <1>1, <1>2, ReadKeepsWorld DEF Inv, GatherInv, KnownDead, world
<1>5. KnownEnded'
  <2>1. CASE unread' = unread \cup DOMAIN snap.instances
    BY <2>1, <1>2 DEF KnownEnded
  <2>2. CASE snap'.running_jobs = {i \in Instances : run[i] = "RUNNING"}
    BY <2>2, <1>2, ReadKeepsWorld DEF KnownEnded, world, Inv, TypeOK
  <2> QED
    BY <2>1, <2>2, <1>1 DEF Lookup, Inv, SnapTyped
<1>6. GatherInv'
  BY <1>1, <1>2, <1>4, <1>5, ReadKeepsWorld DEF Inv, GatherInv, world
<1> QED
  BY <1>1, <1>2, <1>3, <1>6, ReadKeepsWorld DEF Inv

LEMMA ReadHousePaidKeepsInv ==
  ASSUME Inv, Read, stage = 3
  PROVE  Inv'
<1> USE ReapAssumption, GatherOrderIs
<1>1. /\ pc = "gather" /\ pc' = "decide" /\ stage' = 0
      /\ NoFault
      /\ Lookup("house_paid", {i \in DOMAIN snap.instances : attribution[i] = "house"})
  BY DEF Read
<1>2. snap'.instances = snap.instances /\ snap'.running_jobs = snap.running_jobs /\ SnapTyped'
  BY <1>1 DEF Inv, SnapTyped, Lookup
<1>3. TypeOK'
  BY <1>1, <1>2, ReadKeepsWorld DEF Inv, TypeOK, NoFault, world
<1>4. KnownDead'
  BY <1>1, <1>2, ReadKeepsWorld DEF Inv, GatherInv, KnownDead, world
<1>5. KnownEnded'
  BY <1>1, <1>2, ReadKeepsWorld DEF Inv, GatherInv, KnownEnded, world
<1>6. KnownPaid'
  <2>1. CASE unread' = unread \cup DOMAIN snap.instances
    BY <2>1, <1>2 DEF KnownPaid
  <2>2. CASE snap'.house_paid = {i \in DOMAIN snap.instances : attribution[i] = "house"}
    BY <2>2, <1>2, ReadKeepsWorld DEF KnownPaid, world
  <2> QED
    BY <2>1, <2>2, <1>1 DEF Lookup, Inv, SnapTyped
<1>7. GatherInv'
  BY <1>1, <1>2, <1>4, <1>5, <1>6, ReadKeepsWorld DEF Inv, GatherInv, world
<1> QED
  BY <1>1, <1>2, <1>3, <1>7, ReadKeepsWorld DEF Inv

LEMMA ReadKeepsInv == Inv /\ Read => Inv'
<1> SUFFICES ASSUME Inv, Read PROVE Inv'
  OBVIOUS
<1>1. stage \in 1..3
  BY GatherOrderIs DEF Inv, TypeOK, Read
<1> QED
  BY <1>1, ReadInstancesKeepsInv, ReadRunningKeepsInv, ReadHousePaidKeepsInv

\* What is reaped is listed; what is reaped without alarm was listed as SHUTOFF, without
\* a running job and without the house as its payer.
LEMMA WhatIsReaped ==
  /\ Delete(FleetState, Limits) \subseteq DOMAIN snap.instances
  /\ Abnormal(FleetState, Limits) \subseteq DOMAIN snap.instances
  /\ \A i \in Delete(FleetState, Limits) \ Abnormal(FleetState, Limits) :
       /\ snap.instances[i].status = "SHUTOFF"
       /\ i \notin snap.running_jobs /\ i \notin snap.house_paid
<1>1. /\ DOMAIN FleetState.instances = DOMAIN snap.instances
      /\ \A i \in DOMAIN snap.instances :
           FleetState.instances[i].status = snap.instances[i].status
      /\ FleetState.running_jobs = snap.running_jobs
      /\ FleetState.house_paid = snap.house_paid
  BY DEF FleetState
<1>2. Delete(FleetState, Limits) \subseteq DOMAIN snap.instances
  BY <1>1 DEF Delete, ShutOff, FailedToProvision, OverLifetime, Live
<1> HIDE DEF FleetState
<1> QED
  BY <1>1, <1>2 DEF Abnormal, ShutOff

LEMMA DecideKeepsInv == Inv /\ Decide => Inv'
<1> SUFFICES ASSUME Inv, Decide PROVE Inv'
  OBVIOUS
<1> USE ReapAssumption, ReapOrderIs
<1>1. /\ pc = "decide" /\ pc' = "act" /\ reaping = None /\ reaping' = None
      /\ to_delete' = Delete(FleetState, Limits)
      /\ abnormal' = Abnormal(FleetState, Limits)
      /\ UNCHANGED <<world, kept, snap, stage>>
  BY DEF Decide, Inv
<1>2. TypeOK' /\ SnapTyped'
  BY <1>1, WhatIsReaped DEF Inv, TypeOK, SnapTyped, Decide, NoFault, world, kept
<1>3. ReapInv'
  <2>1. Reaped' \subseteq DOMAIN snap.instances /\ Reaped' = to_delete'
    BY <1>1, WhatIsReaped DEF Reaped
  <2>2. \A i \in Reaped' : server'[i].status \notin {"absent", "gone"}
    BY <2>1, <1>1 DEF Inv, GatherInv, world
  <2>3. ASSUME NEW i \in Reaped' \ (abnormal' \cup unread') PROVE Settled(i)'
    <3>1. /\ snap.instances[i].status = "SHUTOFF" /\ i \in DOMAIN snap.instances \ unread
          /\ i \notin snap.running_jobs /\ i \notin snap.house_paid
      BY <2>1, <2>3, <1>1, WhatIsReaped DEF kept
    <3>2. KnownDead /\ KnownEnded /\ KnownPaid
      BY <1>1 DEF Inv, GatherInv
    <3> QED
      BY <3>1, <3>2, <1>1 DEF KnownDead, KnownEnded, KnownPaid, Settled, world
  <2>4. reaping' \notin to_delete'
    BY <2>1, <1>1 DEF Inv, TypeOK
  <2>5. stage' = 0
    BY <1>1 DEF Inv, TypeOK
  <2> QED
    BY <2>2, <2>3, <2>4, <2>5 DEF ReapInv
<1>4. EvidenceSurvives' /\ AccountedBeforeGone'
  BY <1>1 DEF Inv, EvidenceSurvives, AccountedBeforeGone, Owed, DiedMidRun, world, kept
<1> QED
  BY <1>1, <1>2, <1>3, <1>4 DEF Inv, GatherInv

-----------------------------------------------------------------------------
\* The reap of one instance.

LEMMA BeginReapKeepsInv == Inv /\ BeginReap => Inv'
<1> SUFFICES ASSUME Inv, BeginReap PROVE Inv'
  OBVIOUS
<1> USE ReapAssumption, ReapOrderIs
<1>1. /\ pc = "act" /\ reaping = None /\ reaping' \in to_delete /\ stage' = 1
      /\ to_delete' = to_delete \ {reaping'}
      /\ UNCHANGED <<world, kept, pc, snap, abnormal>> /\ NoFault
  BY DEF BeginReap
<1>2. reaping' # None /\ Reaped' = Reaped
  BY <1>1 DEF Inv, TypeOK, Reaped
<1>3. TypeOK' /\ SnapTyped'
  BY <1>1, <1>2 DEF Inv, TypeOK, SnapTyped, NoFault, world, kept
<1>4. ReapInv'
  BY <1>1, <1>2 DEF Inv, ReapInv, Settled, HasDump, world, kept
<1>5. EvidenceSurvives' /\ AccountedBeforeGone'
  BY <1>1 DEF Inv, EvidenceSurvives, AccountedBeforeGone, Owed, DiedMidRun, world, kept
<1> QED
  BY <1>1, <1>3, <1>4, <1>5 DEF Inv, GatherInv

LEMMA CaptureKeepsInv == Inv /\ Capture => Inv'
<1> SUFFICES ASSUME Inv, Capture PROVE Inv'
  OBVIOUS
<1> USE ReapAssumption, ReapOrderIs
<1>1. /\ pc = "act" /\ stage = 1 /\ stage' = 2 /\ reaping' = reaping
      /\ UNCHANGED <<world, lifetimes, pc, snap, to_delete, abnormal>> /\ NoFault
  BY DEF Capture, At, Onwards, Inv, TypeOK
<1>2. reaping \in Instances /\ reaping \in Reaped
  BY <1>1 DEF Inv, TypeOK, Reaped
<1>3. /\ unread' \in {unread, unread \cup {reaping}}
      /\ \A i \in Instances : dumps[i] \subseteq dumps'[i]
      /\ dumps' \in [Instances -> SUBSET [running : BOOLEAN, console : BOOLEAN]]
  <2>1. \/ UNCHANGED <<dumps, unread>>
        \/ \E c \in BOOLEAN :
             /\ dumps' = [dumps EXCEPT ![reaping] = @ \cup {Render(c)}]
             /\ unread' \in {unread, unread \cup {reaping}}
        \/ dumps' = dumps /\ unread' = unread \cup {reaping}
    BY DEF Capture, HasConsole
  <2>2. \A c \in BOOLEAN : Render(c) \in [running : BOOLEAN, console : BOOLEAN]
    BY DEF Render
  <2> QED
    BY <2>1, <2>2, <1>2 DEF Inv, TypeOK
<1>4. ASSUME reaping \in abnormal \ unread', DiagnosticsDir PROVE HasDump(reaping)'
  <2>1. dumps' = [dumps EXCEPT ![reaping] = @ \cup {Render(HasConsole)}]
    BY <1>4 DEF Capture
  <2>2. HasConsole
    BY <1>2 DEF Inv, ReapInv, HasConsole
  <2>3. Render(HasConsole) \in dumps'[reaping] /\ Render(HasConsole).console
    BY <2>1, <2>2, <1>2 DEF Inv, TypeOK, Render
  <2> QED
    BY <2>3, <1>1 DEF HasDump
<1>5. TypeOK' /\ SnapTyped'
  BY <1>1, <1>2, <1>3 DEF Inv, TypeOK, SnapTyped, NoFault, world
<1>6. ReapInv'
  BY <1>1, <1>3, <1>4 DEF Inv, ReapInv, Reaped, Settled, world
<1>7. EvidenceSurvives'
  BY <1>1, <1>3 DEF Inv, EvidenceSurvives, Owed, DiedMidRun, world
<1>8. AccountedBeforeGone'
  BY <1>1, <1>3 DEF Inv, AccountedBeforeGone, world
<1> QED
  BY <1>1, <1>5, <1>6, <1>7, <1>8 DEF Inv, GatherInv

LEMMA RecordLifetimeKeepsInv == Inv /\ RecordLifetime => Inv'
<1> SUFFICES ASSUME Inv, RecordLifetime PROVE Inv'
  OBVIOUS
<1> USE ReapAssumption, ReapOrderIs
<1>1. /\ pc = "act" /\ stage = 2 /\ stage' = 3 /\ reaping' = reaping
      /\ UNCHANGED <<world, dumps, pc, snap, to_delete, abnormal>> /\ NoFault
  BY DEF RecordLifetime, At, Onwards, Inv, TypeOK
<1>2. reaping \in Instances
  BY <1>1 DEF Inv, TypeOK
<1>3. \/ lifetimes' = lifetimes \cup {reaping} /\ unread' = unread
      \/ lifetimes' = lifetimes /\ unread' = unread \cup {reaping}
  BY DEF RecordLifetime
<1>4. TypeOK' /\ SnapTyped'
  BY <1>1, <1>2, <1>3 DEF Inv, TypeOK, SnapTyped, NoFault, world
<1>5. ReapInv'
  BY <1>1, <1>3 DEF Inv, ReapInv, Reaped, Settled, HasDump, world
<1>6. EvidenceSurvives' /\ AccountedBeforeGone'
  BY <1>1, <1>3 DEF Inv, EvidenceSurvives, AccountedBeforeGone, Owed, DiedMidRun, world
<1> QED
  BY <1>1, <1>4, <1>5, <1>6 DEF Inv, GatherInv

\* The instance that goes has what it is owed: its console was kept if its reap was
\* abnormal, and it is owed nothing if it was not.
LEMMA DeleteInstanceKeepsInv == Inv /\ DeleteInstance => Inv'
<1> SUFFICES ASSUME Inv, DeleteInstance PROVE Inv'
  OBVIOUS
<1> USE ReapAssumption, ReapOrderIs
<1>1. /\ pc = "act" /\ stage = 3 /\ stage' = 0 /\ reaping' = None
      /\ UNCHANGED <<run, attribution, kept, pc, snap, to_delete, abnormal>>
  BY DEF DeleteInstance, At, Onwards, Inv, TypeOK
<1>2. reaping \in Instances /\ reaping # None /\ reaping \notin to_delete
  BY <1>1 DEF Inv, TypeOK, ReapInv
<1>3. server' = server \/ server' = [server EXCEPT ![reaping].status = "gone"]
  BY DEF DeleteInstance
<1>4. \A i \in Instances \ {reaping} : server'[i] = server[i]
  BY <1>2, <1>3 DEF Inv, TypeOK
<1>5. TypeOK' /\ SnapTyped'
  BY <1>1, <1>2, <1>3 DEF Inv, TypeOK, SnapTyped, DeleteInstance, NoFault, Fault, kept
<1>6. ReapInv'
  <2>1. Reaped' = to_delete /\ to_delete \subseteq Reaped \ {reaping}
    BY <1>1, <1>2 DEF Reaped
  <2>2. to_delete \subseteq Instances \ {reaping}
    BY <1>2 DEF Inv, TypeOK
  <2>3. \A i \in to_delete : server'[i] = server[i]
    BY <2>2, <1>4
  <2> QED
    BY <1>1, <2>1, <2>3, <1>2 DEF Inv, TypeOK, ReapInv, Settled, kept
<1>7. EvidenceSurvives'
  <2> SUFFICES ASSUME NEW i \in Instances, i = reaping,
                      DiagnosticsDir, i \notin unread, ~HasDump(i)
               PROVE  ~Owed(i)'
    BY <1>1, <1>2, <1>4 DEF Inv, EvidenceSurvives, Owed, DiedMidRun, HasDump, kept
  <2>1. Settled(i) /\ run' = run /\ attribution' = attribution
    BY <1>1, <1>2 DEF Inv, ReapInv, Reaped
  <2>2. server'[i].status # "ACTIVE" \/ server' = server
    BY <1>3, <1>2 DEF Inv, TypeOK
  <2> QED
    BY <2>1, <2>2 DEF Settled, Owed, DiedMidRun
<1>8. AccountedBeforeGone'
  BY <1>1, <1>2, <1>4 DEF Inv, AccountedBeforeGone, ReapInv, kept
<1> QED
  BY <1>1, <1>5, <1>6, <1>7, <1>8 DEF Inv, GatherInv

LEMMA EndRoundKeepsInv == Inv /\ EndRound => Inv'
<1> SUFFICES ASSUME Inv, EndRound PROVE Inv'
  OBVIOUS
<1> USE ReapAssumption
<1>1. /\ pc' = "idle" /\ snap' = NoSnapshot /\ abnormal' = {} /\ NoFault
      /\ reaping = None /\ to_delete = {} /\ stage = 0
      /\ UNCHANGED <<world, kept, to_delete, reaping, stage>>
  BY DEF EndRound, Inv, TypeOK
<1>2. TypeOK' /\ SnapTyped' /\ DOMAIN snap'.instances = {}
  BY <1>1 DEF Inv, TypeOK, SnapTyped, NoSnapshot, NoFault, world, kept
<1>3. GatherInv' /\ ReapInv'
  BY <1>1 DEF Inv, GatherInv, ReapInv, Reaped
<1>4. EvidenceSurvives' /\ AccountedBeforeGone'
  BY <1>1 DEF Inv, EvidenceSurvives, AccountedBeforeGone, Owed, DiedMidRun, world, kept
<1> QED
  BY <1>1, <1>2, <1>3, <1>4 DEF Inv

LEMMA CrashKeepsInv == Inv /\ Crash => Inv'
<1> SUFFICES ASSUME Inv, Crash PROVE Inv'
  OBVIOUS
<1> USE ReapAssumption
<1>1. /\ pc' = "down" /\ snap' = NoSnapshot /\ to_delete' = {} /\ abnormal' = {}
      /\ reaping' = None /\ stage' = 0 /\ Fault("crash")
      /\ UNCHANGED <<world, kept>>
  BY DEF Crash
<1>2. TypeOK' /\ SnapTyped' /\ DOMAIN snap'.instances = {}
  BY <1>1 DEF Inv, TypeOK, SnapTyped, NoSnapshot, Fault, world, kept
<1>3. GatherInv' /\ ReapInv'
  BY <1>1 DEF GatherInv, ReapInv, Reaped
<1>4. EvidenceSurvives' /\ AccountedBeforeGone'
  BY <1>1 DEF Inv, EvidenceSurvives, AccountedBeforeGone, Owed, DiedMidRun, world, kept
<1> QED
  BY <1>1, <1>2, <1>3, <1>4 DEF Inv

LEMMA RestartKeepsInv == Inv /\ Restart => Inv'
<1> SUFFICES ASSUME Inv, Restart PROVE Inv'
  OBVIOUS
<1> USE ReapAssumption, GatherOrderIs
<1>1. /\ pc = "down" /\ pc' = "idle" /\ NoFault
      /\ UNCHANGED <<world, kept, snap, to_delete, abnormal, reaping, stage>>
  BY DEF Restart
<1>2. to_delete = {} /\ reaping = None
  BY <1>1 DEF Inv
<1>3. TypeOK' /\ SnapTyped'
  BY <1>1, <1>2 DEF Inv, TypeOK, SnapTyped, NoFault, world, kept
<1>4. GatherInv' /\ ReapInv'
  BY <1>1, <1>2 DEF GatherInv, ReapInv, Reaped
<1>5. EvidenceSurvives' /\ AccountedBeforeGone'
  BY <1>1 DEF Inv, EvidenceSurvives, AccountedBeforeGone, Owed, DiedMidRun, world, kept
<1> QED
  BY <1>1, <1>2, <1>3, <1>4, <1>5 DEF Inv

-----------------------------------------------------------------------------
LEMMA NextKeepsInv == Inv /\ [Next]_vars => Inv'
<1> SUFFICES ASSUME Inv, [Next]_vars PROVE Inv'
  OBVIOUS
<1>1. CASE Round
  BY <1>1, BeginRoundKeepsInv, ReadKeepsInv, DecideKeepsInv, BeginReapKeepsInv,
     CaptureKeepsInv, RecordLifetimeKeepsInv, DeleteInstanceKeepsInv, EndRoundKeepsInv,
     RestartKeepsInv DEF Round
<1>2. CASE Crash
  BY <1>2, CrashKeepsInv
<1>3. CASE Environment
  BY <1>3, EnvironmentKeepsInv
<1>4. CASE UNCHANGED vars
  BY <1>4 DEF vars, Inv, TypeOK, SnapTyped, GatherInv, KnownDead, KnownEnded, KnownPaid,
              ReapInv, Reaped, Settled, HasDump, EvidenceSurvives, AccountedBeforeGone,
              Owed, DiedMidRun
<1> QED
  BY <1>1, <1>2, <1>3, <1>4 DEF Next

LEMMA InvHolds == Spec => []Inv
  BY InitInv, NextKeepsInv, PTL DEF Spec

\* Whatever fails, is refused or crashes, and in whatever order the readings fall, a worker
\* that died under its run, or whose run the house paid for, leaves its console behind
\* unless a call about that very worker failed (controller.py step, signals.py house_paid).
THEOREM EvidenceIsKept == Spec => []EvidenceSurvives
<1>1. Inv => EvidenceSurvives
  BY DEF Inv
<1> QED
  BY <1>1, InvHolds, PTL

\* No server is deleted before its lifetime is on record, or the record failed
\* (controller.py _record_lifetime and step).
THEOREM LifetimesComeFirst == Spec => []AccountedBeforeGone
<1>1. Inv => AccountedBeforeGone
  BY DEF Inv
<1> QED
  BY <1>1, InvHolds, PTL

\* What a round reaps and captures are instances of its own listing, at every stage of
\* every reap and after a crash at any of them (controller.py step's by_id[instance_id]).
THEOREM ReapIsTyped == Spec => []TypeOK
<1>1. Inv => TypeOK
  BY DEF Inv
<1> QED
  BY <1>1, InvHolds, PTL
=============================================================================
