------------------------------- MODULE MCPlan -------------------------------
(***************************************************************************)
(* decide() over every snapshot built from a few kinds of instance and of  *)
(* submission, one at a time, under each of a few configurations.          *)
(***************************************************************************)
EXTENDS PlanLoops

CONSTANTS MaxServers, MaxWaiting, MaxDepth

ASSUME SnapshotBoundsAssumption ==
  MaxServers \in Nat /\ MaxWaiting \in Nat /\ MaxDepth \in Nat

VARIABLES snapshot, limits

-----------------------------------------------------------------------------
\* The configurations: rungs 1 and 2 are 2 and 4 vcpus.

Unarmed ==
  [max_instances |-> 2, max_lifetime |-> 3, breaker_threshold |-> 1,
   provision_deadline |-> 1, unclaimed_grace |-> 1, assign |-> FALSE, assign_max_age |-> 2,
   sizes |-> <<2, 4>>, max_vcpus |-> None, max_ram_gb |-> None,
   max_volumes |-> None, max_volume_gb |-> None, volume_orphan_grace |-> None]

Armed == [Unarmed EXCEPT !.assign = TRUE, !.provision_deadline = None, !.sizes = << >>]
OneRung == [Armed EXCEPT !.sizes = <<2>>, !.max_instances = 3]
TwoRungs == [Armed EXCEPT !.sizes = <<2, 4>>, !.max_instances = 4]

Configurations ==
  {Unarmed, Armed, OneRung, TwoRungs,
   [TwoRungs EXCEPT !.max_vcpus = 6, !.provision_deadline = 1],
   [TwoRungs EXCEPT !.max_ram_gb = 3, !.max_volumes = 1],
   [TwoRungs EXCEPT !.max_volume_gb = 3]}

-----------------------------------------------------------------------------
\* The kinds: what is listed, and what the other readings say of it.

Server(status, age, size, gb, isReady, isSpent) ==
  [listed |-> [status |-> status, age |-> age, size |-> size, volume_gb |-> gb],
   ready |-> isReady, spent |-> isSpent]

ServerKinds ==
  {Server("BUILD", 2, 2, None, FALSE, FALSE),
   Server("ACTIVE", 0, 1, None, TRUE, FALSE),
   Server("ACTIVE", 1, 2, 2, TRUE, FALSE),
   Server("ACTIVE", 2, 1, 1, TRUE, FALSE),
   Server("ACTIVE", 3, 1, None, TRUE, FALSE),
   Server("ACTIVE", 4, 2, None, TRUE, FALSE),
   Server("ACTIVE", None, None, None, TRUE, FALSE),
   Server("ACTIVE", 2, 2, 2, TRUE, TRUE),
   Server("SHUTOFF", 2, 1, None, TRUE, FALSE)}

Submitted(memory, disk, ours) ==
  [age |-> 0, memory_gb |-> memory, disk_gb |-> disk, assignable |-> ours]

SubmissionKinds ==
  {Submitted(1, None, TRUE), Submitted(2, 2, TRUE), Submitted(3, None, TRUE),
   Submitted(None, 1, TRUE), Submitted(1, None, FALSE)}

-----------------------------------------------------------------------------
Init ==
  /\ limits \in Configurations
  /\ snapshot = [instances |-> << >>, waiting |-> << >>, volumes |-> << >>,
                 spent |-> {}, ready |-> {}, running_jobs |-> {}, house_paid |-> {},
                 queue_depth |-> 0, consecutive_failures |-> 0]

List(kind) ==
  LET i == Len(snapshot.instances) + 1
  IN  /\ i <= MaxServers
      /\ snapshot' = [snapshot EXCEPT
           !.instances = Append(@, kind.listed),
           !.ready = IF kind.ready THEN @ \cup {i} ELSE @,
           !.spent = IF kind.spent THEN @ \cup {i} ELSE @]
      /\ UNCHANGED limits

Await(kind, age) ==
  /\ Len(snapshot.waiting) < MaxWaiting
  /\ snapshot' = [snapshot EXCEPT !.waiting = Append(@, [kind EXCEPT !.age = age])]
  /\ UNCHANGED limits

Enqueue ==
  /\ snapshot.queue_depth < MaxDepth
  /\ snapshot' = [snapshot EXCEPT !.queue_depth = @ + 1]
  /\ UNCHANGED limits

Next ==
  \/ \E kind \in ServerKinds : List(kind)
  \/ \E kind \in SubmissionKinds, age \in {0, 2} : Await(kind, age)
  \/ Enqueue

Spec == Init /\ [][Next]_<<snapshot, limits>>

-----------------------------------------------------------------------------
\* The declarative placement is what the greedy loop of decide() returns.
AssignIsTheLoop == Assign(snapshot, limits) = AssignLoop(snapshot, limits)

\* The declarative list of creates is what _wanted_rungs and _allocate return.
CreateIsTheLoop ==
  Sized(limits) => Create(snapshot, limits) = AllocateLoop(snapshot, limits)

\* What is there and what is coming is enough for w and all that is served before it.
Served(w, creates) ==
  LET rung == SubmissionRung(snapshot, limits, w)
  IN  Cardinality(AheadOf(snapshot, limits, Stalled(snapshot, limits), w))
        <= Cardinality({i \in Available(snapshot, limits) :
                          InstanceRung(snapshot, limits, i) = rung})
           + Cardinality({n \in DOMAIN creates : creates[n].rung = rung})

\* S7 across both halves: when a submission is placed or provisioned for, every older one
\* that is ours to place is placed, or has an instance coming that will serve it.
NoneOvertaken ==
  /\ LET placed == {p[1] : p \in Assign(snapshot, limits)}
     IN  \A v \in placed, w \in Placeable(snapshot) : Older(snapshot, w, v) => w \in placed
  /\ Sized(limits) =>
       LET creates == Create(snapshot, limits)
           uncovered == Uncovered(snapshot, limits)
           served == {w \in uncovered : Served(w, creates)}
       IN  \A v \in served, w \in uncovered : Older(snapshot, w, v) => w \in served

\* Nothing that is being reaped, was claimed, or is past assign_max_age is given work,
\* and no instance or submission is in two pairs.
PlacementIsSound ==
  LET pairs == Assign(snapshot, limits)
  IN  /\ \A p \in pairs :
           /\ p[2] \in snapshot.ready \ (snapshot.spent \cup Delete(snapshot, limits))
           /\ ~PastAge(snapshot, p[2], limits.assign_max_age)
           /\ SubmissionRung(snapshot, limits, p[1]) = InstanceRung(snapshot, limits, p[2])
      /\ \A p, q \in pairs : p[1] = q[1] <=> p[2] = q[2]

\* These creates, on top of what is used, stay within every limit that is on.
WithinQuotas(creates, used) ==
  LET Total(of(_), base) == base + SumFunction([n \in DOMAIN creates |-> of(creates[n])])
      Holds(total, limit) == limit = None \/ total <= limit
  IN  /\ Cardinality(Live(snapshot)) + Len(creates) <= limits.max_instances
      /\ Holds(Total(LAMBDA c : Vcpus(limits, c.rung), used.vcpus), limits.max_vcpus)
      /\ Holds(Total(LAMBDA c : RamGb(limits, c.rung), used.ram), limits.max_ram_gb)
      /\ (\E n \in DOMAIN creates : DiskGb(creates[n]) > 0) =>
           /\ Holds(Total(LAMBDA c : Volumes(DiskGb(c)), used.volumes), limits.max_volumes)
           /\ Holds(Total(DiskGb, used.volume_gb), limits.max_volume_gb)

\* What a round creates never takes the fleet past a quota or past the cap.
QuotasHold ==
  \A creates \in {Create(snapshot, limits)} :
    creates # << >> => WithinQuotas(creates, QuotaUsed(snapshot, limits))

\* plan.py, decide: a catalogue of one size reduces the allocation to
\* clamp(demand - available, 0, headroom).  The sized path adds the depth beyond the
\* waiting submissions without asking which instances are left for it.
OneBucketIsTheClamp ==
  limits = OneRung /\ (\A w \in DOMAIN snapshot.waiting :
                         snapshot.waiting[w].memory_gb \in {1, None}) =>
    Len(Create(snapshot, limits)) =
      Max({0, Min({Demand(snapshot, limits) - Cardinality(Available(snapshot, limits)),
                   Headroom(snapshot, limits)})})
=============================================================================
