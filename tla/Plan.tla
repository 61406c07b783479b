-------------------------------- MODULE Plan --------------------------------
(***************************************************************************)
(* plan.py: the decision the controller takes once per round, as a pure    *)
(* function of a snapshot of the fleet and of the limits.                  *)
(*                                                                         *)
(* A snapshot s (FleetState) is a record:                                  *)
(*   instances  instance id -> [status, age, size, volume_gb]              *)
(*   waiting    submission id -> [age, memory_gb, disk_gb, assignable]     *)
(*   volumes    volume id -> [attached, age]                               *)
(*   spent, ready, running_jobs, house_paid   sets of instance ids         *)
(*   queue_depth, consecutive_failures        naturals                     *)
(* The limits L (Limits) are a record with the fields of the dataclass;    *)
(* L.sizes maps a catalogue rung (memory_gb) to its vcpus.                 *)
(*                                                                         *)
(* Ids are naturals, so that "the id as a tiebreaker" is <.  An age is     *)
(* now - created_at, or None when created_at is missing.                   *)
(***************************************************************************)
EXTENDS Common, FiniteSetsExt

(***************************************************************************)
(* Instances.                                                              *)
(***************************************************************************)

\* Instance.is_live: booting or running, i.e. occupying a slot of the cap.
Live(s) == {i \in DOMAIN s.instances : s.instances[i].status \in {"BUILD", "ACTIVE"}}

\* Faulty: keeps the server of a submission that was claimed.
ShutOffUnspent(s) ==
  {i \in DOMAIN s.instances \ s.spent : s.instances[i].status = "SHUTOFF"}

ShutOff(s) == {i \in DOMAIN s.instances : s.instances[i].status = "SHUTOFF"}

\* An instance without created_at is never past any age limit.
PastAge(s, i, limit) == s.instances[i].age # None /\ s.instances[i].age > limit

\* Faulty: the boot deadline as a lifetime, whatever was announced or claimed.
FailedByAge(s, L) ==
  {i \in Live(s) :
     L.provision_deadline # None /\ PastAge(s, i, L.provision_deadline)}

\* Live, never announced, past the boot deadline; a spent instance never is.
FailedToProvision(s, L) ==
  {i \in Live(s) \ (s.ready \cup s.spent) :
     L.provision_deadline # None /\ PastAge(s, i, L.provision_deadline)}

OverLifetime(s, L) == {i \in Live(s) : PastAge(s, i, L.max_lifetime)}

(***************************************************************************)
(* Deletes.                                                                *)
(***************************************************************************)

Delete(s, L) == ShutOff(s) \cup FailedToProvision(s, L) \cup OverLifetime(s, L)

\* Faulty: any worker with a run, reaped or not.
AbnormalUnreaped(s, L) ==
  (Delete(s, L) \ ShutOff(s)) \cup s.running_jobs \cup s.house_paid

\* Reaps whose console is captured first: a fleet fault, or a run the house pays for.
Abnormal(s, L) ==
  {i \in Delete(s, L) : \/ i \notin ShutOff(s)
                        \/ i \in s.running_jobs
                        \/ i \in s.house_paid}

\* Faulty: the grace is over one tick early.
DeleteVolumesAtGrace(s, L) ==
  {v \in DOMAIN s.volumes : /\ L.volume_orphan_grace # None
                            /\ ~s.volumes[v].attached
                            /\ s.volumes[v].age >= L.volume_orphan_grace}

\* Faulty: the comparison the other way round.
DeleteVolumesYoung(s, L) ==
  {v \in DOMAIN s.volumes : /\ L.volume_orphan_grace # None
                            /\ ~s.volumes[v].attached
                            /\ s.volumes[v].age <= L.volume_orphan_grace}

\* The sweep: unattached, and older than the grace.
DeleteVolumes(s, L) ==
  {v \in DOMAIN s.volumes : /\ L.volume_orphan_grace # None
                            /\ ~s.volumes[v].attached
                            /\ s.volumes[v].age > L.volume_orphan_grace}

(***************************************************************************)
(* Rungs: what a submission asks for and what an instance is.              *)
(***************************************************************************)

Rungs(L) == DOMAIN L.sizes

SmallestRung(L) == IF Rungs(L) = {} THEN None ELSE Min(Rungs(L))

\* A size that left the catalogue is kept, so that it blocks visibly.
SubmissionRung(s, L, w) ==
  IF Rungs(L) # {} /\ s.waiting[w].memory_gb # None
    THEN s.waiting[w].memory_gb
    ELSE SmallestRung(L)

\* A size that is not in the catalogue counts as the smallest rung.
InstanceRung(s, L, i) ==
  IF s.instances[i].size \in Rungs(L) THEN s.instances[i].size ELSE SmallestRung(L)

(***************************************************************************)
(* The two orders.                                                         *)
(***************************************************************************)

\* _oldest_first: by age, the id as the tiebreaker.
Older(s, v, w) ==
  \/ s.waiting[v].age > s.waiting[w].age
  \/ s.waiting[v].age = s.waiting[w].age /\ v < w

OldestFirst(s, W) ==
  [n \in 1..Cardinality(W) |->
     CHOOSE w \in W : Cardinality({v \in W : Older(s, v, w)}) = n - 1]

\* _youngest_first: by age, the undated last, the id as the tiebreaker.
Younger(s, i, j) ==
  LET a == s.instances[i].age
      b == s.instances[j].age
  IN  \/ a # None /\ b = None
      \/ a # None /\ b # None /\ a < b
      \/ a = b /\ i < j

(***************************************************************************)
(* Assignment: which waiting submission goes on which instance.            *)
(***************************************************************************)

\* Faulty: what has claimed a submission is still given another.
UnassignedThoughSpent(s, L) ==
  Live(s) \ (FailedToProvision(s, L) \cup Delete(s, L))

Unassigned(s, L) ==
  Live(s) \ (s.spent \cup FailedToProvision(s, L) \cup Delete(s, L))

AgedOut(s, L) ==
  {i \in Unassigned(s, L) : L.assign /\ PastAge(s, i, L.assign_max_age)}

\* Faulty: a server that is still booting is given work.
AssignableUnready(s, L) == IF L.assign THEN Unassigned(s, L) \ AgedOut(s, L) ELSE {}

\* Pessimistic where capacity is optimistic: only what has registered is given work.
Assignable(s, L) ==
  IF L.assign THEN (Unassigned(s, L) \ AgedOut(s, L)) \cap s.ready ELSE {}

Placeable(s) == {w \in DOMAIN s.waiting : s.waiting[w].assignable}

\* Faulty: any free instance will do, whatever its size.
PoolOfAnySize(s, L, rung) == Assignable(s, L)

\* The free instances a submission that wants this rung may be given.
Pool(s, L, rung) == {i \in Assignable(s, L) : InstanceRung(s, L, i) = rung}

\* The submissions of W that want the rung of w, up to and including w.
AheadOf(s, L, W, w) ==
  {v \in W : (v = w \/ Older(s, v, w)) /\ SubmissionRung(s, L, v) = SubmissionRung(s, L, w)}

\* The n-th submission that wants a rung takes the n-th youngest of its pool.
Matches(s, L, w, i) ==
  LET pool == Pool(s, L, SubmissionRung(s, L, w))
  IN  /\ i \in pool
      /\ Cardinality({j \in pool : j = i \/ Younger(s, j, i)})
           = Cardinality(AheadOf(s, L, Placeable(s), w))

\* Faulty: a submission without a free instance of its size is skipped.
ReachedRegardless(s, L, w) == TRUE

\* Stop, do not skip: a submission whose pool is exhausted blocks all behind it.
Reached(s, L, w) ==
  \A v \in Placeable(s) : v = w \/ Older(s, v, w) =>
    Cardinality(AheadOf(s, L, Placeable(s), v))
      <= Cardinality(Pool(s, L, SubmissionRung(s, L, v)))

Assign(s, L) ==
  {p \in Placeable(s) \X Assignable(s, L) : Reached(s, L, p[1]) /\ Matches(s, L, p[1], p[2])}

(***************************************************************************)
(* Creates: the shortfall of capacity, clamped to the headroom.            *)
(***************************************************************************)

\* Faulty: a booting server is not yet capacity.
AvailableReady(s, L) ==
  (Live(s) \cap s.ready) \ (s.spent \cup FailedToProvision(s, L) \cup AgedOut(s, L))

Available(s, L) == Live(s) \ (s.spent \cup FailedToProvision(s, L) \cup AgedOut(s, L))

Stalled(s, L) ==
  {w \in DOMAIN s.waiting : L.assign \/ s.waiting[w].age > L.unclaimed_grace}

\* Faulty: the depth of the queue is the only demand.
DemandOfDepth(s, L) == s.queue_depth

Demand(s, L) == Max({s.queue_depth, Cardinality(Stalled(s, L))})

\* Faulty: an instance that has claimed its submission no longer holds a slot.
HeadroomOfUnspent(s, L) == L.max_instances - Cardinality(Live(s) \ s.spent)

Headroom(s, L) == L.max_instances - Cardinality(Live(s))

\* Create(None, None): the configured flavour, no volume.
Unsized == [rung |-> None, disk_gb |-> None]

\* The stalled submissions that no available instance of their rung covers.
Uncovered(s, L) ==
  {w \in Stalled(s, L) :
     Cardinality(AheadOf(s, L, Stalled(s, L), w))
       > Cardinality({i \in Available(s, L) :
                        InstanceRung(s, L, i) = SubmissionRung(s, L, w)})}

\* Faulty: the depth on top of the waiting submissions, although it counts them too.
WantedTwice(s, L) ==
  LET first == OldestFirst(s, Uncovered(s, L))
  IN  [n \in 1..Len(first) |->
         [rung    |-> SubmissionRung(s, L, first[n]),
          disk_gb |-> s.waiting[first[n]].disk_gb]]
        \o [n \in 1..s.queue_depth |-> Unsized]

\* One Create per uncovered submission, oldest first, then the unaccounted depth.
Wanted(s, L) ==
  LET first == OldestFirst(s, Uncovered(s, L))
      extra == Max({0, s.queue_depth - Cardinality(Stalled(s, L))})
  IN  [n \in 1..Len(first) |->
         [rung    |-> SubmissionRung(s, L, first[n]),
          disk_gb |-> s.waiting[first[n]].disk_gb]]
        \o [n \in 1..extra |-> Unsized]

(***************************************************************************)
(* The quotas.  A quota is a record [vcpus, ram, volumes, volume_gb] of    *)
(* what is used or needed.                                                 *)
(***************************************************************************)

Vcpus(L, rung) == IF rung \in Rungs(L) THEN L.sizes[rung] ELSE 0
RamGb(L, rung) == IF rung \in Rungs(L) THEN rung ELSE 0
DiskGb(want)   == IF want.disk_gb = None THEN 0 ELSE want.disk_gb

\* What an instance holds, by its tag.
VolumeGb(s, i) == IF s.instances[i].volume_gb = None THEN 0 ELSE s.instances[i].volume_gb
VolumeHolders(s) == {i \in Live(s) : VolumeGb(s, i) > 0}

\* Those of the first n wants that take a volume.
Takers(wants, n) == {k \in 1..n : DiskGb(wants[k]) > 0}

QuotaUsed(s, L) ==
  [vcpus     |-> SumFunction([i \in Live(s) |-> Vcpus(L, InstanceRung(s, L, i))]),
   ram       |-> SumFunction([i \in Live(s) |-> RamGb(L, InstanceRung(s, L, i))]),
   volumes   |-> Cardinality(VolumeHolders(s)),
   volume_gb |-> SumFunction([i \in Live(s) |-> VolumeGb(s, i)])]

\* What the first n of these wants take on top of what is used.
QuotaWith(s, L, wants, n) ==
  LET used == QuotaUsed(s, L)
  IN  [vcpus     |-> used.vcpus + SumFunction([k \in 1..n |-> Vcpus(L, wants[k].rung)]),
       ram       |-> used.ram + SumFunction([k \in 1..n |-> RamGb(L, wants[k].rung)]),
       volumes   |-> used.volumes + Cardinality(Takers(wants, n)),
       volume_gb |-> used.volume_gb + SumFunction([k \in 1..n |-> DiskGb(wants[k])])]

Within(amount, limit) == limit = None \/ amount <= limit

\* Faulty: the wants before this one are not counted against the vcpu quota.
FitsAlone(s, L, wants, n) ==
  /\ n <= Headroom(s, L)
  /\ wants[n].rung = None \/ wants[n].rung \in Rungs(L)
  /\ Within(QuotaUsed(s, L).vcpus + Vcpus(L, wants[n].rung), L.max_vcpus)

\* The volume quotas bind only a create that wants a volume.
Fits(s, L, wants, n) ==
  LET quota == QuotaWith(s, L, wants, n)
  IN  /\ n <= Headroom(s, L)
      /\ wants[n].rung = None \/ wants[n].rung \in Rungs(L)
      /\ Within(quota.vcpus, L.max_vcpus)
      /\ Within(quota.ram, L.max_ram_gb)
      /\ DiskGb(wants[n]) > 0 => /\ Within(quota.volumes, L.max_volumes)
                                 /\ Within(quota.volume_gb, L.max_volume_gb)

\* Strictly head of line: the longest prefix of which every want fits.
Allocated(s, L) ==
  LET wants == Wanted(s, L)
  IN  {n \in 1..Len(wants) : \A k \in 1..n : Fits(s, L, wants, k)}

Sized(L) == L.assign /\ Rungs(L) # {}

\* How many creates before the breaker has its say.
CreateCount(s, L) ==
  IF Sized(L)
    THEN Cardinality(Allocated(s, L))
    ELSE Max({0, Min({Demand(s, L) - Cardinality(Available(s, L)), Headroom(s, L)})})

\* Faulty: one failure too many.
BreakerOpenLate(s, L) == s.consecutive_failures > L.breaker_threshold

BreakerOpen(s, L) == s.consecutive_failures >= L.breaker_threshold

Create(s, L) ==
  IF BreakerOpen(s, L) THEN << >>
  ELSE LET wants == Wanted(s, L)
       IN  [n \in 1..CreateCount(s, L) |-> IF Sized(L) THEN wants[n] ELSE Unsized]
=============================================================================
