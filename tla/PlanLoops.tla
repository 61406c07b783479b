------------------------------ MODULE PlanLoops ------------------------------
(***************************************************************************)
(* The greedy walks of plan.py as the code runs them: over the submissions *)
(* in S7's order, spending pools and quotas on the way.  Plan states what  *)
(* they return; the runs of MCPlan compare the two.                        *)
(***************************************************************************)
EXTENDS Plan, SequencesExt

Youngest(s, pool) == CHOOSE i \in pool : \A j \in pool \ {i} : Younger(s, i, j)

\* The assignment loop: the first submission whose pool is empty ends it.
Serve(s, L, acc, w) ==
  LET pool == Pool(s, L, SubmissionRung(s, L, w)) \ {p[2] : p \in acc.pairs}
  IN  IF acc.stopped \/ pool = {}
        THEN [acc EXCEPT !.stopped = TRUE]
        ELSE [acc EXCEPT !.pairs = @ \cup {<<w, Youngest(s, pool)>>}]

AssignLoop(s, L) ==
  FoldLeft(LAMBDA acc, w : Serve(s, L, acc, w), [pairs |-> {}, stopped |-> FALSE],
           OldestFirst(s, Placeable(s))).pairs

\* _wanted_rungs: how many instances of each rung are left for the submissions behind.
Pools(s, L) ==
  [rung \in {SubmissionRung(s, L, w) : w \in Stalled(s, L)} |->
     Cardinality({i \in Available(s, L) : InstanceRung(s, L, i) = rung})]

Cover(s, L, acc, w) ==
  LET rung == SubmissionRung(s, L, w)
  IN  IF acc.pools[rung] > 0
        THEN [acc EXCEPT !.pools[rung] = @ - 1]
        ELSE [acc EXCEPT !.out = Append(@, [rung |-> rung, disk_gb |-> s.waiting[w].disk_gb])]

WantedLoop(s, L) ==
  FoldLeft(LAMBDA acc, w : Cover(s, L, acc, w), [pools |-> Pools(s, L), out |-> << >>],
           OldestFirst(s, Stalled(s, L))).out
    \o [n \in 1..Max({0, s.queue_depth - Cardinality(Stalled(s, L))}) |-> Unsized]

Volumes(disk) == IF disk > 0 THEN 1 ELSE 0

\* _allocate: the first want that does not fit ends it.
Over(used, need, limit) == limit # None /\ used + need > limit

Refused(s, L, acc, want) ==
  \/ Len(acc.out) >= Headroom(s, L)
  \/ want.rung # None /\ want.rung \notin Rungs(L)
  \/ Over(acc.used.vcpus, Vcpus(L, want.rung), L.max_vcpus)
  \/ Over(acc.used.ram, RamGb(L, want.rung), L.max_ram_gb)
  \/ DiskGb(want) > 0 /\ \/ Over(acc.used.volumes, 1, L.max_volumes)
                         \/ Over(acc.used.volume_gb, DiskGb(want), L.max_volume_gb)

Allocate(s, L, acc, want) ==
  IF acc.stopped \/ Refused(s, L, acc, want)
    THEN [acc EXCEPT !.stopped = TRUE]
    ELSE [stopped |-> FALSE,
          out     |-> Append(acc.out, want),
          used    |-> [vcpus     |-> acc.used.vcpus + Vcpus(L, want.rung),
                       ram       |-> acc.used.ram + RamGb(L, want.rung),
                       volumes   |-> acc.used.volumes + Volumes(DiskGb(want)),
                       volume_gb |-> acc.used.volume_gb + DiskGb(want)]]

AllocateLoop(s, L) ==
  FoldLeft(LAMBDA acc, want : Allocate(s, L, acc, want),
           [stopped |-> FALSE, out |-> << >>, used |-> QuotaUsed(s, L)],
           WantedLoop(s, L)).out
=============================================================================
