----------------------------- MODULE MCScratch ------------------------------
(***************************************************************************)
(* Instances of Scratch for TLC, and what comments of the repository say   *)
(* of the scratch volumes that the code does not keep.                     *)
(***************************************************************************)
EXTENDS Scratch

\* The older submission wants a disk; the younger one does not.
OneDisk == [s \in Submissions |-> IF s = 1 THEN 100 ELSE None]
AllDisks == [s \in Submissions |-> 100]

\* controller.py: "from C3 the volume is the one that submission asked for".  Assignment
\* looks at the rung alone and takes the youngest instance first.
GetsItsDisk ==
  \A s \in Submissions :
    submission[s].queue # None => server[submission[s].queue].volume_gb = Disk[s]

\* plan.py, Limits.volume_orphan_grace: how long an unattached volume may exist before it
\* is swept.  The age it is compared with is the age since creation.
SweptWasUnattached ==
  [][\A v \in to_sweep \ to_sweep' : pc # "down" /\ pc' # "down" =>
       volume[v].state = "attached" \/ volume[v].free > OrphanGrace]_vars

\* fleet.py, delete_volume: in the create rollback "the volume exists, its instance never
\* did".  create_server may have failed after Nova accepted it.
RollbackHasNoInstance ==
  pc \in {"rollback_quota", "rollback_failure"} =>
    \A i \in Instances : server[i].volume # volume_id

\* plan.py, Limits.max_volumes: the volumes "this fleet may hold".  The count is of the
\* live servers' tags: a server in SHUTOFF, or no server, still holds its volume.
HeldWithinQuota == MaxVolumes # None => Cardinality(Existing) <= MaxVolumes
=============================================================================
