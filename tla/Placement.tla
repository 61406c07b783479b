----------------------------- MODULE Placement ------------------------------
(***************************************************************************)
(* What dispatch.py promises of every submission, whoever crashes, fails   *)
(* or reads late: its worker is written once; its chain is in one place;   *)
(* a chain that is ours to place is published after its worker is written, *)
(* once, and to that worker alone.  No process, round or reading appears   *)
(* here; Controller implements this.                                       *)
(***************************************************************************)
EXTENDS Common

CONSTANTS Submissions, Instances

VARIABLES
  path,       \* submission -> "none", or who publishes it: "girder" or "controller"
  running,    \* the submissions that are RUNNING
  worker,     \* submission -> meta.worker_queue, or None
  published,  \* the submissions whose chain went to the broker
  shared,     \* the submissions whose chain waits in the shared queue
  holders     \* submission -> the instances that hold its chain, queued or reserved

vars == <<path, running, worker, published, shared, holders>>

Init ==
  /\ path = [s \in Submissions |-> "none"]
  /\ running = {} /\ published = {} /\ shared = {}
  /\ worker = [s \in Submissions |-> None]
  /\ holders = [s \in Submissions |-> {}]

\* submit_job before assignment is armed: the chain goes to whoever takes it first.
Dispatch(s) ==
  /\ path[s] = "none"
  /\ path' = [path EXCEPT ![s] = "girder"]
  /\ running' = running \cup {s}
  /\ published' = published \cup {s} /\ shared' = shared \cup {s}
  /\ UNCHANGED <<worker, holders>>

\* submit_job once it is armed: nothing is published.
Record(s) ==
  /\ path[s] = "none"
  /\ path' = [path EXCEPT ![s] = "controller"]
  /\ running' = running \cup {s}
  /\ UNCHANGED <<worker, published, shared, holders>>

\* claim().
Bind(s, i) ==
  /\ path[s] = "controller" /\ worker[s] = None
  /\ worker' = [worker EXCEPT ![s] = i]
  /\ UNCHANGED <<path, running, published, shared, holders>>

\* publish(): may never happen, and never happens again.
Publish(s) ==
  /\ path[s] = "controller" /\ worker[s] # None /\ s \notin published
  /\ published' = published \cup {s}
  /\ holders' = [holders EXCEPT ![s] = {worker[s]}]
  /\ UNCHANGED <<path, running, worker, shared>>

\* A worker reserves a chain from the shared queue, and later claims its submission.
Reserve(s, i) ==
  /\ s \in shared
  /\ shared' = shared \ {s}
  /\ holders' = [holders EXCEPT ![s] = {i}]
  /\ UNCHANGED <<path, running, worker, published>>

Prepare(s, i) ==
  /\ path[s] = "girder" /\ worker[s] = None /\ holders[s] = {i} /\ s \in running
  /\ worker' = [worker EXCEPT ![s] = i]
  /\ UNCHANGED <<path, running, published, shared, holders>>

\* Chains end, or die with their server; a submission ends with its chain or without.
Lose(lost) ==
  /\ holders' = [s \in Submissions |-> IF s \in lost THEN {} ELSE holders[s]]
  /\ UNCHANGED <<path, running, worker, published, shared>>

End(s) ==
  /\ s \in running
  /\ running' = running \ {s}
  /\ \/ holders' = holders
     \/ holders' = [holders EXCEPT ![s] = {}]
  /\ UNCHANGED <<path, worker, published, shared>>

Next ==
  \/ \E s \in Submissions : Dispatch(s) \/ Record(s) \/ Publish(s) \/ End(s)
  \/ \E s \in Submissions, i \in Instances : Bind(s, i) \/ Reserve(s, i) \/ Prepare(s, i)
  \/ \E lost \in SUBSET Submissions : Lose(lost)

Spec == Init /\ [][Next]_vars

-----------------------------------------------------------------------------
\* dispatch.py, assign: never two workers on one workspace.  A chain waits in the shared
\* queue or is held by one instance, and by no other than the worker on record.
OneWorkspaceOneWorker ==
  \A s \in Submissions, i, j \in Instances :
    i \in holders[s] /\ j \in holders[s] =>
      i = j /\ s \notin shared /\ (worker[s] # None => worker[s] = i)
=============================================================================
