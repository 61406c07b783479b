------------------------------- MODULE Claims -------------------------------
(***************************************************************************)
(* What comments and docstrings of the repository say of the controller    *)
(* and the code does not keep.  Each has a configuration under which TLC   *)
(* finds it violated; the other properties are in Controller.              *)
(***************************************************************************)
EXTENDS MCController

\* plan.py, decide: an instance past assign_max_age is excluded from capacity.  One that
\* is also being reaped for its age is left out of aged_out, and so counts as available.
AgedOutIsNotCapacity ==
  pc = "decide" /\ assign =>
    \A i \in Available(FleetState, Limits) : ~PastAge(FleetState, i, AssignMaxAge)

\* plan.py, Limits.breaker_threshold: nothing is created once that many consecutive
\* instances have failed to register.  The counter counts the creations that raised; a
\* server that boots and never announces clears it.
BreakerCountsUnregistered ==
  pc = "act" /\ to_create # << >> =>
    Cardinality({i \in deleting : server[i].status = "ACTIVE" /\ i \notin ready})
      < BreakerThreshold

\* dispatch.py, assign: a claim matches nothing once "the submission was cancelled".  The
\* filter of claim() has no status, so one cancelled after the gather is still placed.
OnlyRunningIsPlaced ==
  [][\A s \in Submissions :
       job[s].queue = None /\ job'[s].queue # None => Running(s)]_vars

\* controller.py, step: "Never raises for an expected condition", and signals.py: the caller
\* skips the round on a failure of Mongo.  volumes_enabled is read outside the try, so with
\* no crash at all a failing reading ends the process, between decide() and its deletes.
StepNeverRaises == pc # "down"
=============================================================================
