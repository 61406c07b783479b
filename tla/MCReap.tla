------------------------------- MODULE MCReap -------------------------------
(***************************************************************************)
(* Instances of Reap, and what the code says of a reap that does not hold. *)
(***************************************************************************)
EXTENDS Reap

\* signals.py, house_paid_instances: the attribution outlives the decision that consults
\* it, by construction.  A refused delete leaves the lifetime behind, and the row may be
\* drained before the next round's decision.
AttributionOutlives ==
  pc = "decide" => \A i \in DOMAIN snap.instances : attribution[i] # "drained"

\* diagnostics.py, _render: without a running submission it either finished cleanly or its
\* job document was deleted.  A run that failed is neither.
DumpSaysWhatHappened ==
  \A i \in Instances : (\E d \in dumps[i] : ~d.running) => run[i] # "failed"
=============================================================================
