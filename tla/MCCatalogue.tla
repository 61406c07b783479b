---------------------------- MODULE MCCatalogue -----------------------------
(***************************************************************************)
(* Instances of Catalogue for TLC, and what the code says of shapes and of *)
(* a dry run that does not hold.                                           *)
(***************************************************************************)
EXTENDS Catalogue, TLC

MCFlavors ==
  "medium" :> [ram |-> 30720, vcpus |-> 8] @@ "large" :> [ram |-> 61440, vcpus |-> 16]
    @@ "wide" :> [ram |-> 30720, vcpus |-> 16]

Medium == [memory_gb |-> 30, flavor |-> "medium", vcpus |-> 8]
Large  == [memory_gb |-> 60, flavor |-> "large", vcpus |-> 16]
Wide   == [memory_gb |-> 30, flavor |-> "wide", vcpus |-> 16]

Both == <<Medium, Large>>

\* Entries that Nova does not have, or has with another shape, and a malformed one.
Mistakes ==
  {<<Medium, [Large EXCEPT !.flavor = "largest"]>>, <<Medium, [Large EXCEPT !.vcpus = 8]>>,
   <<Medium, [Large EXCEPT !.memory_gb = 64]>>, <<Medium, None>>, << >>}

\* The top rung comes and goes; the smallest stays, once in two flavours.
Withdrawals == {Both, <<Medium>>, <<Wide, Medium>>}
WithdrawalsAndMistakes == Withdrawals \cup Mistakes

\* The bottom rung goes.
Raised == {Both, <<Large>>}

\* __main__.py: "Deliberately reuses gather() + decide() so a dry run exercises the same
\* code path as a live one".  It decides by cfg.limits, without the arm flag and without
\* the catalogue.
DryRunTellsTheStep ==
  process = "up" =>
    /\ Create(FleetState, ConfigLimits) = Create(FleetState, Limits)
    /\ Assign(FleetState, ConfigLimits) = Assign(FleetState, Limits)

\* plan.py, Instance.size: an instance whose size is not in the catalogue "is never
\* mistaken for capacity a large submission could use".  When the smallest rung is
\* withdrawn, its instances count as the next one.
NeverMistaken == GetsItsMemory
=============================================================================
