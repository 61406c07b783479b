----------------------------- MODULE Catalogue ------------------------------
(***************************************************************************)
(* The worker-size catalogue and the shapes the fleet really has.  Girder  *)
(* keeps the catalogue as a setting that may be edited at any time; the    *)
(* controller reads it when it starts, checks it against Nova, and keeps   *)
(* it until it is restarted.                                               *)
(*                                                                         *)
(* A round is one step here: no reading of a round looks at the setting,   *)
(* and Controller takes the round apart.  Ages play no part, every server  *)
(* has registered, and a worker is gone once its submission has ended.     *)
(*                                                                         *)
(* An edition of the setting is a sequence of entries [memory_gb, flavor,  *)
(* vcpus]; None stands for a malformed one.                                *)
(***************************************************************************)
EXTENDS Plan

CONSTANTS
  Submissions, Instances,
  Flavors,           \* Nova: flavour -> [ram (MiB), vcpus]
  Editions,          \* what the setting may be edited to
  FirstEdition,
  Arming,            \* the values sivacor.targeted_assignment takes
  Flavor,            \* SIVACOR_OS_FLAVOR
  MaxInstances, MaxVcpus,
  MaxEdits           \* bound: edits of the two settings and restarts

ASSUME CatalogueAssumption ==
  /\ Submissions \subseteq Nat /\ IsFiniteSet(Submissions)
  /\ Instances \subseteq Nat /\ IsFiniteSet(Instances)
  /\ FirstEdition \in Editions /\ Arming \subseteq BOOLEAN /\ Arming # {}
  /\ MaxInstances \in 0..Cardinality(Instances) /\ MaxEdits \in Nat
  /\ \A raw \in Editions : Len(raw) \in Nat /\ raw = [n \in 1..Len(raw) |-> raw[n]]
  /\ None \notin DOMAIN Flavors /\ Flavor # None
  /\ \A flavor \in DOMAIN Flavors : Flavors[flavor].ram \in Nat

VARIABLES
  setting,     \* sivacor.worker_sizes
  armed,       \* sivacor.targeted_assignment
  edits,
  process,     \* the controller: "up" or "down"
  rungs,       \* Controller.rungs
  server,      \* instance -> None or [flavor, size]; size is its tag
  submission   \* submission -> [state, memory_gb, instance]

vars == <<setting, armed, edits, process, rungs, server, submission>>
girder == <<setting, armed>>

Init ==
  /\ setting = FirstEdition /\ armed \in Arming /\ edits = 0
  /\ process = "down" /\ rungs = << >>
  /\ server = [i \in Instances |-> None]
  /\ submission = [s \in Submissions |->
                     [state |-> "none", memory_gb |-> None, instance |-> None]]

InState(state) == {s \in Submissions : submission[s].state = state}
Up == {i \in Instances : server[i] # None}

-----------------------------------------------------------------------------
(***************************************************************************)
(* catalogue.py.                                                           *)
(***************************************************************************)

MIB_PER_GIB == 1024

\* Faulty: an empty setting is a catalogue.
LoadsEmpty(raw) == \A n \in DOMAIN raw : raw[n] # None

\* load(strict=True): one malformed entry, or none at all, and there is no catalogue.
Loads(raw) == raw # << >> /\ \A n \in DOMAIN raw : raw[n] # None

\* Faulty: the memory is not compared.
MatchesNovaButRam(raw) ==
  \A n \in DOMAIN raw : /\ raw[n].flavor \in DOMAIN Flavors
                        /\ Flavors[raw[n].flavor].vcpus = raw[n].vcpus

\* validate
MatchesNova(raw) ==
  \A n \in DOMAIN raw :
    /\ raw[n].flavor \in DOMAIN Flavors
    /\ Flavors[raw[n].flavor].vcpus = raw[n].vcpus
    /\ Flavors[raw[n].flavor].ram = raw[n].memory_gb * MIB_PER_GIB

Usable(raw) == Loads(raw) /\ MatchesNova(raw)

Sizes(catalogue) == {catalogue[n].memory_gb : n \in DOMAIN catalogue}

\* load sorts by size; the sort is stable, so all that can be told is which of two entries
\* of one size comes first, and plan._spec and flavor_for both take that one.
FirstOf(catalogue, memory_gb) ==
  catalogue[Min({n \in DOMAIN catalogue : catalogue[n].memory_gb = memory_gb})]

\* Faulty: what Girder says now.
SpecsOfSetting ==
  IF Loads(setting)
    THEN [memory_gb \in Sizes(setting) |-> FirstOf(setting, memory_gb).vcpus]
    ELSE << >>

\* specs
Specs == [memory_gb \in Sizes(rungs) |-> FirstOf(rungs, memory_gb).vcpus]

\* Faulty: the last entry of a size.
FlavorForLast(memory_gb) ==
  IF memory_gb = None THEN Flavor
  ELSE IF memory_gb \in Sizes(rungs)
    THEN rungs[Max({n \in DOMAIN rungs : rungs[n].memory_gb = memory_gb})].flavor
  ELSE None

\* flavor_for; None where it raises.
FlavorFor(memory_gb) ==
  IF memory_gb = None THEN Flavor
  ELSE IF memory_gb \in Sizes(rungs) THEN FirstOf(rungs, memory_gb).flavor
  ELSE None

\* _size_from: the tag, else the rung of the flavour.
SizeFrom(i) ==
  LET same == {n \in DOMAIN rungs : rungs[n].flavor = server[i].flavor}
  IN  IF server[i].size # None THEN server[i].size
      ELSE IF same # {} THEN rungs[Max(same)].memory_gb ELSE None

-----------------------------------------------------------------------------
(***************************************************************************)
(* Girder, operators and workers.                                          *)
(***************************************************************************)

Edit ==
  /\ edits < MaxEdits /\ edits' = edits + 1
  /\ \/ setting' \in Editions \ {setting} /\ armed' = armed
     \/ setting' = setting /\ armed' \in Arming \ {armed}
  /\ UNCHANGED <<process, rungs, server, submission>>

\* A setting the controller does not start on is written again.
Mend ==
  /\ ~Usable(setting) /\ setting' \in {raw \in Editions : Usable(raw)}
  /\ UNCHANGED <<armed, edits, process, rungs, server, submission>>

\* Girder asks the setting, not the controller, whether there is such a size; an old
\* submission names none.  Unarmed, Girder sends it to the shared queue itself.
Submit(s) ==
  /\ s \in InState("none")
  /\ \E m \in {setting[n].memory_gb : n \in {k \in DOMAIN setting : setting[k] # None}}
              \cup {None} :
       submission' = [submission EXCEPT
         ![s] = [state |-> IF armed THEN "waiting" ELSE "shared",
                 memory_gb |-> m, instance |-> None]]
  /\ UNCHANGED <<girder, edits, process, rungs, server>>

\* What sivacor.assignment_timeout ends as reaped_no_worker.
AssignmentTimeout(s) ==
  /\ s \in InState("waiting")
  /\ submission[s].memory_gb # None /\ submission[s].memory_gb \notin Sizes(rungs)
  /\ submission' = [submission EXCEPT ![s].state = "ended"]
  /\ UNCHANGED <<girder, edits, process, rungs, server>>

Taken == {submission[s].instance : s \in Submissions}

TakeShared(s, i) ==
  /\ s \in InState("shared") /\ i \in Up \ Taken
  /\ submission' = [submission EXCEPT ![s].state = "running", ![s].instance = i]
  /\ UNCHANGED <<girder, edits, process, rungs, server>>

Finish(s) ==
  /\ s \in InState("assigned") \cup InState("running")
  /\ server' = [server EXCEPT ![submission[s].instance] = None]
  /\ submission' = [submission EXCEPT ![s].state = "ended", ![s].instance = None]
  /\ UNCHANGED <<girder, edits, process, rungs>>

\* The idle supervisor, and the reap after it.
Idle(i) ==
  /\ i \in Up \ Taken
  /\ server' = [server EXCEPT ![i] = None]
  /\ UNCHANGED <<girder, edits, process, rungs, submission>>

Environment ==
  \/ Edit \/ Mend
  \/ \E s \in Submissions : Submit(s) \/ AssignmentTimeout(s) \/ Finish(s)
  \/ \E i \in Instances : Idle(i)
  \/ \E s \in Submissions, i \in Instances : TakeShared(s, i)

-----------------------------------------------------------------------------
(***************************************************************************)
(* The controller.                                                         *)
(***************************************************************************)

\* main: a catalogue that does not load or disagrees with Nova ends the process, and the
\* service is started again.
Start ==
  /\ process = "down" /\ Usable(setting)
  /\ process' = "up" /\ rungs' = setting
  /\ UNCHANGED <<girder, edits, server, submission>>

Stop ==
  /\ process = "up" /\ edits < MaxEdits /\ edits' = edits + 1
  /\ process' = "down" /\ rungs' = << >>
  /\ UNCHANGED <<girder, server, submission>>

\* build_config: what the environment says, before Girder is asked anything.
ConfigLimits ==
  [max_instances |-> MaxInstances, max_lifetime |-> 0, breaker_threshold |-> 1,
   provision_deadline |-> None, unclaimed_grace |-> 0, assign_max_age |-> 0,
   max_vcpus |-> MaxVcpus, max_ram_gb |-> None, max_volumes |-> None,
   max_volume_gb |-> None, volume_orphan_grace |-> None,
   assign |-> FALSE, sizes |-> << >>]

\* Controller.limits: the arm flag and the catalogue on top of it.
Limits == [ConfigLimits EXCEPT !.assign = armed, !.sizes = Specs]

FleetState ==
  [instances |-> [i \in Up |-> [status |-> "ACTIVE", age |-> 0,
                                size |-> SizeFrom(i), volume_gb |-> None]],
   queue_depth |-> Cardinality(InState("shared")),
   spent |-> Taken \cap Instances,
   waiting |-> [s \in InState("waiting") \cup InState("shared") |->
                  [age |-> 0, memory_gb |-> submission[s].memory_gb, disk_gb |-> None,
                   assignable |-> submission[s].state = "waiting"]],
   ready |-> Up, running_jobs |-> {}, house_paid |-> {}, volumes |-> << >>,
   consecutive_failures |-> 0]

\* create_instance: the flavour, and the rung as a tag; a flavour Nova has not raises.
Boots(want) == [flavor |-> FlavorFor(want.rung), size |-> want.rung]
Creatable(want) == FlavorFor(want.rung) \in DOMAIN Flavors

\* The assignments, then n creates: the first that fails ends them for this round.
Execute(assign, create, n) ==
  LET fresh(i) == Cardinality({j \in Instances \ Up : j <= i})
  IN  /\ \A k \in 1..n : Creatable(create[k])
      /\ server' = [i \in Instances |->
                      IF i \notin Up /\ fresh(i) <= n THEN Boots(create[fresh(i)])
                      ELSE server[i]]
      /\ submission' = [s \in Submissions |->
           IF \E i \in Instances : <<s, i>> \in assign
             THEN [submission[s] EXCEPT !.state = "assigned",
                     !.instance = CHOOSE i \in Instances : <<s, i>> \in assign]
             ELSE submission[s]]

\* How many of the creates succeed is up to Nova.
Step ==
  /\ process = "up"
  /\ \E state \in {FleetState}, limits \in {Limits} :
       \E assign \in {Assign(state, limits)}, create \in {Create(state, limits)} :
         \E n \in 0..Len(create) : Execute(assign, create, n)
  /\ UNCHANGED <<girder, edits, process, rungs>>

Next == Start \/ Stop \/ Step \/ Environment

Spec == Init /\ [][Next]_vars

-----------------------------------------------------------------------------
\* Every variable has its type; a controller that is up has a catalogue.
TypeOK ==
  /\ setting \in Editions /\ armed \in BOOLEAN /\ edits \in 0..MaxEdits
  /\ process \in {"up", "down"} /\ rungs \in Editions \cup {<< >>}
  /\ process = "up" => rungs # << >>
  /\ \A i \in Up : server[i].flavor \in DOMAIN Flavors
  /\ \A s \in Submissions : submission[s].instance \in Up \cup {None}

\* validate: what a server is tagged with is what Nova gave it, whatever was written into
\* the setting meanwhile.
SizeIsTrue ==
  \A i \in Up : server[i].size # None =>
    Flavors[server[i].flavor].ram = server[i].size * MIB_PER_GIB

\* A submission that was assigned runs on at least the memory it asked for, even when its
\* server dates from an earlier catalogue.
GetsItsMemory ==
  \A s \in InState("assigned") : submission[s].memory_gb # None =>
    Flavors[server[submission[s].instance].flavor].ram
      >= submission[s].memory_gb * MIB_PER_GIB

\* flavor_for: decide does not emit a rung that is not in the catalogue it was given.
NamesARung ==
  process = "up" =>
    \A n \in DOMAIN Create(FleetState, Limits) :
      FlavorFor(Create(FleetState, Limits)[n].rung) # None

\* The quota is counted by the catalogue and the vcpus are taken from Nova by flavour: a
\* create by rung takes what was counted for it, also when two entries have its size.
TakesWhatWasCounted ==
  [][\A i \in Instances \ Up : i \in Up' /\ server'[i].size # None =>
       Flavors[server'[i].flavor].vcpus = Vcpus(Limits, server'[i].size)]_vars
=============================================================================
