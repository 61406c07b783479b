------------------------------ MODULE Breaker -------------------------------
(***************************************************************************)
(* The circuit breaker on its own, over time: how many creations that fail *)
(* it lets through.  The unit of time is the interval of the loop, so that *)
(* every round has its own; Controller has the breaker with the rest.      *)
(***************************************************************************)
EXTENDS Plan

CONSTANTS
  BreakerThreshold, BreakerCooldown,
  MaxTime, MaxRestarts  \* bounds

ASSUME BreakerAssumption ==
  /\ BreakerThreshold \in Nat \ {0} /\ BreakerCooldown \in Nat \ {0}
  /\ MaxTime \in Nat /\ MaxRestarts \in Nat

VARIABLES
  clock,
  consecutive_failures, last_failure,
  stepped,       \* whether this interval's round is done
  restarts,
  failed_at,     \* history: when a creation failed, since the last that succeeded
  reopened_at    \* history: when the cooldown last closed an open breaker

vars == <<clock, consecutive_failures, last_failure, stepped, restarts, failed_at,
          reopened_at>>

Init ==
  /\ clock = 0 /\ stepped = FALSE /\ restarts = 0
  /\ consecutive_failures = 0 /\ last_failure = None
  /\ failed_at = {} /\ reopened_at = None

Open(failures) ==
  BreakerOpen([consecutive_failures |-> failures], [breaker_threshold |-> BreakerThreshold])

\* _expire_breaker
Expired ==
  /\ consecutive_failures # 0 /\ last_failure # None
  /\ clock - last_failure >= BreakerCooldown

\* Faulty: the cooldown runs from the first failure.
TimeOfFailureFirst(last) == IF last = None THEN clock ELSE last

TimeOfFailure(last) == clock

\* The creates of a round after the expiry has left these failures: some succeed or none
\* does, and one may fail; a full allocation ends them as though no more were wanted.
Creates(failures, last) ==
  \E succeeds, fails \in BOOLEAN :
    LET failures1 == IF succeeds THEN 0 ELSE failures
        last1     == IF succeeds THEN None ELSE last
        failed1   == IF succeeds THEN {} ELSE failed_at
    IN  /\ Open(failures) => ~succeeds /\ ~fails
        /\ consecutive_failures' = IF fails THEN failures1 + 1 ELSE failures1
        /\ last_failure' = IF fails THEN TimeOfFailure(last1) ELSE last1
        /\ failed_at' = IF fails THEN failed1 \cup {clock} ELSE failed1
        /\ reopened_at' = IF succeeds THEN None
                          ELSE IF Expired /\ Open(consecutive_failures) THEN clock
                          ELSE reopened_at

Step ==
  /\ ~stepped /\ stepped' = TRUE
  /\ IF Expired THEN Creates(0, None) ELSE Creates(consecutive_failures, last_failure)
  /\ UNCHANGED <<clock, restarts>>

\* time.sleep(interval)
Sleep ==
  /\ stepped /\ clock < MaxTime
  /\ clock' = clock + 1 /\ stepped' = FALSE
  /\ UNCHANGED <<consecutive_failures, last_failure, restarts, failed_at, reopened_at>>

\* The counter is the process's own.
Restart ==
  /\ restarts < MaxRestarts /\ restarts' = restarts + 1
  /\ consecutive_failures' = 0 /\ last_failure' = None /\ reopened_at' = None
  /\ UNCHANGED <<clock, stepped, failed_at>>

Next == Step \/ Sleep \/ Restart

Spec == Init /\ [][Next]_vars

-----------------------------------------------------------------------------
TypeOK ==
  /\ clock \in Nat /\ stepped \in BOOLEAN /\ restarts \in Nat
  /\ consecutive_failures \in 0..BreakerThreshold
  /\ last_failure \in Nat \cup {None} /\ reopened_at \in Nat \cup {None}
  /\ (consecutive_failures = 0) = (last_failure = None)
  /\ failed_at \in SUBSET (0..clock)

\* "A genuinely broken image cannot loop burning SUs": of the creations since the last
\* that succeeded, no more fail within a cooldown than the threshold, for each process
\* there has been.
Recent == {t \in failed_at : clock - t < BreakerCooldown}

BurnIsBounded == Cardinality(Recent) <= BreakerThreshold * (restarts + 1)

\* controller.py, _expire_breaker: "One attempt, not a reset to trusting: if that attempt
\* fails the counter is back at the threshold immediately".
OneAttempt ==
  reopened_at # None => Cardinality({t \in failed_at : t >= reopened_at}) <= 1
=============================================================================
