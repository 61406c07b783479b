------------------------------- MODULE Common -------------------------------
(***************************************************************************)
(* What every module of the project shares.                                *)
(***************************************************************************)
EXTENDS Integers, Sequences, FiniteSets

CONSTANT None  \* Python's None: no age, no size, no worker queue, a limit that is off

ASSUME NoneAssumption == None \notin Int
=============================================================================
