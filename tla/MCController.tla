---------------------------- MODULE MCController ----------------------------
(***************************************************************************)
(* Instances of Controller for TLC.                                        *)
(***************************************************************************)
EXTENDS Controller

NoCatalogue == << >>
NoMemory == [s \in Submissions |-> None]

\* Two rungs, of 4 and of 8 vcpus; the oldest submission wants the large one.
TwoRungs == <<4, 8>>
LargeFirst == [s \in Submissions |-> IF s = 1 THEN 2 ELSE 1]
=============================================================================
