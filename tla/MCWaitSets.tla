----------------------------- MODULE MCWaitSets -----------------------------
(***************************************************************************)
(* WaitSets for TLC: two threads, and programs that use all routines, or   *)
(* where there are several threads only those that unlock the mutex.       *)
(***************************************************************************)
EXTENDS WaitSets

CONSTANTS w1, w2

TwoWaiters == {w1, w2}

\* Without several threads, any routine; with them, those that unlock.
Unlocking ==
  [m \in BOOLEAN |->
     IF m THEN {r \in Routine : ~ReturnsInside(r)} ELSE Routine]

\* Every routine, with one thread and with several.
Everything == [m \in BOOLEAN |-> Routine]
=============================================================================
