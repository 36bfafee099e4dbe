------------------------------- MODULE MCLock -------------------------------
(***************************************************************************)
(* Lock for TLC: where the threads run and where the lock is.              *)
(***************************************************************************)
EXTENDS Lock, TLC

CONSTANTS p1, p2, p3, p4

FourThreads == {p1, p2, p3, p4}

\* Two threads on PE 0, one on PE 2, one on PE 3.
Threads == [p \in Proc |-> (p1 :> 0 @@ p2 :> 0 @@ p3 :> 2 @@ p4 :> 3)[p]]

\* A symmetric heap that starts somewhere else on each PE.
HeapAddress == [q \in Pes |-> 4096 + 8 * q]
=============================================================================
