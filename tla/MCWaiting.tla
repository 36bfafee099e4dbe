----------------------------- MODULE MCWaiting ------------------------------
(***************************************************************************)
(* How threads wait for one another: for a variable in symmetric memory    *)
(* (WaitSets, see MCWaitSets) and for a lock (Lock, see MCLock).  The two  *)
(* share no state, and a behaviour is of one of them; the other one rests. *)
(***************************************************************************)
EXTENDS MCWaitSets, MCLock

VARIABLE part   \* which of the two the behaviour is of

MCInit ==
  /\ part \in {"waits", "lock"}
  /\ WaitInit /\ LockingInit
  /\ part = "lock" => ~multiple

LockRests == UNCHANGED <<part, lockVars>>
WaitsRest == UNCHANGED <<part, waitVars>>

MCNext ==
  \/ part = "waits" /\ WaitNext /\ LockRests
  \/ part = "lock" /\ LockingNext /\ WaitsRest

WaiterGoes(w) == part = "waits" /\ Goes(w) /\ LockRests
UpdateSent(e) == part = "waits" /\ Remote(e) /\ LockRests
LibraryGoes(p) == part = "lock" /\ Library(p) /\ WaitsRest
HolderClears(p) == part = "lock" /\ CallClear(p) /\ WaitsRest
PutIsThere(p) == part = "lock" /\ PutLands(p) /\ WaitsRest

\* The fairness of WaitSets and of Lock.
MCSpec ==
  /\ MCInit /\ [][MCNext]_<<part, waitVars, lockVars>>
  /\ \A w \in Waiter : WF_waitVars(WaiterGoes(w))
  /\ \A e \in Elem : WF_waitVars(UpdateSent(e))
  /\ \A p \in Proc :
       WF_lockVars(LibraryGoes(p)) /\ WF_lockVars(HolderClears(p)) /\ WF_lockVars(PutIsThere(p))
=============================================================================
