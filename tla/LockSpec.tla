------------------------------ MODULE LockSpec ------------------------------
(***************************************************************************)
(* What the distributed locks promise their callers (api/lock.c): at most  *)
(* one process is inside, and whoever gets in sees every update made under *)
(* the lock before.                                                        *)
(***************************************************************************)
CONSTANT Proc

VARIABLES
  inside,      \* the processes that hold the lock
  unseen       \* TRUE while an update made under the lock is not yet visible

lvars == <<inside, unseen>>

LInit == inside = {} /\ unseen = FALSE

Acquire(p) == inside = {} /\ inside' = {p} /\ ~unseen /\ UNCHANGED unseen

Update == inside # {} /\ unseen' = TRUE /\ UNCHANGED inside

Publish == unseen' = FALSE /\ UNCHANGED inside

Release(p) == inside = {p} /\ ~unseen /\ inside' = {} /\ UNCHANGED unseen

LNext == Update \/ Publish \/ \E p \in Proc : Acquire(p) \/ Release(p)

LSpec == LInit /\ [][LNext]_lvars
=============================================================================
