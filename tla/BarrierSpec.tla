---------------------------- MODULE BarrierSpec ----------------------------
(***************************************************************************)
(* What every barrier, sync and team-sync collective of the library        *)
(* promises its callers, whatever the algorithm behind it: a PE returns    *)
(* from its r-th call only when every PE of the active set has made its    *)
(* r-th call.  The algorithms of shcoll/src/barrier.c are shown to         *)
(* implement this specification (TreeBarrier, LinearBarrier,               *)
(* DisseminationBarrier).                                                  *)
(***************************************************************************)
EXTENDS Naturals

CONSTANTS
  Node,        \* the active set, by index
  MaxRound     \* bound: calls of the collective each PE makes

VARIABLES
  entered,     \* [Node -> Nat]: calls begun
  left         \* [Node -> Nat]: calls returned from

bvars == <<entered, left>>

BInit ==
  /\ entered = [n \in Node |-> 0]
  /\ left = [n \in Node |-> 0]

BEnter(n) ==
  /\ entered[n] = left[n]
  /\ entered[n] < MaxRound
  /\ entered' = [entered EXCEPT ![n] = @ + 1]
  /\ UNCHANGED left

BLeave(n) ==
  /\ left[n] < entered[n]
  /\ \A m \in Node : entered[n] <= entered[m]
  /\ left' = [left EXCEPT ![n] = @ + 1]
  /\ UNCHANGED entered

BNext == \E n \in Node : BEnter(n) \/ BLeave(n)

BSpec == BInit /\ [][BNext]_bvars
=============================================================================
