------------------------ MODULE DisseminationBarrier ------------------------
(***************************************************************************)
(* The dissemination barrier of shcoll/src/barrier.c: in stage k every PE  *)
(* pokes the PE 2^k places further on and waits to be poked itself.  There *)
(* is a work word for each stage, used as a counting semaphore.            *)
(***************************************************************************)
EXTENDS Integers

CONSTANTS
  Size,        \* PE_size; PEs are counted from PE_start
  SyncSize,    \* SHMEM_BARRIER_SYNC_SIZE: words the library allocates
  MaxRound     \* bound: calls each PE makes

PEs == 0 .. Size - 1

SyncValue == 0      \* SHCOLL_SYNC_VALUE

\* How far on a PE pokes in stage k: distance in the code, doubled in each stage.
Distance[k \in Nat] == IF k = 0 THEN 1 ELSE 2 * Distance[k - 1]

\* The stages of the loop: round in the code.
Stages_OneShort == {k \in 0..Size : 2 * Distance[k] < Size}

Stages == {k \in 0..Size : Distance[k] < Size}

VARIABLES
  variant,  \* which of the entry points the program uses; it never changes
  pc,       \* where each PE is in its current call; "out" between calls
  round,    \* calls each PE has entered
  stage,    \* stage of the loop each PE is in
  pSync,    \* pSync[p][k]: the words of p's work array
  pokes     \* pokes[p][k]: incs posted by p in stage k that have not landed

vars == <<variant, pc, round, stage, pSync, pokes>>

TypeOK ==
  /\ variant \in {"barrier", "sync", "team_sync"}
  /\ pc \in [PEs -> {"out", "poke", "wait", "take", "reset"}]
  /\ round \in [PEs -> 0..MaxRound]
  /\ stage \in [PEs -> Nat]
  /\ pSync \in [PEs -> [Stages -> Nat]]
  /\ pokes \in [PEs -> [Stages -> Nat]]

Init ==
  /\ variant \in {"barrier", "sync", "team_sync"}
  /\ pc = [n \in PEs |-> "out"]
  /\ round = [n \in PEs |-> 0]
  /\ stage = [n \in PEs |-> 0]
  /\ pSync = [n \in PEs |-> [k \in Stages |-> SyncValue]]
  /\ pokes = [n \in PEs |-> [k \in Stages |-> 0]]

-----------------------------------------------------------------------------
Target(n, k) == (n + Distance[k]) % Size

\* Where the control is when stage k is about to begin: the loop may be over,
\* and a team sync then resets its work array.
AtStage(k) ==
  IF k \in Stages THEN "poke" ELSE IF variant = "team_sync" THEN "reset" ELSE "out"

Flushed(n) == \A k \in Stages : pokes[n][k] = 0

\* The call begins; the barrier variants first complete a shmem_quiet. With a
\* single PE there is no stage, and a barrier or sync is over at once.
Enter(n) ==
  /\ pc[n] = "out"
  /\ round[n] < MaxRound
  /\ variant = "barrier" => Flushed(n)
  /\ pc' = [pc EXCEPT ![n] = AtStage(0)]
  /\ round' = [round EXCEPT ![n] = @ + 1]
  /\ stage' = [stage EXCEPT ![n] = 0]
  /\ UNCHANGED <<variant, pSync, pokes>>

\* Poke the target of the current stage.
Poke(n) ==
  /\ pc[n] = "poke"
  /\ pokes' = [pokes EXCEPT ![n][stage[n]] = @ + 1]
  /\ pc' = [pc EXCEPT ![n] = "wait"]
  /\ UNCHANGED <<variant, round, stage, pSync>>

\* Wait until poked in this stage.
Poked(n) ==
  /\ pc[n] = "wait"
  /\ pSync[n][stage[n]] # SyncValue
  /\ pc' = [pc EXCEPT ![n] = "take"]
  /\ UNCHANGED <<variant, round, stage, pSync, pokes>>

\* Take one poke back; this fetch-and-add completes before the loop goes on.
TakePoke_Store(n) ==
  /\ pc[n] = "take"
  /\ pSync' = [pSync EXCEPT ![n][stage[n]] = SyncValue]
  /\ stage' = [stage EXCEPT ![n] = @ + 1]
  /\ pc' = [pc EXCEPT ![n] = AtStage(stage[n] + 1)]
  /\ UNCHANGED <<variant, round, pokes>>

TakePoke(n) ==
  /\ pc[n] = "take"
  /\ pSync' = [pSync EXCEPT ![n][stage[n]] = @ - 1]
  /\ stage' = [stage EXCEPT ![n] = @ + 1]
  /\ pc' = [pc EXCEPT ![n] = AtStage(stage[n] + 1)]
  /\ UNCHANGED <<variant, round, pokes>>

\* Team sync only: plain local stores to the words the library allocated.
ResetPsync(n) ==
  /\ pc[n] = "reset"
  /\ pSync' = [pSync EXCEPT ![n] =
                 [k \in Stages |-> IF k < SyncSize THEN SyncValue ELSE @[k]]]
  /\ pc' = [pc EXCEPT ![n] = "out"]
  /\ UNCHANGED <<variant, round, stage, pokes>>

PokeLands(n, k) ==
  /\ pokes[n][k] > 0
  /\ pokes' = [pokes EXCEPT ![n][k] = @ - 1]
  /\ pSync' = [pSync EXCEPT ![Target(n, k)][k] = @ + 1]
  /\ UNCHANGED <<variant, pc, round, stage>>

-----------------------------------------------------------------------------
Step(n) == Enter(n) \/ Poke(n) \/ Poked(n) \/ TakePoke(n) \/ ResetPsync(n)

Network(n) == \E k \in Stages : PokeLands(n, k)

Next == \E n \in PEs : Step(n) \/ Network(n)

Spec == Init /\ [][Next]_vars

-----------------------------------------------------------------------------
(* Properties.                                                             *)

\* Calls PE n has returned from.
Left(n) == IF pc[n] = "out" THEN round[n] ELSE round[n] - 1

\* The barrier as its callers see it: a PE returns from a call of the
\* dissemination barrier only when every PE has made that call.
Abstract == INSTANCE BarrierSpec WITH
  Node <- PEs,
  entered <- round, left <- [n \in PEs |-> Left(n)]

ImplementsBarrier == Abstract!BSpec

\* A PE can run ahead of a neighbour by one call at most, so a work word never
\* holds more than the poke of this call and that of the next: this is what
\* lets consecutive calls share one work array without a reset.
OneCallAhead == \A n \in PEs : \A k \in Stages : pSync[n][k] <= 2
=============================================================================
