--------------------------- MODULE LinearBarrier ---------------------------
(***************************************************************************)
(* The linear barrier of shcoll/src/barrier.c: every PE pokes the first PE *)
(* of the active set, which acknowledges each of them with a put.          *)
(*                                                                         *)
(* Unlike the tree barriers, this one waits for its own clearing put to    *)
(* land, so nothing is assumed about when that happens: all puts and incs  *)
(* land at some time after they were issued.                               *)
(***************************************************************************)
EXTENDS Integers

CONSTANTS
  Size,        \* PE_size; PEs are counted from PE_start
  MaxRound     \* bound: calls each PE makes

PEs == 0 .. Size - 1

SyncValue == 0      \* SHCOLL_SYNC_VALUE

PEStart == 0        \* the PE that is PE_start

VARIABLES
  variant,  \* which of the entry points the program uses; it never changes
  pc,       \* where each PE is in its current call; "out" between calls
  round,    \* calls each PE has entered
  pSync,    \* the symmetric work word of each PE
  pokes,    \* pokes[p]: incs of the root's pSync by p in flight
  acks,     \* acks[p]: stores of 1 to p's pSync by the root in flight
  clears    \* clears[p]: stores of SHCOLL_SYNC_VALUE by p to itself in flight

vars == <<variant, pc, round, pSync, pokes, acks, clears>>

Others == PEs \ {PEStart}

TypeOK ==
  /\ variant \in {"barrier", "sync", "team_sync"}
  /\ pc \in [PEs -> {"out", "start", "await", "erase", "reset"}]
  /\ round \in [PEs -> 0..MaxRound]
  /\ pSync \in [PEs -> Nat]
  /\ pokes \in [Others -> Nat]
  /\ acks \in [Others -> Nat]
  /\ clears \in [PEs -> Nat]

Init ==
  /\ variant \in {"barrier", "sync", "team_sync"}
  /\ pc = [n \in PEs |-> "out"]
  /\ round = [n \in PEs |-> 0]
  /\ pSync = [n \in PEs |-> SyncValue]
  /\ pokes = [n \in Others |-> 0]
  /\ acks = [n \in Others |-> 0]
  /\ clears = [n \in PEs |-> 0]

-----------------------------------------------------------------------------
\* Nothing this PE posted is still in flight.
Flushed(n) ==
  /\ clears[n] = 0
  /\ IF n = PEStart THEN \A m \in Others : acks[m] = 0 ELSE pokes[n] = 0

\* The call begins; the barrier variants first complete a shmem_quiet.
Enter(n) ==
  /\ pc[n] = "out"
  /\ round[n] < MaxRound
  /\ variant = "barrier" => Flushed(n)
  /\ pc' = [pc EXCEPT ![n] = "start"]
  /\ round' = [round EXCEPT ![n] = @ + 1]
  /\ UNCHANGED <<variant, pSync, pokes, acks, clears>>

\* The root has been poked by everybody: it clears its pSync.
RootGathered_NE ==
  /\ pc[PEStart] = "start"
  /\ Others # {} => pSync[PEStart] # SyncValue
  /\ clears' = [clears EXCEPT ![PEStart] = @ + 1]
  /\ pc' = [pc EXCEPT ![PEStart] = "erase"]
  /\ UNCHANGED <<variant, round, pSync, pokes, acks>>

RootGathered ==
  /\ pc[PEStart] = "start"
  /\ pSync[PEStart] = SyncValue + Size - 1
  /\ clears' = [clears EXCEPT ![PEStart] = @ + 1]
  /\ pc' = [pc EXCEPT ![PEStart] = "erase"]
  /\ UNCHANGED <<variant, round, pSync, pokes, acks>>

\* Any other PE pokes the root ...
PokeRoot(n) ==
  /\ n # PEStart
  /\ pc[n] = "start"
  /\ pokes' = [pokes EXCEPT ![n] = @ + 1]
  /\ pc' = [pc EXCEPT ![n] = "await"]
  /\ UNCHANGED <<variant, round, pSync, acks, clears>>

\* ... and once it has the ack it clears its own pSync.
GetAck(n) ==
  /\ pc[n] = "await"
  /\ pSync[n] # SyncValue
  /\ clears' = [clears EXCEPT ![n] = @ + 1]
  /\ pc' = [pc EXCEPT ![n] = "erase"]
  /\ UNCHANGED <<variant, round, pSync, pokes, acks>>

\* The own clear has landed; the root now sends the acks. The helper returns,
\* a team sync goes on to reset its work array.
Erased(n) ==
  /\ pc[n] = "erase"
  /\ pSync[n] = SyncValue
  /\ acks' = IF n = PEStart THEN [m \in Others |-> acks[m] + 1] ELSE acks
  /\ pc' = [pc EXCEPT ![n] = IF variant = "team_sync" THEN "reset" ELSE "out"]
  /\ UNCHANGED <<variant, round, pSync, pokes, clears>>

\* Team sync only: plain local stores to the work array.
ResetPsync(n) ==
  /\ pc[n] = "reset"
  /\ pSync' = [pSync EXCEPT ![n] = SyncValue]
  /\ pc' = [pc EXCEPT ![n] = "out"]
  /\ UNCHANGED <<variant, round, pokes, acks, clears>>

-----------------------------------------------------------------------------
(* Landing of posted operations.                                           *)

PokeLands(n) ==
  /\ n # PEStart
  /\ pokes[n] > 0
  /\ pokes' = [pokes EXCEPT ![n] = @ - 1]
  /\ pSync' = [pSync EXCEPT ![PEStart] = @ + 1]
  /\ UNCHANGED <<variant, pc, round, acks, clears>>

AckLands(n) ==
  /\ n # PEStart
  /\ acks[n] > 0
  /\ acks' = [acks EXCEPT ![n] = @ - 1]
  /\ pSync' = [pSync EXCEPT ![n] = SyncValue + 1]
  /\ UNCHANGED <<variant, pc, round, pokes, clears>>

ClearLands(n) ==
  /\ clears[n] > 0
  /\ clears' = [clears EXCEPT ![n] = @ - 1]
  /\ pSync' = [pSync EXCEPT ![n] = SyncValue]
  /\ UNCHANGED <<variant, pc, round, pokes, acks>>

-----------------------------------------------------------------------------
Step(n) ==
  \/ Enter(n) \/ PokeRoot(n) \/ GetAck(n) \/ Erased(n) \/ ResetPsync(n)
  \/ n = PEStart /\ RootGathered

Network(n) == PokeLands(n) \/ AckLands(n) \/ ClearLands(n)

Next == \E n \in PEs : Step(n) \/ Network(n)

Spec == Init /\ [][Next]_vars

-----------------------------------------------------------------------------
(* Properties.                                                             *)

\* Calls PE n has returned from.
Left(n) == IF pc[n] = "out" THEN round[n] ELSE round[n] - 1

\* The barrier as its callers see it: a PE returns from a call of the linear
\* barrier only when every PE has made that call.
Abstract == INSTANCE BarrierSpec WITH
  Node <- PEs,
  entered <- round, left <- [n \in PEs |-> Left(n)]

ImplementsBarrier == Abstract!BSpec

\* A clear that is still in flight will erase the pokes of its own call and
\* nothing else: the wait after the clearing put (barrier.c, "SHMEM_CMP_EQ,
\* SHCOLL_SYNC_VALUE") keeps pokes and acks of the next call behind it.
ClearsEraseOneCall ==
  \A n \in PEs : clears[n] > 0 =>
    /\ clears[n] = 1
    /\ pSync[n] = IF n = PEStart THEN SyncValue + Size - 1
                              ELSE SyncValue + 1
=============================================================================
