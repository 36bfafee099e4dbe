---------------------------- MODULE TreeBarrier ----------------------------
(***************************************************************************)
(* The tree barriers of shcoll/src/barrier.c: binomial (the library's      *)
(* default), complete and k-nomial.  The three C helpers differ only in    *)
(* the tree they walk, so the tree is a parameter here and Trees computes  *)
(* it as util/trees.c does.                                                *)
(*                                                                         *)
(* Nodes are indices in the active set.  Each PE has one symmetric word    *)
(* pSync.  Posted operations (shmem_long_atomic_inc, shmem_long_p, user    *)
(* puts) return at once and land later, in any order, as they do in        *)
(* shmemc/ucx/comms.c: an inc from p to q is in pokes[p][q] until it lands.*)
(***************************************************************************)
EXTENDS Integers, FiniteSets

CONSTANTS
  Node,      \* 0..PE_size-1
  Root,      \* the node whose parent is -1
  Parent,    \* [Node \ {Root} -> Node]
  Children,  \* [Node -> SUBSET Node]
  Below,     \* [Node -> SUBSET Node]: the subtree of a node
  MaxRound,  \* bound: calls each PE makes
  Writers,   \* PEs that issue user puts between the calls
  Uses       \* the ways to call it that are considered

ASSUME TreeShape ==
  /\ IsFiniteSet(Node)
  /\ Root \in Node
  /\ Parent \in [Node \ {Root} -> Node]
  /\ Children \in [Node -> SUBSET Node]
  /\ \A n \in Node : Children[n] = {c \in Node \ {Root} : Parent[c] = n}
  /\ \A n \in Node : n \notin Children[n]
  /\ \A n \in Node \ {Root} : Parent[n] \notin Children[n]
  /\ Below \in [Node -> SUBSET Node]
  /\ \A n \in Node : Below[n] = {n} \cup UNION {Below[c] : c \in Children[n]}
  /\ Below[Root] = Node

\* quiet:  barrier and barrier_all begin with a quiet, sync and team sync do not;
\* reset:  team sync ends with shmemc_team_reset_psync;
\* prompt: a put to the own PE has landed when it returns;
\* calls:  the number of calls each PE makes.
Use == [quiet : BOOLEAN, reset : BOOLEAN, prompt : BOOLEAN, calls : 0..MaxRound]

ASSUME Parameters ==
  /\ MaxRound \in Nat
  /\ Writers \subseteq Node
  /\ Uses \subseteq Use

VARIABLES
  use,      \* the use of this behaviour, which never changes
  pc,       \* where each PE is in its current call; "out" or "wrote" between calls
  round,    \* calls each PE has entered
  pSync,    \* the symmetric work word of each PE
  pokes,    \* pokes[p][q]: incs posted by p to q's pSync that have not landed
  clears,   \* clears[p]: stores of SHCOLL_SYNC_VALUE by p to its own pSync in flight
  stores    \* stores[p]: the rounds after which p issued user puts still in flight

vars == <<use, pc, round, pSync, pokes, clears, stores>>

SyncValue == 0      \* SHCOLL_SYNC_VALUE

Npokes(n) == Cardinality(Children[n])

TypeOK ==
  /\ use \in Uses
  /\ pc \in [Node -> {"out", "wrote", "gather", "await", "clear", "reset"}]
  /\ round \in [Node -> 0..MaxRound]
  /\ pSync \in [Node -> Nat]
  /\ pokes \in [Node -> [Node -> Nat]]
  /\ clears \in [Node -> Nat]
  /\ stores \in [Node -> SUBSET (0..MaxRound)]

Init ==
  /\ use \in Uses
  /\ pc = [n \in Node |-> "out"]
  /\ round = [n \in Node |-> 0]
  /\ pSync = [n \in Node |-> SyncValue]
  /\ pokes = [n \in Node |-> [m \in Node |-> 0]]
  /\ clears = [n \in Node |-> 0]
  /\ stores = [n \in Node |-> {}]

-----------------------------------------------------------------------------
(* The program around the collective.                                      *)

\* The PE is not inside a call of the collective.
Outside(n) == pc[n] \in {"out", "wrote"}

\* The program issues its puts between two calls; they land at some later time.
UserPut(n) ==
  /\ n \in Writers
  /\ pc[n] = "out"
  /\ pc' = [pc EXCEPT ![n] = "wrote"]
  /\ stores' = [stores EXCEPT ![n] = @ \cup {round[n]}]
  /\ UNCHANGED <<use, round, pSync, pokes, clears>>

-----------------------------------------------------------------------------
(* The steps of one call.                                                  *)

\* Nothing this PE posted on the default context is still in flight.
Flushed(n) ==
  /\ stores[n] = {}
  /\ clears[n] = 0
  /\ \A m \in Node : pokes[n][m] = 0

\* The call begins; the barrier variants first complete a shmem_quiet.
Enter_NoQuiet(n) ==
  /\ Outside(n)
  /\ round[n] < use.calls
  /\ pc' = [pc EXCEPT ![n] = "gather"]
  /\ round' = [round EXCEPT ![n] = @ + 1]
  /\ UNCHANGED <<use, pSync, pokes, clears, stores>>

Enter(n) ==
  /\ Outside(n)
  /\ round[n] < use.calls
  /\ use.quiet => Flushed(n)
  /\ pc' = [pc EXCEPT ![n] = "gather"]
  /\ round' = [round EXCEPT ![n] = @ + 1]
  /\ UNCHANGED <<use, pSync, pokes, clears, stores>>

\* The wait for the pokes of the children; a leaf does not wait at all.
Gathered(n) ==
  Children[n] # {} => pSync[n] = SyncValue + Npokes(n)

\* All children have poked: poke the parent and wait for its answer.
PokeParent(n) ==
  /\ n # Root
  /\ pc[n] = "gather"
  /\ Gathered(n)
  /\ pc' = [pc EXCEPT ![n] = "await"]
  /\ pokes' = [pokes EXCEPT ![n][Parent[n]] = @ + 1]
  /\ UNCHANGED <<use, round, pSync, clears, stores>>

\* The wait of a node whose parent has still to answer.
Answered_NE(n) == pSync[n] # SyncValue

Answered(n) == pSync[n] = SyncValue + Npokes(n) + 1

\* The last wait of the call is over: for the root the wait for its children,
\* for another node the wait for its parent.
Released(n) ==
  /\ IF n = Root THEN pc[n] = "gather" /\ Gathered(n)
                 ELSE pc[n] = "await" /\ Answered(n)
  /\ pc' = [pc EXCEPT ![n] = "clear"]
  /\ UNCHANGED <<use, round, pSync, pokes, clears, stores>>

\* Clear the own pSync, then poke every child.  The helper then returns; a
\* team sync goes on to reset its work array.
ClearAndPoke_NoClear(n) ==
  /\ pc[n] = "clear"
  /\ pokes' = [pokes EXCEPT ![n] =
                 [m \in Node |-> IF m \in Children[n] THEN @[m] + 1 ELSE @[m]]]
  /\ pc' = [pc EXCEPT ![n] = IF use.reset THEN "reset" ELSE "out"]
  /\ UNCHANGED <<use, round, pSync, clears, stores>>

ClearAndPoke(n) ==
  /\ pc[n] = "clear"
  /\ IF use.prompt
     THEN /\ pSync' = [pSync EXCEPT ![n] = SyncValue]
          /\ UNCHANGED clears
     ELSE /\ clears' = [clears EXCEPT ![n] = @ + 1]
          /\ UNCHANGED pSync
  /\ pokes' = [pokes EXCEPT ![n] =
                 [m \in Node |-> IF m \in Children[n] THEN @[m] + 1 ELSE @[m]]]
  /\ pc' = [pc EXCEPT ![n] = IF use.reset THEN "reset" ELSE "out"]
  /\ UNCHANGED <<use, round, stores>>

\* Team sync only: plain local stores of SHMEM_SYNC_VALUE to the work array.
ResetPsync(n) ==
  /\ pc[n] = "reset"
  /\ pSync' = [pSync EXCEPT ![n] = SyncValue]
  /\ pc' = [pc EXCEPT ![n] = "out"]
  /\ UNCHANGED <<use, round, pokes, clears, stores>>

-----------------------------------------------------------------------------
(* Landing of posted operations.                                           *)

PokeLands(p, q) ==
  /\ pokes[p][q] > 0
  /\ pokes' = [pokes EXCEPT ![p][q] = @ - 1]
  /\ pSync' = [pSync EXCEPT ![q] = @ + 1]
  /\ UNCHANGED <<use, pc, round, clears, stores>>

ClearLands(n) ==
  /\ clears[n] > 0
  /\ clears' = [clears EXCEPT ![n] = @ - 1]
  /\ pSync' = [pSync EXCEPT ![n] = SyncValue]
  /\ UNCHANGED <<use, pc, round, pokes, stores>>

StoreLands(n) ==
  /\ \E r \in stores[n] : stores' = [stores EXCEPT ![n] = @ \ {r}]
  /\ UNCHANGED <<use, pc, round, pSync, pokes, clears>>

-----------------------------------------------------------------------------
\* Every PE has made all its calls and every operation has landed.
Finished ==
  /\ \A n \in Node : Outside(n) /\ round[n] = use.calls /\ Flushed(n)
  /\ UNCHANGED vars

Step(n) ==
  Enter(n) \/ PokeParent(n) \/ Released(n) \/ ClearAndPoke(n) \/ ResetPsync(n)

Network(n) ==
  \/ \E m \in Node : PokeLands(n, m)
  \/ ClearLands(n)
  \/ StoreLands(n)

Next ==
  \/ \E n \in Node : UserPut(n) \/ Step(n) \/ Network(n)
  \/ Finished

Spec == Init /\ [][Next]_vars

\* Each PE runs on and calls the collective as often as the others do; the
\* transport delivers what was posted.  Nothing obliges a PE to put.
Fairness ==
  \A n \in Node : WF_vars(Step(n)) /\ WF_vars(Network(n))

FairSpec == Spec /\ Fairness

-----------------------------------------------------------------------------
(* Properties.                                                             *)

\* Calls PE n has returned from.
Left(n) == IF Outside(n) THEN round[n] ELSE round[n] - 1

\* The barrier as its callers see it (barrier.c: each helper returns only
\* after the release has come down the tree): the tree barrier implements
\* the abstract barrier.
Abstract == INSTANCE BarrierSpec WITH
  entered <- round, left <- [n \in Node |-> Left(n)]

ImplementsBarrier == Abstract!BSpec

\* No PE has returned from a call that some PE has not yet begun.
NoEarlyLeave == \A n, m \in Node : Left(n) <= round[m]

\* Pokes a node has sent to its parent, and times it has cleared its pSync
\* and poked its children.
Sent(n) == IF pc[n] = "gather" THEN round[n] - 1 ELSE round[n]

Cleared(n) == IF Outside(n) \/ pc[n] = "reset" THEN round[n] ELSE round[n] - 1

\* The neighbours of n whose poke for n's next clear has landed.
ChildrenHere(n) ==
  {c \in Children[n] : Sent(c) - pokes[c][n] = Cleared(n) + 1}

ParentHere(n) ==
  {p \in Node : /\ n # Root
                /\ p = Parent[n]
                /\ Cleared(p) - pokes[p][n] = Cleared(n) + 1}

Here(n) == ChildrenHere(n) \cup ParentHere(n)

\* pSync counts every poke that has landed since the node last cleared it:
\* neither the clear ("Clear pSync and poke the children", barrier.c) nor
\* anything else but the reset of a team sync erases a poke meant for a later
\* call.
EveryPokeCounted ==
  use.prompt /\ ~use.reset =>
    \A n \in Node : pSync[n] = SyncValue + Cardinality(Here(n))

\* The counter never passes the value its EQ wait is looking for: the wait
\* of a gathering node and the wait for the parent cannot be overshot.
NoOvershoot ==
  use.prompt =>
    \A n \in Node :
      pSync[n] <= SyncValue + Npokes(n)
                    + (IF n # Root /\ pc[n] \in {"await", "clear"} THEN 1 ELSE 0)

\* shmem_barrier completes memory: when any PE has returned from a barrier,
\* every put issued before the issuing PE's matching call has landed.
BarrierCompletesStores ==
  use.quiet => \A n, m \in Node : \A r \in stores[n] : Left(m) <= r

\* Every call returns, given that every PE makes its calls.
EveryCallReturns ==
  \A n \in Node : ~Outside(n) ~> Outside(n)
=============================================================================
