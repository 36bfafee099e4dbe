----------------------------- MODULE MCBarriers -----------------------------
(***************************************************************************)
(* The barrier, sync and team sync whose algorithm the environment selects *)
(* (api/collectives/table.c): a tree as in MCTreeBarrier, binomial unless  *)
(* asked otherwise, or the linear or the dissemination algorithm.  The     *)
(* variables with f are those of an algorithm that uses no tree.           *)
(***************************************************************************)
EXTENDS MCTreeBarrier

CONSTANTS
  SyncSize,    \* SHMEM_BARRIER_SYNC_SIZE: words the library allocates
  FlatRounds,  \* bound: calls each PE makes where there is no tree
  MaxSize,     \* bound: nodes of the trees of TreesFit
  Degrees      \* their degrees

\* The trees are over the same PEs.
ASSUME FlatAssumption ==
  /\ Size \in Nat \ {0} /\ Node = 0 .. Size - 1
  /\ FlatRounds \in Nat

VARIABLES algorithm, fVariant, fPc, fRound, fStage, fSync, fPokes, fAcks, fClears

tree == vars
flat == <<fVariant, fPc, fRound, fStage, fSync, fPokes, fAcks, fClears>>
all == <<algorithm, tree, flat>>

L == INSTANCE LinearBarrier WITH
  MaxRound <- FlatRounds, variant <- fVariant, pc <- fPc, round <- fRound,
  pSync <- fSync, pokes <- fPokes, acks <- fAcks, clears <- fClears

D == INSTANCE DisseminationBarrier WITH
  MaxRound <- FlatRounds, variant <- fVariant, pc <- fPc, round <- fRound,
  stage <- fStage, pSync <- fSync, pokes <- fPokes

\* The part of the algorithm that is not in use does not move.
NoTree == use = MCSync /\ Init
NoFlat ==
  /\ fVariant = "none" /\ fStage = <<>>
  /\ fPc = [n \in Node |-> "out"] /\ fRound = [n \in Node |-> 0]
  /\ fSync = <<>> /\ fPokes = <<>> /\ fAcks = <<>> /\ fClears = <<>>

BarriersInit ==
  \/ algorithm = "tree" /\ Init /\ NoFlat
  \/ algorithm = "linear" /\ NoTree /\ L!Init /\ fStage = <<>>
  \/ algorithm = "dissemination" /\ NoTree /\ D!Init /\ fAcks = <<>> /\ fClears = <<>>

PEStep(n) ==
  /\ UNCHANGED algorithm
  /\ \/ algorithm = "tree" /\ Step(n) /\ UNCHANGED flat
     \/ algorithm = "linear" /\ L!Step(n) /\ UNCHANGED <<tree, fStage>>
     \/ algorithm = "dissemination" /\ D!Step(n) /\ UNCHANGED <<tree, fAcks, fClears>>

Delivery(n) ==
  /\ UNCHANGED algorithm
  /\ \/ algorithm = "tree" /\ Network(n) /\ UNCHANGED flat
     \/ algorithm = "linear" /\ L!Network(n) /\ UNCHANGED <<tree, fStage>>
     \/ algorithm = "dissemination" /\ D!Network(n) /\ UNCHANGED <<tree, fAcks, fClears>>

TreeUserPut(n) == algorithm = "tree" /\ UserPut(n) /\ UNCHANGED <<algorithm, flat>>

BarriersNext == \E n \in Node : PEStep(n) \/ Delivery(n) \/ TreeUserPut(n)

\* Each PE runs on and calls the collective as often as the others do; the
\* transport delivers what was posted.  Nothing obliges a PE to put.
BarriersFairness ==
  \A n \in Node : WF_all(PEStep(n)) /\ WF_all(Delivery(n))

BarriersSpec == BarriersInit /\ [][BarriersNext]_all /\ BarriersFairness

-----------------------------------------------------------------------------
\* What is sent for one call is never taken for another, although PEs are a call
\* apart and the work array is not renewed: a clear in flight erases the pokes
\* of its own call only (linear, barrier.c:68), and a word never holds more than
\* the poke of this call and of the next (dissemination, barrier.c:264).
CallsKeptApart ==
  /\ algorithm = "linear" => L!TypeOK /\ L!ClearsEraseOneCall
  /\ algorithm = "dissemination" => D!TypeOK /\ D!OneCallAhead

\* A PE returns from a call of a barrier without a tree only when every PE has
\* made that call (barrier.c, barrier_sync_helper_linear and _dissemination).
\* For the trees TreeBarrier's ImplementsBarrier says so.
FlatAbstract == INSTANCE BarrierSpec WITH
  MaxRound <- FlatRounds,
  entered <- fRound,
  left <- [n \in Node |-> IF fPc[n] = "out" THEN fRound[n] ELSE fRound[n] - 1]
OthersImplementBarrier == FlatAbstract!BSpec

\* Every call returns, whichever the algorithm: given that every PE makes its
\* calls, each PE has in the end returned from the last one.  A team sync without
\* a tree may lose a poke of the next one when it resets its work array
\* (teams.c:187), as MCTreeBarrier shows for the trees.
EveryPEReturns ==
  <>(IF algorithm = "tree"
     THEN \A n \in Node : Outside(n) /\ round[n] = use.calls
     ELSE \/ fVariant = "team_sync"
          \/ \A n \in Node : fPc[n] = "out" /\ fRound[n] = FlatRounds)

-----------------------------------------------------------------------------
(* The trees of trees.c: every size up to MaxSize, root and degree.        *)

\* What a node takes for its children are exactly the nodes that take it for
\* their parent: every poke sent is a poke counted, although the two sides are
\* computed on different PEs.  Every node is reached from the root, and by one
\* way only.  k is the degree of the tree.
IsRootedTree(kind, size, root, k) ==
  LET nodes == 0 .. size - 1
      children == [n \in nodes |-> TreeChildren(kind, size, root, k, n)]
      parent == [n \in nodes |-> TreeParent(kind, size, root, k, n)]
      within[d \in 0..size] ==
        IF d = 0 THEN {root}
        ELSE LET nearer == within[d-1]
             IN  nearer \cup UNION {children[n] : n \in nearer}
  IN  /\ \A n \in nodes : children[n] = {c \in nodes : parent[c] = n}
      /\ parent[root] = NoParent
      /\ \A n \in nodes \ {root} : parent[n] \in nodes \ {n}
      /\ within[size] = nodes

\* Stepping from children_begin to children_end modulo the tree size, as
\* broadcast.c does, visits exactly the children of the node.
IntervalWalksTheChildren(size, root, k) ==
  \A n \in 0 .. size - 1 :
    LET iv == CompleteInterval(size, root, k, n)
        kids == TreeChildren("complete", size, root, k, n)
        walk[c \in 0 .. size - 1] ==
          IF c = iv.end THEN {} ELSE {c} \cup walk[(c + 1) % size]
    IN  kids # {} =>
          /\ {iv.begin, iv.end} \subseteq 0 .. size - 1
          /\ walk[iv.begin] = kids

\* The trees that PEs compute for themselves, each for its own node, fit
\* together to one tree that spans the active set (trees.c, all three kinds).
\* No step changes that, so it is stated of where the PEs begin.
TreesFit ==
  algorithm = "tree" /\ Init =>
  \A size \in 1..MaxSize : \A root \in 0 .. size - 1 : \A k \in Degrees :
    /\ \A kind \in {"binomial", "knomial", "complete"} : IsRootedTree(kind, size, root, k)
    /\ IntervalWalksTheChildren(size, root, k)
=============================================================================
