--------------------------- MODULE BarrierProofs ---------------------------
(***************************************************************************)
(* Proofs about the barrier, the sync and the team sync.  First the        *)
(* tree barrier, for every tree and any number of calls.  The one          *)
(* assumption is PromptSelfPuts: a put a PE makes to itself has landed     *)
(* when the put returns.  (Without it NoEarlyLeave does not hold over two  *)
(* syncs.)  Then the barriers without a tree, for any number of PEs but    *)
(* one: they need no assumption about the transport.                       *)
(***************************************************************************)
EXTENDS MCBarriers, FiniteSetTheorems, WellFoundedInduction, TLAPS

-----------------------------------------------------------------------------
(* The inductive invariant.                                                *)

\* The assumption about the transport.
PromptSelfPuts == \A u \in Uses : u.prompt

ParentSet(n) == {p \in Node : n # Root /\ p = Parent[n]}

\* Everybody node n expects a poke from in a call.
Full(n) == Children[n] \cup ParentSet(n)

\* Between a node and its parent: at most one poke of each direction is out,
\* and which one it is follows from the number of clears of either side.
Edge(c) ==
  /\ Sent(c) - pokes[c][Parent[c]] \in
       {Cleared(Parent[c]), Cleared(Parent[c]) + 1}
  /\ Cleared(Parent[c]) - pokes[Parent[c]][c] \in
       {Cleared(c), Cleared(c) + 1}

EdgeInv == \A c \in Node \ {Root} : Edge(c)

\* Pokes travel along edges of the tree only.
NoStray == \A m, n \in Node : pokes[m][n] > 0 => m \in Full(n)

PcInv ==
  \A n \in Node :
    /\ ~Outside(n) => round[n] >= 1
    /\ pc[n] = "await" => n # Root
    /\ pc[n] = "reset" => use.reset

\* A reset of the work array may erase pokes, so with it pSync is only bounded
\* by the pokes that have landed.
CountInv ==
  \A n \in Node :
    /\ pSync[n] <= Cardinality(Here(n))
    /\ ~use.reset => pSync[n] = Cardinality(Here(n))

\* Whoever has stopped waiting has been poked by everybody it waits for.
ClearInv == \A n \in Node : pc[n] = "clear" => Here(n) = Full(n)

\* A poke to the parent vouches for the whole subtree ...
SubtreeInv == \A n \in Node : \A m \in Below[n] : Sent(n) <= round[m]

\* ... and a clear for everybody.
GlobalInv == \A n, m \in Node : Cleared(n) <= round[m]

IInv ==
  /\ TypeOK
  /\ clears = [n \in Node |-> 0]
  /\ PcInv
  /\ NoStray
  /\ EdgeInv
  /\ CountInv
  /\ ClearInv
  /\ SubtreeInv
  /\ GlobalInv

-----------------------------------------------------------------------------
(* Facts about the sets the counts are of.                                 *)

\* The number of pokes a call brings to a node: one of each child and, unless
\* the node is the root, one of the parent.
LEMMA FullCardinality ==
  ASSUME NEW n \in Node
  PROVE  /\ IsFiniteSet(Full(n))
         /\ Full(n) \subseteq Node
         /\ IsFiniteSet(Children[n])
         /\ Npokes(n) \in Nat
         /\ Cardinality(Full(n)) = Npokes(n) + (IF n = Root THEN 0 ELSE 1)
<1>1. Children[n] \subseteq Node /\ IsFiniteSet(Children[n])
  BY TreeShape, FS_Subset
<1>2. CASE n = Root
  <2>1. Full(n) = Children[n]
    BY <1>2 DEF Full, ParentSet
  <2> QED
    BY <1>1, <1>2, <2>1, FS_CardinalityType DEF Npokes
<1>3. CASE n # Root
  <2>1. Full(n) = Children[n] \cup {Parent[n]} /\ Parent[n] \in Node
    BY <1>3, TreeShape DEF Full, ParentSet
  <2>2. Parent[n] \notin Children[n]
    BY <1>3, TreeShape
  <2> QED
    BY <1>1, <1>3, <2>1, <2>2, FS_AddElement, FS_CardinalityType DEF Npokes
<1> QED BY <1>2, <1>3

\* Landed pokes come from nodes that are expected to poke.
LEMMA HereInFull ==
  ASSUME NEW n \in Node
  PROVE  /\ Here(n) \subseteq Full(n)
         /\ IsFiniteSet(Here(n))
         /\ Cardinality(Here(n)) \in Nat
         /\ Cardinality(Here(n)) <= Npokes(n) + (IF n = Root THEN 0 ELSE 1)
<1>1. Here(n) \subseteq Full(n)
  BY DEF Here, ChildrenHere, ParentHere, Full, ParentSet
<1> QED
  BY <1>1, FullCardinality, FS_Subset, FS_CardinalityType

LEMMA CountTypes ==
  ASSUME TypeOK, NEW n \in Node
  PROVE  /\ Sent(n) \in Int /\ Cleared(n) \in Int
         /\ round[n] \in Int
         /\ Cleared(n) <= Sent(n) /\ Sent(n) <= Cleared(n) + 1
         /\ Sent(n) <= round[n]
BY Parameters DEF TypeOK, Sent, Cleared, Outside

\* While it is not waiting for its parent, a node has no poke of its parent.
LEMMA NoParentPoke ==
  ASSUME IInv, NEW n \in Node,
         Outside(n) \/ pc[n] \in {"gather", "reset"}
  PROVE  ParentHere(n) = {}
<1>1. SUFFICES ASSUME NEW p \in Node, n # Root, p = Parent[n],
                      Cleared(p) - pokes[p][n] = Cleared(n) + 1
               PROVE  FALSE
  BY DEF ParentHere
<1>2. Edge(n)
  BY <1>1 DEF IInv, EdgeInv
<1>3. pokes[p][n] \in Nat /\ pokes[n][p] \in Nat
  BY DEF IInv, TypeOK
<1>4. Sent(n) = Cleared(n)
  BY Parameters DEF IInv, TypeOK, Sent, Cleared, Outside
<1>5. Cleared(p) \in Int /\ Cleared(n) \in Int /\ Sent(n) \in Int
  BY CountTypes DEF IInv
<1> QED
  BY <1>1, <1>2, <1>3, <1>4, <1>5 DEF Edge

\* Nothing but these three decides which pokes have landed.
LEMMA SameHere ==
  ASSUME \A m \in Node : Sent(m)' = Sent(m) /\ Cleared(m)' = Cleared(m),
         pokes' = pokes
  PROVE  \A m \in Node : Here(m)' = Here(m)
<1>1. \A m \in Node : ChildrenHere(m)' = ChildrenHere(m)
  BY TreeShape DEF ChildrenHere
<1>2. \A m \in Node : ParentHere(m)' = ParentHere(m)
  BY DEF ParentHere
<1> QED
  BY <1>1, <1>2 DEF Here

-----------------------------------------------------------------------------
(* Preservation, one lemma per kind of step.                               *)

LEMMA InitInv == Init => IInv
<1> SUFFICES ASSUME Init PROVE IInv
  OBVIOUS
<1>1. TypeOK
  BY Parameters DEF Init, TypeOK, SyncValue
<1>2. \A n \in Node : Sent(n) = 0 /\ Cleared(n) = 0 /\ round[n] = 0
  BY DEF Init, Sent, Cleared, Outside
<1>3. \A m, n \in Node : pokes[m][n] = 0
  BY DEF Init
<1>4. EdgeInv
  BY <1>2, <1>3, TreeShape DEF EdgeInv, Edge
<1>5. \A n \in Node : Here(n) = {}
  BY <1>2, <1>3, TreeShape DEF Here, ChildrenHere, ParentHere
<1>6. CountInv
  BY <1>5, FS_EmptySet DEF CountInv, Init, SyncValue
<1>7. SubtreeInv /\ GlobalInv
  BY <1>2, TreeShape DEF SubtreeInv, GlobalInv
<1> QED
  BY <1>1, <1>3, <1>4, <1>6, <1>7 DEF IInv, Init, PcInv, Outside, NoStray, ClearInv

\* A step that sends nothing, clears nothing and lands nothing keeps the
\* invariant if rounds do not fall and whoever stops waiting may do so.
LEMMA SilentStep ==
  ASSUME IInv, TypeOK', PcInv', ClearInv',
         \A m \in Node : Sent(m)' = Sent(m) /\ Cleared(m)' = Cleared(m),
         \A m \in Node : round[m] <= round'[m],
         UNCHANGED <<use, pSync, pokes, clears>>
  PROVE  IInv'
<1>1. \A m \in Node : Here(m)' = Here(m)
  BY SameHere
<1>2. CountInv'
  BY <1>1 DEF IInv, CountInv
<1>3. EdgeInv'
  BY TreeShape DEF IInv, EdgeInv, Edge
<1>4. SubtreeInv' /\ GlobalInv'
  <2>1. \A m \in Node : round[m] \in Int /\ round'[m] \in Int
    BY Parameters DEF IInv, TypeOK
  <2>2. \A m \in Node : Sent(m) \in Int /\ Cleared(m) \in Int
    BY CountTypes DEF IInv
  <2>3. \A n \in Node : Below[n] \subseteq Node
    BY TreeShape
  <2> QED
    BY <2>1, <2>2, <2>3 DEF IInv, SubtreeInv, GlobalInv
<1>5. NoStray'
  BY DEF IInv, NoStray, Full, ParentSet
<1> QED
  BY <1>2, <1>3, <1>4, <1>5 DEF IInv

LEMMA UserPutInv ==
  ASSUME IInv, NEW n \in Node, UserPut(n)
  PROVE  IInv'
<1>1. TypeOK'
  BY DEF IInv, TypeOK, UserPut
<1>2. \A m \in Node : Outside(m)' = Outside(m) /\ (m # n => pc'[m] = pc[m])
  BY DEF IInv, TypeOK, UserPut, Outside
<1>3. \A m \in Node : Sent(m)' = Sent(m) /\ Cleared(m)' = Cleared(m)
  BY DEF IInv, TypeOK, UserPut, Outside, Sent, Cleared
<1>4. PcInv'
  BY <1>2 DEF IInv, TypeOK, PcInv, UserPut, Outside
<1>5. ClearInv'
  <2>1. \A m \in Node : Here(m)' = Here(m)
    BY <1>3, SameHere DEF UserPut
  <2> QED
    BY <2>1 DEF IInv, TypeOK, ClearInv, UserPut, Full, ParentSet
<1> QED
  BY <1>1, <1>3, <1>4, <1>5, SilentStep, Parameters DEF IInv, TypeOK, UserPut

LEMMA EnterInv ==
  ASSUME IInv, NEW n \in Node, Enter(n)
  PROVE  IInv'
<1>1. TypeOK'
  BY Parameters DEF IInv, TypeOK, Enter, Use
<1>3. \A m \in Node : Sent(m)' = Sent(m) /\ Cleared(m)' = Cleared(m)
  BY Parameters DEF IInv, TypeOK, Enter, Outside, Sent, Cleared
<1>4. PcInv'
  BY Parameters DEF IInv, TypeOK, PcInv, Enter, Outside
<1>5. ClearInv'
  <2>1. \A m \in Node : Here(m)' = Here(m)
    BY <1>3, SameHere DEF Enter
  <2> QED
    BY <2>1 DEF IInv, TypeOK, ClearInv, Enter, Full, ParentSet
<1>6. \A m \in Node : round[m] <= round'[m]
  BY Parameters DEF IInv, TypeOK, Enter, Use
<1> QED
  BY <1>1, <1>3, <1>4, <1>5, <1>6, SilentStep DEF Enter

\* A gathering node that sees all its children's pokes in pSync really has
\* them: the count can hold nothing else.
LEMMA GatheredMeansAll ==
  ASSUME IInv, NEW n \in Node, pc[n] = "gather", Gathered(n)
  PROVE  /\ ChildrenHere(n) = Children[n]
         /\ \A m \in Below[n] : round[n] <= round[m]
<1>1. ParentHere(n) = {} /\ Here(n) = ChildrenHere(n)
  BY NoParentPoke DEF Here
<1>2. ChildrenHere(n) \subseteq Children[n]
  BY DEF ChildrenHere
<1>3. ChildrenHere(n) = Children[n]
  <2>1. CASE Children[n] = {}
    BY <2>1, <1>2
  <2>2. CASE Children[n] # {}
    <3>1. Npokes(n) <= Cardinality(ChildrenHere(n))
      BY <2>2, <1>1, FullCardinality DEF IInv, CountInv, Gathered, SyncValue
    <3>2. Cardinality(ChildrenHere(n)) <= Cardinality(Children[n])
      BY <1>2, FullCardinality, FS_Subset
    <3>3. Cardinality(ChildrenHere(n)) = Cardinality(Children[n])
      BY <3>1, <3>2, <1>1, FullCardinality, HereInFull DEF Npokes
    <3> QED
      BY <3>3, <1>2, FullCardinality, FS_Subset
  <2> QED BY <2>1, <2>2
<1>4. ASSUME NEW m \in Below[n] PROVE round[n] <= round[m]
  <2>1. CASE m = n
    BY <2>1, CountTypes DEF IInv
  <2>2. CASE m # n
    <3>1. PICK c \in Children[n] : m \in Below[c]
      BY <2>2, TreeShape
    <3>2. c \in Node /\ m \in Node
      BY <3>1, TreeShape
    <3>3. Sent(c) - pokes[c][n] = Cleared(n) + 1
      BY <1>3 DEF ChildrenHere
    <3>4. pokes[c][n] \in Nat /\ Sent(c) \in Int /\ round[m] \in Int /\ round[n] \in Int
      BY <3>2, CountTypes DEF IInv, TypeOK
    <3>5. Cleared(n) = round[n] - 1
      BY DEF Cleared, Outside
    <3>6. Sent(c) <= round[m]
      BY <3>1, <3>2 DEF IInv, SubtreeInv
    <3> QED
      BY <3>3, <3>4, <3>5, <3>6
  <2> QED BY <2>1, <2>2
<1> QED BY <1>3, <1>4

LEMMA PokeParentInv ==
  ASSUME IInv, NEW n \in Node, PokeParent(n)
  PROVE  IInv'
<1> DEFINE p == Parent[n]
<1>0. /\ n # Root /\ p \in Node /\ n \in Children[p]
      /\ pc[n] = "gather" /\ round[n] >= 1
  BY TreeShape DEF PokeParent, IInv, PcInv, Outside
<1>1. TypeOK'
  BY <1>0 DEF IInv, TypeOK, PokeParent
<1>2. /\ \A m \in Node : Cleared(m)' = Cleared(m)
      /\ \A m \in Node \ {n} : Sent(m)' = Sent(m)
      /\ Sent(n)' = Sent(n) + 1
      /\ Sent(n)' = round[n]
  BY Parameters, <1>0 DEF IInv, TypeOK, PokeParent, Outside, Sent, Cleared
<1>3. /\ pokes'[n][p] = pokes[n][p] + 1
      /\ \A a, b \in Node : <<a, b>> # <<n, p>> => pokes'[a][b] = pokes[a][b]
  BY <1>0 DEF IInv, TypeOK, PokeParent
<1>4. /\ \A m \in Node : Sent(m) \in Int /\ Cleared(m) \in Int
      /\ \A a, b \in Node : pokes[a][b] \in Int
  BY CountTypes DEF IInv, TypeOK
<1>5. \A m \in Node : Here(m)' = Here(m)
  <2>1. \A m \in Node : ChildrenHere(m)' = ChildrenHere(m)
    <3>1. \A m \in Node : \A c \in Children[m] :
             (Sent(c) - pokes[c][m])' = Sent(c) - pokes[c][m]
      <4> SUFFICES ASSUME NEW m \in Node, NEW c \in Children[m]
                   PROVE  (Sent(c) - pokes[c][m])' = Sent(c) - pokes[c][m]
        OBVIOUS
      <4>1. c \in Node \ {Root} /\ Parent[c] = m
        BY TreeShape
      <4> QED
        BY <4>1, <1>2, <1>3, <1>4
    <3> QED
      BY <3>1, <1>2 DEF ChildrenHere
  <2>2. \A m \in Node : ParentHere(m)' = ParentHere(m)
    <3> SUFFICES ASSUME NEW m \in Node, NEW q \in Node, m # Root, q = Parent[m]
                 PROVE  pokes'[q][m] = pokes[q][m]
      BY <1>2 DEF ParentHere
    <3>1. <<q, m>> # <<n, p>>
      BY <1>0, TreeShape
    <3> QED
      BY <3>1, <1>3
  <2> QED
    BY <2>1, <2>2 DEF Here
<1>6. EdgeInv'
  <2> SUFFICES ASSUME NEW c \in Node \ {Root} PROVE Edge(c)'
    BY DEF EdgeInv
  <2>1. Edge(c) /\ Parent[c] \in Node
    BY TreeShape DEF IInv, EdgeInv
  <2>2. (Sent(c) - pokes[c][Parent[c]])' = Sent(c) - pokes[c][Parent[c]]
    BY <2>1, <1>2, <1>3, <1>4
  <2>3. <<Parent[c], c>> # <<n, p>>
    BY <1>0, TreeShape
  <2> QED
    BY <2>1, <2>2, <2>3, <1>2, <1>3 DEF Edge
<1>7. CountInv' /\ ClearInv'
  BY <1>5, <1>0 DEF IInv, TypeOK, CountInv, ClearInv, PokeParent, Full, ParentSet
<1>8. NoStray'
  <2>1. n \in Full(p)
    BY <1>0 DEF Full
  <2> QED
    BY <2>1, <1>0, <1>3 DEF IInv, NoStray, Full, ParentSet
<1>9. SubtreeInv' /\ GlobalInv'
  <2>1. \A m \in Below[n] : round[n] <= round[m]
    BY GatheredMeansAll DEF PokeParent
  <2> QED
    BY <2>1, <1>2 DEF IInv, SubtreeInv, GlobalInv, PokeParent
<1>10. PcInv'
  BY <1>0 DEF IInv, TypeOK, PcInv, PokeParent, Outside
<1> QED
  BY <1>1, <1>6, <1>7, <1>8, <1>9, <1>10 DEF IInv, PokeParent

\* Whoever stops waiting has a poke of everybody it expects one from.
LEMMA ReleasedMeansAll ==
  ASSUME IInv, NEW n \in Node, Released(n)
  PROVE  Here(n) = Full(n)
<1>1. CASE n = Root
  <2>1. ChildrenHere(n) = Children[n]
    BY <1>1, GatheredMeansAll DEF Released
  <2>2. ParentHere(n) = ParentSet(n)
    BY <1>1 DEF ParentHere, ParentSet
  <2> QED
    BY <2>1, <2>2 DEF Here, Full
<1>2. CASE n # Root
  <2>1. Npokes(n) + 1 <= Cardinality(Here(n))
    BY <1>2, FullCardinality DEF IInv, CountInv, Released, Answered, SyncValue
  <2>2. Cardinality(Here(n)) = Cardinality(Full(n))
    BY <1>2, <2>1, FullCardinality, HereInFull
  <2> QED
    BY <2>2, FullCardinality, HereInFull, FS_Subset
<1> QED BY <1>1, <1>2

LEMMA ReleasedInv ==
  ASSUME IInv, NEW n \in Node, Released(n)
  PROVE  IInv'
<1>1. TypeOK'
  BY DEF IInv, TypeOK, Released
<1>2. pc[n] = (IF n = Root THEN "gather" ELSE "await") /\ pc' = [pc EXCEPT ![n] = "clear"]
  BY DEF Released
<1>3. \A m \in Node : Cleared(m)' = Cleared(m)
  BY <1>2 DEF IInv, TypeOK, Released, Outside, Cleared
<1>4. \A m \in Node \ {Root} : Sent(m)' = Sent(m)
  BY <1>2 DEF IInv, TypeOK, Released, Sent
<1>5. \A m \in Node : Here(m)' = Here(m)
  <2>1. \A m \in Node : ChildrenHere(m)' = ChildrenHere(m)
    BY <1>3, <1>4, TreeShape DEF ChildrenHere, Released
  <2>2. \A m \in Node : ParentHere(m)' = ParentHere(m)
    BY <1>3 DEF ParentHere, Released
  <2> QED
    BY <2>1, <2>2 DEF Here
<1>6. CountInv'
  BY <1>5 DEF IInv, CountInv, Released
<1>7. ClearInv'
  BY <1>2, <1>5, ReleasedMeansAll DEF IInv, TypeOK, ClearInv, Full, ParentSet
<1>8. EdgeInv'
  BY <1>3, <1>4, TreeShape DEF IInv, EdgeInv, Edge, Released
<1>9. PcInv'
  BY <1>2 DEF IInv, TypeOK, PcInv, Released, Outside
<1>10. SubtreeInv' /\ GlobalInv'
  <2>1. CASE n = Root
    <3>1. \A m \in Below[n] : round[n] <= round[m]
      BY <2>1, GatheredMeansAll DEF Released
    <3>2. Sent(n)' = round[n]
      BY <1>2 DEF IInv, TypeOK, Released, Sent
    <3> QED
      BY <2>1, <3>1, <3>2, <1>3, <1>4 DEF IInv, SubtreeInv, GlobalInv, Released
  <2>2. CASE n # Root
    <3>1. Sent(Root)' = Sent(Root)
      BY <1>2, <2>2, TreeShape DEF IInv, TypeOK, Released, Sent
    <3> QED
      BY <3>1, <1>3, <1>4 DEF IInv, SubtreeInv, GlobalInv, Released
  <2> QED BY <2>1, <2>2
<1>11. NoStray'
  BY DEF IInv, NoStray, Released, Full, ParentSet
<1> QED
  BY <1>1, <1>6, <1>7, <1>8, <1>9, <1>10, <1>11 DEF IInv, Released

\* A node that clears can vouch for every PE: the root through its subtree,
\* another node through its parent, which has cleared before it.
LEMMA ClearMeansEverybody ==
  ASSUME IInv, NEW n \in Node, pc[n] = "clear"
  PROVE  \A m \in Node : round[n] <= round[m]
<1>1. Cleared(n) = round[n] - 1 /\ round[n] \in Int
  BY CountTypes DEF IInv, Cleared, Outside
<1>2. Here(n) = Full(n)
  BY DEF IInv, ClearInv
<1>3. CASE n = Root
  <2>1. SUFFICES ASSUME NEW m \in Below[n] PROVE round[n] <= round[m]
    BY <1>3, TreeShape
  <2>2. Sent(n) = round[n]
    BY DEF Sent
  <2> QED
    BY <2>2 DEF IInv, SubtreeInv
<1>4. CASE n # Root
  <2> DEFINE p == Parent[n]
  <2>1. p \in Node /\ p \in ParentSet(n)
    BY <1>4, TreeShape DEF ParentSet
  <2>2. p \notin Children[n]
    BY <1>4, TreeShape
  <2>3. Cleared(p) - pokes[p][n] = Cleared(n) + 1
    BY <1>2, <2>1, <2>2 DEF Here, Full, ChildrenHere, ParentHere
  <2>4. pokes[p][n] \in Nat /\ Cleared(p) \in Int
    BY <2>1, CountTypes DEF IInv, TypeOK
  <2>5. Cleared(p) >= round[n]
    BY <1>1, <2>3, <2>4
  <2>6. \A m \in Node : Cleared(p) <= round[m] /\ round[m] \in Int
    BY <2>1, CountTypes DEF IInv, GlobalInv
  <2> QED
    BY <1>1, <2>4, <2>5, <2>6
<1> QED BY <1>3, <1>4

LEMMA ClearAndPokeInv ==
  ASSUME PromptSelfPuts, IInv, NEW n \in Node, ClearAndPoke(n)
  PROVE  IInv'
<1>0. /\ pc[n] = "clear" /\ round[n] >= 1
      /\ pc' = [pc EXCEPT ![n] = IF use.reset THEN "reset" ELSE "out"]
      /\ pSync' = [pSync EXCEPT ![n] = 0]
      /\ UNCHANGED <<use, round, clears, stores>>
  BY DEF ClearAndPoke, SyncValue, IInv, TypeOK, PcInv, Outside, PromptSelfPuts
<1>1. /\ \A a, b \in Node : a # n => pokes'[a][b] = pokes[a][b]
      /\ \A b \in Children[n] : pokes'[n][b] = pokes[n][b] + 1
      /\ \A b \in Node \ Children[n] : pokes'[n][b] = pokes[n][b]
      /\ pokes' \in [Node -> [Node -> Nat]]
  BY TreeShape DEF ClearAndPoke, IInv, TypeOK
<1>2. TypeOK'
  BY <1>0, <1>1 DEF IInv, TypeOK
<1>3. /\ \A m \in Node : Sent(m)' = Sent(m)
      /\ \A m \in Node \ {n} : Cleared(m)' = Cleared(m)
      /\ Cleared(n) = round[n] - 1
      /\ Cleared(n)' = round[n]
      /\ Cleared(n)' = Cleared(n) + 1
  BY <1>0, Parameters DEF IInv, TypeOK, Outside, Sent, Cleared
<1>4. /\ \A m \in Node : Sent(m) \in Int /\ Cleared(m) \in Int
      /\ \A a, b \in Node : pokes[a][b] \in Int
  BY CountTypes DEF IInv, TypeOK
<1>5. Here(n) = Full(n)
  BY <1>0 DEF IInv, ClearInv
<1>6. \A c \in Children[n] : Sent(c) - pokes[c][n] = Cleared(n) + 1
  <2>1. \A c \in Children[n] : c \notin ParentSet(n)
    BY TreeShape DEF ParentSet
  <2> QED
    BY <1>5, <2>1 DEF Here, Full, ChildrenHere, ParentHere, ParentSet
<1>7. n # Root => Cleared(Parent[n]) - pokes[Parent[n]][n] = Cleared(n) + 1
  <2>1. n # Root => Parent[n] \in ParentSet(n) /\ Parent[n] \notin Children[n]
    BY TreeShape DEF ParentSet
  <2> QED
    BY <1>5, <2>1 DEF Here, Full, ChildrenHere, ParentHere, ParentSet
<1>8. \A c \in Children[n] : c \in Node \ {Root} /\ c # n /\ Parent[c] = n
  BY TreeShape
<1>9. \A c \in Node \ {Root} : Parent[c] \in Node /\ c \in Children[Parent[c]] /\ c # Parent[c]
  BY TreeShape
<1>10. EdgeInv'
  <2> SUFFICES ASSUME NEW c \in Node \ {Root} PROVE Edge(c)'
    BY DEF EdgeInv
  <2>0. Edge(c)
    BY DEF IInv, EdgeInv
  <2>1. CASE c = n
    <3>1. Parent[n] # n /\ Parent[n] \in Node /\ Parent[n] \notin Children[n]
      BY <2>1, <1>9, TreeShape
    <3> QED
      BY <2>0, <2>1, <3>1, <1>1, <1>3, <1>4, <1>7 DEF Edge
  <2>2. CASE c \in Children[n]
    <3>1. c # n /\ Parent[c] = n
      BY <2>2, <1>8
    <3>2. /\ Sent(c)' = Sent(c) /\ Cleared(c)' = Cleared(c)
          /\ Cleared(n)' = Cleared(n) + 1
          /\ pokes'[c][n] = pokes[c][n] /\ pokes'[n][c] = pokes[n][c] + 1
      BY <2>2, <3>1, <1>1, <1>3
    <3>3. Cleared(n) \in Int /\ Cleared(c) \in Int /\ pokes[n][c] \in Int
      BY <1>4
    <3>4. (Sent(c) - pokes[c][n])' = Cleared(n)'
      BY <2>2, <3>2, <1>6
    <3>5. (Cleared(n) - pokes[n][c])' = Cleared(n) - pokes[n][c]
      BY <3>2, <3>3
    <3>6. Cleared(n) - pokes[n][c] \in {Cleared(c), Cleared(c) + 1}
      BY <2>0, <3>1 DEF Edge
    <3>7. (Cleared(n) - pokes[n][c])' \in {Cleared(c), Cleared(c) + 1}'
      BY <3>2, <3>5, <3>6
    <3> QED
      BY <3>1, <3>4, <3>7 DEF Edge
  <2>3. CASE c # n /\ c \notin Children[n]
    <3>1. Parent[c] \in Node /\ Parent[c] # n
      BY <2>3, <1>9
    <3> QED
      BY <2>0, <2>3, <3>1, <1>1, <1>3 DEF Edge
  <2> QED BY <2>1, <2>2, <2>3
<1>11. Here(n)' = {}
  <2>1. ChildrenHere(n)' = {}
    BY <1>1, <1>3, <1>4, <1>6, <1>8 DEF ChildrenHere
  <2>2. ParentHere(n)' = {}
    <3> SUFFICES ASSUME NEW p \in Node, n # Root, p = Parent[n],
                        (Cleared(p) - pokes[p][n] = Cleared(n) + 1)'
                 PROVE  FALSE
      BY DEF ParentHere
    <3>1. p # n
      BY <1>9
    <3> QED
      BY <3>1, <1>1, <1>3, <1>4, <1>7
  <2> QED
    BY <2>1, <2>2 DEF Here
<1>12. \A m \in Node \ {n} : Here(m)' = Here(m)
  <2> SUFFICES ASSUME NEW m \in Node \ {n} PROVE Here(m)' = Here(m)
    OBVIOUS
  <2>1. ChildrenHere(m)' = ChildrenHere(m)
    <3>1. \A c \in Children[m] : c \in Node /\ (c = n => m \notin Children[n])
      BY TreeShape
    <3>2. \A c \in Children[m] : pokes'[c][m] = pokes[c][m]
      BY <3>1, <1>1
    <3> QED
      BY <3>1, <3>2, <1>3 DEF ChildrenHere
  <2>2. ParentHere(m)' = ParentHere(m)
    <3> SUFFICES ASSUME NEW p \in Node, m # Root, p = Parent[m]
                 PROVE  (Cleared(p) - pokes[p][m])' = Cleared(p) - pokes[p][m]
      BY <1>3 DEF ParentHere
    <3>1. CASE p = n
      <4>1. m \in Children[n]
        BY <3>1, <1>9
      <4>2. Cleared(n)' = Cleared(n) + 1 /\ pokes'[n][m] = pokes[n][m] + 1
        BY <4>1, <1>1, <1>3
      <4>3. Cleared(n) \in Int /\ pokes[n][m] \in Int
        BY <1>4
      <4> QED
        BY <3>1, <4>2, <4>3
    <3>2. CASE p # n
      BY <3>2, <1>1, <1>3
    <3> QED BY <3>1, <3>2
  <2> QED
    BY <2>1, <2>2 DEF Here
<1>13. CountInv'
  <2> SUFFICES ASSUME NEW m \in Node
               PROVE  /\ pSync'[m] <= Cardinality(Here(m)')
                      /\ ~use.reset => pSync'[m] = Cardinality(Here(m)')
    BY <1>0 DEF CountInv
  <2>1. CASE m = n
    BY <2>1, <1>0, <1>11, FS_EmptySet DEF IInv, TypeOK
  <2>2. CASE m # n
    BY <2>2, <1>0, <1>12 DEF IInv, TypeOK, CountInv
  <2> QED BY <2>1, <2>2
<1>14. ClearInv'
  BY <1>0, <1>12 DEF IInv, TypeOK, ClearInv, Full, ParentSet
<1>15. PcInv'
  BY <1>0, Parameters DEF IInv, TypeOK, PcInv, Outside
<1>16. NoStray'
  <2>1. \A b \in Children[n] : n \in ParentSet(b)
    BY <1>8 DEF ParentSet
  <2> QED
    BY <2>1, <1>1 DEF IInv, NoStray, Full, ParentSet
<1>17. SubtreeInv'
  BY <1>0, <1>3 DEF IInv, SubtreeInv
<1>18. GlobalInv'
  BY <1>0, <1>3, ClearMeansEverybody DEF IInv, GlobalInv
<1> QED
  BY <1>0, <1>2, <1>10, <1>13, <1>14, <1>15, <1>16, <1>17, <1>18 DEF IInv

LEMMA ResetPsyncInv ==
  ASSUME IInv, NEW n \in Node, ResetPsync(n)
  PROVE  IInv'
<1>0. /\ pc[n] = "reset" /\ use.reset
      /\ pc' = [pc EXCEPT ![n] = "out"]
      /\ pSync' = [pSync EXCEPT ![n] = 0]
      /\ UNCHANGED <<use, round, pokes, clears, stores>>
  BY DEF ResetPsync, SyncValue, IInv, PcInv
<1>1. TypeOK'
  BY <1>0 DEF IInv, TypeOK
<1>2. \A m \in Node : Sent(m)' = Sent(m) /\ Cleared(m)' = Cleared(m)
  BY <1>0 DEF IInv, TypeOK, Sent, Cleared, Outside
<1>3. \A m \in Node : Here(m)' = Here(m)
  BY <1>0, <1>2, SameHere
<1>4. CountInv'
  <2>1. \A m \in Node : pSync'[m] <= Cardinality(Here(m))
    BY <1>0, HereInFull DEF IInv, TypeOK, CountInv
  <2> QED
    BY <1>0, <1>3, <2>1 DEF CountInv
<1>5. ClearInv' /\ PcInv'
  BY <1>0, <1>3 DEF IInv, TypeOK, ClearInv, PcInv, Full, ParentSet, Outside
<1>6. EdgeInv'
  BY <1>0, <1>2, TreeShape DEF IInv, EdgeInv, Edge
<1>7. SubtreeInv' /\ GlobalInv'
  BY <1>0, <1>2 DEF IInv, SubtreeInv, GlobalInv
<1>8. NoStray'
  BY <1>0 DEF IInv, NoStray, Full, ParentSet
<1> QED
  BY <1>0, <1>1, <1>4, <1>5, <1>6, <1>7, <1>8 DEF IInv

LEMMA PokeLandsInv ==
  ASSUME IInv, NEW p \in Node, NEW q \in Node, PokeLands(p, q)
  PROVE  IInv'
<1>0. /\ pokes[p][q] >= 1
      /\ pokes'[p][q] = pokes[p][q] - 1
      /\ \A a, b \in Node : <<a, b>> # <<p, q>> => pokes'[a][b] = pokes[a][b]
      /\ pokes' \in [Node -> [Node -> Nat]]
      /\ pSync' = [pSync EXCEPT ![q] = @ + 1]
      /\ UNCHANGED <<use, pc, round, clears, stores>>
  BY DEF PokeLands, IInv, TypeOK
<1>1. TypeOK'
  BY <1>0 DEF IInv, TypeOK
<1>2. \A m \in Node : Sent(m)' = Sent(m) /\ Cleared(m)' = Cleared(m)
  BY <1>0 DEF Sent, Cleared, Outside
<1>3. /\ \A m \in Node : /\ Sent(m) \in Int /\ Cleared(m) \in Int
                          /\ Cleared(m) <= Sent(m) /\ Sent(m) <= Cleared(m) + 1
      /\ \A a, b \in Node : pokes[a][b] \in Nat
  BY CountTypes DEF IInv, TypeOK
<1>4. \A m \in Node \ {q} : Here(m)' = Here(m)
  BY <1>0, <1>2, TreeShape DEF Here, ChildrenHere, ParentHere
<1>5. \/ p \in Children[q] /\ p \notin ParentSet(q)
      \/ p \in ParentSet(q) /\ p \notin Children[q]
  <2>1. pokes[p][q] > 0
    BY <1>0, <1>3
  <2>2. p \in Full(q)
    BY <2>1 DEF IInv, NoStray
  <2>3. ~(p \in ParentSet(q) /\ p \in Children[q])
    BY TreeShape DEF ParentSet
  <2> QED
    BY <2>2, <2>3 DEF Full
<1>6. p \notin Here(q) /\ Here(q)' = Here(q) \cup {p} /\ EdgeInv'
  <2>1. CASE p \in Children[q] /\ p \notin ParentSet(q)
    <3>1. p \in Node \ {Root} /\ Parent[p] = q /\ p # q
      BY <2>1, TreeShape
    <3>2. Edge(p) /\ (q # Root => Edge(q))
      BY <3>1 DEF IInv, EdgeInv
    <3>3. Cleared(p) <= Cleared(q)
      BY <3>1, <3>2, <1>3 DEF Edge
    <3>4. Sent(p) - pokes[p][q] = Cleared(q) /\ pokes[p][q] = 1
      <4>1. Sent(p) - pokes[p][q] \in {Cleared(q), Cleared(q) + 1}
        BY <3>1, <3>2 DEF Edge
      <4>2. /\ Sent(p) \in Int /\ Cleared(p) \in Int /\ Cleared(q) \in Int
            /\ Sent(p) <= Cleared(p) + 1 /\ pokes[p][q] \in Nat /\ pokes[p][q] >= 1
        BY <1>0, <1>3
      <4> QED
        BY <4>1, <4>2, <3>3
    <3>5. ChildrenHere(q)' = ChildrenHere(q) \cup {p} /\ p \notin ChildrenHere(q)
      <4>1. \A c \in Children[q] : c # p => pokes'[c][q] = pokes[c][q]
        BY <1>0, TreeShape
      <4>2. \A c \in Children[q] : Sent(c)' = Sent(c) /\ Cleared(q)' = Cleared(q)
        BY <1>2, TreeShape
      <4>3. p \notin ChildrenHere(q)
        BY <3>4, <1>3 DEF ChildrenHere
      <4>4. (Sent(p) - pokes[p][q] = Cleared(q) + 1)'
        <5>1. Sent(p)' = Sent(p) /\ Cleared(q)' = Cleared(q) /\ pokes'[p][q] = 0
          BY <3>4, <1>0, <1>2
        <5>2. Sent(p) \in Int /\ Cleared(q) \in Int
          BY <1>3
        <5> QED
          BY <3>4, <5>1, <5>2
      <4>5. ChildrenHere(q)' = {c \in Children[q] : (Sent(c) - pokes[c][q] = Cleared(q) + 1)'}
        BY DEF ChildrenHere
      <4>6. ASSUME NEW c \in Children[q], c # p
            PROVE  c \in ChildrenHere(q)' <=> c \in ChildrenHere(q)
        BY <4>1, <4>2, <4>6 DEF ChildrenHere
      <4>7. p \in ChildrenHere(q)'
        BY <2>1, <4>4, <4>5
      <4>8. ChildrenHere(q) \subseteq Children[q] /\ ChildrenHere(q)' \subseteq Children[q]
        BY <4>5 DEF ChildrenHere
      <4> QED
        BY <4>3, <4>6, <4>7, <4>8
    <3>6. ParentHere(q)' = ParentHere(q) /\ p \notin ParentHere(q)
      BY <2>1, <1>0, <1>2 DEF ParentHere, ParentSet
    <3>7. EdgeInv'
      <4> SUFFICES ASSUME NEW c \in Node \ {Root} PROVE Edge(c)'
        BY DEF EdgeInv
      <4>1. Edge(c) /\ Parent[c] \in Node
        BY TreeShape DEF IInv, EdgeInv
      <4>2. <<Parent[c], c>> # <<p, q>>
        BY <2>1, TreeShape DEF ParentSet
      <4>3. CASE c = p
        BY <4>1, <4>2, <4>3, <3>1, <3>4, <1>0, <1>2, <1>3 DEF Edge
      <4>4. CASE c # p
        BY <4>1, <4>2, <4>4, <1>0, <1>2 DEF Edge
      <4> QED BY <4>3, <4>4
    <3> QED
      BY <3>5, <3>6, <3>7 DEF Here
  <2>2. CASE p \in ParentSet(q) /\ p \notin Children[q]
    <3>1. q \in Node \ {Root} /\ Parent[q] = p /\ p # q
      BY <2>2, TreeShape DEF ParentSet
    <3>2. Edge(q)
      BY <3>1 DEF IInv, EdgeInv
    <3>3. Cleared(p) <= Sent(q)
      BY <3>1, <3>2, <1>3 DEF Edge
    <3>4. Cleared(p) - pokes[p][q] = Cleared(q) /\ pokes[p][q] = 1
      <4>1. Cleared(p) - pokes[p][q] \in {Cleared(q), Cleared(q) + 1}
        BY <3>1, <3>2 DEF Edge
      <4>2. /\ Sent(q) \in Int /\ Cleared(p) \in Int /\ Cleared(q) \in Int
            /\ Sent(q) <= Cleared(q) + 1 /\ pokes[p][q] \in Nat /\ pokes[p][q] >= 1
        BY <1>0, <1>3
      <4> QED
        BY <4>1, <4>2, <3>3
    <3>5. ParentHere(q)' = {p} /\ ParentHere(q) = {}
      BY <3>1, <3>4, <1>0, <1>2, <1>3 DEF ParentHere
    <3>6. ChildrenHere(q)' = ChildrenHere(q) /\ p \notin ChildrenHere(q)
      <4>1. \A c \in Children[q] : c \in Node /\ pokes'[c][q] = pokes[c][q]
        BY <2>2, <1>0, TreeShape
      <4> QED
        BY <4>1, <2>2, <1>2 DEF ChildrenHere
    <3>7. EdgeInv'
      <4> SUFFICES ASSUME NEW c \in Node \ {Root} PROVE Edge(c)'
        BY DEF EdgeInv
      <4>1. Edge(c) /\ Parent[c] \in Node
        BY TreeShape DEF IInv, EdgeInv
      <4>2. <<c, Parent[c]>> # <<p, q>>
        BY <2>2, TreeShape
      <4>3. CASE c = q
        BY <4>1, <4>2, <4>3, <3>1, <3>4, <1>0, <1>2, <1>3 DEF Edge
      <4>4. CASE c # q
        BY <4>1, <4>2, <4>4, <1>0, <1>2 DEF Edge
      <4> QED BY <4>3, <4>4
    <3> QED
      BY <3>5, <3>6, <3>7 DEF Here
  <2> QED BY <1>5, <2>1, <2>2
<1>7. CountInv'
  <2>1. Cardinality(Here(q)') = Cardinality(Here(q)) + 1 /\ Cardinality(Here(q)) \in Nat
    BY <1>6, HereInFull, FS_AddElement
  <2> SUFFICES ASSUME NEW m \in Node
               PROVE  /\ pSync'[m] <= Cardinality(Here(m)')
                      /\ ~use.reset => pSync'[m] = Cardinality(Here(m)')
    BY <1>0 DEF CountInv
  <2>2. CASE m = q
    BY <2>1, <2>2, <1>0 DEF IInv, TypeOK, CountInv
  <2>3. CASE m # q
    BY <2>3, <1>0, <1>4 DEF IInv, TypeOK, CountInv
  <2> QED BY <2>2, <2>3
<1>8. ClearInv'
  <2>1. pc[q] # "clear"
    <3>1. p \in Full(q)
      BY <1>5 DEF Full
    <3> QED
      BY <3>1, <1>6 DEF IInv, ClearInv
  <2> QED
    BY <2>1, <1>0, <1>4 DEF IInv, ClearInv, Full, ParentSet
<1>9. NoStray'
  BY <1>0 DEF IInv, NoStray, Full, ParentSet, TypeOK
<1>10. PcInv' /\ SubtreeInv' /\ GlobalInv'
  BY <1>0, <1>2 DEF IInv, PcInv, SubtreeInv, GlobalInv, Outside
<1> QED
  BY <1>0, <1>1, <1>6, <1>7, <1>8, <1>9, <1>10 DEF IInv

LEMMA StoreLandsInv ==
  ASSUME IInv, NEW n \in Node, StoreLands(n)
  PROVE  IInv'
<1>0. UNCHANGED <<use, pc, round, pSync, pokes, clears>>
  BY DEF StoreLands
<1>1. TypeOK'
  BY DEF IInv, TypeOK, StoreLands
<1>2. \A m \in Node : Sent(m)' = Sent(m) /\ Cleared(m)' = Cleared(m)
  BY <1>0 DEF Sent, Cleared, Outside
<1>3. PcInv'
  BY <1>0 DEF IInv, PcInv, Outside
<1>4. ClearInv'
  BY <1>0, <1>2, SameHere DEF IInv, ClearInv, Full, ParentSet
<1> QED
  BY <1>0, <1>1, <1>2, <1>3, <1>4, SilentStep, Parameters DEF IInv, TypeOK

LEMMA StutterInv ==
  ASSUME IInv, UNCHANGED vars
  PROVE  IInv'
<1>1. TypeOK' /\ PcInv'
  BY DEF IInv, TypeOK, PcInv, Outside, vars
<1>2. \A m \in Node : Sent(m)' = Sent(m) /\ Cleared(m)' = Cleared(m)
  BY DEF Sent, Cleared, Outside, vars
<1>3. ClearInv'
  BY <1>2, SameHere DEF IInv, ClearInv, Full, ParentSet, vars
<1> QED
  BY <1>1, <1>2, <1>3, SilentStep, Parameters DEF IInv, TypeOK, vars

LEMMA NextInv ==
  ASSUME PromptSelfPuts, IInv, [Next]_vars
  PROVE  IInv'
<1>1. CASE UNCHANGED vars
  BY <1>1, StutterInv
<1>2. CASE Finished
  BY <1>2, StutterInv DEF Finished
<1>3. ASSUME NEW n \in Node, UserPut(n) PROVE IInv'
  BY <1>3, UserPutInv
<1>4. ASSUME NEW n \in Node, Step(n) PROVE IInv'
  BY <1>4, EnterInv, PokeParentInv, ReleasedInv, ClearAndPokeInv, ResetPsyncInv
     DEF Step
<1>5. ASSUME NEW n \in Node, Network(n) PROVE IInv'
  <2>1. ~ClearLands(n)
    BY DEF ClearLands, IInv
  <2> QED
    BY <1>5, <2>1, PokeLandsInv, StoreLandsInv DEF Network
<1> QED
  BY <1>1, <1>2, <1>3, <1>4, <1>5 DEF Next

-----------------------------------------------------------------------------
(* The theorems.                                                           *)

\* IInv, the state of every edge of the tree and what follows of it, holds in every
\* state of every call (barrier.c, the tree helpers).
THEOREM Invariance ==
  ASSUME PromptSelfPuts
  PROVE  Spec => []IInv
<1>1. Init => IInv
  BY InitInv
<1>2. IInv /\ [Next]_vars => IInv'
  BY NextInv
<1> QED
  BY <1>1, <1>2, PTL DEF Spec

\* Every variable keeps its type; in particular pSync never falls below
\* SHCOLL_SYNC_VALUE.
THEOREM TypeCorrect ==
  ASSUME PromptSelfPuts
  PROVE  Spec => []TypeOK
<1>1. IInv => TypeOK
  BY DEF IInv
<1> QED
  BY <1>1, Invariance, PTL

LEMMA EarlyLeave == IInv => NoEarlyLeave
<1> SUFFICES ASSUME IInv, NEW n \in Node, NEW m \in Node
             PROVE  Left(n) <= round[m]
  BY DEF NoEarlyLeave
<1>1. Left(n) <= Cleared(n) /\ Left(n) \in Int /\ Cleared(n) \in Int
  BY CountTypes DEF IInv, Left, Cleared
<1>2. Cleared(n) <= round[m] /\ round[m] \in Int
  BY CountTypes DEF IInv, GlobalInv
<1> QED
  BY <1>1, <1>2

\* No PE returns from a call of a barrier, sync or team sync (binomial,
\* complete or k-nomial, on any tree) before every PE has begun it.
THEOREM NobodyLeavesEarly ==
  ASSUME PromptSelfPuts
  PROVE  Spec => []NoEarlyLeave
BY EarlyLeave, Invariance, PTL

\* The EQ waits of the tree barriers cannot be overshot, team reset or not.
THEOREM WaitsAreNotOvershot ==
  ASSUME PromptSelfPuts
  PROVE  Spec => []NoOvershoot
<1>1. ASSUME IInv, NEW n \in Node
      PROVE  pSync[n] <= SyncValue + Npokes(n)
               + (IF n # Root /\ pc[n] \in {"await", "clear"} THEN 1 ELSE 0)
  <2>1. pSync[n] <= Cardinality(Here(n)) /\ pSync[n] \in Nat
    BY <1>1 DEF IInv, CountInv, TypeOK
  <2>2. Cardinality(Here(n)) \in Nat /\ Npokes(n) \in Nat
    BY HereInFull, FullCardinality
  <2>3. CASE pc[n] \in {"await", "clear"}
    BY <2>1, <2>2, <2>3, HereInFull DEF SyncValue
  <2>4. CASE pc[n] \notin {"await", "clear"}
    <3>1. Here(n) = ChildrenHere(n) /\ ChildrenHere(n) \subseteq Children[n]
      BY <1>1, <2>4, NoParentPoke DEF IInv, TypeOK, Here, ChildrenHere, Outside
    <3>2. Cardinality(Here(n)) <= Npokes(n)
      BY <3>1, FullCardinality, FS_Subset DEF Npokes
    <3> QED
      BY <2>1, <2>2, <2>4, <3>2 DEF SyncValue
  <2> QED BY <2>3, <2>4
<1>2. IInv => NoOvershoot
  BY <1>1 DEF NoOvershoot
<1> QED
  BY <1>2, Invariance, PTL

\* Without the reset of a team sync no poke is ever lost or counted twice.
THEOREM NoPokeIsLost ==
  ASSUME PromptSelfPuts
  PROVE  Spec => []EveryPokeCounted
<1>1. IInv => EveryPokeCounted
  BY HereInFull DEF IInv, CountInv, EveryPokeCounted, SyncValue
<1> QED
  BY <1>1, Invariance, PTL

\* A barrier starts with a quiet, so the puts still in flight were all issued
\* since the PE's last call ...
RecentStores == use.quiet => \A n \in Node : \A r \in stores[n] : r = round[n]

\* ... and no PE has yet returned from the call that follows them.
THEOREM BarrierCompletes ==
  ASSUME PromptSelfPuts
  PROVE  Spec => []BarrierCompletesStores
<1>1. Init => RecentStores
  BY DEF Init, RecentStores
<1>2. IInv /\ RecentStores /\ [Next]_vars => RecentStores'
  <2> SUFFICES ASSUME IInv, RecentStores, [Next]_vars PROVE RecentStores'
    OBVIOUS
  <2>1. ASSUME NEW n \in Node, Enter(n) PROVE RecentStores'
    BY <2>1 DEF RecentStores, Enter, Flushed, IInv, TypeOK
  <2>2. ASSUME NEW n \in Node, UserPut(n) PROVE RecentStores'
    BY <2>2 DEF RecentStores, UserPut, IInv, TypeOK
  <2>3. ASSUME NEW n \in Node, StoreLands(n) PROVE RecentStores'
    BY <2>3 DEF RecentStores, StoreLands, IInv, TypeOK
  <2>4. ASSUME UNCHANGED <<use, round, stores>> PROVE RecentStores'
    BY <2>4 DEF RecentStores
  <2> QED
    BY <2>1, <2>2, <2>3, <2>4
       DEF Next, Step, Network, PokeParent, Released, ClearAndPoke, ResetPsync,
           PokeLands, ClearLands, Finished, vars
<1>3. IInv /\ RecentStores => BarrierCompletesStores
  BY EarlyLeave DEF RecentStores, BarrierCompletesStores, NoEarlyLeave
<1> QED
  BY <1>1, <1>2, <1>3, Invariance, PTL DEF Spec

-----------------------------------------------------------------------------
(* The tree barrier implements the abstract barrier.                       *)

\* Calls returned from, as the abstract barrier counts them.
LeftOf == [n \in Node |-> Left(n)]

LEMMA StepImplements ==
  ASSUME IInv, IInv', [Next]_vars
  PROVE  \/ UNCHANGED <<round, LeftOf>>
         \/ \E n \in Node :
              \/ /\ round[n] = LeftOf[n] /\ round[n] < MaxRound
                 /\ round' = [round EXCEPT ![n] = @ + 1]
                 /\ UNCHANGED LeftOf
              \/ /\ LeftOf[n] < round[n]
                 /\ \A m \in Node : round[n] <= round[m]
                 /\ LeftOf' = [LeftOf EXCEPT ![n] = @ + 1]
                 /\ UNCHANGED round
<1>0. \A m \in Node : round[m] \in Int /\ (~Outside(m) => round[m] >= 1)
  BY CountTypes DEF IInv, PcInv
<1>1. ASSUME NEW n \in Node, UserPut(n) \/ PokeParent(n) \/ Released(n)
      PROVE  UNCHANGED <<round, LeftOf>>
  <2>1. \A m \in Node : Outside(m)' = Outside(m) /\ UNCHANGED round
    BY <1>1 DEF IInv, TypeOK, UserPut, PokeParent, Released, Outside
  <2> QED
    BY <2>1 DEF LeftOf, Left, UserPut, PokeParent, Released
<1>2. ASSUME UNCHANGED <<pc, round>> PROVE UNCHANGED <<round, LeftOf>>
  BY <1>2 DEF LeftOf, Left, Outside
<1>3. ASSUME NEW n \in Node, Enter(n)
      PROVE  /\ round[n] = LeftOf[n] /\ round[n] < MaxRound
             /\ round' = [round EXCEPT ![n] = @ + 1]
             /\ UNCHANGED LeftOf
  <2>1. \A m \in Node : Left(m)' = Left(m)
    BY <1>0, <1>3 DEF IInv, TypeOK, Enter, Left, Outside
  <2> QED
    BY <1>3, <2>1, Parameters DEF LeftOf, Left, Enter, IInv, TypeOK, Use
<1>4. ASSUME NEW n \in Node, ~Outside(n), UNCHANGED round,
             pc' = [pc EXCEPT ![n] = "out"], \A m \in Node : round[n] <= round[m]
      PROVE  /\ LeftOf[n] < round[n]
             /\ \A m \in Node : round[n] <= round[m]
             /\ LeftOf' = [LeftOf EXCEPT ![n] = @ + 1]
             /\ UNCHANGED round
  <2>1. Left(n) = round[n] - 1 /\ Left(n)' = Left(n) + 1
    BY <1>0, <1>4 DEF IInv, TypeOK, Left, Outside
  <2>2. \A m \in Node \ {n} : Left(m)' = Left(m)
    BY <1>4 DEF IInv, TypeOK, Left, Outside
  <2>3. LeftOf' = [LeftOf EXCEPT ![n] = @ + 1]
    BY <2>1, <2>2 DEF LeftOf
  <2> QED
    BY <1>0, <1>4, <2>1, <2>3 DEF LeftOf
<1>5. ASSUME NEW n \in Node, ResetPsync(n) PROVE \A m \in Node : round[n] <= round[m]
  BY <1>5 DEF IInv, GlobalInv, ResetPsync, Cleared
<1>6. ASSUME NEW n \in Node, ClearAndPoke(n), use.reset
      PROVE  UNCHANGED <<round, LeftOf>>
  <2>1. \A m \in Node : Outside(m)' = Outside(m) /\ UNCHANGED round
    BY <1>6 DEF IInv, TypeOK, ClearAndPoke, Outside
  <2> QED
    BY <2>1 DEF LeftOf, Left
<1>7. ASSUME NEW n \in Node, ResetPsync(n) \/ (ClearAndPoke(n) /\ ~use.reset)
      PROVE  /\ LeftOf[n] < round[n]
             /\ \A m \in Node : round[n] <= round[m]
             /\ LeftOf' = [LeftOf EXCEPT ![n] = @ + 1]
             /\ UNCHANGED round
  <2>1. CASE ResetPsync(n)
    BY <2>1, <1>4, <1>5 DEF ResetPsync, Outside
  <2>2. CASE ClearAndPoke(n) /\ ~use.reset
    BY <2>2, <1>4, ClearMeansEverybody DEF ClearAndPoke, Outside
  <2> QED BY <1>7, <2>1, <2>2
<1> QED
  BY <1>1, <1>2, <1>3, <1>6, <1>7
     DEF Next, Step, Network, PokeLands, ClearLands, StoreLands, Finished, vars

\* Every execution of a tree barrier is one of the abstract barrier: each step
\* is a PE entering a call, a PE leaving one, or invisible to the callers.
THEOREM Refinement ==
  ASSUME PromptSelfPuts
  PROVE  Spec => ImplementsBarrier
<1>1. Init => Abstract!BInit
  BY DEF Init, Abstract!BInit, Left, Outside
<1>2. IInv /\ IInv' /\ [Next]_vars => [Abstract!BNext]_(Abstract!bvars)
  BY StepImplements
     DEF Abstract!BNext, Abstract!BEnter, Abstract!BLeave, Abstract!bvars, LeftOf
<1> QED
  BY <1>1, <1>2, Invariance, PTL DEF Spec, ImplementsBarrier, Abstract!BSpec

-----------------------------------------------------------------------------
(* The distances of the dissemination barrier.                             *)

LEMMA LeastOf ==
  ASSUME NEW S \in SUBSET Nat, S # {}
  PROVE  \E x \in S : \A y \in S : x <= y
<1>1. IsWellFoundedOn({ss \in Nat \X Nat : ss[1] < ss[2]}, Nat)
  BY NatLessThanWellFounded DEF OpToRel
<1>2. PICK x \in S : \A y \in S : ~(<<y, x>> \in {ss \in Nat \X Nat : ss[1] < ss[2]})
  BY <1>1, WFMin
<1>3. ASSUME NEW y \in S PROVE x <= y
  <2>1. x \in Nat /\ y \in Nat /\ <<y, x>> \in Nat \X Nat
    OBVIOUS
  <2>2. ~(y < x)
    BY <1>2, <2>1
  <2> QED BY <2>1, <2>2
<1> QED
  BY <1>3

\* f doubles up to n.
Doubles(f, n) == f[0] = 1 /\ \A k \in 0 .. n - 1 : f[k + 1] = 2 * f[k]

LEMMA OneDoubling ==
  ASSUME NEW n \in Nat, NEW f, NEW g, Doubles(f, n), Doubles(g, n)
  PROVE  f[n] = g[n]
<1>1. SUFFICES ASSUME f[n] # g[n] PROVE FALSE
  OBVIOUS
<1>2. PICK X \in SUBSET Nat : X = {k \in 0 .. n : f[k] # g[k]}
  <2>1. PICK New : New = {k \in 0 .. n : f[k] # g[k]}
    OBVIOUS
  <2> QED
    BY <2>1
<1>3. PICK k \in X : \A l \in X : k <= l
  <2>1. n \in X
    BY <1>1, <1>2
  <2> QED
    BY <2>1, LeastOf
<1>4. k # 0 /\ k \in 0 .. n
  BY <1>2, <1>3 DEF Doubles
<1>5. k - 1 \in 0 .. n - 1 /\ k - 1 \in 0 .. n /\ k - 1 + 1 = k /\ ~ (k <= k - 1)
  BY <1>4
<1>6. f[k - 1] = g[k - 1]
  BY <1>2, <1>3, <1>5
<1>7. f[k] = 2 * f[k - 1] /\ g[k] = 2 * g[k - 1]
  BY <1>5 DEF Doubles
<1> QED
  BY <1>2, <1>3, <1>6, <1>7

LEMMA SomeDoubling ==
  ASSUME NEW n \in Nat
  PROVE  \E f : Doubles(f, n)
<1>1. SUFFICES ASSUME \A f : ~ Doubles(f, n) PROVE FALSE
  OBVIOUS
<1>2. PICK X \in SUBSET Nat : X = {k \in Nat : \A f : ~ Doubles(f, k)}
  <2>1. PICK New : New = {k \in Nat : \A f : ~ Doubles(f, k)}
    OBVIOUS
  <2> QED
    BY <2>1
<1>3. PICK k \in X : \A l \in X : k <= l
  <2>1. n \in X
    BY <1>1, <1>2
  <2> QED
    BY <2>1, LeastOf
<1>4. CASE k = 0
  <2>1. PICK f : f = [l \in 0 .. 0 |-> 1]
    OBVIOUS
  <2>2. Doubles(f, 0)
    BY <2>1 DEF Doubles
  <2> QED
    BY <1>2, <1>3, <1>4, <2>2
<1>5. CASE k # 0
  <2>1. k - 1 \in Nat /\ ~ (k <= k - 1)
    BY <1>5
  <2>2. PICK f : Doubles(f, k - 1)
    BY <2>1, <1>2, <1>3
  <2>3. PICK g : g = [l \in 0 .. k |-> IF l = k THEN 2 * f[k - 1] ELSE f[l]]
    OBVIOUS
  <2>4. g[0] = 1
    BY <1>5, <2>1, <2>2, <2>3 DEF Doubles
  <2>5. ASSUME NEW l \in 0 .. k - 1 PROVE g[l + 1] = 2 * g[l]
    <3>1. l \in 0 .. k /\ l # k /\ l + 1 \in 0 .. k
      BY <2>1
    <3>2. g[l] = f[l]
      BY <3>1, <2>3
    <3>3. CASE l + 1 = k
      <4>1. l = k - 1
        BY <3>3, <3>1
      <4> QED
        BY <3>1, <3>2, <3>3, <4>1, <2>3
    <3>4. CASE l + 1 # k
      <4>1. l \in 0 .. k - 1 - 1
        BY <3>1, <3>4
      <4>2. f[l + 1] = 2 * f[l]
        BY <4>1, <2>2 DEF Doubles
      <4> QED
        BY <3>1, <3>2, <3>4, <4>2, <2>3
    <3> QED
      BY <3>3, <3>4
  <2>6. Doubles(g, k)
    BY <2>4, <2>5 DEF Doubles
  <2> QED
    BY <1>2, <1>3, <2>6
<1> QED
  BY <1>4, <1>5

LEMMA DistanceDoubles ==
  /\ D!Distance[0] = 1
  /\ \A k \in Nat : D!Distance[k + 1] = 2 * D!Distance[k]
<1>1. PICK one : one = [n \in Nat |-> CHOOSE f : Doubles(f, n)]
  OBVIOUS
<1>2. \A n \in Nat : Doubles(one[n], n)
  BY <1>1, SomeDoubling
<1>3. PICK f : f = [n \in Nat |-> one[n][n]]
  OBVIOUS
<1>4. f[0] = 1
  BY <1>2, <1>3 DEF Doubles
<1>5. ASSUME NEW n \in Nat PROVE f[n + 1] = 2 * f[n]
  <2>1. n + 1 \in Nat /\ n \in 0 .. n + 1 - 1
    OBVIOUS
  <2>2. Doubles(one[n + 1], n + 1) /\ Doubles(one[n], n)
    BY <1>2, <2>1
  <2>3. one[n + 1][n + 1] = 2 * one[n + 1][n]
    BY <2>1, <2>2 DEF Doubles
  <2>4. Doubles(one[n + 1], n)
    <3>1. \A k \in 0 .. n - 1 : k \in 0 .. n + 1 - 1
      OBVIOUS
    <3> QED
      BY <2>2, <3>1 DEF Doubles
  <2>5. one[n + 1][n] = one[n][n]
    BY <2>2, <2>4, OneDoubling
  <2> QED
    BY <1>3, <2>1, <2>3, <2>5
<1>6. f = [k \in Nat |-> IF k = 0 THEN 1 ELSE 2 * f[k - 1]]
  <2>1. ASSUME NEW k \in Nat PROVE f[k] = IF k = 0 THEN 1 ELSE 2 * f[k - 1]
    <3>1. CASE k = 0
      BY <3>1, <1>4
    <3>2. CASE k # 0
      <4>1. k - 1 \in Nat /\ k - 1 + 1 = k
        BY <3>2
      <4> QED
        BY <3>2, <4>1, <1>5
    <3> QED
      BY <3>1, <3>2
  <2> QED
    BY <2>1, <1>3
<1>7. D!Distance = [k \in Nat |-> IF k = 0 THEN 1 ELSE 2 * D!Distance[k - 1]]
  BY <1>6 DEF D!Distance
<1>8. ASSUME NEW k \in Nat PROVE D!Distance[k + 1] = 2 * D!Distance[k]
  <2>1. k + 1 \in Nat /\ k + 1 # 0 /\ k + 1 - 1 = k
    OBVIOUS
  <2> QED
    BY <1>7, <2>1
<1> QED
  BY <1>7, <1>8

LEMMA DistanceGrows ==
  \A k \in Nat : D!Distance[k] \in Nat \ {0} /\ k < D!Distance[k]
<1>1. SUFFICES ASSUME ~ \A k \in Nat : D!Distance[k] \in Nat \ {0} /\ k < D!Distance[k] PROVE FALSE
  OBVIOUS
<1>2. PICK X \in SUBSET Nat : X = {k \in Nat : ~ (D!Distance[k] \in Nat \ {0} /\ k < D!Distance[k])}
  <2>1. PICK New : New = {k \in Nat : ~ (D!Distance[k] \in Nat \ {0} /\ k < D!Distance[k])}
    OBVIOUS
  <2> QED
    BY <2>1
<1>3. PICK k \in X : \A l \in X : k <= l
  <2>1. X # {}
    BY <1>1, <1>2
  <2> QED
    BY <2>1, LeastOf
<1>4. k # 0
  BY <1>2, <1>3, DistanceDoubles
<1>5. k - 1 \in Nat /\ k - 1 + 1 = k /\ ~ (k <= k - 1)
  BY <1>4
<1>6. D!Distance[k - 1] \in Nat \ {0} /\ k - 1 < D!Distance[k - 1]
  BY <1>2, <1>3, <1>5
<1>7. D!Distance[k] = 2 * D!Distance[k - 1]
  BY <1>5, DistanceDoubles
<1>8. D!Distance[k] \in Nat \ {0} /\ k < D!Distance[k]
  BY <1>5, <1>6, <1>7
<1> QED
  BY <1>2, <1>3, <1>8

\* The stages are the first ones, and behind the last the distance is too far.
LEMMA StagesAre ==
  /\ \A j \in D!Stages : j \in Nat /\ D!Distance[j] < Size
  /\ Size # 1 => 0 \in D!Stages
  /\ \A k \in D!Stages : k + 1 \notin D!Stages =>
       Size <= D!Distance[k + 1] /\ \A j \in D!Stages : j <= k
<1>0. Size \in Nat \ {0}
  BY FlatAssumption
<1>1. \A j \in D!Stages : j \in 0 .. Size /\ D!Distance[j] < Size
  BY DEF D!Stages
<1>2. Size # 1 => 0 \in D!Stages
  BY <1>0, DistanceDoubles DEF D!Stages
<1>3. ASSUME NEW k \in D!Stages, k + 1 \notin D!Stages
      PROVE  Size <= D!Distance[k + 1] /\ \A j \in D!Stages : j <= k
  <2>1. k \in Nat /\ k < D!Distance[k] /\ D!Distance[k] < Size /\ D!Distance[k] \in Nat
    BY <1>0, <1>1, DistanceGrows
  <2>2. k + 1 \in 0 .. Size
    BY <2>1, <1>0
  <2>3. D!Distance[k + 1] \in Nat
    BY <2>1, DistanceGrows
  <2>4. Size <= D!Distance[k + 1]
    BY <2>2, <2>3, <1>0, <1>3 DEF D!Stages
  <2>5. PICK X \in SUBSET Nat : X = {j \in D!Stages : j > k}
    <3>1. PICK New : New = {j \in D!Stages : j > k}
      OBVIOUS
    <3> QED
      BY <3>1, <1>1
  <2>6. ASSUME X # {} PROVE FALSE
    <3>1. PICK j \in X : \A l \in X : j <= l
      BY <2>6, LeastOf
    <3>2. j \in D!Stages /\ j > k /\ j \in Nat
      BY <3>1, <2>5, <1>1
    <3>3. j # k + 1
      BY <3>2, <1>3
    <3>4. j - 1 \in Nat /\ j - 1 > k /\ j - 1 + 1 = j /\ ~ (j <= j - 1) /\ j - 1 \in 0 .. Size
      BY <3>2, <3>3, <2>1, <1>0, <1>1
    <3>5. D!Distance[j] = 2 * D!Distance[j - 1] /\ D!Distance[j - 1] \in Nat /\ D!Distance[j] < Size
      BY <3>2, <3>4, <1>1, DistanceDoubles, DistanceGrows
    <3>6. j - 1 \in D!Stages
      BY <3>4, <3>5, <1>0 DEF D!Stages
    <3> QED
      BY <3>1, <3>4, <3>6, <2>5
  <2>7. \A j \in D!Stages : j <= k
    BY <2>1, <2>5, <2>6, <1>1
  <2> QED
    BY <2>4, <2>7
<1> QED
  BY <1>1, <1>2, <1>3

-----------------------------------------------------------------------------
(* Who pokes whom.                                                         *)

Behind(n, d) == IF d <= n THEN n - d ELSE n - d + Size

LEMMA Modulo ==
  ASSUME NEW a \in Nat, a < 2 * Size
  PROVE  a % Size = IF a < Size THEN a ELSE a - Size
<1>1. Size \in Nat \ {0}
  BY FlatAssumption
<1>2. CASE a < Size
  BY <1>1, <1>2
<1>3. CASE ~ (a < Size)
  <2>1. PICK b \in 0 .. Size - 1 : a = b + Size
    <3>1. a - Size \in 0 .. Size - 1 /\ a = a - Size + Size
      BY <1>1, <1>3
    <3> QED
      BY <3>1
  <2>2. (b + Size) % Size = b
    BY <1>1
  <2> QED
    BY <2>1, <2>2, <1>1, <1>3
<1> QED
  BY <1>2, <1>3

LEMMA BehindIs ==
  ASSUME NEW n \in Node, NEW d \in 0 .. Size - 1
  PROVE  /\ Behind(n, d) \in Node
         /\ \A e \in 0 .. Size - 1 : e >= d => e - d \in 0 .. Size - 1 /\ Behind(n, e) = Behind(Behind(n, d), e - d)
  BY FlatAssumption DEF Behind

LEMMA TargetIs ==
  ASSUME NEW k \in D!Stages
  PROVE  /\ D!Distance[k] \in 0 .. Size - 1
         /\ \A n \in Node : D!Target(n, k) \in Node
         /\ \A n, m \in Node : D!Target(n, k) = m <=> n = Behind(m, D!Distance[k])
<1>1. Size \in Nat \ {0} /\ Node = 0 .. Size - 1
  BY FlatAssumption
<1>2. PICK d \in 0 .. Size - 1 : d = D!Distance[k]
  BY <1>1, StagesAre, DistanceGrows
<1>3. ASSUME NEW n \in Node
      PROVE  D!Target(n, k) = IF n + d < Size THEN n + d ELSE n + d - Size
  <2>1. PICK a \in Nat : a = n + d
    BY <1>1
  <2>2. a < 2 * Size
    BY <1>1, <2>1
  <2>3. PICK q : q = a % Size
    OBVIOUS
  <2>4. q = IF a < Size THEN a ELSE a - Size
    BY <2>2, <2>3, Modulo
  <2>5. D!Target(n, k) = q
    BY <1>2, <2>1, <2>3 DEF D!Target
  <2>6. n \in Nat /\ d \in Nat /\ Size \in Nat
    BY <1>1
  <2> QED
    BY <2>1, <2>4, <2>5, <2>6
<1>4. \A n \in Node : D!Target(n, k) \in Node
  BY <1>1, <1>3
<1>5. ASSUME NEW n \in Node, NEW m \in Node PROVE D!Target(n, k) = m <=> n = Behind(m, d)
  <2>1. D!Target(n, k) = IF n + d < Size THEN n + d ELSE n + d - Size
    BY <1>3
  <2>2. PICK t : t = D!Target(n, k)
    OBVIOUS
  <2>3. n \in 0 .. Size - 1 /\ m \in 0 .. Size - 1 /\ Size \in Nat
    BY <1>1
  <2>4. t = m <=> n = IF d <= m THEN m - d ELSE m - d + Size
    BY <2>1, <2>2, <2>3
  <2> QED
    BY <2>2, <2>4 DEF Behind
<1> QED
  BY <1>2, <1>4, <1>5

LEMMA DistanceMonotone ==
  ASSUME NEW i \in Nat, NEW j \in Nat, i <= j
  PROVE  D!Distance[i] <= D!Distance[j]
<1>1. SUFFICES ASSUME ~ (D!Distance[i] <= D!Distance[j]) PROVE FALSE
  OBVIOUS
<1>2. PICK X \in SUBSET Nat : X = {l \in Nat : i <= l /\ ~ (D!Distance[i] <= D!Distance[l])}
  <2>1. PICK New : New = {l \in Nat : i <= l /\ ~ (D!Distance[i] <= D!Distance[l])}
    OBVIOUS
  <2> QED
    BY <2>1
<1>3. PICK l \in X : \A m \in X : l <= m
  <2>1. j \in X
    BY <1>1, <1>2
  <2> QED
    BY <2>1, LeastOf
<1>4. l \in Nat /\ i <= l /\ ~ (D!Distance[i] <= D!Distance[l]) /\ D!Distance[l] \in Nat /\ D!Distance[i] \in Nat
  BY <1>2, <1>3, DistanceGrows
<1>5. l # i
  BY <1>4
<1>6. l - 1 \in Nat /\ i <= l - 1 /\ l - 1 + 1 = l /\ ~ (l <= l - 1)
  BY <1>4, <1>5
<1>7. D!Distance[i] <= D!Distance[l - 1] /\ D!Distance[l - 1] \in Nat
  BY <1>2, <1>3, <1>6, DistanceGrows
<1>8. D!Distance[l] = 2 * D!Distance[l - 1]
  BY <1>6, DistanceDoubles
<1> QED
  BY <1>4, <1>7, <1>8

-----------------------------------------------------------------------------
(* The barrier as its callers see it, whichever algorithm without a tree.  *)

FlatLeft(n) == IF fPc[n] = "out" THEN fRound[n] ELSE fRound[n] - 1

\* Nobody has returned from a call that somebody has not made.
AllCame == \A n, m \in Node : FlatLeft(n) <= fRound[m]

-----------------------------------------------------------------------------
(* The dissemination barrier.                                              *)

InLoop(n) == fPc[n] \in {"poke", "wait", "take"}

\* The pokes a PE has sent in stage k, and those it has taken, in all calls.
HasSent(n, k) ==
  IF \/ fPc[n] \in {"out", "reset"} \/ k < fStage[n]
     \/ k = fStage[n] /\ fPc[n] \in {"wait", "take"}
  THEN fRound[n] ELSE fRound[n] - 1

HasTaken(n, k) ==
  IF fPc[n] \in {"out", "reset"} \/ k < fStage[n] THEN fRound[n] ELSE fRound[n] - 1

\* What is taken, in the word or in flight has been sent; a reset of the work
\* array may lose some of it.
Conserved ==
  \A n \in Node : \A k \in D!Stages :
    HasTaken(D!Target(n, k), k) + fSync[D!Target(n, k)][k] + fPokes[n][k] <= HasSent(n, k)

\* In stage k a PE has heard of the 2^k PEs behind it, and after the loop of all.
HeardOf ==
  \A n \in Node :
    /\ InLoop(n) => \A d \in 0 .. Size - 1 :
         d < D!Distance[fStage[n]] => fRound[n] <= fRound[Behind(n, d)]
    /\ fPc[n] = "reset" => \A m \in Node : fRound[n] <= fRound[m]

StageInv ==
  \A n \in Node :
    /\ fPc[n] # "out" => fRound[n] >= 1
    /\ InLoop(n) => fStage[n] \in D!Stages
    /\ fPc[n] = "take" => fSync[n][fStage[n]] >= 1

DInv == D!TypeOK /\ StageInv /\ Conserved /\ HeardOf /\ AllCame

LEMMA DTypes ==
  ASSUME D!TypeOK
  PROVE  /\ fVariant \in {"barrier", "sync", "team_sync"}
         /\ fPc \in [Node -> {"out", "poke", "wait", "take", "reset"}]
         /\ fRound \in [Node -> 0 .. FlatRounds] /\ fStage \in [Node -> Nat]
         /\ fSync \in [Node -> [D!Stages -> Nat]] /\ fPokes \in [Node -> [D!Stages -> Nat]]
         /\ \A n \in Node : fRound[n] \in Nat /\ fStage[n] \in Nat /\ HasSent(n, fStage[n]) \in Int
         /\ \A n \in Node, k \in D!Stages :
              fSync[n][k] \in Nat /\ fPokes[n][k] \in Nat /\ HasSent(n, k) \in Int /\ HasTaken(n, k) \in Int
<1>1. /\ fVariant \in {"barrier", "sync", "team_sync"}
      /\ fPc \in [Node -> {"out", "poke", "wait", "take", "reset"}]
      /\ fRound \in [Node -> 0 .. FlatRounds] /\ fStage \in [Node -> Nat]
      /\ fSync \in [Node -> [D!Stages -> Nat]] /\ fPokes \in [Node -> [D!Stages -> Nat]]
  BY FlatAssumption DEF D!TypeOK, D!PEs
<1>2. \A n \in Node : fRound[n] \in Nat /\ fStage[n] \in Nat
  BY <1>1, FlatAssumption
<1>3. \A n \in Node, k \in D!Stages : fSync[n][k] \in Nat /\ fPokes[n][k] \in Nat
  BY <1>1
<1>4. \A n \in Node : \A k : HasSent(n, k) \in Int /\ HasTaken(n, k) \in Int
  BY <1>2 DEF HasSent, HasTaken
<1> QED
  BY <1>1, <1>2, <1>3, <1>4

LEMMA DEnter ==
  ASSUME DInv, Size # 1, NEW n \in Node, D!Enter(n)
  PROVE  DInv'
<1>0. D!TypeOK
  BY DEF DInv
<1>1. /\ fPc[n] = "out" /\ fRound[n] < FlatRounds
      /\ fPc' = [fPc EXCEPT ![n] = "poke"]
      /\ fRound' = [fRound EXCEPT ![n] = @ + 1]
      /\ fStage' = [fStage EXCEPT ![n] = 0]
      /\ UNCHANGED <<fVariant, fSync, fPokes>>
  BY StagesAre DEF D!Enter, D!AtStage
<1>2. /\ fPc \in [Node -> {"out", "poke", "wait", "take", "reset"}]
      /\ fRound \in [Node -> 0 .. FlatRounds] /\ fStage \in [Node -> Nat]
      /\ \A m \in Node : fRound[m] \in Nat
  BY <1>0, DTypes
<1>3. D!TypeOK'
  <2>1. fRound' \in [Node -> 0 .. FlatRounds]
    BY <1>1, <1>2, FlatAssumption
  <2>2. /\ fVariant' \in {"barrier", "sync", "team_sync"}
        /\ fPc' \in [Node -> {"out", "poke", "wait", "take", "reset"}]
        /\ fStage' \in [Node -> Nat]
        /\ fSync' \in [Node -> [D!Stages -> Nat]] /\ fPokes' \in [Node -> [D!Stages -> Nat]]
    BY <1>0, <1>1, <1>2, DTypes
  <2> QED
    BY <2>1, <2>2, FlatAssumption DEF D!TypeOK, D!PEs
<1>4. /\ \A m \in Node : m # n => fPc'[m] = fPc[m] /\ fRound'[m] = fRound[m] /\ fStage'[m] = fStage[m]
      /\ fPc'[n] = "poke" /\ fRound'[n] = fRound[n] + 1 /\ fStage'[n] = 0
  BY <1>1, <1>2
<1>5. ASSUME NEW m \in Node, NEW k \in D!Stages
      PROVE  HasSent(m, k)' = HasSent(m, k) /\ HasTaken(m, k)' = HasTaken(m, k)
  <2>1. k \in Nat
    BY StagesAre
  <2> QED
    BY <1>1, <1>2, <1>4, <2>1 DEF HasSent, HasTaken
<1>6. Conserved'
  <2> SUFFICES ASSUME NEW m \in Node, NEW k \in D!Stages
               PROVE  HasTaken(D!Target(m, k), k)' + fSync'[D!Target(m, k)][k] + fPokes'[m][k] <= HasSent(m, k)'
    BY DEF Conserved
  <2>1. D!Target(m, k) \in Node
    BY TargetIs
  <2> QED
    BY <1>1, <1>5, <2>1 DEF DInv, Conserved
<1>7. StageInv'
  BY <1>1, <1>2, <1>4, StagesAre DEF DInv, StageInv, InLoop
<1>8. \A m \in Node : fRound[m] <= fRound'[m] /\ FlatLeft(m)' = FlatLeft(m) /\ fRound'[m] \in Nat
  BY <1>1, <1>2, <1>4 DEF FlatLeft
<1>9. HeardOf'
  <2>1. ASSUME NEW m \in Node, InLoop(m)', NEW d \in 0 .. Size - 1, d < D!Distance[fStage'[m]]
        PROVE  fRound'[m] <= fRound'[Behind(m, d)]
    <3>1. Behind(m, d) \in Node
      BY BehindIs
    <3>2. CASE m = n
      <4>1. d = 0
        <5>0. fStage'[m] = 0 /\ d \in 0 .. Size - 1 /\ Size \in Nat
          BY <1>4, <3>2, FlatAssumption
        <5>1. D!Distance[fStage'[m]] = 1 /\ d \in Nat
          BY <5>0, DistanceDoubles
        <5> QED
          BY <5>1, <2>1
      <4>2. Behind(m, d) = m
        BY <4>1, FlatAssumption DEF Behind
      <4> QED
        BY <4>2, <1>8
    <3>3. CASE m # n
      <4>1. fRound[m] <= fRound[Behind(m, d)] /\ fRound'[m] = fRound[m]
        BY <2>1, <1>4, <3>3 DEF DInv, HeardOf, InLoop
      <4> QED
        BY <4>1, <3>1, <1>2, <1>8
    <3> QED
      BY <3>2, <3>3
  <2>2. ASSUME NEW m \in Node, fPc'[m] = "reset", NEW l \in Node PROVE fRound'[m] <= fRound'[l]
    <3>1. m # n /\ fRound[m] <= fRound[l] /\ fRound'[m] = fRound[m]
      BY <2>2, <1>4 DEF DInv, HeardOf
    <3> QED
      BY <3>1, <1>2, <1>8
  <2> QED
    BY <2>1, <2>2 DEF HeardOf
<1>10. AllCame'
  <2> SUFFICES ASSUME NEW m \in Node, NEW l \in Node PROVE FlatLeft(m)' <= fRound'[l]
    BY DEF AllCame
  <2>1. FlatLeft(m) <= fRound[l] /\ FlatLeft(m) \in Int
    BY <1>2 DEF DInv, AllCame, FlatLeft
  <2> QED
    BY <2>1, <1>2, <1>8
<1> QED
  BY <1>3, <1>6, <1>7, <1>9, <1>10 DEF DInv

\* In the other steps no PE begins a call: a PE that has heard of another still has.
LEMMA DRoundsKept ==
  ASSUME DInv, NEW n \in Node, fRound' = fRound,
         \A m \in Node : m # n => fPc'[m] = fPc[m] /\ fStage'[m] = fStage[m],
         InLoop(n)' => \A d \in 0 .. Size - 1 : d < D!Distance[fStage'[n]] => fRound[n] <= fRound[Behind(n, d)],
         fPc'[n] \in {"reset", "out"} => \A m \in Node : fRound[n] <= fRound[m]
  PROVE  HeardOf' /\ AllCame'
<1>1. \A m \in Node : fRound[m] \in Nat
  BY DTypes DEF DInv
<1>2. HeardOf'
  BY DEF DInv, HeardOf, InLoop
<1>3. \A m, l \in Node : FlatLeft(m) <= fRound[l]
  BY DEF DInv, AllCame
<1>4. ASSUME NEW m \in Node, NEW l \in Node PROVE FlatLeft(m)' <= fRound'[l]
  <2>1. CASE fPc'[m] = fPc[m]
    BY <2>1, <1>3 DEF FlatLeft
  <2>2. CASE fPc'[m] # fPc[m]
    <3>1. m = n
      BY <2>2
    <3>2. CASE fPc'[n] = "out"
      BY <3>1, <3>2 DEF FlatLeft
    <3>3. CASE fPc'[n] # "out"
      <4>1. FlatLeft(m)' = fRound[n] - 1 /\ FlatLeft(n) \in {fRound[n], fRound[n] - 1}
        BY <3>1, <3>3 DEF FlatLeft
      <4> QED
        BY <4>1, <3>1, <1>1, <1>3
    <3> QED
      BY <3>2, <3>3
  <2> QED
    BY <2>1, <2>2
<1>5. AllCame'
  BY <1>4 DEF AllCame
<1> QED
  BY <1>2, <1>5

LEMMA DPoke ==
  ASSUME DInv, NEW n \in Node, D!Poke(n)
  PROVE  DInv'
<1>0. D!TypeOK
  BY DEF DInv
<1>1. /\ fPc[n] = "poke" /\ fPc' = [fPc EXCEPT ![n] = "wait"]
      /\ fPokes' = [fPokes EXCEPT ![n][fStage[n]] = @ + 1]
      /\ UNCHANGED <<fVariant, fRound, fStage, fSync>>
  BY DEF D!Poke
<1>2. PICK s \in D!Stages : s = fStage[n]
  BY <1>1 DEF DInv, StageInv, InLoop
<1>3. /\ fPokes' \in [Node -> [D!Stages -> Nat]]
      /\ \A m \in Node, k \in D!Stages :
           fPokes'[m][k] = IF m = n /\ k = s THEN fPokes[m][k] + 1 ELSE fPokes[m][k]
  BY <1>0, <1>1, <1>2, DTypes
<1>4. /\ fPc' \in [Node -> {"out", "poke", "wait", "take", "reset"}]
      /\ fPc'[n] = "wait" /\ \A m \in Node : m # n => fPc'[m] = fPc[m]
  BY <1>0, <1>1, DTypes
<1>5. D!TypeOK'
  BY <1>0, <1>1, <1>3, <1>4, FlatAssumption DEF D!TypeOK, D!PEs
<1>6. ASSUME NEW m \in Node, NEW k \in D!Stages
      PROVE  /\ HasSent(m, k)' = IF m = n /\ k = s THEN HasSent(m, k) + 1 ELSE HasSent(m, k)
             /\ HasTaken(m, k)' = HasTaken(m, k)
  <2>1. k \in Nat /\ s \in Nat /\ fRound[n] \in Nat
    BY <1>0, StagesAre, DTypes
  <2> QED
    BY <1>1, <1>2, <1>4, <2>1 DEF HasSent, HasTaken
<1>7. Conserved'
  <2> SUFFICES ASSUME NEW m \in Node, NEW k \in D!Stages
               PROVE  HasTaken(D!Target(m, k), k)' + fSync'[D!Target(m, k)][k] + fPokes'[m][k] <= HasSent(m, k)'
    BY DEF Conserved
  <2>1. D!Target(m, k) \in Node
    BY TargetIs
  <2>2. HasTaken(D!Target(m, k), k) + fSync[D!Target(m, k)][k] + fPokes[m][k] <= HasSent(m, k)
    BY DEF DInv, Conserved
  <2> QED
    BY <1>0, <1>1, <1>3, <1>6, <2>1, <2>2, DTypes
<1>8. StageInv'
  BY <1>1, <1>2, <1>4 DEF DInv, StageInv, InLoop
<1>9. HeardOf' /\ AllCame'
  <2>1. \A d \in 0 .. Size - 1 : d < D!Distance[fStage'[n]] => fRound[n] <= fRound[Behind(n, d)]
    BY <1>1 DEF DInv, HeardOf, InLoop
  <2> QED
    BY <2>1, <1>1, <1>4, DRoundsKept
<1> QED
  BY <1>5, <1>7, <1>8, <1>9 DEF DInv

LEMMA DPoked ==
  ASSUME DInv, NEW n \in Node, D!Poked(n)
  PROVE  DInv'
<1>0. D!TypeOK
  BY DEF DInv
<1>1. /\ fPc[n] = "wait" /\ fSync[n][fStage[n]] # 0 /\ fPc' = [fPc EXCEPT ![n] = "take"]
      /\ UNCHANGED <<fVariant, fRound, fStage, fSync, fPokes>>
  BY DEF D!Poked, D!SyncValue
<1>4. /\ fPc' \in [Node -> {"out", "poke", "wait", "take", "reset"}]
      /\ fPc'[n] = "take" /\ \A m \in Node : m # n => fPc'[m] = fPc[m]
  BY <1>0, <1>1, DTypes
<1>5. D!TypeOK'
  BY <1>0, <1>1, <1>4, FlatAssumption DEF D!TypeOK, D!PEs
<1>6. ASSUME NEW m \in Node, NEW k \in D!Stages
      PROVE  HasSent(m, k)' = HasSent(m, k) /\ HasTaken(m, k)' = HasTaken(m, k)
  BY <1>1, <1>4 DEF HasSent, HasTaken
<1>7. Conserved'
  <2> SUFFICES ASSUME NEW m \in Node, NEW k \in D!Stages
               PROVE  HasTaken(D!Target(m, k), k)' + fSync'[D!Target(m, k)][k] + fPokes'[m][k] <= HasSent(m, k)'
    BY DEF Conserved
  <2>1. D!Target(m, k) \in Node
    BY TargetIs
  <2> QED
    BY <1>1, <1>6, <2>1 DEF DInv, Conserved
<1>8. StageInv'
  <2>1. fStage[n] \in D!Stages
    BY <1>1 DEF DInv, StageInv, InLoop
  <2>2. fSync[n][fStage[n]] >= 1
    BY <1>0, <1>1, <2>1, DTypes
  <2> QED
    BY <1>1, <1>4, <2>1, <2>2 DEF DInv, StageInv, InLoop
<1>9. HeardOf' /\ AllCame'
  <2>1. \A d \in 0 .. Size - 1 : d < D!Distance[fStage'[n]] => fRound[n] <= fRound[Behind(n, d)]
    BY <1>1 DEF DInv, HeardOf, InLoop
  <2> QED
    BY <2>1, <1>1, <1>4, DRoundsKept
<1> QED
  BY <1>5, <1>7, <1>8, <1>9 DEF DInv

\* A PE that takes a poke in stage k has heard of everybody of whom the PE that
\* sent it had heard: of twice as many as before.
LEMMA HearsMore ==
  ASSUME DInv, NEW n \in Node, fPc[n] = "take", NEW k \in D!Stages, k = fStage[n],
         NEW e \in 0 .. Size - 1, e < D!Distance[k + 1]
  PROVE  fRound[n] <= fRound[Behind(n, e)]
<1>0. D!TypeOK /\ \A m \in Node : fRound[m] \in Nat
  BY DTypes DEF DInv
<1>1. k \in Nat /\ k + 1 \in Nat /\ D!Distance[k + 1] = 2 * D!Distance[k]
  BY StagesAre, DistanceDoubles
<1>2. PICK d \in 0 .. Size - 1 : d = D!Distance[k]
  BY TargetIs
<1>3. Size \in Nat /\ e \in Nat /\ d \in Nat
  BY FlatAssumption
<1>4. CASE e < d
  BY <1>2, <1>4 DEF DInv, HeardOf, InLoop
<1>5. CASE ~ (e < d)
  <2>1. PICK p \in Node : p = Behind(n, d)
    BY BehindIs
  <2>2. D!Target(p, k) = n
    BY <2>1, <1>2, TargetIs
  <2>3. PICK f \in 0 .. Size - 1 : f = e - d /\ Behind(n, e) = Behind(p, f)
    <3>1. e >= d
      BY <1>3, <1>5
    <3>2. e - d \in 0 .. Size - 1
      BY <3>1, BehindIs
    <3>3. Behind(n, e) = Behind(Behind(n, d), e - d)
      BY <3>1, BehindIs
    <3>4. PICK f \in 0 .. Size - 1 : f = e - d
      BY <3>2
    <3> QED
      BY <3>3, <3>4, <2>1
  <2>4. f < d
    BY <1>1, <1>2, <1>3, <2>3
  <2>5. PICK q \in Node : q = Behind(p, f)
    BY BehindIs
  <2>6. HasTaken(n, k) + fSync[n][k] + fPokes[p][k] <= HasSent(p, k)
    BY <2>2 DEF DInv, Conserved
  <2>7. HasTaken(n, k) = fRound[n] - 1
    BY <1>1 DEF HasTaken
  <2>8. fSync[n][k] >= 1 /\ fSync[n][k] \in Nat /\ fPokes[p][k] \in Nat /\ HasSent(p, k) \in Int
    BY <1>0, DTypes DEF DInv, StageInv
  <2>9. fRound[n] <= HasSent(p, k)
    BY <1>0, <2>6, <2>7, <2>8
  <2>10. CASE HasSent(p, k) = fRound[p] - 1
    <3>1. fRound[p] - 1 <= FlatLeft(p) /\ FlatLeft(p) \in Int
      BY <1>0 DEF FlatLeft
    <3>2. FlatLeft(p) <= fRound[q]
      BY DEF DInv, AllCame
    <3> QED
      BY <1>0, <2>3, <2>5, <2>9, <2>10, <3>1, <3>2
  <2>11. CASE HasSent(p, k) # fRound[p] - 1
    <3>1. /\ HasSent(p, k) = fRound[p]
          /\ \/ fPc[p] \in {"out", "reset"}
             \/ k < fStage[p]
             \/ (k = fStage[p] /\ fPc[p] \in {"wait", "take"})
      BY <2>11 DEF HasSent
    <3>2. fRound[p] <= fRound[q]
      <4>1. CASE fPc[p] = "out"
        <5>1. FlatLeft(p) = fRound[p]
          BY <4>1 DEF FlatLeft
        <5> QED
          BY <5>1 DEF DInv, AllCame
      <4>2. CASE fPc[p] = "reset"
        BY <4>2 DEF DInv, HeardOf
      <4>3. CASE fPc[p] \notin {"out", "reset"}
        <5>0. fPc[p] \in {"out", "poke", "wait", "take", "reset"}
          BY <1>0, DTypes
        <5>6. InLoop(p)
          BY <4>3, <5>0 DEF InLoop
        <5>7. StageInv
          BY DEF DInv
        <5>1. InLoop(p) /\ fStage[p] \in D!Stages
          BY <5>6, <5>7 DEF StageInv
        <5>8. fStage[p] \in Nat
          BY <1>0, DTypes
        <5>9. k < fStage[p] \/ k = fStage[p]
          BY <3>1, <4>3
        <5>2. k <= fStage[p] /\ fStage[p] \in Nat
          BY <1>1, <5>8, <5>9
        <5>3. D!Distance[k] <= D!Distance[fStage[p]]
          BY <5>2, <1>1, DistanceMonotone
        <5>4. D!Distance[fStage[p]] \in Nat
          BY <5>2, DistanceGrows
        <5>5. f < D!Distance[fStage[p]]
          BY <5>3, <5>4, <1>2, <1>3, <2>3, <2>4
        <5> QED
          BY <5>1, <5>5, <2>5 DEF DInv, HeardOf
      <4> QED
        BY <4>1, <4>2, <4>3
    <3> QED
      BY <3>1, <3>2, <1>0, <2>3, <2>5, <2>9
  <2> QED
    BY <2>10, <2>11
<1> QED
  BY <1>4, <1>5

LEMMA DTakePoke ==
  ASSUME DInv, NEW n \in Node, D!TakePoke(n)
  PROVE  DInv'
<1>0. D!TypeOK
  BY DEF DInv
<1>2. PICK s \in D!Stages : s = fStage[n] /\ fSync[n][s] >= 1 /\ fSync[n][s] \in Nat
  <2>1. fStage[n] \in D!Stages /\ fSync[n][fStage[n]] >= 1
    BY DEF D!TakePoke, DInv, StageInv, InLoop
  <2> QED
    BY <2>1, <1>0, DTypes
<1>1. /\ fPc[n] = "take" /\ fSync' = [fSync EXCEPT ![n][s] = @ - 1]
      /\ fStage' = [fStage EXCEPT ![n] = @ + 1]
      /\ fPc' = [fPc EXCEPT ![n] = D!AtStage(s + 1)]
      /\ UNCHANGED <<fVariant, fRound, fPokes>>
  BY <1>2 DEF D!TakePoke
<1>3. /\ fSync' \in [Node -> [D!Stages -> Nat]]
      /\ \A m \in Node, k \in D!Stages :
           fSync'[m][k] = IF m = n /\ k = s THEN fSync[m][k] - 1 ELSE fSync[m][k]
  <2>1. fSync[n][s] - 1 \in Nat
    BY <1>2
  <2> QED
    BY <1>0, <1>1, <2>1, DTypes
<1>4. /\ fPc' \in [Node -> {"out", "poke", "wait", "take", "reset"}]
      /\ fPc'[n] = D!AtStage(s + 1) /\ \A m \in Node : m # n => fPc'[m] = fPc[m]
  <2>1. D!AtStage(s + 1) \in {"out", "poke", "wait", "take", "reset"}
    BY DEF D!AtStage
  <2> QED
    BY <1>0, <1>1, <2>1, DTypes
<1>5. /\ s \in Nat /\ fStage' \in [Node -> Nat]
      /\ fStage'[n] = s + 1 /\ \A m \in Node : m # n => fStage'[m] = fStage[m]
  <2>1. s \in Nat /\ s + 1 \in Nat
    BY StagesAre
  <2> QED
    BY <2>1, <1>0, <1>1, <1>2, DTypes
<1>6. D!TypeOK'
  BY <1>0, <1>1, <1>3, <1>4, <1>5, FlatAssumption DEF D!TypeOK, D!PEs
<1>7. /\ s + 1 \in D!Stages => fPc'[n] = "poke"
      /\ s + 1 \notin D!Stages => fPc'[n] \in {"reset", "out"} /\ \A j \in D!Stages : j <= s
  BY <1>4, StagesAre DEF D!AtStage
<1>8. ASSUME NEW m \in Node, NEW k \in D!Stages
      PROVE  /\ HasSent(m, k)' = HasSent(m, k)
             /\ HasTaken(m, k)' = IF m = n /\ k = s THEN HasTaken(m, k) + 1 ELSE HasTaken(m, k)
  <2>1. k \in Nat /\ s \in Nat /\ fRound[n] \in Nat /\ fRound' = fRound
    BY <1>0, <1>1, StagesAre, DTypes
  <2>2. CASE m # n
    BY <2>2, <1>4, <1>5, <2>1 DEF HasSent, HasTaken
  <2>3. CASE m = n /\ s + 1 \in D!Stages
    <3>1. fPc'[n] = "poke" /\ fStage'[n] = s + 1 /\ fPc[n] = "take" /\ fStage[n] = s
      BY <2>3, <1>1, <1>2, <1>5, <1>7
    <3> QED
      BY <2>1, <2>3, <3>1 DEF HasSent, HasTaken
  <2>4. CASE m = n /\ s + 1 \notin D!Stages
    <3>1. fPc'[n] \in {"reset", "out"} /\ k <= s /\ fPc[n] = "take" /\ fStage[n] = s
      BY <2>4, <1>1, <1>2, <1>7
    <3> QED
      BY <2>1, <2>4, <3>1 DEF HasSent, HasTaken
  <2> QED
    BY <2>2, <2>3, <2>4
<1>9. Conserved'
  <2> SUFFICES ASSUME NEW m \in Node, NEW k \in D!Stages
               PROVE  HasTaken(D!Target(m, k), k)' + fSync'[D!Target(m, k)][k] + fPokes'[m][k] <= HasSent(m, k)'
    BY DEF Conserved
  <2>1. PICK t \in Node : t = D!Target(m, k)
    BY TargetIs
  <2>2. HasTaken(t, k) + fSync[t][k] + fPokes[m][k] <= HasSent(m, k)
    BY <2>1 DEF DInv, Conserved
  <2>3. /\ HasTaken(t, k) \in Int /\ fSync[t][k] \in Nat /\ fPokes[m][k] \in Nat /\ HasSent(m, k) \in Int
        /\ fPokes' = fPokes
    BY <1>0, <1>1, DTypes
  <2>4. HasTaken(t, k)' + fSync'[t][k] + fPokes'[m][k] <= HasSent(m, k)'
    BY <1>3, <1>8, <2>2, <2>3
  <2>5. HasTaken(D!Target(m, k), k)' = HasTaken(t, k)'
    BY <2>1
  <2> QED
    BY <2>1, <2>4, <2>5
<1>10. StageInv'
  <2>1. fPc'[n] = "poke" => fStage'[n] \in D!Stages
    BY <1>5, <1>7
  <2>2. fRound'[n] >= 1
    BY <1>1 DEF DInv, StageInv
  <2>3. fPc'[n] # "take" /\ (InLoop(n)' => fPc'[n] = "poke")
    BY <1>7 DEF InLoop
  <2>4. ASSUME NEW m \in Node, m # n
        PROVE  /\ fPc'[m] # "out" => fRound'[m] >= 1
               /\ InLoop(m)' => fStage'[m] \in D!Stages
               /\ fPc'[m] = "take" => fSync'[m][fStage'[m]] >= 1
    BY <2>4, <1>1, <1>3, <1>4, <1>5 DEF DInv, StageInv, InLoop
  <2> QED
    BY <2>1, <2>2, <2>3, <2>4 DEF StageInv
<1>11. HeardOf' /\ AllCame'
  <2>1. \A d \in 0 .. Size - 1 : d < D!Distance[s + 1] => fRound[n] <= fRound[Behind(n, d)]
    BY <1>1, <1>2, HearsMore
  <2>2. InLoop(n)' => \A d \in 0 .. Size - 1 : d < D!Distance[fStage'[n]] => fRound[n] <= fRound[Behind(n, d)]
    BY <2>1, <1>5
  <2>3. fPc'[n] \in {"reset", "out"} => \A m \in Node : fRound[n] <= fRound[m]
    <3> SUFFICES ASSUME fPc'[n] \in {"reset", "out"}, NEW m \in Node PROVE fRound[n] <= fRound[m]
      OBVIOUS
    <3>1. Size <= D!Distance[s + 1] /\ D!Distance[s + 1] \in Nat
      BY <1>5, <1>7, StagesAre, DistanceGrows
    <3>2. PICK d \in 0 .. Size - 1 : Behind(n, d) = m
      <4>1. PICK d : d = Behind(n, m)
        OBVIOUS
      <4>2. d \in 0 .. Size - 1 /\ Behind(n, d) = m
        BY <4>1, FlatAssumption DEF Behind
      <4> QED
        BY <4>2
    <3>3. d < D!Distance[s + 1]
      BY <3>1, FlatAssumption
    <3> QED
      BY <2>1, <3>2, <3>3
  <2> QED
    BY <2>2, <2>3, <1>1, <1>4, <1>5, DRoundsKept
<1> QED
  BY <1>6, <1>9, <1>10, <1>11 DEF DInv

LEMMA DReset ==
  ASSUME DInv, NEW n \in Node, D!ResetPsync(n)
  PROVE  DInv'
<1>0. D!TypeOK
  BY DEF DInv
<1>1. /\ fPc[n] = "reset" /\ fPc' = [fPc EXCEPT ![n] = "out"]
      /\ fSync' = [fSync EXCEPT ![n] = [k \in D!Stages |-> IF k < SyncSize THEN 0 ELSE @[k]]]
      /\ UNCHANGED <<fVariant, fRound, fStage, fPokes>>
  BY DEF D!ResetPsync, D!SyncValue
<1>3. /\ fSync' \in [Node -> [D!Stages -> Nat]]
      /\ \A m \in Node : m # n => fSync'[m] = fSync[m]
      /\ \A m \in Node, k \in D!Stages : fSync'[m][k] <= fSync[m][k] /\ fSync'[m][k] \in Nat
  <2>1. PICK w : w = [k \in D!Stages |-> IF k < SyncSize THEN 0 ELSE fSync[n][k]]
    OBVIOUS
  <2>2. fSync' = [fSync EXCEPT ![n] = w]
    BY <1>1, <2>1
  <2>3. w \in [D!Stages -> Nat] /\ \A k \in D!Stages : w[k] \in {0, fSync[n][k]}
    BY <1>0, <2>1, DTypes
  <2> QED
    BY <1>0, <2>2, <2>3, DTypes
<1>4. /\ fPc' \in [Node -> {"out", "poke", "wait", "take", "reset"}]
      /\ fPc'[n] = "out" /\ \A m \in Node : m # n => fPc'[m] = fPc[m]
  BY <1>0, <1>1, DTypes
<1>5. D!TypeOK'
  BY <1>0, <1>1, <1>3, <1>4, FlatAssumption DEF D!TypeOK, D!PEs
<1>6. ASSUME NEW m \in Node, NEW k \in D!Stages
      PROVE  HasSent(m, k)' = HasSent(m, k) /\ HasTaken(m, k)' = HasTaken(m, k)
  BY <1>1, <1>4 DEF HasSent, HasTaken
<1>7. Conserved'
  <2> SUFFICES ASSUME NEW m \in Node, NEW k \in D!Stages
               PROVE  HasTaken(D!Target(m, k), k)' + fSync'[D!Target(m, k)][k] + fPokes'[m][k] <= HasSent(m, k)'
    BY DEF Conserved
  <2>1. PICK t \in Node : t = D!Target(m, k)
    BY TargetIs
  <2>2. HasTaken(t, k) + fSync[t][k] + fPokes[m][k] <= HasSent(m, k)
    BY <2>1 DEF DInv, Conserved
  <2>3. /\ HasTaken(t, k) \in Int /\ fSync[t][k] \in Nat /\ fPokes[m][k] \in Nat /\ HasSent(m, k) \in Int
        /\ fPokes' = fPokes
    BY <1>0, <1>1, DTypes
  <2>4. HasTaken(t, k)' + fSync'[t][k] + fPokes'[m][k] <= HasSent(m, k)'
    BY <1>3, <1>6, <2>2, <2>3
  <2>5. HasTaken(D!Target(m, k), k)' = HasTaken(t, k)'
    BY <2>1
  <2> QED
    BY <2>1, <2>4, <2>5
<1>8. StageInv'
  <2>1. fPc'[n] # "take" /\ ~ InLoop(n)'
    BY <1>4 DEF InLoop
  <2>2. ASSUME NEW m \in Node, m # n
        PROVE  /\ fPc'[m] # "out" => fRound'[m] >= 1
               /\ InLoop(m)' => fStage'[m] \in D!Stages
               /\ fPc'[m] = "take" => fSync'[m][fStage'[m]] >= 1
    BY <2>2, <1>1, <1>3, <1>4 DEF DInv, StageInv, InLoop
  <2> QED
    BY <1>4, <2>1, <2>2 DEF StageInv
<1>9. HeardOf' /\ AllCame'
  <2>1. \A m \in Node : fRound[n] <= fRound[m]
    BY <1>1 DEF DInv, HeardOf
  <2>2. ~ InLoop(n)'
    BY <1>4 DEF InLoop
  <2> QED
    BY <2>1, <2>2, <1>1, <1>4, DRoundsKept
<1> QED
  BY <1>5, <1>7, <1>8, <1>9 DEF DInv

LEMMA DPokeLands ==
  ASSUME DInv, NEW n \in Node, NEW s \in D!Stages, D!PokeLands(n, s)
  PROVE  DInv'
<1>0. D!TypeOK
  BY DEF DInv
<1>2. PICK t \in Node : t = D!Target(n, s)
  BY TargetIs
<1>1. /\ fPokes[n][s] > 0 /\ fPokes' = [fPokes EXCEPT ![n][s] = @ - 1]
      /\ fSync' = [fSync EXCEPT ![t][s] = @ + 1]
      /\ UNCHANGED <<fVariant, fPc, fRound, fStage>>
  BY <1>2 DEF D!PokeLands
<1>3. /\ fSync' \in [Node -> [D!Stages -> Nat]]
      /\ \A m \in Node, k \in D!Stages :
           fSync'[m][k] = IF m = t /\ k = s THEN fSync[m][k] + 1 ELSE fSync[m][k]
  BY <1>0, <1>1, DTypes
<1>4. /\ fPokes' \in [Node -> [D!Stages -> Nat]]
      /\ \A m \in Node, k \in D!Stages :
           fPokes'[m][k] = IF m = n /\ k = s THEN fPokes[m][k] - 1 ELSE fPokes[m][k]
  <2>1. fPokes[n][s] - 1 \in Nat
    BY <1>0, <1>1, DTypes
  <2> QED
    BY <1>0, <1>1, <2>1, DTypes
<1>5. D!TypeOK'
  BY <1>0, <1>1, <1>3, <1>4, FlatAssumption DEF D!TypeOK, D!PEs
<1>6. ASSUME NEW m \in Node, NEW k \in D!Stages
      PROVE  HasSent(m, k)' = HasSent(m, k) /\ HasTaken(m, k)' = HasTaken(m, k)
  BY <1>1 DEF HasSent, HasTaken
<1>7. Conserved'
  <2> SUFFICES ASSUME NEW m \in Node, NEW k \in D!Stages
               PROVE  HasTaken(D!Target(m, k), k)' + fSync'[D!Target(m, k)][k] + fPokes'[m][k] <= HasSent(m, k)'
    BY DEF Conserved
  <2>1. PICK u \in Node : u = D!Target(m, k)
    BY TargetIs
  <2>2. HasTaken(u, k) + fSync[u][k] + fPokes[m][k] <= HasSent(m, k)
    BY <2>1 DEF DInv, Conserved
  <2>3. HasTaken(u, k) \in Int /\ fSync[u][k] \in Nat /\ fPokes[m][k] \in Nat /\ HasSent(m, k) \in Int
    BY <1>0, DTypes
  <2>4. (u = t /\ k = s) <=> (m = n /\ k = s)
    BY <1>2, <2>1, TargetIs
  <2>5. HasTaken(u, k)' + fSync'[u][k] + fPokes'[m][k] <= HasSent(m, k)'
    BY <1>3, <1>4, <1>6, <2>2, <2>3, <2>4
  <2>6. HasTaken(D!Target(m, k), k)' = HasTaken(u, k)'
    BY <2>1
  <2> QED
    BY <2>1, <2>5, <2>6
<1>8. StageInv'
  <2>1. \A m \in Node : InLoop(m)' <=> InLoop(m)
    BY <1>1 DEF InLoop
  <2>2. ASSUME NEW m \in Node, fPc[m] = "take" PROVE fSync'[m][fStage[m]] >= 1
    <3>1. fStage[m] \in D!Stages /\ fSync[m][fStage[m]] >= 1 /\ fSync[m][fStage[m]] \in Nat
      BY <1>0, <2>2, DTypes DEF DInv, StageInv, InLoop
    <3> QED
      BY <3>1, <1>3
  <2> QED
    BY <1>1, <2>1, <2>2 DEF DInv, StageInv
<1>9. HeardOf' /\ AllCame'
  BY <1>1 DEF DInv, HeardOf, AllCame, InLoop, FlatLeft
<1> QED
  BY <1>5, <1>7, <1>8, <1>9 DEF DInv

LEMMA DInitial ==
  ASSUME D!Init
  PROVE  DInv
<1>1. /\ fVariant \in {"barrier", "sync", "team_sync"}
      /\ fPc = [n \in Node |-> "out"] /\ fRound = [n \in Node |-> 0] /\ fStage = [n \in Node |-> 0]
      /\ fSync = [n \in Node |-> [k \in D!Stages |-> 0]]
      /\ fPokes = [n \in Node |-> [k \in D!Stages |-> 0]]
  BY FlatAssumption DEF D!Init, D!PEs, D!SyncValue
<1>2. D!TypeOK
  <2>1. 0 \in 0 .. FlatRounds
    BY FlatAssumption
  <2> QED
    BY <1>1, <2>1, FlatAssumption DEF D!TypeOK, D!PEs
<1>3. StageInv /\ HeardOf /\ AllCame
  BY <1>1 DEF StageInv, HeardOf, AllCame, InLoop, FlatLeft
<1>4. Conserved
  <2> SUFFICES ASSUME NEW m \in Node, NEW k \in D!Stages
               PROVE  HasTaken(D!Target(m, k), k) + fSync[D!Target(m, k)][k] + fPokes[m][k] <= HasSent(m, k)
    BY DEF Conserved
  <2>1. D!Target(m, k) \in Node
    BY TargetIs
  <2> QED
    BY <1>1, <2>1 DEF HasTaken, HasSent
<1> QED
  BY <1>2, <1>3, <1>4 DEF DInv

LEMMA DKept ==
  ASSUME DInv, Size # 1, NEW n \in Node, D!Step(n) \/ D!Network(n)
  PROVE  DInv'
  BY DEnter, DPoke, DPoked, DTakePoke, DReset, DPokeLands DEF D!Step, D!Network

\* The work words of the dissemination barrier stay within their bound.
LEMMA DApart ==
  ASSUME DInv
  PROVE  D!TypeOK /\ D!OneCallAhead
<1>1. D!TypeOK
  BY DEF DInv
<1>2. ASSUME NEW n \in Node, NEW k \in D!Stages PROVE fSync[n][k] <= 2
  <2>1. PICK d \in 0 .. Size - 1 : d = D!Distance[k]
    BY TargetIs
  <2>2. PICK p \in Node : p = Behind(n, d)
    BY BehindIs
  <2>3. D!Target(p, k) = n
    BY <2>1, <2>2, TargetIs
  <2>4. HasTaken(n, k) + fSync[n][k] + fPokes[p][k] <= HasSent(p, k)
    BY <2>3 DEF DInv, Conserved
  <2>5. /\ fSync[n][k] \in Nat /\ fPokes[p][k] \in Nat /\ fRound[n] \in Nat /\ fRound[p] \in Nat
        /\ HasTaken(n, k) \in Int /\ HasSent(p, k) \in Int
    BY <1>1, DTypes
  <2>6. HasTaken(n, k) \in {fRound[n], fRound[n] - 1} /\ HasSent(p, k) \in {fRound[p], fRound[p] - 1}
    BY DEF HasTaken, HasSent
  <2>7. FlatLeft(p) <= fRound[n] /\ FlatLeft(p) \in {fRound[p], fRound[p] - 1}
    BY DEF DInv, AllCame, FlatLeft
  <2> QED
    BY <2>4, <2>5, <2>6, <2>7
<1> QED
  BY <1>1, <1>2, FlatAssumption DEF D!OneCallAhead, D!PEs

-----------------------------------------------------------------------------
(* The linear barrier: calls a PE has poked the root for, calls a PE has   *)
(* heard of (the acknowledgement; for the root, the pokes of all), calls   *)
(* the root has acknowledged.                                              *)

HasPoked(n) == IF fPc[n] = "start" THEN fRound[n] - 1 ELSE fRound[n]

HasHeard(n) == IF fPc[n] \in {"erase", "reset", "out"} THEN fRound[n] ELSE fRound[n] - 1

HasAcked == IF fPc[0] \in {"reset", "out"} THEN fRound[0] ELSE fRound[0] - 1

\* The PEs whose poke for the call the root is to gather has landed.
Arrived == {n \in L!Others : HasPoked(n) = HasHeard(0) + 1 /\ fPokes[n] = 0}

\* How far the PEs are apart.
InStep ==
  \A n \in L!Others : HasHeard(n) <= HasAcked /\ HasHeard(0) <= HasPoked(n)

\* The word of a PE other than the root, and what is in flight towards it.
WordsInv ==
  \A n \in L!Others :
    /\ fPc[n] # "out" => fRound[n] >= 1
    /\ fPokes[n] \in {0, 1} /\ (fPokes[n] = 1 => HasPoked(n) = HasHeard(0) + 1)
    /\ fClears[n] > 0 => fPc[n] = "erase"
    /\ HasHeard(n) = HasAcked => fAcks[n] = 0 /\ fSync[n] = fClears[n] /\ fSync[n] <= 1
    /\ HasHeard(n) # HasAcked => fAcks[n] + fSync[n] = 1 /\ fClears[n] = 0

\* The root's word counts pokes of one call; a reset of the work array may lose some.
RootInv ==
  /\ fPc[0] # "out" => fRound[0] >= 1
  /\ fPc[0] # "await"
  /\ fClears[0] = 0 => fSync[0] <= Cardinality(Arrived)
  /\ fClears[0] > 0 => fPc[0] = "erase" /\ fClears[0] = 1 /\ fSync[0] = Size - 1

LInv == L!TypeOK /\ InStep /\ WordsInv /\ RootInv

LEMMA TheOthers ==
  /\ 0 \in Node /\ L!PEs = Node /\ L!PEStart = 0 /\ L!Others = Node \ {0} /\ Size - 1 \in Nat
  /\ Cardinality(L!PEs) = Size
  /\ \A A \in SUBSET L!Others :
       /\ Cardinality(A) \in Nat /\ Cardinality(A) <= Size - 1
       /\ Cardinality(A) = Size - 1 => A = L!Others
       /\ \A n \in L!Others : n \notin A => Cardinality(A \cup {n}) = Cardinality(A) + 1
<1>1. 0 \in Node /\ L!PEs = Node /\ L!PEStart = 0 /\ L!Others = Node \ {0} /\ Size - 1 \in Nat
  BY FlatAssumption DEF L!PEs, L!PEStart, L!Others
<1>2. IsFiniteSet(Node) /\ Cardinality(Node) = Size
  <2>1. IsFiniteSet(0 .. Size - 1) /\ Cardinality(0 .. Size - 1) = Size - 1 - 0 + 1
    BY <1>1, FS_Interval
  <2> QED
    BY <2>1, FlatAssumption
<1>3. IsFiniteSet(L!Others) /\ Cardinality(L!Others) = Size - 1
  BY <1>1, <1>2, FS_RemoveElement
<1>4. ASSUME NEW A \in SUBSET L!Others
      PROVE  /\ Cardinality(A) \in Nat /\ Cardinality(A) <= Size - 1
             /\ Cardinality(A) = Size - 1 => A = L!Others
             /\ \A n \in L!Others : n \notin A => Cardinality(A \cup {n}) = Cardinality(A) + 1
  <2>1. IsFiniteSet(A) /\ Cardinality(A) <= Cardinality(L!Others)
        /\ (Cardinality(A) = Cardinality(L!Others) => A = L!Others)
    BY <1>3, FS_Subset
  <2>2. Cardinality(A) \in Nat
    BY <2>1, FS_CardinalityType
  <2>3. \A n \in L!Others : n \notin A => Cardinality(A \cup {n}) = Cardinality(A) + 1
    BY <2>1, FS_AddElement
  <2> QED
    BY <1>3, <2>1, <2>2, <2>3
<1> QED
  BY <1>1, <1>2, <1>4

LEMMA LTypes ==
  ASSUME L!TypeOK
  PROVE  /\ fVariant \in {"barrier", "sync", "team_sync"}
         /\ fPc \in [Node -> {"out", "start", "await", "erase", "reset"}]
         /\ fRound \in [Node -> 0 .. FlatRounds]
         /\ fSync \in [Node -> Nat] /\ fClears \in [Node -> Nat]
         /\ fPokes \in [L!Others -> Nat] /\ fAcks \in [L!Others -> Nat]
         /\ \A n \in Node : fRound[n] \in Nat
<1>1. /\ fVariant \in {"barrier", "sync", "team_sync"}
      /\ fPc \in [Node -> {"out", "start", "await", "erase", "reset"}]
      /\ fRound \in [Node -> 0 .. FlatRounds]
      /\ fSync \in [Node -> Nat] /\ fClears \in [Node -> Nat]
      /\ fPokes \in [L!Others -> Nat] /\ fAcks \in [L!Others -> Nat]
  BY TheOthers DEF L!TypeOK
<1>2. \A n \in Node : fRound[n] \in Nat
  BY <1>1, FlatAssumption
<1> QED
  BY <1>1, <1>2

\* The PEs are at most one step of the exchange apart.
LEMMA Apart ==
  ASSUME LInv
  PROVE  /\ L!TypeOK
         /\ \A n \in Node : HasPoked(n) \in Int /\ HasHeard(n) \in Int
         /\ HasAcked \in Int /\ HasAcked <= HasHeard(0) /\ HasHeard(0) <= HasAcked + 1
         /\ \A n \in L!Others :
              /\ n \in Node /\ n # 0
              /\ HasHeard(n) <= HasAcked /\ HasHeard(0) <= HasPoked(n)
              /\ HasPoked(n) <= HasHeard(n) + 1
<1>1. L!TypeOK
  BY DEF LInv
<1>2. 0 \in Node /\ L!Others = Node \ {0}
  BY TheOthers
<1>3. /\ \A n \in Node : HasPoked(n) \in Int /\ HasHeard(n) \in Int
      /\ \A n \in Node : HasPoked(n) <= HasHeard(n) + 1
      /\ HasAcked \in Int /\ HasAcked <= HasHeard(0) /\ HasHeard(0) <= HasAcked + 1
  BY <1>1, <1>2, LTypes DEF HasPoked, HasHeard, HasAcked
<1> QED
  BY <1>1, <1>2, <1>3 DEF LInv, InStep

\* The root clears its word when every poke of a call has landed and none of the next.
LEMMA RootInCall ==
  ASSUME LInv, fPc[0] = "erase"
  PROVE  /\ HasHeard(0) = fRound[0] /\ HasAcked = fRound[0] - 1
         /\ \A n \in L!Others :
              /\ HasHeard(n) = HasAcked /\ HasPoked(n) = HasHeard(0)
              /\ fPokes[n] = 0 /\ fAcks[n] = 0 /\ fSync[n] = 0 /\ fClears[n] = 0
<1>1. HasHeard(0) = fRound[0] /\ HasAcked = fRound[0] - 1 /\ fRound[0] \in Nat
  BY Apart, LTypes, TheOthers DEF HasHeard, HasAcked
<1>2. ASSUME NEW n \in L!Others
      PROVE  /\ HasHeard(n) = HasAcked /\ HasPoked(n) = HasHeard(0)
             /\ fPokes[n] = 0 /\ fAcks[n] = 0 /\ fSync[n] = 0 /\ fClears[n] = 0
  <2>1. n \in Node /\ HasPoked(n) \in Int /\ HasHeard(n) \in Int /\ HasHeard(0) \in Int /\ HasAcked \in Int
        /\ HasHeard(n) <= HasAcked /\ HasHeard(0) <= HasPoked(n) /\ HasPoked(n) <= HasHeard(n) + 1
    BY Apart, TheOthers
  <2>2. HasHeard(n) = HasAcked /\ HasPoked(n) = HasHeard(0) /\ HasPoked(n) = HasHeard(n) + 1
    BY <1>1, <2>1
  <2>3. fPc[n] # "erase"
    <3>1. fRound[n] \in Nat
      BY <2>1, Apart, LTypes
    <3> QED
      BY <2>2, <3>1 DEF HasPoked, HasHeard
  <2>4. /\ fPokes[n] \in {0, 1} /\ (fPokes[n] = 1 => HasPoked(n) = HasHeard(0) + 1)
        /\ fClears[n] > 0 => fPc[n] = "erase"
        /\ fAcks[n] = 0 /\ fSync[n] = fClears[n]
    BY <2>2 DEF LInv, WordsInv
  <2>5. fClears[n] = 0
    <3>1. fClears[n] \in Nat
      BY <2>1, Apart, LTypes
    <3> QED
      BY <2>3, <2>4, <3>1
  <2>6. fPokes[n] = 0
    BY <2>1, <2>2, <2>4
  <2> QED
    BY <2>2, <2>4, <2>5, <2>6
<1> QED
  BY <1>1, <1>2

\* Nobody has returned from a call that somebody has not made.
LEMMA LAllCame ==
  ASSUME LInv
  PROVE  AllCame
<1> SUFFICES ASSUME NEW n \in Node, NEW m \in Node PROVE FlatLeft(n) <= fRound[m]
  BY DEF AllCame
<1>1. fRound[n] \in Nat /\ fRound[m] \in Nat /\ fRound[0] \in Nat
  BY Apart, LTypes, TheOthers
<1>2. FlatLeft(n) \in Int /\ FlatLeft(n) <= HasHeard(n) /\ FlatLeft(0) <= HasAcked
  BY <1>1 DEF FlatLeft, HasHeard, HasAcked
<1>3. HasHeard(0) <= fRound[0] /\ HasPoked(m) <= fRound[m]
  BY <1>1 DEF HasHeard, HasPoked
<1>4. FlatLeft(n) <= HasAcked
  <2>1. CASE n = 0
    BY <1>2, <2>1
  <2>2. CASE n # 0
    BY <2>2, <1>2, Apart, TheOthers
  <2> QED
    BY <2>1, <2>2
<1>5. HasHeard(0) <= fRound[m]
  <2>1. CASE m = 0
    BY <1>3, <2>1
  <2>2. CASE m # 0
    <3>1. HasHeard(0) <= HasPoked(m) /\ HasHeard(0) \in Int /\ HasPoked(m) \in Int
      BY <2>2, Apart, TheOthers
    <3> QED
      BY <1>1, <1>3, <3>1
  <2> QED
    BY <2>1, <2>2
<1>6. HasAcked \in Int /\ HasHeard(0) \in Int /\ HasAcked <= HasHeard(0)
  BY Apart, TheOthers
<1> QED
  BY <1>1, <1>2, <1>4, <1>5, <1>6

\* A clear in flight erases the pokes or the acknowledgement of one call.
LEMMA LApart ==
  ASSUME LInv
  PROVE  L!TypeOK /\ L!ClearsEraseOneCall
<1>1. ASSUME NEW n \in Node, fClears[n] > 0
      PROVE  fClears[n] = 1 /\ fSync[n] = IF n = 0 THEN Size - 1 ELSE 1
  <2>1. CASE n = 0
    BY <1>1, <2>1 DEF LInv, RootInv
  <2>2. CASE n # 0
    <3>1. n \in L!Others /\ fClears[n] \in Nat
      BY <2>2, Apart, LTypes, TheOthers
    <3>2. HasHeard(n) = HasAcked
      BY <1>1, <3>1 DEF LInv, WordsInv
    <3>3. fSync[n] = fClears[n] /\ fSync[n] <= 1
      BY <3>1, <3>2 DEF LInv, WordsInv
    <3> QED
      BY <1>1, <2>2, <3>1, <3>3
  <2> QED
    BY <2>1, <2>2
<1>2. Cardinality(L!PEs) = Size /\ L!PEs = Node /\ L!PEStart = 0 /\ L!SyncValue = 0 /\ Size \in Nat
  BY TheOthers, FlatAssumption DEF L!SyncValue
<1>3. L!TypeOK
  BY DEF LInv
<1> QED
  BY <1>1, <1>2, <1>3 DEF L!ClearsEraseOneCall

LEMMA LEnter ==
  ASSUME LInv, NEW n \in Node, L!Enter(n)
  PROVE  LInv'
<1>0. L!TypeOK
  BY DEF LInv
<1>1. /\ fPc[n] = "out" /\ fRound[n] < FlatRounds
      /\ fPc' = [fPc EXCEPT ![n] = "start"]
      /\ fRound' = [fRound EXCEPT ![n] = @ + 1]
      /\ UNCHANGED <<fVariant, fSync, fPokes, fAcks, fClears>>
  BY DEF L!Enter
<1>2. /\ \A m \in Node : m # n => fPc'[m] = fPc[m] /\ fRound'[m] = fRound[m]
      /\ fPc'[n] = "start" /\ fRound'[n] = fRound[n] + 1 /\ fRound[n] \in Nat
  BY <1>0, <1>1, LTypes
<1>3. L!TypeOK'
  <2>1. fRound' \in [Node -> 0 .. FlatRounds]
    BY <1>0, <1>1, LTypes, FlatAssumption
  <2>2. fPc' \in [Node -> {"out", "start", "await", "erase", "reset"}]
    BY <1>0, <1>1, LTypes
  <2>3. /\ fVariant' \in {"barrier", "sync", "team_sync"}
        /\ fSync' \in [Node -> Nat] /\ fClears' \in [Node -> Nat]
        /\ fPokes' \in [L!Others -> Nat] /\ fAcks' \in [L!Others -> Nat]
    BY <1>0, <1>1, LTypes
  <2> QED
    BY <2>1, <2>2, <2>3, TheOthers DEF L!TypeOK
<1>4. /\ \A m \in Node : HasPoked(m)' = HasPoked(m) /\ HasHeard(m)' = HasHeard(m)
      /\ HasAcked' = HasAcked
  BY <1>1, <1>2, TheOthers DEF HasPoked, HasHeard, HasAcked
<1>5. InStep' /\ Arrived' = Arrived
  BY <1>1, <1>4, TheOthers DEF LInv, InStep, Arrived
<1>6. WordsInv'
  <2> SUFFICES ASSUME NEW m \in L!Others
               PROVE  /\ fPc'[m] # "out" => fRound'[m] >= 1
                      /\ fPokes'[m] \in {0, 1} /\ (fPokes'[m] = 1 => HasPoked(m)' = HasHeard(0)' + 1)
                      /\ fClears'[m] > 0 => fPc'[m] = "erase"
                      /\ HasHeard(m)' = HasAcked' => fAcks'[m] = 0 /\ fSync'[m] = fClears'[m] /\ fSync'[m] <= 1
                      /\ HasHeard(m)' # HasAcked' => fAcks'[m] + fSync'[m] = 1 /\ fClears'[m] = 0
    BY DEF WordsInv
  <2>1. m \in Node /\ 0 \in Node
    BY TheOthers
  <2>2. fClears[m] > 0 => m # n
    BY <1>1 DEF LInv, WordsInv
  <2> QED
    BY <2>1, <2>2, <1>1, <1>2, <1>4 DEF LInv, WordsInv
<1>7. RootInv'
  <2>1. fClears[0] > 0 => n # 0
    BY <1>1 DEF LInv, RootInv
  <2> QED
    BY <2>1, <1>1, <1>2, <1>5, TheOthers DEF LInv, RootInv
<1> QED
  BY <1>3, <1>5, <1>6, <1>7 DEF LInv

LEMMA LPokeRoot ==
  ASSUME LInv, NEW n \in Node, L!PokeRoot(n)
  PROVE  LInv'
<1>0. L!TypeOK
  BY DEF LInv
<1>1. /\ n \in L!Others /\ n # 0 /\ fPc[n] = "start"
      /\ fPokes' = [fPokes EXCEPT ![n] = @ + 1]
      /\ fPc' = [fPc EXCEPT ![n] = "await"]
      /\ UNCHANGED <<fVariant, fRound, fSync, fAcks, fClears>>
  BY TheOthers DEF L!PokeRoot
<1>2. /\ \A m \in Node : m # n => fPc'[m] = fPc[m]
      /\ \A m \in L!Others : m # n => fPokes'[m] = fPokes[m]
      /\ fPc'[n] = "await" /\ fRound[n] \in Nat
  BY <1>0, <1>1, LTypes
<1>3. L!TypeOK'
  BY <1>0, <1>1, LTypes, TheOthers DEF L!TypeOK
<1>4. /\ \A m \in Node : HasHeard(m)' = HasHeard(m)
      /\ \A m \in Node : m # n => HasPoked(m)' = HasPoked(m)
      /\ HasPoked(n) = fRound[n] - 1 /\ HasPoked(n)' = fRound[n]
      /\ HasAcked' = HasAcked
  BY <1>1, <1>2, TheOthers DEF HasPoked, HasHeard, HasAcked
\* The root has gathered exactly the call before.
<1>5. HasHeard(0) = fRound[n] - 1 /\ HasAcked = HasHeard(0) /\ HasHeard(n) = HasAcked
  <2>1. HasHeard(n) = fRound[n] - 1
    BY <1>1 DEF HasHeard
  <2>2. HasHeard(n) <= HasAcked /\ HasAcked <= HasHeard(0) /\ HasHeard(0) <= HasPoked(n)
        /\ HasHeard(0) \in Int /\ HasAcked \in Int
    BY <1>1, Apart, TheOthers
  <2> QED
    BY <2>1, <2>2, <1>2, <1>4
<1>6. fPokes[n] = 0 /\ fPokes'[n] = 1
  <2>1. fPokes[n] \in {0, 1} /\ (fPokes[n] = 1 => HasPoked(n) = HasHeard(0) + 1)
    BY <1>1 DEF LInv, WordsInv
  <2>2. fPokes[n] = 0
    BY <2>1, <1>2, <1>4, <1>5
  <2> QED
    BY <2>2, <1>0, <1>1, LTypes
<1>7. InStep'
  BY <1>1, <1>2, <1>4, <1>5, TheOthers DEF LInv, InStep
<1>8. Arrived' = Arrived
  <2>1. ASSUME NEW m \in L!Others
        PROVE  (HasPoked(m)' = HasHeard(0)' + 1 /\ fPokes'[m] = 0)
                 <=> (HasPoked(m) = HasHeard(0) + 1 /\ fPokes[m] = 0)
    BY <1>2, <1>4, <1>5, <1>6, TheOthers
  <2> QED
    BY <2>1 DEF Arrived
<1>9. WordsInv'
  <2> SUFFICES ASSUME NEW m \in L!Others
               PROVE  /\ fPc'[m] # "out" => fRound'[m] >= 1
                      /\ fPokes'[m] \in {0, 1} /\ (fPokes'[m] = 1 => HasPoked(m)' = HasHeard(0)' + 1)
                      /\ fClears'[m] > 0 => fPc'[m] = "erase"
                      /\ HasHeard(m)' = HasAcked' => fAcks'[m] = 0 /\ fSync'[m] = fClears'[m] /\ fSync'[m] <= 1
                      /\ HasHeard(m)' # HasAcked' => fAcks'[m] + fSync'[m] = 1 /\ fClears'[m] = 0
    BY DEF WordsInv
  <2>1. m \in Node /\ 0 \in Node
    BY TheOthers
  <2>2. CASE m # n
    BY <2>1, <2>2, <1>1, <1>2, <1>4 DEF LInv, WordsInv
  <2>3. CASE m = n
    <3>1. fRound[n] >= 1 /\ (fClears[n] > 0 => FALSE)
      BY <1>1 DEF LInv, WordsInv
    <3>2. HasHeard(n) = HasAcked => fAcks[n] = 0 /\ fSync[n] = fClears[n] /\ fSync[n] <= 1
      BY <1>1 DEF LInv, WordsInv
    <3> QED
      BY <2>1, <2>3, <3>1, <3>2, <1>1, <1>2, <1>4, <1>5, <1>6
  <2> QED
    BY <2>2, <2>3
<1>10. RootInv'
  BY <1>1, <1>2, <1>8, TheOthers DEF LInv, RootInv
<1> QED
  BY <1>3, <1>7, <1>9, <1>10 DEF LInv

LEMMA LGetAck ==
  ASSUME LInv, NEW n \in Node, L!GetAck(n)
  PROVE  LInv'
<1>0. L!TypeOK
  BY DEF LInv
<1>1. /\ fPc[n] = "await" /\ fSync[n] # 0
      /\ fClears' = [fClears EXCEPT ![n] = @ + 1]
      /\ fPc' = [fPc EXCEPT ![n] = "erase"]
      /\ UNCHANGED <<fVariant, fRound, fSync, fPokes, fAcks>>
  BY DEF L!GetAck, L!SyncValue
<1>2. n \in L!Others /\ n # 0
  BY <1>1, TheOthers DEF LInv, RootInv
<1>3. /\ \A m \in Node : m # n => fPc'[m] = fPc[m] /\ fClears'[m] = fClears[m]
      /\ fPc'[n] = "erase" /\ fClears'[n] = fClears[n] + 1 /\ fRound[n] \in Nat
      /\ fClears[n] \in Nat /\ fSync[n] \in Nat /\ fAcks[n] \in Nat
  BY <1>0, <1>1, <1>2, LTypes
<1>4. L!TypeOK'
  BY <1>0, <1>1, LTypes, TheOthers DEF L!TypeOK
<1>5. /\ \A m \in Node : HasPoked(m)' = HasPoked(m)
      /\ \A m \in Node : m # n => HasHeard(m)' = HasHeard(m)
      /\ HasHeard(n) = fRound[n] - 1 /\ HasHeard(n)' = fRound[n]
      /\ HasAcked' = HasAcked
  BY <1>1, <1>2, <1>3, TheOthers DEF HasPoked, HasHeard, HasAcked
\* The root has acknowledged this call, and the acknowledgement has landed.
<1>6. HasAcked = fRound[n] /\ fClears[n] = 0 /\ fAcks[n] = 0 /\ fSync[n] = 1
  <2>1. fClears[n] = 0
    BY <1>1, <1>2, <1>3 DEF LInv, WordsInv
  <2>2. HasHeard(n) # HasAcked /\ fAcks[n] + fSync[n] = 1
    BY <2>1, <1>1, <1>2 DEF LInv, WordsInv
  <2>3. HasPoked(n) = fRound[n]
    BY <1>1 DEF HasPoked
  <2>4. HasHeard(n) <= HasAcked /\ HasAcked <= HasHeard(0) /\ HasHeard(0) <= HasPoked(n)
        /\ HasHeard(0) \in Int /\ HasAcked \in Int
    BY <1>2, Apart, TheOthers
  <2> QED
    BY <2>1, <2>2, <2>3, <2>4, <1>1, <1>3, <1>5
<1>7. InStep' /\ Arrived' = Arrived
  BY <1>1, <1>2, <1>5, <1>6, <1>3, TheOthers DEF LInv, InStep, Arrived
<1>8. WordsInv'
  <2> SUFFICES ASSUME NEW m \in L!Others
               PROVE  /\ fPc'[m] # "out" => fRound'[m] >= 1
                      /\ fPokes'[m] \in {0, 1} /\ (fPokes'[m] = 1 => HasPoked(m)' = HasHeard(0)' + 1)
                      /\ fClears'[m] > 0 => fPc'[m] = "erase"
                      /\ HasHeard(m)' = HasAcked' => fAcks'[m] = 0 /\ fSync'[m] = fClears'[m] /\ fSync'[m] <= 1
                      /\ HasHeard(m)' # HasAcked' => fAcks'[m] + fSync'[m] = 1 /\ fClears'[m] = 0
    BY DEF WordsInv
  <2>1. m \in Node /\ 0 \in Node
    BY TheOthers
  <2>2. CASE m # n
    BY <2>1, <2>2, <1>1, <1>2, <1>3, <1>5 DEF LInv, WordsInv
  <2>3. CASE m = n
    <3>1. fRound[n] >= 1 /\ fPokes[n] \in {0, 1} /\ (fPokes[n] = 1 => HasPoked(n) = HasHeard(0) + 1)
      BY <1>1, <1>2 DEF LInv, WordsInv
    <3> QED
      BY <2>1, <2>3, <3>1, <1>1, <1>2, <1>3, <1>5, <1>6
  <2> QED
    BY <2>2, <2>3
<1>9. RootInv'
  BY <1>1, <1>2, <1>3, <1>7, TheOthers DEF LInv, RootInv
<1> QED
  BY <1>4, <1>7, <1>8, <1>9 DEF LInv

LEMMA LErased ==
  ASSUME LInv, Size # 1, NEW n \in Node, L!Erased(n)
  PROVE  LInv'
<1>0. L!TypeOK
  BY DEF LInv
<1>1. /\ fPc[n] = "erase" /\ fSync[n] = 0
      /\ fAcks' = IF n = 0 THEN [m \in L!Others |-> fAcks[m] + 1] ELSE fAcks
      /\ fPc' = [fPc EXCEPT ![n] = IF fVariant = "team_sync" THEN "reset" ELSE "out"]
      /\ UNCHANGED <<fVariant, fRound, fSync, fPokes, fClears>>
  BY TheOthers DEF L!Erased, L!SyncValue
<1>2. /\ fPc' \in [Node -> {"out", "start", "await", "erase", "reset"}]
      /\ \A m \in Node : m # n => fPc'[m] = fPc[m]
      /\ fPc'[n] \in {"reset", "out"} /\ fRound[n] \in Nat
  <2>1. PICK x \in {"reset", "out"} : x = IF fVariant = "team_sync" THEN "reset" ELSE "out"
    OBVIOUS
  <2>2. fPc' = [fPc EXCEPT ![n] = x]
    BY <1>1, <2>1
  <2> QED
    BY <1>0, <2>2, LTypes
<1>3. L!TypeOK'
  <2>1. fAcks' \in [L!Others -> Nat]
    <3>1. fAcks \in [L!Others -> Nat]
      BY <1>0, LTypes
    <3> QED
      BY <3>1, <1>1
  <2> QED
    BY <2>1, <1>0, <1>1, <1>2, LTypes, TheOthers DEF L!TypeOK
<1>4. \A m \in Node : HasPoked(m)' = HasPoked(m) /\ HasHeard(m)' = HasHeard(m)
  BY <1>1, <1>2 DEF HasPoked, HasHeard
<1>5. Arrived' = Arrived
  BY <1>1, <1>4, TheOthers DEF Arrived
<1>6. ASSUME NEW m \in L!Others
      PROVE  /\ fPc'[m] # "out" => fRound'[m] >= 1
             /\ fPokes'[m] \in {0, 1} /\ (fPokes'[m] = 1 => HasPoked(m)' = HasHeard(0)' + 1)
  <2>1. m \in Node /\ 0 \in Node
    BY TheOthers
  <2>2. /\ fPc[m] # "out" => fRound[m] >= 1
        /\ fPokes[m] \in {0, 1} /\ (fPokes[m] = 1 => HasPoked(m) = HasHeard(0) + 1)
    BY DEF LInv, WordsInv
  <2> QED
    BY <2>1, <2>2, <1>1, <1>2, <1>4
\* The root sends the acknowledgements of the call everybody has poked it for.
<1>7. CASE n = 0
  <2>1. HasHeard(0) = fRound[0] /\ HasAcked = fRound[0] - 1 /\ HasAcked' = fRound[0] /\ fRound[0] \in Nat
    BY <1>1, <1>2, <1>7, RootInCall DEF HasAcked
  <2>2. ASSUME NEW m \in L!Others
        PROVE  /\ HasHeard(m) = HasAcked /\ HasPoked(m) = HasHeard(0)
               /\ fPokes[m] = 0 /\ fAcks[m] = 0 /\ fSync[m] = 0 /\ fClears[m] = 0
    BY <1>1, <1>7, RootInCall
  <2>3. ASSUME NEW m \in L!Others
        PROVE  m \in Node /\ m # 0 /\ fPc'[m] = fPc[m] /\ fAcks'[m] = 1
    BY <1>1, <1>2, <1>7, <2>2, TheOthers
  <2>4. InStep'
    <3> SUFFICES ASSUME NEW m \in L!Others PROVE HasHeard(m)' <= HasAcked' /\ HasHeard(0)' <= HasPoked(m)'
      BY DEF InStep
    <3>1. m \in Node /\ 0 \in Node
      BY TheOthers
    <3> QED
      BY <3>1, <1>4, <2>1, <2>2
  <2>5. WordsInv'
    <3> SUFFICES ASSUME NEW m \in L!Others
                 PROVE  /\ fClears'[m] > 0 => fPc'[m] = "erase"
                        /\ HasHeard(m)' = HasAcked' => fAcks'[m] = 0 /\ fSync'[m] = fClears'[m] /\ fSync'[m] <= 1
                        /\ HasHeard(m)' # HasAcked' => fAcks'[m] + fSync'[m] = 1 /\ fClears'[m] = 0
      BY <1>6 DEF WordsInv
    <3>1. HasHeard(m)' # HasAcked'
      BY <1>4, <2>1, <2>2, <2>3
    <3> QED
      BY <3>1, <1>1, <2>2, <2>3
  <2>6. RootInv'
    <3>1. ~ (fClears[0] > 0)
      <4>1. fClears[0] > 0 => fSync[0] = Size - 1
        BY DEF LInv, RootInv
      <4> QED
        BY <4>1, <1>1, <1>7, FlatAssumption
    <3>2. fRound[0] >= 1 /\ fSync[0] = 0 /\ Cardinality(Arrived) \in Nat
      <4>1. Arrived \in SUBSET L!Others
        BY DEF Arrived
      <4> QED
        BY <4>1, <1>1, <1>7, TheOthers DEF LInv, RootInv
    <3> QED
      BY <3>1, <3>2, <1>1, <1>2, <1>5, <1>7 DEF RootInv
  <2> QED
    BY <1>3, <2>4, <2>5, <2>6 DEF LInv
\* Any other PE has the acknowledgement and nothing more on its way.
<1>8. CASE n # 0
  <2>1. HasAcked' = HasAcked /\ fAcks' = fAcks /\ n \in L!Others
    BY <1>1, <1>2, <1>8, TheOthers DEF HasAcked
  <2>2. InStep'
    BY <1>4, <2>1, TheOthers DEF LInv, InStep
  <2>3. ~ (fClears[n] > 0)
    <3>1. fClears[n] > 0 => fClears[n] = 1 /\ fSync[n] = 1
      BY <1>8, LApart, TheOthers DEF L!ClearsEraseOneCall, L!SyncValue
    <3> QED
      BY <3>1, <1>1
  <2>4. WordsInv'
    <3> SUFFICES ASSUME NEW m \in L!Others
                 PROVE  /\ fClears'[m] > 0 => fPc'[m] = "erase"
                        /\ HasHeard(m)' = HasAcked' => fAcks'[m] = 0 /\ fSync'[m] = fClears'[m] /\ fSync'[m] <= 1
                        /\ HasHeard(m)' # HasAcked' => fAcks'[m] + fSync'[m] = 1 /\ fClears'[m] = 0
      BY <1>6 DEF WordsInv
    <3>1. m \in Node /\ (fClears[m] > 0 => m # n)
      BY <2>3, TheOthers
    <3> QED
      BY <3>1, <1>1, <1>2, <1>4, <2>1 DEF LInv, WordsInv
  <2>5. RootInv'
    BY <1>1, <1>2, <1>5, <1>8, TheOthers DEF LInv, RootInv
  <2> QED
    BY <1>3, <2>2, <2>4, <2>5 DEF LInv
<1> QED
  BY <1>7, <1>8

LEMMA LReset ==
  ASSUME LInv, NEW n \in Node, L!ResetPsync(n)
  PROVE  LInv'
<1>0. L!TypeOK
  BY DEF LInv
<1>1. /\ fPc[n] = "reset" /\ fSync' = [fSync EXCEPT ![n] = 0]
      /\ fPc' = [fPc EXCEPT ![n] = "out"]
      /\ UNCHANGED <<fVariant, fRound, fPokes, fAcks, fClears>>
  BY DEF L!ResetPsync, L!SyncValue
<1>2. /\ \A m \in Node : m # n => fPc'[m] = fPc[m] /\ fSync'[m] = fSync[m]
      /\ fPc'[n] = "out" /\ fSync'[n] = 0 /\ fRound[n] \in Nat
  BY <1>0, <1>1, LTypes
<1>3. L!TypeOK'
  BY <1>0, <1>1, LTypes, TheOthers DEF L!TypeOK
<1>4. /\ \A m \in Node : HasPoked(m)' = HasPoked(m) /\ HasHeard(m)' = HasHeard(m)
      /\ HasAcked' = HasAcked
  BY <1>1, <1>2, TheOthers DEF HasPoked, HasHeard, HasAcked
<1>5. InStep' /\ Arrived' = Arrived
  BY <1>1, <1>4, TheOthers DEF LInv, InStep, Arrived
<1>6. ~ (fClears[n] > 0)
  BY <1>1, TheOthers DEF LInv, WordsInv, RootInv
<1>7. ASSUME n # 0
      PROVE  HasHeard(n) = HasAcked
  <2>1. HasHeard(n) = fRound[n] /\ HasPoked(n) = fRound[n]
    BY <1>1 DEF HasHeard, HasPoked
  <2>2. HasHeard(n) <= HasAcked /\ HasAcked <= HasHeard(0) /\ HasHeard(0) <= HasPoked(n)
        /\ HasHeard(0) \in Int /\ HasAcked \in Int
    BY <1>7, Apart, TheOthers
  <2> QED
    BY <2>1, <2>2, <1>2
<1>8. WordsInv'
  <2> SUFFICES ASSUME NEW m \in L!Others
               PROVE  /\ fPc'[m] # "out" => fRound'[m] >= 1
                      /\ fPokes'[m] \in {0, 1} /\ (fPokes'[m] = 1 => HasPoked(m)' = HasHeard(0)' + 1)
                      /\ fClears'[m] > 0 => fPc'[m] = "erase"
                      /\ HasHeard(m)' = HasAcked' => fAcks'[m] = 0 /\ fSync'[m] = fClears'[m] /\ fSync'[m] <= 1
                      /\ HasHeard(m)' # HasAcked' => fAcks'[m] + fSync'[m] = 1 /\ fClears'[m] = 0
    BY DEF WordsInv
  <2>1. m \in Node /\ 0 \in Node
    BY TheOthers
  <2>2. CASE m # n
    BY <2>1, <2>2, <1>1, <1>2, <1>4 DEF LInv, WordsInv
  <2>3. CASE m = n
    <3>1. HasHeard(n) = HasAcked
      BY <2>3, <1>7, TheOthers
    <3>2. fAcks[n] = 0 /\ fSync[n] = fClears[n] /\ fClears[n] \in Nat
      BY <2>3, <3>1, <1>0, LTypes DEF LInv, WordsInv
    <3>3. fClears[n] = 0
      BY <3>2, <1>6
    <3>4. fPokes[n] \in {0, 1} /\ (fPokes[n] = 1 => HasPoked(n) = HasHeard(0) + 1)
      BY <2>3 DEF LInv, WordsInv
    <3> QED
      BY <2>1, <2>3, <3>1, <3>2, <3>3, <3>4, <1>1, <1>2, <1>4
  <2> QED
    BY <2>2, <2>3
<1>9. RootInv'
  <2>1. Cardinality(Arrived) \in Nat
    <3>1. Arrived \in SUBSET L!Others
      BY DEF Arrived
    <3> QED
      BY <3>1, TheOthers
  <2>2. CASE n = 0
    <3>1. fPc'[0] = "out" /\ fSync'[0] = 0 /\ ~ (fClears'[0] > 0)
      BY <1>1, <1>2, <1>6, <2>2
    <3> QED
      BY <2>1, <3>1, <1>5 DEF RootInv
  <2>3. CASE n # 0
    BY <2>3, <1>1, <1>2, <1>5, TheOthers DEF LInv, RootInv
  <2> QED
    BY <2>2, <2>3
<1> QED
  BY <1>3, <1>5, <1>8, <1>9 DEF LInv

LEMMA LRootGathered ==
  ASSUME LInv, Size # 1, L!RootGathered
  PROVE  LInv'
<1>0. L!TypeOK /\ Size \in Nat \ {0, 1}
  BY FlatAssumption DEF LInv
<1>1. /\ fPc[0] = "start" /\ fSync[0] = Size - 1
      /\ fClears' = [fClears EXCEPT ![0] = @ + 1]
      /\ fPc' = [fPc EXCEPT ![0] = "erase"]
      /\ UNCHANGED <<fVariant, fRound, fSync, fPokes, fAcks>>
  BY <1>0, TheOthers DEF L!RootGathered, L!SyncValue
<1>2. /\ \A m \in Node : m # 0 => fPc'[m] = fPc[m] /\ fClears'[m] = fClears[m]
      /\ fPc'[0] = "erase" /\ fClears'[0] = fClears[0] + 1 /\ fRound[0] \in Nat /\ fClears[0] \in Nat
  BY <1>0, <1>1, LTypes, TheOthers
<1>3. L!TypeOK'
  BY <1>0, <1>1, LTypes, TheOthers DEF L!TypeOK
<1>4. fClears[0] = 0
  BY <1>1, <1>2 DEF LInv, RootInv
\* The word counts the pokes of all.
<1>5. Arrived = L!Others
  <2>1. Arrived \in SUBSET L!Others
    BY DEF Arrived
  <2>2. Cardinality(Arrived) \in Nat /\ Cardinality(Arrived) <= Size - 1
        /\ (Cardinality(Arrived) = Size - 1 => Arrived = L!Others)
    BY <2>1, TheOthers
  <2>3. Size - 1 <= Cardinality(Arrived)
    BY <1>1, <1>4 DEF LInv, RootInv
  <2> QED
    BY <2>2, <2>3, <1>0
<1>6. /\ \A m \in Node : HasPoked(m)' = IF m = 0 THEN fRound[0] ELSE HasPoked(m)
      /\ \A m \in Node : m # 0 => HasHeard(m)' = HasHeard(m)
      /\ HasHeard(0) = fRound[0] - 1 /\ HasHeard(0)' = fRound[0]
      /\ HasAcked = fRound[0] - 1 /\ HasAcked' = fRound[0] - 1
  BY <1>1, <1>2, TheOthers DEF HasPoked, HasHeard, HasAcked
<1>7. ASSUME NEW m \in L!Others
      PROVE  m \in Node /\ m # 0 /\ HasPoked(m) = fRound[0] /\ fPokes[m] = 0
  BY <1>2, <1>5, <1>6, TheOthers DEF Arrived
<1>8. InStep'
  <2> SUFFICES ASSUME NEW m \in L!Others PROVE HasHeard(m)' <= HasAcked' /\ HasHeard(0)' <= HasPoked(m)'
    BY DEF InStep
  <2>1. HasHeard(m) <= HasAcked
    BY DEF LInv, InStep
  <2> QED
    BY <2>1, <1>2, <1>6, <1>7
<1>9. WordsInv'
  <2> SUFFICES ASSUME NEW m \in L!Others
               PROVE  /\ fPc'[m] # "out" => fRound'[m] >= 1
                      /\ fPokes'[m] \in {0, 1} /\ (fPokes'[m] = 1 => HasPoked(m)' = HasHeard(0)' + 1)
                      /\ fClears'[m] > 0 => fPc'[m] = "erase"
                      /\ HasHeard(m)' = HasAcked' => fAcks'[m] = 0 /\ fSync'[m] = fClears'[m] /\ fSync'[m] <= 1
                      /\ HasHeard(m)' # HasAcked' => fAcks'[m] + fSync'[m] = 1 /\ fClears'[m] = 0
    BY DEF WordsInv
  <2>1. fPokes'[m] = 0
    BY <1>1, <1>7
  <2>2. /\ fPc[m] # "out" => fRound[m] >= 1
        /\ fClears[m] > 0 => fPc[m] = "erase"
        /\ HasHeard(m) = HasAcked => fAcks[m] = 0 /\ fSync[m] = fClears[m] /\ fSync[m] <= 1
        /\ HasHeard(m) # HasAcked => fAcks[m] + fSync[m] = 1 /\ fClears[m] = 0
    BY DEF LInv, WordsInv
  <2> QED
    BY <2>1, <2>2, <1>1, <1>2, <1>6, <1>7
<1>10. RootInv'
  <2>1. fRound'[0] >= 1
    BY <1>1 DEF LInv, RootInv
  <2> QED
    BY <2>1, <1>1, <1>2, <1>4 DEF RootInv
<1> QED
  BY <1>3, <1>8, <1>9, <1>10 DEF LInv

LEMMA LPokeLands ==
  ASSUME LInv, NEW n \in Node, L!PokeLands(n)
  PROVE  LInv'
<1>0. L!TypeOK
  BY DEF LInv
<1>1. /\ n \in L!Others /\ n # 0 /\ fPokes[n] > 0
      /\ fPokes' = [fPokes EXCEPT ![n] = @ - 1]
      /\ fSync' = [fSync EXCEPT ![0] = @ + 1]
      /\ UNCHANGED <<fVariant, fPc, fRound, fAcks, fClears>>
  BY TheOthers DEF L!PokeLands
<1>2. fPokes[n] = 1 /\ HasPoked(n) = HasHeard(0) + 1
  BY <1>1 DEF LInv, WordsInv
<1>3. /\ \A m \in L!Others : m # n => fPokes'[m] = fPokes[m]
      /\ fPokes' \in [L!Others -> Nat] /\ fPokes'[n] = 0
      /\ \A m \in Node : m # 0 => fSync'[m] = fSync[m]
      /\ fSync' \in [Node -> Nat] /\ fSync'[0] = fSync[0] + 1 /\ fSync[0] \in Nat
  <2>1. fPokes' = [fPokes EXCEPT ![n] = 0]
    BY <1>1, <1>2
  <2> QED
    BY <2>1, <1>0, <1>1, LTypes, TheOthers
<1>4. L!TypeOK'
  BY <1>0, <1>1, <1>3, LTypes, TheOthers DEF L!TypeOK
<1>5. /\ \A m \in Node : HasPoked(m)' = HasPoked(m) /\ HasHeard(m)' = HasHeard(m)
      /\ HasAcked' = HasAcked
  BY <1>1 DEF HasPoked, HasHeard, HasAcked
<1>6. InStep'
  BY <1>5, TheOthers DEF LInv, InStep
<1>7. WordsInv'
  <2> SUFFICES ASSUME NEW m \in L!Others
               PROVE  /\ fPc'[m] # "out" => fRound'[m] >= 1
                      /\ fPokes'[m] \in {0, 1} /\ (fPokes'[m] = 1 => HasPoked(m)' = HasHeard(0)' + 1)
                      /\ fClears'[m] > 0 => fPc'[m] = "erase"
                      /\ HasHeard(m)' = HasAcked' => fAcks'[m] = 0 /\ fSync'[m] = fClears'[m] /\ fSync'[m] <= 1
                      /\ HasHeard(m)' # HasAcked' => fAcks'[m] + fSync'[m] = 1 /\ fClears'[m] = 0
    BY DEF WordsInv
  <2>1. m \in Node /\ m # 0 /\ 0 \in Node
    BY TheOthers
  <2>2. fPokes'[m] \in {0, 1} /\ (fPokes'[m] = 1 => HasPoked(m) = HasHeard(0) + 1)
    <3>1. fPokes[m] \in {0, 1} /\ (fPokes[m] = 1 => HasPoked(m) = HasHeard(0) + 1)
      BY DEF LInv, WordsInv
    <3> QED
      BY <3>1, <1>3
  <2> QED
    BY <2>1, <2>2, <1>1, <1>3, <1>5 DEF LInv, WordsInv
\* While the root clears its word no poke is in flight.
<1>8. RootInv'
  <2>1. fPc[0] # "erase"
    BY <1>1, <1>2, RootInCall
  <2>2. ~ (fClears[0] > 0) /\ fClears[0] \in Nat
    BY <2>1, <1>0, LTypes, TheOthers DEF LInv, RootInv
  <2>3. fSync[0] <= Cardinality(Arrived)
    BY <2>2 DEF LInv, RootInv
  <2>4. Arrived \in SUBSET L!Others /\ n \notin Arrived
    BY <1>2 DEF Arrived
  <2>5. Arrived' = Arrived \cup {n}
    <3>1. ASSUME NEW m \in L!Others
          PROVE  (HasPoked(m)' = HasHeard(0)' + 1 /\ fPokes'[m] = 0)
                   <=> (HasPoked(m) = HasHeard(0) + 1 /\ fPokes[m] = 0) \/ m = n
      BY <1>1, <1>2, <1>3, <1>5, TheOthers
    <3> QED
      BY <3>1, <1>1 DEF Arrived
  <2>6. Cardinality(Arrived') = Cardinality(Arrived) + 1 /\ Cardinality(Arrived) \in Nat
    BY <2>4, <2>5, <1>1, TheOthers
  <2>7. fSync'[0] <= Cardinality(Arrived')
    BY <2>3, <2>6, <1>3
  <2> QED
    BY <2>2, <2>7, <1>1 DEF LInv, RootInv
<1> QED
  BY <1>4, <1>6, <1>7, <1>8 DEF LInv

LEMMA LAckLands ==
  ASSUME LInv, NEW n \in Node, L!AckLands(n)
  PROVE  LInv'
<1>0. L!TypeOK
  BY DEF LInv
<1>1. /\ n \in L!Others /\ n # 0 /\ fAcks[n] > 0
      /\ fAcks' = [fAcks EXCEPT ![n] = @ - 1]
      /\ fSync' = [fSync EXCEPT ![n] = 1]
      /\ UNCHANGED <<fVariant, fPc, fRound, fPokes, fClears>>
  BY TheOthers DEF L!AckLands, L!SyncValue
<1>2. fAcks[n] = 1 /\ HasHeard(n) # HasAcked /\ fClears[n] = 0
  <2>1. HasHeard(n) # HasAcked
    BY <1>1 DEF LInv, WordsInv
  <2>2. fAcks[n] + fSync[n] = 1 /\ fAcks[n] \in Nat /\ fSync[n] \in Nat
    BY <2>1, <1>0, <1>1, LTypes DEF LInv, WordsInv
  <2> QED
    BY <2>1, <2>2, <1>1 DEF LInv, WordsInv
<1>3. /\ \A m \in L!Others : m # n => fAcks'[m] = fAcks[m]
      /\ fAcks' \in [L!Others -> Nat] /\ fAcks'[n] = 0
      /\ \A m \in Node : m # n => fSync'[m] = fSync[m]
      /\ fSync' \in [Node -> Nat] /\ fSync'[n] = 1
  <2>1. fAcks' = [fAcks EXCEPT ![n] = 0]
    BY <1>1, <1>2
  <2> QED
    BY <2>1, <1>0, <1>1, LTypes, TheOthers
<1>4. L!TypeOK'
  BY <1>0, <1>1, <1>3, LTypes, TheOthers DEF L!TypeOK
<1>5. /\ \A m \in Node : HasPoked(m)' = HasPoked(m) /\ HasHeard(m)' = HasHeard(m)
      /\ HasAcked' = HasAcked
  BY <1>1 DEF HasPoked, HasHeard, HasAcked
<1>6. InStep' /\ Arrived' = Arrived
  BY <1>1, <1>5, TheOthers DEF LInv, InStep, Arrived
<1>7. WordsInv'
  <2> SUFFICES ASSUME NEW m \in L!Others
               PROVE  /\ fPc'[m] # "out" => fRound'[m] >= 1
                      /\ fPokes'[m] \in {0, 1} /\ (fPokes'[m] = 1 => HasPoked(m)' = HasHeard(0)' + 1)
                      /\ fClears'[m] > 0 => fPc'[m] = "erase"
                      /\ HasHeard(m)' = HasAcked' => fAcks'[m] = 0 /\ fSync'[m] = fClears'[m] /\ fSync'[m] <= 1
                      /\ HasHeard(m)' # HasAcked' => fAcks'[m] + fSync'[m] = 1 /\ fClears'[m] = 0
    BY DEF WordsInv
  <2>1. m \in Node /\ 0 \in Node
    BY TheOthers
  <2>2. CASE m # n
    BY <2>1, <2>2, <1>1, <1>3, <1>5 DEF LInv, WordsInv
  <2>3. CASE m = n
    <3>1. /\ fPc[n] # "out" => fRound[n] >= 1
          /\ fPokes[n] \in {0, 1} /\ (fPokes[n] = 1 => HasPoked(n) = HasHeard(0) + 1)
      BY <1>1 DEF LInv, WordsInv
    <3> QED
      BY <2>1, <2>3, <3>1, <1>1, <1>2, <1>3, <1>5
  <2> QED
    BY <2>2, <2>3
<1>8. RootInv'
  BY <1>1, <1>3, <1>6, TheOthers DEF LInv, RootInv
<1> QED
  BY <1>4, <1>6, <1>7, <1>8 DEF LInv

LEMMA LClearLands ==
  ASSUME LInv, NEW n \in Node, L!ClearLands(n)
  PROVE  LInv'
<1>0. L!TypeOK
  BY DEF LInv
<1>1. /\ fClears[n] > 0
      /\ fClears' = [fClears EXCEPT ![n] = @ - 1]
      /\ fSync' = [fSync EXCEPT ![n] = 0]
      /\ UNCHANGED <<fVariant, fPc, fRound, fPokes, fAcks>>
  BY DEF L!ClearLands, L!SyncValue
<1>2. fClears[n] = 1
  BY <1>1, LApart, TheOthers DEF L!ClearsEraseOneCall
<1>3. /\ fClears' \in [Node -> Nat] /\ fClears'[n] = 0
      /\ \A m \in Node : m # n => fClears'[m] = fClears[m] /\ fSync'[m] = fSync[m]
      /\ fSync' \in [Node -> Nat] /\ fSync'[n] = 0
  <2>1. fClears' = [fClears EXCEPT ![n] = 0]
    BY <1>1, <1>2
  <2> QED
    BY <2>1, <1>0, <1>1, LTypes
<1>4. L!TypeOK'
  BY <1>0, <1>1, <1>3, LTypes, TheOthers DEF L!TypeOK
<1>5. /\ \A m \in Node : HasPoked(m)' = HasPoked(m) /\ HasHeard(m)' = HasHeard(m)
      /\ HasAcked' = HasAcked
  BY <1>1 DEF HasPoked, HasHeard, HasAcked
<1>6. InStep' /\ Arrived' = Arrived
  BY <1>1, <1>5, TheOthers DEF LInv, InStep, Arrived
<1>7. WordsInv'
  <2> SUFFICES ASSUME NEW m \in L!Others
               PROVE  /\ fPc'[m] # "out" => fRound'[m] >= 1
                      /\ fPokes'[m] \in {0, 1} /\ (fPokes'[m] = 1 => HasPoked(m)' = HasHeard(0)' + 1)
                      /\ fClears'[m] > 0 => fPc'[m] = "erase"
                      /\ HasHeard(m)' = HasAcked' => fAcks'[m] = 0 /\ fSync'[m] = fClears'[m] /\ fSync'[m] <= 1
                      /\ HasHeard(m)' # HasAcked' => fAcks'[m] + fSync'[m] = 1 /\ fClears'[m] = 0
    BY DEF WordsInv
  <2>1. m \in Node /\ 0 \in Node
    BY TheOthers
  <2>2. CASE m # n
    BY <2>1, <2>2, <1>1, <1>3, <1>5 DEF LInv, WordsInv
  <2>3. CASE m = n
    <3>1. /\ fPc[n] # "out" => fRound[n] >= 1
          /\ fPokes[n] \in {0, 1} /\ (fPokes[n] = 1 => HasPoked(n) = HasHeard(0) + 1)
          /\ HasHeard(n) = HasAcked /\ fAcks[n] = 0
      BY <1>1, <1>2, <2>3 DEF LInv, WordsInv
    <3> QED
      BY <2>1, <2>3, <3>1, <1>1, <1>3, <1>5
  <2> QED
    BY <2>2, <2>3
<1>8. RootInv'
  <2>1. Cardinality(Arrived) \in Nat
    <3>1. Arrived \in SUBSET L!Others
      BY DEF Arrived
    <3> QED
      BY <3>1, TheOthers
  <2>2. CASE n = 0
    <3>1. fPc[0] = "erase" /\ fRound[0] >= 1
      BY <1>1, <2>2 DEF LInv, RootInv
    <3> QED
      BY <2>1, <2>2, <3>1, <1>1, <1>3, <1>6 DEF RootInv
  <2>3. CASE n # 0
    BY <2>3, <1>1, <1>3, <1>6, TheOthers DEF LInv, RootInv
  <2> QED
    BY <2>2, <2>3
<1> QED
  BY <1>4, <1>6, <1>7, <1>8 DEF LInv

LEMMA LInitial ==
  ASSUME L!Init
  PROVE  LInv
<1>1. /\ fVariant \in {"barrier", "sync", "team_sync"}
      /\ fPc = [n \in Node |-> "out"] /\ fRound = [n \in Node |-> 0]
      /\ fSync = [n \in Node |-> 0] /\ fClears = [n \in Node |-> 0]
      /\ fPokes = [n \in L!Others |-> 0] /\ fAcks = [n \in L!Others |-> 0]
  BY TheOthers DEF L!Init, L!SyncValue
<1>2. L!TypeOK
  <2>1. 0 \in 0 .. FlatRounds
    BY FlatAssumption
  <2> QED
    BY <1>1, <2>1, TheOthers DEF L!TypeOK
<1>3. InStep /\ WordsInv
  BY <1>1, TheOthers DEF InStep, WordsInv, HasPoked, HasHeard, HasAcked
<1>4. RootInv
  <2>1. Cardinality(Arrived) \in Nat
    <3>1. Arrived \in SUBSET L!Others
      BY DEF Arrived
    <3> QED
      BY <3>1, TheOthers
  <2> QED
    BY <2>1, <1>1, TheOthers DEF RootInv
<1> QED
  BY <1>2, <1>3, <1>4 DEF LInv

LEMMA LKept ==
  ASSUME LInv, Size # 1, NEW n \in Node, L!Step(n) \/ L!Network(n)
  PROVE  LInv'
  BY LEnter, LPokeRoot, LGetAck, LErased, LReset, LRootGathered, LPokeLands, LAckLands, LClearLands
     DEF L!Step, L!Network

-----------------------------------------------------------------------------
(* All the barriers: what is kept, and what follows from it.  A lone PE is *)
(* left out: its linear barrier does not wait for its clearing put, and    *)
(* its dissemination barrier is over in the step that begins it.           *)

FlatInv ==
  /\ algorithm \in {"tree", "linear", "dissemination"}
  /\ algorithm = "tree" => fPc = [n \in Node |-> "out"] /\ fRound = [n \in Node |-> 0]
  /\ algorithm = "linear" => LInv
  /\ algorithm = "dissemination" => DInv

LEMMA FlatInitial ==
  ASSUME BarriersInit
  PROVE  FlatInv
  BY LInitial, DInitial DEF BarriersInit, NoFlat, FlatInv

LEMMA FlatKept ==
  ASSUME FlatInv, Size # 1, [BarriersNext]_all
  PROVE  FlatInv'
<1>1. CASE UNCHANGED all
  <2>1. UNCHANGED <<algorithm, fVariant, fPc, fRound, fStage, fSync, fPokes, fAcks, fClears>>
    BY <1>1 DEF all, flat
  <2>2. LInv => LInv'
    BY <2>1 DEF LInv, L!TypeOK, InStep, WordsInv, RootInv, Arrived, HasPoked, HasHeard, HasAcked
  <2>3. DInv => DInv'
    BY <2>1 DEF DInv, D!TypeOK, StageInv, Conserved, HeardOf, AllCame, InLoop, HasSent, HasTaken, FlatLeft
  <2> QED
    BY <2>1, <2>2, <2>3 DEF FlatInv
<1>2. ASSUME NEW n \in Node, PEStep(n) \/ Delivery(n) \/ TreeUserPut(n)
      PROVE  FlatInv'
  <2>1. algorithm' = algorithm
    BY <1>2 DEF PEStep, Delivery, TreeUserPut
  <2>2. CASE algorithm = "tree"
    <3>1. UNCHANGED <<fPc, fRound>>
      BY <1>2, <2>2 DEF PEStep, Delivery, TreeUserPut, flat
    <3> QED
      BY <2>1, <2>2, <3>1 DEF FlatInv
  <2>3. CASE algorithm = "linear"
    <3>1. L!Step(n) \/ L!Network(n)
      BY <1>2, <2>3 DEF PEStep, Delivery, TreeUserPut
    <3>2. LInv
      BY <2>3 DEF FlatInv
    <3>3. LInv'
      BY <3>1, <3>2, LKept
    <3> QED
      BY <2>1, <2>3, <3>3 DEF FlatInv
  <2>4. CASE algorithm = "dissemination"
    <3>1. D!Step(n) \/ D!Network(n)
      BY <1>2, <2>4 DEF PEStep, Delivery, TreeUserPut
    <3>2. DInv
      BY <2>4 DEF FlatInv
    <3>3. DInv'
      BY <3>1, <3>2, DKept
    <3> QED
      BY <2>1, <2>4, <3>3 DEF FlatInv
  <2> QED
    BY <2>2, <2>3, <2>4 DEF FlatInv
<1> QED
  BY <1>1, <1>2 DEF BarriersNext

LEMMA FlatInvariance ==
  ASSUME Size # 1
  PROVE  BarriersSpec => []FlatInv
<1>1. BarriersInit => FlatInv
  BY FlatInitial
<1>2. FlatInv /\ [BarriersNext]_all => FlatInv'
  BY FlatKept
<1> QED
  BY <1>1, <1>2, PTL DEF BarriersSpec

\* In the linear and the dissemination barrier what is sent for one call is never
\* taken for another, whatever the number of PEs, calls and work words: a clear in
\* flight erases the pokes of its own call only, and a word holds two pokes at most.
THEOREM WordsServeOneCall == Size # 1 => (BarriersSpec => []CallsKeptApart)
<1> SUFFICES ASSUME Size # 1 PROVE BarriersSpec => []CallsKeptApart
  OBVIOUS
<1>1. BarriersSpec => []FlatInv
  BY FlatInvariance
<1>2. FlatInv => CallsKeptApart
  BY LApart, DApart DEF FlatInv, CallsKeptApart
<1> QED
  BY <1>1, <1>2, PTL

-----------------------------------------------------------------------------
(* The abstract barrier.                                                   *)

LEMMA FlatTypes ==
  ASSUME FlatInv
  PROVE  /\ fPc \in [Node -> {"out", "poke", "wait", "take", "reset", "start", "await", "erase"}]
         /\ fRound \in [Node -> Nat] /\ AllCame
<1>1. CASE algorithm = "tree"
  <2>1. fPc = [n \in Node |-> "out"] /\ fRound = [n \in Node |-> 0]
    BY <1>1 DEF FlatInv
  <2> QED
    BY <2>1 DEF AllCame, FlatLeft
<1>2. CASE algorithm = "linear"
  <2>1. LInv /\ L!TypeOK
    BY <1>2 DEF FlatInv, LInv
  <2>2. fPc \in [Node -> {"out", "start", "await", "erase", "reset"}] /\ fRound \in [Node -> 0 .. FlatRounds]
    BY <2>1, LTypes
  <2>3. AllCame
    BY <2>1, LAllCame
  <2> QED
    BY <2>2, <2>3, FlatAssumption
<1>3. CASE algorithm = "dissemination"
  <2>1. DInv /\ D!TypeOK /\ AllCame
    BY <1>3 DEF FlatInv, DInv
  <2>2. fPc \in [Node -> {"out", "poke", "wait", "take", "reset"}] /\ fRound \in [Node -> 0 .. FlatRounds]
    BY <2>1, DTypes
  <2> QED
    BY <2>1, <2>2, FlatAssumption
<1> QED
  BY <1>1, <1>2, <1>3 DEF FlatInv

LEMMA NobodyBehind == FlatInv => AllCame
  BY FlatTypes

\* What a step of the code may do to a PE: begin a call, go on with it or return,
\* or nothing that its caller sees.
Begins(n) ==
  /\ fPc[n] = "out" /\ fRound[n] < FlatRounds
  /\ fRound' = [fRound EXCEPT ![n] = @ + 1]
  /\ \E x : x # "out" /\ fPc' = [fPc EXCEPT ![n] = x]

GoesOn(n) ==
  /\ fPc[n] # "out" /\ UNCHANGED fRound
  /\ \E x : fPc' = [fPc EXCEPT ![n] = x]

LEMMA LShape ==
  ASSUME NEW n \in Node, L!Step(n) \/ L!Network(n)
  PROVE  Begins(n) \/ GoesOn(n) \/ GoesOn(0) \/ UNCHANGED <<fPc, fRound>>
<1>1. ASSUME L!Enter(n) PROVE Begins(n)
  BY <1>1 DEF L!Enter, Begins
<1>2. ASSUME L!PokeRoot(n) \/ L!GetAck(n) \/ L!Erased(n) \/ L!ResetPsync(n) PROVE GoesOn(n)
  BY <1>2 DEF L!PokeRoot, L!GetAck, L!Erased, L!ResetPsync, GoesOn
<1>3. ASSUME L!RootGathered PROVE GoesOn(0)
  BY <1>3, TheOthers DEF L!RootGathered, GoesOn
<1>4. ASSUME L!Network(n) PROVE UNCHANGED <<fPc, fRound>>
  BY <1>4 DEF L!Network, L!PokeLands, L!AckLands, L!ClearLands
<1> QED
  BY <1>1, <1>2, <1>3, <1>4 DEF L!Step

LEMMA DShape ==
  ASSUME Size # 1, NEW n \in Node, D!Step(n) \/ D!Network(n)
  PROVE  Begins(n) \/ GoesOn(n) \/ UNCHANGED <<fPc, fRound>>
<1>1. ASSUME D!Enter(n) PROVE Begins(n)
  <2>1. D!AtStage(0) = "poke"
    BY StagesAre DEF D!AtStage
  <2> QED
    BY <1>1, <2>1 DEF D!Enter, Begins
<1>2. ASSUME D!Poke(n) \/ D!Poked(n) \/ D!TakePoke(n) \/ D!ResetPsync(n) PROVE GoesOn(n)
  BY <1>2 DEF D!Poke, D!Poked, D!TakePoke, D!ResetPsync, GoesOn
<1>3. ASSUME D!Network(n) PROVE UNCHANGED <<fPc, fRound>>
  BY <1>3 DEF D!Network, D!PokeLands
<1> QED
  BY <1>1, <1>2, <1>3 DEF D!Step

LEMMA FlatBegins ==
  ASSUME FlatInv, NEW n \in Node, Begins(n)
  PROVE  FlatAbstract!BEnter(n)
<1>1. fRound \in [Node -> Nat] /\ fPc \in [Node -> {"out", "poke", "wait", "take", "reset", "start", "await", "erase"}]
  BY FlatTypes
<1>2. PICK x : x # "out" /\ fPc' = [fPc EXCEPT ![n] = x]
  BY DEF Begins
<1>3. ASSUME NEW m \in Node
      PROVE  (IF fPc'[m] = "out" THEN fRound'[m] ELSE fRound'[m] - 1)
               = (IF fPc[m] = "out" THEN fRound[m] ELSE fRound[m] - 1)
  BY <1>1, <1>2 DEF Begins
<1>4. [m \in Node |-> IF fPc'[m] = "out" THEN fRound'[m] ELSE fRound'[m] - 1]
        = [m \in Node |-> IF fPc[m] = "out" THEN fRound[m] ELSE fRound[m] - 1]
  BY <1>3
<1> QED
  BY <1>1, <1>4 DEF Begins, FlatAbstract!BEnter

LEMMA FlatGoesOn ==
  ASSUME FlatInv, AllCame', NEW n \in Node, GoesOn(n)
  PROVE  FlatAbstract!BLeave(n) \/ UNCHANGED FlatAbstract!bvars
<1>1. fRound \in [Node -> Nat] /\ fPc \in [Node -> {"out", "poke", "wait", "take", "reset", "start", "await", "erase"}]
  BY FlatTypes
<1>2. PICK x : fPc' = [fPc EXCEPT ![n] = x]
  BY DEF GoesOn
<1>3. PICK L0 : L0 = [m \in Node |-> IF fPc[m] = "out" THEN fRound[m] ELSE fRound[m] - 1]
  OBVIOUS
<1>4. PICK L1 : L1 = [m \in Node |-> IF fPc'[m] = "out" THEN fRound'[m] ELSE fRound'[m] - 1]
  OBVIOUS
<1>5. fRound' = fRound /\ fPc[n] # "out" /\ \A m \in Node : m # n => fPc'[m] = fPc[m]
  BY <1>1, <1>2 DEF GoesOn
<1>6. L0[n] = fRound[n] - 1 /\ \A m \in Node : m # n => L1[m] = L0[m]
  BY <1>3, <1>4, <1>5
<1>7. CASE x = "out"
  <2>1. fPc'[n] = "out" /\ L1[n] = fRound[n]
    BY <1>1, <1>2, <1>4, <1>5, <1>7
  <2>2. L1 = [L0 EXCEPT ![n] = @ + 1]
    <3>1. L0[n] + 1 = fRound[n]
      BY <1>1, <1>6
    <3> QED
      BY <2>1, <3>1, <1>3, <1>4, <1>6
  <2>3. L0[n] < fRound[n]
    BY <1>1, <1>6
  <2>4. \A m \in Node : fRound[n] <= fRound[m]
    BY <2>1, <1>5 DEF AllCame, FlatLeft
  <2> QED
    BY <2>2, <2>3, <2>4, <1>3, <1>4, <1>5 DEF FlatAbstract!BLeave
<1>8. CASE x # "out"
  <2>1. L1[n] = L0[n]
    BY <1>1, <1>2, <1>4, <1>5, <1>6, <1>8
  <2>2. L1 = L0
    BY <2>1, <1>3, <1>4, <1>6
  <2> QED
    BY <2>2, <1>3, <1>4, <1>5 DEF FlatAbstract!bvars
<1> QED
  BY <1>7, <1>8

LEMMA FlatSteps ==
  ASSUME FlatInv, FlatInv', Size # 1, [BarriersNext]_all
  PROVE  [FlatAbstract!BNext]_(FlatAbstract!bvars)
<1>1. AllCame' /\ 0 \in Node
  BY NobodyBehind, TheOthers, PTL
<1>2. ASSUME UNCHANGED <<fPc, fRound>> PROVE UNCHANGED FlatAbstract!bvars
  BY <1>2 DEF FlatAbstract!bvars
<1>3. CASE UNCHANGED all
  BY <1>2, <1>3 DEF all, flat
<1>4. ASSUME NEW n \in Node, PEStep(n) \/ Delivery(n) \/ TreeUserPut(n)
      PROVE  [FlatAbstract!BNext]_(FlatAbstract!bvars)
  <2>1. Begins(n) \/ GoesOn(n) \/ GoesOn(0) \/ UNCHANGED <<fPc, fRound>>
    <3>1. CASE algorithm = "tree"
      BY <1>4, <3>1 DEF PEStep, Delivery, TreeUserPut, flat
    <3>2. CASE algorithm = "linear"
      BY <1>4, <3>2, LShape DEF PEStep, Delivery, TreeUserPut
    <3>3. CASE algorithm = "dissemination"
      BY <1>4, <3>3, DShape DEF PEStep, Delivery, TreeUserPut
    <3> QED
      BY <3>1, <3>2, <3>3 DEF FlatInv
  <2> QED
    BY <2>1, <1>1, <1>2, FlatBegins, FlatGoesOn DEF FlatAbstract!BNext
<1> QED
  BY <1>3, <1>4 DEF BarriersNext

\* The linear and the dissemination barrier implement the abstract barrier: a PE
\* returns from a call only when every PE has made that call.
THEOREM OthersAreBarriers == Size # 1 => (BarriersSpec => OthersImplementBarrier)
<1> SUFFICES ASSUME Size # 1 PROVE BarriersSpec => OthersImplementBarrier
  OBVIOUS
<1>1. BarriersSpec => []FlatInv
  BY FlatInvariance
<1>2. BarriersInit => FlatAbstract!BInit
  <2> SUFFICES ASSUME BarriersInit PROVE FlatAbstract!BInit
    OBVIOUS
  <2>1. fPc = [n \in Node |-> "out"] /\ fRound = [n \in Node |-> 0]
    BY TheOthers, FlatAssumption DEF BarriersInit, NoFlat, L!Init, D!Init, D!PEs
  <2> QED
    BY <2>1 DEF FlatAbstract!BInit
<1>3. FlatInv /\ FlatInv' /\ [BarriersNext]_all => [FlatAbstract!BNext]_(FlatAbstract!bvars)
  BY FlatSteps
<1> QED
  BY <1>1, <1>2, <1>3, PTL DEF BarriersSpec, OthersImplementBarrier, FlatAbstract!BSpec
=============================================================================
