--------------------------- MODULE MCTreeBarrier ---------------------------
(***************************************************************************)
(* TreeBarrier over the trees that trees.c computes.  Kind and Degree      *)
(* select the algorithm; the tree constants of TreeBarrier are computed.   *)
(***************************************************************************)
EXTENDS TreeBarrier, Trees

CONSTANTS Size, Kind, Degree

MCNode == 0..(Size - 1)
MCChildren == [n \in MCNode |-> TreeChildren(Kind, Size, 0, Degree, n)]
MCParent == [n \in MCNode \ {0} |-> TreeParent(Kind, Size, 0, Degree, n)]

MCBelow ==
  LET below[n \in MCNode] ==
        {n} \cup UNION {below[c] : c \in MCChildren[n]}
  IN  [n \in MCNode |-> below[n]]

\* The barrier, with its quiet; sync; team sync, with its reset, once and again;
\* each of them once over a transport whose puts to the own PE may be late.
MCBarrier == [quiet |-> TRUE, reset |-> FALSE, prompt |-> TRUE, calls |-> MaxRound]
MCSync == [MCBarrier EXCEPT !.quiet = FALSE]
MCTeamSync == [MCSync EXCEPT !.reset = TRUE]

MCUses ==
  {MCBarrier, MCSync} \cup
  {[u EXCEPT !.calls = 1, !.prompt = FALSE] :
     u \in {MCBarrier, MCSync, MCTeamSync}}

MCTeamSyncs == {MCTeamSync}
=============================================================================
