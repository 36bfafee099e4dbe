-------------------------- MODULE MCSymmetricHeap --------------------------
(***************************************************************************)
(* Programs on a few PEs with a small heap.                                *)
(***************************************************************************)
EXTENDS SymmetricHeap

Malloc(len, align) == [kind |-> "malloc", len |-> len, align |-> align]
Resizing(len) == [kind |-> "realloc", of |-> World, len |-> len]
Strided(start, stride, size) ==
  [kind |-> "strided", of |-> World, start |-> start, stride |-> stride, size |-> size]
Grid(xrange) == [kind |-> "grid", of |-> World, xrange |-> xrange]

MCMenu ==
  {Malloc(0, 1), Malloc(1, 1), Malloc(2, 2), Resizing(0), Resizing(2),
   [kind |-> "free", of |-> World], [kind |-> "destroy", of |-> World],
   Strided(0, 1, 2), Strided(0, 2, 2), Strided(2, 1, 2), Grid(2)}

\* PEs 0 and 1 on one machine
MCNodeOf == [p \in PE |-> p \div 2]

ASSUME MenuIsRegular == RegularTeams
=============================================================================
