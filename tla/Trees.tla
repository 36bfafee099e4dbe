------------------------------- MODULE Trees -------------------------------
(***************************************************************************)
(* The communication trees of shcoll/src/util/trees.c, as functions of the *)
(* tree size, the root, the degree or radix, and the node.  The C code     *)
(* fills an array of children; here they are a set, since every user pokes *)
(* or counts all of them.  The _root variants relabel node numbers         *)
(* cyclically so that "root" plays the part of node 0.                     *)
(***************************************************************************)
EXTENDS Integers, FiniteSets

NoParent == -1

\* Node number relative to the root, and back.
Relative(size, root, node) ==
  IF root <= node THEN node - root ELSE node - root + size

Absolute(size, root, rel) ==
  IF rel + root < size THEN rel + root ELSE rel + root - size

-----------------------------------------------------------------------------
(* Binomial tree: the parent of a node clears its lowest set bit; its      *)
(* children set one bit below it.                                          *)

\* The single-bit masks of an int, from 1 to 1 << (sizeof(int) * 8 - 2).
Masks == {2^k : k \in 0..30}

LowestBit(node) == CHOOSE m \in Masks : node % (2*m) = m

BinomialParent(node) ==
  IF node = 0 THEN NoParent ELSE node - LowestBit(node)

BinomialChildren(size, node) ==
  {node + m : m \in {m \in Masks : /\ node # 0 => m < LowestBit(node)
                                   /\ m < size - node}}

-----------------------------------------------------------------------------
(* k-nomial tree: an interval is owned by its left end, which splits it    *)
(* into at most k parts and keeps the first.                               *)

PartSize(left, right, k) == (right - left + k - 1) \div k

\* The interval a node ends up owning, and the owner it split from.
KnomialDescent(size, k, node) ==
  LET descend[l \in 0..size, r \in 0..size, p \in -1..size] ==
        IF node = l THEN [parent |-> p, left |-> l, right |-> r]
        ELSE LET dist == PartSize(l, r, k)
                 group == (node - l) \div dist
                 newRight == l + (group + 1) * dist
             IN  descend[l + group * dist,
                         IF newRight > r THEN r ELSE newRight, l]
  IN  descend[0, size, NoParent]

KnomialParent(size, k, node) == KnomialDescent(size, k, node).parent

\* The owner of [left, right) hands out every part but the first, again and
\* again, until the interval it keeps is its own node.
KnomialChildren(size, k, node) ==
  LET own == KnomialDescent(size, k, node)
      handOut[r \in 0..size] ==
        LET dist == PartSize(own.left, r, k)
            parts == (r - own.left - 1) \div dist
        IN  IF parts = 0 THEN {}
            ELSE {own.left + dist * i : i \in 1..parts}
                   \cup handOut[own.left + dist]
  IN  handOut[own.right]

-----------------------------------------------------------------------------
(* Complete tree: node n has the children n*degree+1 .. n*degree+degree.   *)

CompleteParent(degree, node) ==
  IF node = 0 THEN NoParent ELSE (node - 1) \div degree

CompleteChildren(size, degree, node) ==
  LET begin == node * degree + 1
      end == IF begin + degree > size THEN size ELSE begin + degree
  IN  IF begin >= size THEN {} ELSE begin .. (end - 1)

-----------------------------------------------------------------------------
(* The trees of any root, by kind.                                         *)

RelativeParent(kind, size, k, rel) ==
  CASE kind = "binomial" -> BinomialParent(rel)
    [] kind = "knomial"  -> KnomialParent(size, k, rel)
    [] kind = "complete" -> CompleteParent(k, rel)

RelativeChildren(kind, size, k, rel) ==
  CASE kind = "binomial" -> BinomialChildren(size, rel)
    [] kind = "knomial"  -> KnomialChildren(size, k, rel)
    [] kind = "complete" -> CompleteChildren(size, k, rel)

TreeParent_Shifted(kind, size, root, k, node) ==
  LET parent == RelativeParent(kind, size, k, Relative(size, root, node))
  IN  IF parent = NoParent THEN NoParent ELSE (parent + root) % (size + 1)

TreeParent(kind, size, root, k, node) ==
  LET parent == RelativeParent(kind, size, k, Relative(size, root, node))
  IN  IF parent = NoParent THEN NoParent ELSE Absolute(size, root, parent)

TreeChildren(kind, size, root, k, node) ==
  {Absolute(size, root, c) :
     c \in RelativeChildren(kind, size, k, Relative(size, root, node))}

\* get_node_info_complete_root reports its children as the bounds of a cyclic
\* interval; its users step from one to the other, wrapping at the tree size.
CompleteInterval(size, root, degree, node) ==
  LET rel == Relative(size, root, node)
      begin == rel * degree + 1
      end == IF begin + degree > size THEN size ELSE begin + degree
      wrap(x) == IF x >= size THEN x - size ELSE x
  IN  IF begin >= size THEN [begin |-> -1, end |-> -1]
      ELSE [begin |-> wrap(begin + root), end |-> wrap(end + root)]
=============================================================================
