------------------------- MODULE BroadcastPrograms -------------------------
(***************************************************************************)
(* The broadcasts of shcoll/src/broadcast.c: what PE number me of n runs.  *)
(* PEs are indices in the active set; the words of the work array have the *)
(* numbers they have in the code.                                          *)
(***************************************************************************)
EXTENDS OneSided, Trees
LOCAL INSTANCE SequencesExt

BroadcastLinear(root, me, from, len) ==
  BarrierThen(<<>>)
    \o (IF me = root THEN <<>> ELSE <<S(Now, <<Get(root, Dst(0), from, len)>>)>>)
    \o BarrierThen(<<>>)

\* A parent sends to the children c: the data to all of them and then a poke
\* to each, or data and poke to one after the other, or data with a signal.
SendDown(how, c, source, len, w) ==
  CASE how = "all" ->
         [i \in DOMAIN c |-> PutNbi(c[i], Dst(0), source, len)]
           \o <<Fence>> \o [i \in DOMAIN c |-> Inc(c[i], w)]
    [] how = "each" -> FlattenSeq([i \in DOMAIN c |->
         <<PutNbi(c[i], Dst(0), source, len), Fence, Inc(c[i], w)>>])
    [] how = "signal" -> FlattenSeq([i \in DOMAIN c |->
         PutSignalNb(c[i], Dst(0), source, len, w, SYNC + 1)])

\* Data goes down the tree, acks go up one level. w is the work word.
BroadcastTree(how, children, parent, me, from, len, w) ==
  LET isRoot == parent = NoParent
      down == SendDown(how, SetToSeq(children), IF isRoot THEN from ELSE Dst(0), len, w)
      acks == Cardinality(children) + (IF isRoot THEN 0 ELSE 1)
      begin == IF isRoot THEN S(Now, down)
                         ELSE S(Until(w, "NE", SYNC), <<Inc(parent, w)>> \o down)
  IN  IF children = {}
        THEN <<[begin EXCEPT !.do = @ \o <<Clear(me, w)>>]>>
        ELSE <<begin, S(Until(w, "EQ", SYNC + acks), <<Clear(me, w)>>)>>

BroadcastCompleteTree(n, root, degree, me, len) ==
  BroadcastTree("all", TreeChildren("complete", n, root, degree, me),
                TreeParent("complete", n, root, degree, me), me, Src(0), len, 0)

BroadcastBinomialTree(n, root, me, from, len, w) ==
  BroadcastTree("each", TreeChildren("binomial", n, root, 2, me),
                TreeParent("binomial", n, root, 2, me), me, from, len, w)

\* The k-nomial trees send one group of children after the other.
BroadcastKnomialTree(n, root, radix, me, len) ==
  BroadcastTree("each", TreeChildren("knomial", n, root, radix, me),
                TreeParent("knomial", n, root, radix, me), me, Src(0), len, 0)

BroadcastKnomialTreeSignal(n, root, radix, me, len) ==
  BroadcastTree("signal", TreeChildren("knomial", n, root, radix, me),
                TreeParent("knomial", n, root, radix, me), me, Src(0), len, 0)

\* The part [left, right) of the tree PE me (relative to the root) is in after
\* k halvings of the scatter.
ScatterPart(n, me) ==
  LET part[k \in 0..n] ==
        IF k = 0 THEN [left |-> 0, right |-> n]
        ELSE LET l == part[k-1].left
                 r == part[k-1].right
                 mid == l + (r - l + 1) \div 2
             IN  IF me < mid THEN [left |-> l, right |-> mid]
                             ELSE [left |-> mid, right |-> r]
  IN  part

\* Scatter down a binomial tree with word 0, then a ring with word 1 that
\* leaves out the blocks the next PE already has.
BroadcastScatterCollect(n, root, node, len) ==
  LET me == (node - root + n) % n
      next == (me + 1) % n
      At(rel) == (root + rel) % n
      from(i) == IF me = 0 THEN Src(i) ELSE Dst(i)
      edge(b) == (b * len + n - 1) \div n
      send(to, b, e, w) ==
        <<PutNbi(At(to), Dst(edge(b)), from(edge(b)), edge(e) - edge(b)),
          Fence, Inc(At(to), w)>>
      part == ScatterPart(n, me)
      \* the halvings, and how far apart the two halves are
      stages == {k \in 0..n : part[k].right - part[k].left > 1}
      dist(k) == (part[k].right - part[k].left + 1) \div 2
      mid(k) == part[k].left + dist(k)
      scatter(k) ==
        (IF me = part[k].left
           THEN <<S(Now, send(me + dist(k), mid(k), part[k].right, 0))>> ELSE <<>>)
        \o (IF me = mid(k) THEN <<S(Until(0, "NE", SYNC), <<>>)>> ELSE <<>>)
      \* blocks a PE has after the scatter, as me computes it
      blocks(rel) == IF rel = 0 THEN n
                     ELSE LET k == CHOOSE k \in stages : rel = mid(k)
                          IN  part[k].right - mid(k)
      sends == n - blocks(next)
      waits == n - blocks(me)
      ring(j) ==
        (IF j <= sends
           THEN LET b == (me - (j - 1) + n) % n
                IN  <<S(Now, send(next, b, b + 1, 1))>> ELSE <<>>)
        \o (IF j <= waits THEN <<S(Until(1, "GT", SYNC + j - 1), <<>>)>> ELSE <<>>)
  IN  FlattenSeq([k \in 1..Cardinality(stages) |-> scatter(k - 1)])
        \o FlattenSeq([j \in 1..n |-> ring(j)])
        \o <<S(Now, <<Clear(node, 0), Clear(node, 1)>>)>>
=============================================================================
