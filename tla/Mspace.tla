------------------------------- MODULE Mspace -------------------------------
(***************************************************************************)
(* The allocator under the symmetric heap: the mspace calls of             *)
(* ptmalloc/ptmalloc.c, as api/Makefile.am builds them.  ONLY_MSPACES, no  *)
(* HAVE_MMAP and no HAVE_MORECORE: a space is one segment that neither     *)
(* grows nor shrinks.  FOOTERS: every chunk in use is followed by a word   *)
(* that names its space.                                                   *)
(*                                                                         *)
(* Addresses and chunk sizes are counted in granules of MALLOC_ALIGNMENT,  *)
(* eight bytes, from the base of the segment; requests are in bytes.  A    *)
(* chunk is named by its address, and so is the memory that a call returns *)
(* (chunk2mem adds two granules).  0 is the null pointer: the first chunk  *)
(* of a segment holds the malloc_state.                                    *)
(*                                                                         *)
(* A word of memory has a meaning where a chunk begins only, so "chunk"    *)
(* has the chunks as its domain; what they hold beside is user data.       *)
(***************************************************************************)
EXTENDS Integers, Sequences, TLC
LOCAL INSTANCE FiniteSetsExt
LOCAL INSTANCE SequencesExt

CONSTANTS
  TreeShift,   \* MIN_LARGE_SIZE is 2^TreeShift granules (TREEBIN_SHIFT - 3)
  TreeBins,    \* NTREEBINS
  WordBits,    \* sizes are below 2^WordBits granules (SIZE_T_BITSIZE - 3)
  StateSize,   \* the chunk of the malloc_state
  TopFoot      \* TOP_FOOT_SIZE

ASSUME MspaceAssumption ==
  /\ TreeShift \in Nat /\ TreeShift >= 3    \* a malloc_tree_chunk has eight words
  /\ TreeBins \in Nat \ {0} /\ TreeBins % 2 = 0
  /\ WordBits \in Nat /\ WordBits >= TreeShift + TreeBins \div 2
  /\ StateSize \in Nat \ {0} /\ TopFoot \in Nat \ {0}

Granule == 8
Nil == 0
InBin == -1       \* the parent of a root: the address of its bin
Owner == -1       \* the foot of a chunk in use: mstate ^ mparams.magic

MinChunk == 4
Overhead == 2
MinLarge == 2^TreeShift
MaxRequest == Granule * (2^WordBits - 4 * MinChunk)
MaxSize == Granule * 2^WordBits - 1

Request2Size(bytes) ==
  IF bytes < Granule * (MinChunk - Overhead) - 1
  THEN MinChunk
  ELSE (bytes + Granule * Overhead + Granule - 1) \div Granule

IsSmall(size) == size < MinLarge

-----------------------------------------------------------------------------
(* Heads and feet.                                                         *)

Garbage == [prev_foot |-> 0, size |-> 0, pinuse |-> FALSE, cinuse |-> FALSE]
At(m, p) == IF p \in DOMAIN m.chunk THEN m.chunk[p] ELSE Garbage
ChunkSize(m, p) == m.chunk[p].size

SetHead(m, p, size, pinuse, cinuse) ==
  LET kept == (DOMAIN m.chunk \ (p..(p + size - 1))) \cup {p}
      head == [prev_foot |-> At(m, p).prev_foot, size |-> size,
               pinuse |-> pinuse, cinuse |-> cinuse]
  IN  [m EXCEPT !.chunk = [q \in kept |-> IF q = p THEN head ELSE m.chunk[q]]]

SetPinuse(m, p, pinuse) ==
  [m EXCEPT !.chunk = (p :> [At(m, p) EXCEPT !.pinuse = pinuse]) @@ @]

SetFoot(m, p, size, foot) ==
  [m EXCEPT !.chunk = ((p + size) :> [At(m, p + size) EXCEPT !.prev_foot = foot]) @@ @]

SetInuse(m, p, size) ==
  SetFoot(SetPinuse(SetHead(m, p, size, At(m, p).pinuse, TRUE), p + size, TRUE), p, size, Owner)

SetInuseAndPinuse(m, p, size) ==
  SetFoot(SetPinuse(SetHead(m, p, size, TRUE, TRUE), p + size, TRUE), p, size, Owner)

SetSizeAndPinuseOfInuse(m, p, size) ==
  SetFoot(SetHead(m, p, size, TRUE, TRUE), p, size, Owner)

SetSizeAndPinuseOfFree(m, p, size) ==
  SetFoot(SetHead(m, p, size, TRUE, FALSE), p, size, size)

SetFreeWithPinuse_KeepsPinuse(m, p, size, next) == SetSizeAndPinuseOfFree(m, p, size)

SetFreeWithPinuse(m, p, size, next) ==
  SetSizeAndPinuseOfFree(SetPinuse(m, next, FALSE), p, size)

-----------------------------------------------------------------------------
(* Small bins: a list of free chunks per size, the last one in first out.  *)
(* The list of an unmarked bin is not read, so its stale entry is dropped. *)

InsertSmall(m, p, size) ==
  [m EXCEPT !.small[size] = <<p>> \o @, !.smallmap = @ \cup {size}]

UnlinkSmall(m, p, size) ==
  IF m.small[size] = <<p>>
  THEN [m EXCEPT !.small[size] = <<>>, !.smallmap = @ \ {size}]
  ELSE [m EXCEPT !.small[size] = SelectSeq(@, LAMBDA q : q # p)]

ReplaceDv(m, p, size) ==
  [(IF m.dvsize # 0 THEN InsertSmall(m, m.dv, m.dvsize) ELSE m)
     EXCEPT !.dv = p, !.dvsize = size]

-----------------------------------------------------------------------------
(* Tree bins: a trie of sizes per bin.  A node of the trie has a ring of   *)
(* chunks of its own size, here without the node, in the order of "fd".    *)

Log2(n) == CHOOSE k \in 0..WordBits : 2^k <= n /\ n < 2^(k + 1)

TreeIndex(size) ==
  LET x == size \div MinLarge
      k == Log2(x)
  IN  IF x = 0 THEN 0
      ELSE IF x >= 2^(TreeBins \div 2) THEN TreeBins - 1
      ELSE 2 * k + ((size \div 2^(k + TreeShift - 1)) % 2)

TopBit(i) == IF i = TreeBins - 1 THEN WordBits - 1 ELSE (i \div 2) + TreeShift - 2

\* the child to take at this depth: the bit that leftshift_for_tree_index and
\* the shifts since have brought to the top
Side(size, i, depth) ==
  IF depth > TopBit(i) THEN 0 ELSE (size \div 2^(TopBit(i) - depth)) % 2

NoKids == [side \in 0..1 |-> Nil]

Link(m, p, i, parent) ==
  [m EXCEPT !.node = (p :> [kid |-> NoKids, parent |-> parent, index |-> i, ring |-> <<>>]) @@ @]

RECURSIVE Hang(_, _, _, _, _, _)
Hang(m, p, size, i, t, depth) ==
  LET side == Side(size, i, depth)
      kid == m.node[t].kid[side]
  IN  IF ChunkSize(m, t) = size
      THEN [m EXCEPT !.node[t].ring = <<p>> \o @]
      ELSE IF kid # Nil
      THEN Hang(m, p, size, i, kid, depth + 1)
      ELSE Link([m EXCEPT !.node[t].kid[side] = p], p, i, t)

InsertLarge(m, p, size) ==
  LET i == TreeIndex(size)
  IN  IF i \in m.treemap
      THEN Hang(m, p, size, i, m.root[i], 0)
      ELSE Link([m EXCEPT !.treemap = @ \cup {i}, !.root[i] = p], p, i, InBin)

RECURSIVE RightmostLeaf(_, _)
RightmostLeaf(m, t) ==
  LET kid == m.node[t].kid
  IN  IF kid[1] # Nil THEN RightmostLeaf(m, kid[1])
      ELSE IF kid[0] # Nil THEN RightmostLeaf(m, kid[0]) ELSE t

\* in the place of child "old" of t, "new"
Reparent(m, t, old, new) ==
  [m EXCEPT !.node[t].kid = [side \in 0..1 |-> IF @[side] = old THEN new ELSE @[side]]]

\* relink the parent and the children of node p to r
Replace(m, p, r, ring) ==
  LET n == m.node[p]
      up == IF n.parent = InBin
            THEN [m EXCEPT !.root[n.index] = r,
                           !.treemap = IF r = Nil THEN @ \ {n.index} ELSE @]
            ELSE Reparent(m, n.parent, p, r)
      kids == {n.kid[0], n.kid[1]} \ {Nil}
  IN  [up EXCEPT !.node =
         [q \in (DOMAIN m.node \cup {r}) \ {p, Nil} |->
            IF q = r THEN [n EXCEPT !.ring = ring]
            ELSE IF q \in kids THEN [up.node[q] EXCEPT !.parent = r]
            ELSE up.node[q]]]

\* node p leaves its tree: the last of its ring takes its place, or else the
\* rightmost leaf below it
UnlinkNode(m, p, ring, leaf) ==
  IF ring # <<>> THEN Replace(m, p, Last(ring), Front(ring))
  ELSE IF leaf = p THEN Replace(m, p, Nil, <<>>)
  ELSE Replace(Reparent(m, m.node[leaf].parent, leaf, Nil), p, leaf, m.node[leaf].ring)

UnlinkLarge(m, p) ==
  IF p \in DOMAIN m.node
  THEN UnlinkNode(m, p, m.node[p].ring, RightmostLeaf(m, p))
  ELSE LET t == CHOOSE t \in DOMAIN m.node : p \in ToSet(m.node[t].ring)
       IN  [m EXCEPT !.node[t].ring = SelectSeq(@, LAMBDA q : q # p)]

InsertChunk(m, p, size) ==
  IF IsSmall(size) THEN InsertSmall(m, p, size) ELSE InsertLarge(m, p, size)

UnlinkChunk(m, p, size) ==
  IF IsSmall(size) THEN UnlinkSmall(m, p, size) ELSE UnlinkLarge(m, p)

-----------------------------------------------------------------------------
(* A call returns the space it leaves and the memory it has found.         *)

Answer(m, p) == [space |-> m, mem |-> p]

\* whether t is a tighter fit for nb than v; v is Nil while there is none
Better(m, nb, t, v) ==
  /\ ChunkSize(m, t) >= nb
  /\ v = Nil \/ ChunkSize(m, t) < ChunkSize(m, v)

RECURSIVE SmallestLeftmost(_, _, _, _)
SmallestLeftmost_LeftOnly(m, nb, t, v) ==
  IF t = Nil THEN v
  ELSE SmallestLeftmost(m, nb, m.node[t].kid[0], IF Better(m, nb, t, v) THEN t ELSE v)

SmallestLeftmost(m, nb, t, v) ==
  IF t = Nil THEN v
  ELSE LET kid == m.node[t].kid
       IN  SmallestLeftmost(m, nb, IF kid[0] # Nil THEN kid[0] ELSE kid[1],
                            IF Better(m, nb, t, v) THEN t ELSE v)

\* down the path of nb: the best node on it, and the deepest right subtree
\* that it leaves aside
RECURSIVE Descend(_, _, _, _, _, _, _)
Descend(m, nb, i, t, depth, v, rst) ==
  LET best == IF Better(m, nb, t, v) THEN t ELSE v
      right == m.node[t].kid[1]
      kid == m.node[t].kid[Side(nb, i, depth)]
      aside == IF right # Nil /\ right # kid THEN right ELSE rst
  IN  IF best = t /\ ChunkSize(m, t) = nb THEN [v |-> t, t |-> t]
      ELSE IF kid = Nil THEN [v |-> best, t |-> aside]
      ELSE Descend(m, nb, i, kid, depth + 1, best, aside)

\* cut the request from v, unless the designated victim fits better
TakeLarge(m, nb, v) ==
  LET rsize == ChunkSize(m, v) - nb
  IN  IF v = Nil \/ (nb <= m.dvsize /\ m.dvsize <= ChunkSize(m, v)) THEN Answer(m, Nil)
      ELSE IF rsize < MinChunk
      THEN Answer(SetInuseAndPinuse(UnlinkLarge(m, v), v, rsize + nb), v)
      ELSE Answer(InsertChunk(SetSizeAndPinuseOfFree(
                                SetSizeAndPinuseOfInuse(UnlinkLarge(m, v), v, nb),
                                v + nb, rsize), v + nb, rsize), v)

\* the subtree to search after the path: of the bin, or of the next one
Aside(m, i, path) ==
  LET left == {j \in m.treemap : j > i}
  IN  IF path.v = Nil /\ path.t = Nil /\ left # {} THEN m.root[Min(left)] ELSE path.t

TmallocLarge(m, nb) ==
  LET i == TreeIndex(nb)
      path == IF m.root[i] = Nil THEN [v |-> Nil, t |-> Nil]
              ELSE Descend(m, nb, i, m.root[i], 0, Nil, Nil)
  IN  TakeLarge(m, nb, SmallestLeftmost(m, nb, Aside(m, i, path), path.v))

\* p leaves its bin for a small request; what is left becomes the dv
SplitForSmall(out, p, size, nb) ==
  IF size - nb < MinChunk
  THEN Answer(SetInuseAndPinuse(out, p, size), p)
  ELSE Answer(ReplaceDv(SetSizeAndPinuseOfFree(SetSizeAndPinuseOfInuse(out, p, nb),
                                               p + nb, size - nb), p + nb, size - nb), p)

TmallocSmall(m, nb) ==
  LET v == SmallestLeftmost(m, nb, m.root[Min(m.treemap)], Nil)
  IN  SplitForSmall(UnlinkLarge(m, v), v, ChunkSize(m, v), nb)

\* no memory from the system: MALLOC_FAILURE_ACTION
SysAlloc(m, nb) == Answer(m, Nil)

FromDvOrTop(m, nb) ==
  IF nb <= m.dvsize
  THEN LET rsize == m.dvsize - nb
       IN  IF rsize >= MinChunk
           THEN Answer(SetSizeAndPinuseOfInuse(
                         SetSizeAndPinuseOfFree([m EXCEPT !.dv = @ + nb, !.dvsize = rsize],
                                                m.dv + nb, rsize), m.dv, nb), m.dv)
           ELSE Answer(SetInuseAndPinuse([m EXCEPT !.dv = Nil, !.dvsize = 0], m.dv, m.dvsize), m.dv)
  ELSE IF nb < m.topsize
  THEN LET cut == SetHead([m EXCEPT !.top = @ + nb, !.topsize = @ - nb],
                          m.top + nb, m.topsize - nb, TRUE, FALSE)
       IN  Answer(SetSizeAndPinuseOfInuse(cut, m.top, nb), m.top)
  ELSE SysAlloc(m, nb)

OrDvOrTop(answer, m, nb) == IF answer.mem # Nil THEN answer ELSE FromDvOrTop(m, nb)

Malloc(m, bytes) ==
  LET nb == Request2Size(bytes)
      exact == {size \in {nb, nb + 1} : size \in m.smallmap}
      larger == {size \in m.smallmap : size > nb}
      First(size) == Head(m.small[size])
  IN  IF bytes >= MaxRequest THEN SysAlloc(m, nb)
      ELSE IF IsSmall(nb) /\ exact # {}
      THEN LET size == Min(exact)
               p == First(size)
           IN  Answer(SetInuseAndPinuse(UnlinkSmall(m, p, size), p, size), p)
      ELSE IF IsSmall(nb) /\ nb > m.dvsize /\ larger # {}
      THEN LET size == Min(larger)
               p == First(size)
           IN  SplitForSmall(UnlinkSmall(m, p, size), p, size, nb)
      ELSE IF IsSmall(nb) /\ nb > m.dvsize /\ m.treemap # {} THEN TmallocSmall(m, nb)
      ELSE IF ~IsSmall(nb) /\ m.treemap # {} THEN OrDvOrTop(TmallocLarge(m, nb), m, nb)
      ELSE FromDvOrTop(m, nb)

CallocRequest_Unchecked(n, size) == (n * size) % (MaxSize + 1)

\* what malloc is asked for; the product wraps
CallocRequest(n, size) ==
  LET req == (n * size) % (MaxSize + 1)
      quarter == 2^((WordBits + 3) \div 4)
  IN  IF n = 0 THEN 0
      ELSE IF (n >= quarter \/ size >= quarter) /\ req \div n # size THEN MaxSize ELSE req

Calloc(m, n, size) == Malloc(m, CallocRequest(n, size))

-----------------------------------------------------------------------------
(* Release.  p is free, up to next, and so far in no bin.                  *)

FreeForward(m, p, psize, next) ==
  IF m.chunk[next].cinuse
  THEN InsertChunk(SetFreeWithPinuse(m, p, psize, next), p, psize)
  ELSE IF next = m.top
  THEN LET tsize == m.topsize + psize
           last == SetHead([m EXCEPT !.top = p, !.topsize = tsize], p, tsize, TRUE, FALSE)
       IN  IF p = m.dv THEN [last EXCEPT !.dv = Nil, !.dvsize = 0] ELSE last
  ELSE IF next = m.dv
  THEN LET dsize == m.dvsize + psize
       IN  SetSizeAndPinuseOfFree([m EXCEPT !.dv = p, !.dvsize = dsize], p, dsize)
  ELSE LET nsize == ChunkSize(m, next)
           size == psize + nsize
           one == SetSizeAndPinuseOfFree(UnlinkChunk(m, next, nsize), p, size)
       IN  IF p = m.dv THEN [one EXCEPT !.dvsize = size] ELSE InsertChunk(one, p, size)

Free(m, mem) ==
  LET next == mem + ChunkSize(m, mem)
      prevsize == m.chunk[mem].prev_foot
      prev == mem - prevsize
  IN  IF m.chunk[mem].pinuse THEN FreeForward(m, mem, next - mem, next)
      ELSE IF prev # m.dv
      THEN FreeForward(UnlinkChunk(m, prev, prevsize), prev, next - prev, next)
      ELSE IF m.chunk[next].cinuse /\ m.chunk[next].pinuse
      THEN SetFreeWithPinuse([m EXCEPT !.dvsize = next - prev], prev, next - prev, next)
      ELSE FreeForward(m, prev, next - prev, next)

-----------------------------------------------------------------------------
(* Resizing and alignment.                                                 *)

\* cut a chunk in use in two, and give back the second part
GiveBackTail(m, p, nb, size) ==
  Free(SetInuse(SetInuse(m, p, nb), p + nb, size - nb), p + nb)

\* the block has moved to where malloc has put it, if it has
Moved(answer, mem) ==
  IF answer.mem = Nil THEN answer ELSE Answer(Free(answer.space, mem), answer.mem)

Realloc(m, mem, bytes) ==
  LET nb == Request2Size(bytes)
      oldsize == ChunkSize(m, mem)
      newtop == oldsize + m.topsize - nb
      grown == SetInuse([m EXCEPT !.top = mem + nb, !.topsize = newtop], mem, nb)
  IN  IF bytes >= MaxRequest THEN Answer(m, Nil)
      ELSE IF oldsize >= nb
      THEN Answer(IF oldsize - nb >= MinChunk THEN GiveBackTail(m, mem, nb, oldsize) ELSE m, mem)
      ELSE IF mem + oldsize = m.top /\ oldsize + m.topsize > nb
      THEN Answer(SetHead(grown, mem + nb, newtop, TRUE, FALSE), mem)
      ELSE Moved(Malloc(m, bytes), mem)

\* the unit of the alignment, in granules: alignment, in bytes, is a power of
\* two, which the rounding keeps
AlignUnit_Doubled(alignment) ==
  IF alignment < Granule * MinChunk THEN MinChunk ELSE 2 * (alignment \div Granule)

AlignUnit(alignment) ==
  IF alignment < Granule * MinChunk THEN MinChunk ELSE alignment \div Granule

\* the chunk in chunk p whose memory is aligned: p itself, or far enough behind
\* it to leave a chunk in front; base is where the segment lies, in granules
AlignedChunk(base, p, align) ==
  LET mem == base + p + 2
      br == ((mem + align - 1) \div align) * align - 2 - base
  IN  IF mem % align = 0 THEN p ELSE IF br - p >= MinChunk THEN br ELSE br + align

\* of chunk p, of this size, keep nb granules at pos; what is in front of them
\* and behind them is given back
Trim(m, p, size, pos, nb) ==
  LET rest == p + size - pos
      led == IF pos = p THEN m ELSE SetInuse(SetInuse(m, pos, rest), p, pos - p)
      cut == IF rest > nb + MinChunk
             THEN SetInuse(SetInuse(led, pos, nb), pos + nb, rest - nb) ELSE led
      front == IF pos = p THEN cut ELSE Free(cut, p)
  IN  Answer(IF rest > nb + MinChunk THEN Free(front, pos + nb) ELSE front, pos)

TrimToAlign(found, base, align, nb) ==
  IF found.mem = Nil THEN found
  ELSE Trim(found.space, found.mem, ChunkSize(found.space, found.mem),
            AlignedChunk(base, found.mem, align), nb)

Memalign(m, base, alignment, bytes) ==
  LET align == AlignUnit(alignment)
      nb == Request2Size(bytes)
  IN  IF alignment <= Granule THEN Malloc(m, bytes)
      ELSE IF bytes >= MaxRequest - Granule * align THEN Answer(m, Nil)
      ELSE TrimToAlign(Malloc(m, Granule * (nb + align + MinChunk - Overhead)),
                       base, align, nb)

\* mspace_realloc: without a block it allocates one.
MspaceRealloc(m, mem, bytes) ==
  IF mem = Nil THEN Malloc(m, bytes) ELSE Realloc(m, mem, bytes)

-----------------------------------------------------------------------------
(* A new space.                                                            *)

NoSmall == [size \in MinChunk..(MinLarge - 1) |-> <<>>]
NoTrees == [i \in 0..(TreeBins - 1) |-> Nil]

\* init_top: one free chunk, and behind it a head that no chunk begins with
InitTop(m, p, psize) ==
  [m EXCEPT
     !.chunk = (p :> [Garbage EXCEPT !.size = psize, !.pinuse = TRUE])
               @@ ((p + psize) :> [Garbage EXCEPT !.size = TopFoot]) @@ @,
     !.top = p,
     !.topsize = psize]

\* create_mspace_with_base, for a segment of this many granules
NewSpace(capacity) ==
  LET state == 0 :> [Garbage EXCEPT !.size = StateSize, !.pinuse = TRUE, !.cinuse = TRUE]
      m == [chunk |-> state, node |-> <<>>,
            small |-> NoSmall, smallmap |-> {}, root |-> NoTrees, treemap |-> {},
            dv |-> Nil, dvsize |-> 0, top |-> Nil, topsize |-> 0]
  IN  InitTop(m, StateSize, capacity - StateSize - TopFoot)
=============================================================================
