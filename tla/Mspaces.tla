------------------------------ MODULE Mspaces ------------------------------
(***************************************************************************)
(* The symmetric heap of every PE as its allocator keeps it.  The calls of *)
(* api/shmalloc.c are collective: all PEs make the same ones in the same   *)
(* order (SymmetricHeap models the barriers that keep them in step), each  *)
(* on the mspace of its own heap, under the mutex of SHMEMT_MUTEX_PROTECT. *)
(* So a call is one step here.                                             *)
(***************************************************************************)
EXTENDS Mspace, FiniteSets
LOCAL INSTANCE FiniteSetsExt

CONSTANTS
  PE,
  Base,        \* Base[p]: where UCX has mapped the heap of p, in granules
  Capacity,    \* attr.length, in granules
  Sizes,       \* sizes that the program asks for, in bytes
  Alignments,  \* alignments that it asks for, in bytes
  Arrays,      \* pairs of a count and a size that it asks calloc for
  MaxBlocks    \* bound: blocks the program has at a time

VARIABLES
  space,   \* space[p]: the mspace of PE p
  block    \* what the program has: where it is on each PE (Nil where the call
           \* was refused), the bytes and the alignment it asked for

vars == <<space, block>>

Init ==
  /\ space = [p \in PE |-> NewSpace(Capacity)]
  /\ block = {}

\* every PE takes the answer of its own space
Adopt(answer, others, bytes, align) ==
  LET at == [p \in PE |-> answer[p].mem]
  IN  /\ space' = [p \in PE |-> answer[p].space]
      /\ block' = IF \A p \in PE : at[p] = Nil THEN block
                  ELSE others \cup {[at |-> at, bytes |-> bytes, align |-> align]}

ShmemMalloc(bytes) ==
  /\ Cardinality(block) < MaxBlocks
  /\ Adopt([p \in PE |-> Malloc(space[p], bytes)], block, bytes, Granule)

ShmemCalloc(n, size) ==
  /\ Cardinality(block) < MaxBlocks
  /\ Adopt([p \in PE |-> Calloc(space[p], n, size)], block, n * size, Granule)

ShmemAlign(align, bytes) ==
  /\ Cardinality(block) < MaxBlocks
  /\ Adopt([p \in PE |-> Memalign(space[p], Base[p], align, bytes)], block, bytes, align)

\* What is moved loses its alignment. (Where one PE was refused, it allocates.)
ShmemRealloc(b, bytes) ==
  Adopt([p \in PE |-> MspaceRealloc(space[p], b.at[p], bytes)],
        block \ {b}, bytes, Granule)

ShmemFree(b) ==
  /\ space' = [p \in PE |-> IF b.at[p] = Nil THEN space[p] ELSE Free(space[p], b.at[p])]
  /\ block' = block \ {b}

Next ==
  \/ \E bytes \in Sizes :
       \/ ShmemMalloc(bytes)
       \/ \E align \in Alignments : ShmemAlign(align, bytes)
       \/ \E b \in block : ShmemRealloc(b, bytes)
  \/ \E a \in Arrays : ShmemCalloc(a[1], a[2])
  \/ \E b \in block : ShmemFree(b)

Spec == Init /\ [][Next]_vars

-----------------------------------------------------------------------------
(* The chunks of a space, in the order of their addresses.                 *)

End == Capacity - TopFoot

Chunks(m) == {p \in DOMAIN m.chunk : p >= StateSize /\ p < m.top}
IsFree(m, p) == ~m.chunk[p].cinuse
Following(m, p) == p + ChunkSize(m, p)

TypeOK ==
  /\ \A p \in PE :
       LET m == space[p]
       IN  /\ \A q \in DOMAIN m.chunk :
                m.chunk[q] \in [prev_foot : {Owner} \cup 0..Capacity, size : 0..Capacity,
                                pinuse : BOOLEAN, cinuse : BOOLEAN]
           /\ DOMAIN m.chunk \subseteq 0..Capacity /\ DOMAIN m.node \subseteq DOMAIN m.chunk
           /\ m.smallmap \subseteq DOMAIN m.small /\ m.treemap \subseteq DOMAIN m.root
  /\ \A b \in block : b.at \in [PE -> 0..Capacity]

\* The chunks cover the heap from the malloc_state to its foot without gap or
\* overlap, no two neighbours are both free, and the bits and the feet that a
\* release reads agree with the neighbours (traverse_and_check of ptmalloc.c).
ChunksTile ==
  \A p \in PE :
    LET m == space[p]
    IN  /\ \A q \in Chunks(m) :
             LET next == Following(m, q)
             IN  /\ ChunkSize(m, q) >= MinChunk
                 /\ next \in Chunks(m) \cup {m.top}
                 /\ m.chunk[next].pinuse = ~IsFree(m, q)
                 /\ m.chunk[next].prev_foot = IF IsFree(m, q) THEN ChunkSize(m, q) ELSE Owner
                 /\ IsFree(m, q) => next # m.top /\ ~IsFree(m, next)
        /\ \A q, r \in Chunks(m) : q < r => Following(m, q) <= r
        /\ \A q \in DOMAIN m.chunk : q >= m.top => q \in {m.top, End}
        /\ m.top + m.topsize = End /\ m.topsize > 0
        /\ m.chunk[m.top].size = m.topsize /\ m.chunk[m.top].pinuse

-----------------------------------------------------------------------------
(* The bins.                                                               *)

RECURSIVE Subtree(_, _)
Subtree(m, t) == IF t = Nil THEN {}
                 ELSE {t} \cup Subtree(m, m.node[t].kid[0]) \cup Subtree(m, m.node[t].kid[1])

Binned(m) == UNION {{m.small[i][k] : k \in DOMAIN m.small[i]} : i \in m.smallmap}
             \cup UNION {{t} \cup {m.node[t].ring[k] : k \in DOMAIN m.node[t].ring}
                           : t \in DOMAIN m.node}

\* Every free chunk is in the bin of its size, once, or is the designated
\* victim; the maps mark the bins that are not empty; a node of a trie lies on
\* the path of its size, below its parent, and no two have the same size
\* (do_check_malloc_state).
BinsHoldTheFree ==
  \A p \in PE :
    LET m == space[p]
        free == {q \in Chunks(m) : IsFree(m, q)}
    IN  /\ free = Binned(m) \cup (IF m.dvsize = 0 THEN {} ELSE {m.dv})
        /\ m.dvsize # 0 => m.dv \notin Binned(m) /\ m.dvsize = ChunkSize(m, m.dv)
        /\ \A i \in DOMAIN m.small :
             /\ i \in m.smallmap <=> m.small[i] # <<>>
             /\ \A k \in DOMAIN m.small[i] : ChunkSize(m, m.small[i][k]) = i
             /\ \A k, l \in DOMAIN m.small[i] : m.small[i][k] = m.small[i][l] => k = l
        /\ \A i \in DOMAIN m.root :
             /\ i \in m.treemap <=> m.root[i] # Nil
             /\ \A t \in Subtree(m, m.root[i]) :
                  /\ m.node[t].index = i /\ TreeIndex(ChunkSize(m, t)) = i
                  /\ \A u \in Subtree(m, m.root[i]) :
                       ChunkSize(m, t) = ChunkSize(m, u) => t = u
                  /\ \A side \in 0..1 :
                       LET kid == m.node[t].kid[side]
                       IN  kid # Nil => m.node[kid].parent = t
                  /\ \A k \in DOMAIN m.node[t].ring :
                       LET r == m.node[t].ring[k]
                       IN  ChunkSize(m, r) = ChunkSize(m, t) /\ r \notin DOMAIN m.node
        /\ DOMAIN m.node = UNION {Subtree(m, m.root[i]) : i \in DOMAIN m.root}

-----------------------------------------------------------------------------
(* What the calls choose.                                                  *)

\* what a request of nb granules could be cut from
Candidates(m, nb) ==
  {ChunkSize(m, q) : q \in {q \in Chunks(m) : IsFree(m, q) /\ ChunkSize(m, q) >= nb}}

\* A request is refused only if no free chunk holds it and the top does not
\* either: whatever bin a chunk is in, the search finds it.
RefusesOnlyWhenFull ==
  \A p \in PE : \A bytes \in Sizes :
    LET nb == Request2Size(bytes)
    IN  Malloc(space[p], bytes).mem = Nil => Candidates(space[p], nb) = {} /\ nb >= space[p].topsize

\* A large request is cut from the smallest free chunk that holds it, in
\* whichever tree that is, and from the top only if there is none.
LargeFitsBest ==
  \A p \in PE : \A bytes \in Sizes :
    LET m == space[p]
        nb == Request2Size(bytes)
        got == Malloc(m, bytes).mem
    IN  ~IsSmall(nb) /\ Candidates(m, nb) # {} =>
          got \in Chunks(m) /\ ChunkSize(m, got) = Min(Candidates(m, nb))

\* An allocation has the same offset in the heaps of all PEs: a PE names the
\* memory of another by the offset it has in its own (translate_address of
\* shmemc/ucx/comms.c).
SameOffset == \A b \in block : \A p, q \in PE : b.at[p] = b.at[q]

\* The heap of every PE keeps what the symmetric heap promises.
Heap(p) == INSTANCE HeapSpec WITH
  First <- StateSize, End <- End, Base <- Base[p],
  block <- {[at |-> b.at[p] + 2, bytes |-> b.bytes, align |-> b.align]
              : b \in {b \in block : b.at[p] # Nil}}

\* Heap(p)!Spec for all p, in the form that TLC takes
ImplementsHeap ==
  /\ \A p \in PE : Heap(p)!Init
  /\ [][\A p \in PE : [Heap(p)!Next]_block]_vars
=============================================================================
