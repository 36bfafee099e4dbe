------------------------------- MODULE MCLocal -------------------------------
(***************************************************************************)
(* What PEs work out without a message: the settings they read at start-up *)
(* (Settings), which implementation a collective call runs                 *)
(* (CollectiveSelection), the addresses they translate (Addresses) and     *)
(* where their heaps put an object (Mspaces).  The four share no state,    *)
(* and a behaviour is of one of them; the others rest.                     *)
(*                                                                         *)
(* Settings: three PEs on one node or on two; the units are those of the   *)
(* code, with a multiplier of 4.                                           *)
(*                                                                         *)
(* CollectiveSelection: names are every algorithm of a table, also behind  *)
(* a suffix or before a type, and one that no table has.  One call at a    *)
(* time is any routine; two threads at once call those of FewRoutines.     *)
(*                                                                         *)
(* Addresses: three PEs and two heaps of one and two pages, which UCX can  *)
(* place in either order, with a gap between them or end to end, right     *)
(* above the globals.  An address that is private at one PE is in a heap   *)
(* at another.                                                             *)
(*                                                                         *)
(* Mspaces: pages are of 8 granules, 64 bytes.  Programs that ask for      *)
(* anything on empty heaps, and some calls on fragmented ones.             *)
(***************************************************************************)
EXTENDS Addresses, CollectiveSelection, Mspace

CONSTANTS PeerLists, ThreadLists, SymmetricSizes, DefaultHeapSize, Delays, Units,
          Multiplier, Chunk,
          Base, Capacity, Sizes, Alignments, Arrays, MaxBlocks

Twins == 1..2

ASSUME MspacesAssumption ==
  /\ Base \in [Twins -> Nat]
  /\ Capacity \in Nat /\ Capacity > StateSize + TopFoot /\ Capacity < 2^WordBits
  /\ Sizes \subseteq Nat \ {0} /\ MaxBlocks \in Nat
  /\ \A a \in Alignments : \E k \in 0..(WordBits + 2) : a = 2^k
  /\ Arrays \subseteq (Nat \ {0}) \X (Nat \ {0})

VARIABLES
  part,   \* which of the four the behaviour is of
  peers, progress_threads, symmetric_size, progress_delay,
  heap_spec, stage, next, range, out, nnums, heapsize, leader, needed,
  space, block

settingsVars == <<peers, progress_threads, symmetric_size, progress_delay,
                  heap_spec, stage, next, range, out, nnums, heapsize, leader, needed>>
heapVars == <<space, block>>

S == INSTANCE Settings

A == INSTANCE Mspaces WITH PE <- Twins

-----------------------------------------------------------------------------
HeapSizes == [h \in 0 .. 1 |-> IF h = 0 THEN 1 ELSE 3]
Neighbours == {<<0, 1>>, <<1, 0>>}

One(v) == <<v, v>>

SomeUnits == <<"K", "M", "G", "T", "P", "E">>

SomePeerLists ==
  { [p \in PE |-> << <<0, 2>> >>],
    [p \in PE |-> IF p = 1 THEN <<One(1)>> ELSE <<One(0), One(2)>>] }

\* "1", "0-2", "1-5,2", "2,0-1,2"
SomeThreadLists ==
  { <<One(1)>>, << <<0, 2>> >>, << <<1, 5>>, One(2)>>, <<One(2), <<0, 1>>, One(2)>> }

\* <<>> is a variable that is not set
SomeSizes ==
  [shmem : {<<>>, <<3, "P">>, <<7, "Q">>}, sma : {<<>>, <<3, "">>, <<-1, "K">>}]

OneK == <<1, "K">>

SomeDelays == {<<>>, <<2, "Q">>}

Algorithms == UNION {AlgosOf(e[1]) : e \in Entry} \cup {"unheard_of"}

Names ==
  {Plain(algo) : algo \in Algorithms}
  \cup {[algo |-> algo, suffix |-> suffix, type |-> ""] :
          algo \in {"linear", "shift_exchange_barrier"}, suffix \in {"_size", "_mem"}}
  \cup {[algo |-> algo, suffix |-> "", type |-> type] :
          algo \in {"linear", "shift_exchange_barrier"}, type \in {"int", "uchar", "complexd"}}

TwoThreads == {"t1", "t2"}

FewRoutines == {"int", "long", "uint", "uint64", "32", "64", ""}

\* neighbouring pages: they differ by no multiple of a larger alignment
PageBases == [p \in Twins |-> 8 * p]

\* the product of the second wraps around, to eight bytes
SomeArrays == {<<17, 8>>, <<129, 8>>}

(* A fragmented heap: what the program has obtained before.  Small blocks keep *)
(* apart the four sizes of the first trie.                                     *)
Before == <<48, 16, 64, 16, 72, 16, 56, 16>>

Obtained(h, bytes) ==
  LET got == Malloc(h.space, bytes)
      at == [p \in Twins |-> got.mem]
  IN  [space |-> got.space,
       block |-> h.block \cup {[at |-> at, bytes |-> bytes, align |-> Granule]}]

Fragmented ==
  LET h == FoldLeft(Obtained, [space |-> NewSpace(Capacity), block |-> {}], Before)
  IN  space = [p \in Twins |-> h.space] /\ block = h.block

-----------------------------------------------------------------------------
Part == {"settings", "selection", "addresses", "heaps", "fragmented heaps"}

\* One state to rest in.
SettingsRest ==
  /\ peers = CHOOSE l \in PeerLists : TRUE
  /\ progress_threads = S!NotSet /\ progress_delay = S!NotSet
  /\ symmetric_size = CHOOSE s \in SymmetricSizes : TRUE

SelectionRests ==
  /\ use = CHOOSE e \in Entry : TRUE
  /\ env = [e \in Entry |-> DefaultOf(e)]
  /\ multiple = FALSE

MCInit ==
  /\ part \in Part
  /\ IF part = "settings" THEN TRUE ELSE SettingsRest
  /\ IF part = "selection" THEN TRUE ELSE SelectionRests
  /\ Init /\ S!Init /\ SelectionInit
  /\ IF part = "fragmented heaps" THEN Fragmented ELSE A!Init

SomeCalls == (\E b \in block : A!ShmemFree(b)) \/ A!ShmemMalloc(56)

Few == multiple => \A t \in Thread : call'[t] \in FewRoutines \cup {Idle}

MCNext ==
  /\ \/ part = "settings" /\ S!Next /\ UNCHANGED <<vars, selectionVars, heapVars>>
     \/ part = "selection" /\ SelectionNext /\ Few /\ UNCHANGED <<vars, settingsVars, heapVars>>
     \/ part = "addresses" /\ Next /\ UNCHANGED <<settingsVars, selectionVars, heapVars>>
     \/ part = "heaps" /\ A!Next /\ UNCHANGED <<vars, settingsVars, selectionVars>>
     \/ part = "fragmented heaps" /\ SomeCalls
        /\ UNCHANGED <<vars, settingsVars, selectionVars>>
  /\ UNCHANGED part

MCSpec ==
  MCInit /\ [][MCNext]_<<part, vars, settingsVars, selectionVars, heapVars>>

-----------------------------------------------------------------------------
\* The properties of Settings, which see there: whatever the lists and sizes
\* say, the arrays have room, the progress threads run where they are named,
\* one PE leads each node, and the size of the heap is shown as it was read.
SettingsHold ==
  S!TypeOK /\ S!RunsWhereNamed /\ S!OneLeaderPerNode /\ S!SizeShownAsRead

\* What oshrun.1 says of progress threads on all PEs, see Settings.
AllMeansEveryPE == S!AllMeansEveryPE

Allocating == part \in {"heaps", "fragmented heaps"}

\* What traverse_and_check and do_check_malloc_state of ptmalloc.c look for:
\* chunks that cover the heap, and bins that hold what is free.
WellFormed == Allocating => A!TypeOK /\ A!ChunksTile /\ A!BinsHoldTheFree

\* No request is refused that some chunk holds, and a large one is cut from the
\* smallest that does (tmalloc_large of ptmalloc.c).
FindsTheBest == Allocating => A!RefusesOnlyWhenFull /\ A!LargeFitsBest

\* An allocation has the same offset in all heaps, see Mspaces.
SameOffset == A!SameOffset

\* The heap of every PE keeps what the symmetric heap promises, see Mspaces.
ImplementsHeap == A!ImplementsHeap
=============================================================================
