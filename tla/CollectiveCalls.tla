--------------------------- MODULE CollectiveCalls ---------------------------
(***************************************************************************)
(* The entry points of the collective routines: which routine a case c     *)
(* calls, what the active-set and the team interface put around it, what   *)
(* the program does between two calls, and what it may expect of a call.   *)
(* Members of the team or active set are the PEs 0..n-1.                   *)
(***************************************************************************)
EXTENDS ExchangePrograms, ReducePrograms
LOCAL INSTANCE SequencesExt

\* alg, n, root   the routine, the size of the active set or team, PE_root
\* len, count     elements of a broadcast or reduction; of each PE, in collect
\* world          the number of PEs of the program
\* team           it is called by the team interface
\* apart          what the program does between calls: barrier, sync, nothing
\* reuse          it overwrites its source buffer as soon as it has returned
\* lazy, late     the transport reads the source of a non-blocking put when the
\*                put lands; a put to the own PE lands late, too

\* The tables of api/collectives/table.c: the routine that a name stands for.
BroadcastTab(c, me) ==
  CASE c.alg = "linear" -> BroadcastLinear(c.root, me, Src(0), c.len)
    [] c.alg = "complete" -> BroadcastCompleteTree(c.n, c.root, 2, me, c.len)
    [] c.alg = "binomial" ->
         BroadcastBinomialTree(c.n, c.root, me, Src(0), c.len, 0)
    [] c.alg = "knomial" -> BroadcastKnomialTree(c.n, c.root, 2, me, c.len)
    [] c.alg = "signal" -> BroadcastKnomialTreeSignal(c.n, c.root, 2, me, c.len)
    [] c.alg = "scatter" -> BroadcastScatterCollect(c.n, c.root, me, c.len)

FcollectTab(c, me) ==
  CASE c.alg = "linear" -> FcollectLinear(c.n, me)
    [] c.alg = "all_linear" -> FcollectAllLinear(c.n, me)
    [] c.alg = "all_linear1" -> FcollectAllLinear1(c.n, me)
    [] c.alg = "rec_dbl" -> FcollectRecDbl(c.n, me)
    [] c.alg = "ring" -> FcollectRing(c.n, me)
    [] c.alg = "bruck" -> FcollectBruck(c.n, me)
    [] c.alg = "bruck_no_rotate" -> FcollectBruckNoRotate(c.n, me)
    [] c.alg = "bruck_signal" -> FcollectBruckSignal(c.n, me)
    [] c.alg = "bruck_inplace" -> FcollectBruckInplace(c.n, me)
    [] c.alg = "neighbor" -> FcollectNeighborExchange(c.n, me)

\* The PEs in the order of the name's first half.
PeersTab(c, me) ==
  CASE c.alg \in {"shift_barrier", "shift_counter", "shift_signal"} ->
         ShiftPeers(c.n, me)
    [] c.alg \in {"xor_barrier", "xor_counter", "xor_signal"} -> XorPeers(c.n, me)
    [] c.alg \in {"color_barrier", "color_counter", "color_signal"} ->
         EdgeColorPeers(c.n, me)

AlltoallTab(c, me) ==
  LET to == PeersTab(c, me)
  IN  CASE c.alg \in {"shift_barrier", "xor_barrier", "color_barrier"} ->
             AlltoallBarrier(me, to)
        [] c.alg \in {"shift_counter", "xor_counter", "color_counter"} ->
             AlltoallCounter(me, to)
        [] c.alg \in {"shift_signal", "xor_signal", "color_signal"} ->
             AlltoallSignal(me, to)

AlltoallsTab(c, me) ==
  LET to == PeersTab(c, me)
  IN  CASE c.alg \in {"shift_barrier", "xor_barrier", "color_barrier"} ->
             AlltoallsBarrier(me, to, 2, 1)
        [] c.alg \in {"shift_counter", "xor_counter", "color_counter"} ->
             AlltoallsCounter(me, to, 2, 1)

CollectTab(c, me) ==
  CASE c.alg = "linear" -> CollectLinear(c.count, c.n, me)
    [] c.alg = "all_linear" -> CollectAllLinear(c.count, c.n, me)
    [] c.alg = "all_linear1" -> CollectAllLinear1(c.count, c.n, me)
    [] c.alg = "rec_dbl" -> CollectRecDbl(c.count, c.n, me)
    [] c.alg = "rec_dbl_signal" -> CollectRecDblSignal(c.count, c.n, me)
    [] c.alg = "ring" -> CollectRing(c.count, c.n, me)
    [] c.alg = "bruck" -> CollectBruck(c.count, c.n, me)
    [] c.alg = "bruck_no_rotate" -> CollectBruckNoRotate(c.count, c.n, me)

ToAllTab(c, me) ==
  CASE c.alg = "linear" -> ReduceLinear(c.n, me, c.len)
    [] c.alg = "binomial" -> ReduceBinomial(c.n, me, c.len)
    [] c.alg = "rec_dbl" -> ReduceRecDbl(c.n, me, c.len)
    [] c.alg = "rabenseifner" -> ReduceRabenseifner(c.n, me, c.len)
    [] c.alg = "rabenseifner2" -> ReduceRabenseifner2(c.n, me, c.len)

-----------------------------------------------------------------------------
(* The active-set interface calls the routine and nothing else; the team   *)
(* interface resets the work array of the team after it.                   *)

ActiveSetBroadcast(c, me) == BroadcastTab(c, me)
ActiveSetFcollect(c, me) == FcollectTab(c, me)
ActiveSetAlltoall(c, me) == AlltoallTab(c, me)
ActiveSetAlltoalls(c, me) == AlltoallsTab(c, me)
ActiveSetCollect(c, me) == CollectTab(c, me)
ToAll(c, me) == ToAllTab(c, me)

ThenReset(steps) == steps \o <<S(Now, <<ResetPsync>>)>>

TeamBroadcast(c, me) ==
  LET keep == <<S(Now, <<Copy(Dst(0), Src(0), c.len)>>)>>
  IN  ThenReset((IF me = c.root THEN keep ELSE <<>>) \o BroadcastTab(c, me))

TeamFcollect(c, me) == ThenReset(SyncThen(<<>>) \o FcollectTab(c, me))
TeamAlltoall(c, me) == ThenReset(AlltoallTab(c, me))
TeamAlltoalls(c, me) == ThenReset(AlltoallsTab(c, me))
TeamCollect(c, me) == ThenReset(SyncThen(<<>>) \o CollectTab(c, me))

\* Reductions allocate and free a work array, for which all PEs of the program
\* meet in shmem_malloc and shmem_free.
TeamReduce(c, me) ==
  WorldBarrierThen(<<>>) \o ThenReset(ToAllTab(c, me)) \o WorldBarrierThen(<<>>)

\* The routines of the library, and the one that c calls.
shmem_broadcast(c, me) ==
  IF c.team THEN TeamBroadcast(c, me) ELSE ActiveSetBroadcast(c, me)
shmem_fcollect(c, me) ==
  IF c.team THEN TeamFcollect(c, me) ELSE ActiveSetFcollect(c, me)
shmem_alltoall(c, me) ==
  IF c.team THEN TeamAlltoall(c, me) ELSE ActiveSetAlltoall(c, me)
shmem_alltoalls(c, me) ==
  IF c.team THEN TeamAlltoalls(c, me) ELSE ActiveSetAlltoalls(c, me)
shmem_collect(c, me) ==
  IF c.team THEN TeamCollect(c, me) ELSE ActiveSetCollect(c, me)
shmem_to_all(c, me) == ToAll(c, me)
shmem_reduce(c, me) ==
  IF c.team THEN TeamReduce(c, me) ELSE shmem_to_all(c, me)

Called(c, me) ==
  CASE c.fam = "broadcast" -> shmem_broadcast(c, me)
    [] c.fam = "fcollect"  -> shmem_fcollect(c, me)
    [] c.fam = "alltoall"  -> shmem_alltoall(c, me)
    [] c.fam = "alltoalls" -> shmem_alltoalls(c, me)
    [] c.fam = "collect"   -> shmem_collect(c, me)
    [] c.fam = "reduce"    -> shmem_reduce(c, me)

-----------------------------------------------------------------------------
(* The program: it calls the routine again and again.                      *)

\* What it does between two calls.
Between(c) ==
  (IF c.reuse THEN <<S(Now, <<NextSource>>)>> ELSE <<>>) \o
  LET next == IF c.reuse THEN <<>> ELSE <<NextSource>>
  IN  CASE c.apart = "barrier" -> BarrierThen(next)
        [] c.apart = "sync"    -> SyncThen(next)
        [] c.apart = "nothing" -> <<S(Now, next)>>

\* A call, and what comes after it.
Repeated(c, call) ==
  [steps |-> call \o Between(c), return |-> Len(call) + 1,
   leave |-> Len(call) + (IF c.reuse THEN 2 ELSE 1)]

Calls(c, me) ==
  IF me >= c.n THEN [steps |-> <<>>, return |-> 1, leave |-> 1]
  ELSE Repeated(c, Called(c, me))

-----------------------------------------------------------------------------
(* Data.  A value is a set of contributions <<PE, element, call>>.         *)

SourceLen(c, me) ==
  CASE c.fam \in {"alltoall", "alltoalls"} -> c.n
    [] c.fam \in {"fcollect", "collect"}   -> c.count[me + 1]
    [] OTHER                               -> c.len

SourceOf(c, me, call) ==
  [i \in 0..(SourceLen(c, me) - 1) |-> {<<me, i, call>>}]

\* alltoalls leaves gaps of DestStride - 1 cells in dest.
DestStride(c) == IF c.fam = "alltoalls" THEN 2 ELSE 1

DestLen(c) ==
  CASE c.fam \in {"alltoall", "alltoalls"} -> c.n * DestStride(c)
    [] c.fam \in {"fcollect", "collect"}   -> Offset(c.count, c.n)
    [] OTHER                               -> c.len

\* The array a reduction keeps to itself (tmp_array).
TmpLen(c) == IF c.alg \in {"rabenseifner", "rabenseifner2"} THEN c.len \div 2 + 1
             ELSE c.len

\* What a call owes its caller; a partial function of the cells of dest.
Owed(c, me, call) ==
  CASE c.fam = "broadcast" ->
         [i \in IF me = c.root /\ ~c.team THEN {} ELSE 0..(c.len - 1) |->
            {<<c.root, i, call>>}]
    [] c.fam \in {"alltoall", "alltoalls"} ->
         [i \in {k * DestStride(c) : k \in 0..(c.n - 1)} |->
            {<<i \div DestStride(c), me, call>>}]
    [] c.fam \in {"fcollect", "collect"} ->
         [i \in 0..(DestLen(c) - 1) |->
            LET pe == CHOOSE p \in 0..(c.n - 1) :
                        Offset(c.count, p) <= i /\ i < Offset(c.count, p + 1)
            IN  {<<pe, i - Offset(c.count, pe), call>>}]
    [] c.fam = "reduce" ->
         [i \in 0..(c.len - 1) |-> {<<p, i, call>> : p \in 0..(c.n - 1)}]

\* The words of the work array that a routine uses.
WordsOf(steps) ==
  UNION {UNION {{steps[k].do[i].word : i \in {i \in DOMAIN steps[k].do :
                    steps[k].do[i].op \in {"store", "add", "set", "expect", "take"}}}
                \cup (IF steps[k].await.on \in {"word", "child"}
                        THEN {steps[k].await.word} ELSE {})
                : k \in DOMAIN steps}}
=============================================================================
