-------------------------- MODULE ExchangePrograms --------------------------
(***************************************************************************)
(* fcollect.c, alltoall.c, alltoalls.c and collect.c of shcoll/src: what   *)
(* PE number me of n runs.  The place of a block is its index; in collect  *)
(* the blocks have the sizes count[1..n].  Rounds are counted from 0.      *)
(***************************************************************************)
EXTENDS BroadcastPrograms
LOCAL INSTANCE SequencesExt
LOCAL INSTANCE Bitwise

CONSTANT RingDiff     \* RING_DIFF of collect.c: sizes that may be in flight

Shift(i, me, n) == (me + i) % n

-----------------------------------------------------------------------------
(* fcollect.c                                                              *)

FcollectLinear(n, me) ==
  BarrierThen(IF me = 0 THEN <<Copy(Dst(0), Src(0), 1)>>
                        ELSE <<PutNbi(0, Dst(me), Src(0), 1)>>)
    \o BarrierThen(<<>>)
    \o BroadcastLinear(0, me, Dst(0), n)

\* Puts the own block everywhere.
PutToAll(n, me, place, len) ==
  [i \in 1..(n-1) |-> PutNbi(Shift(i, me, n), place, Src(0), len)]
    \o <<Copy(place, Src(0), len)>>

IncAll_OneShort(n, me) == [i \in 1..(n-2) |-> Inc(Shift(i, me, n), 0)]

IncAll(n, me) == [i \in 1..(n-1) |-> Inc(Shift(i, me, n), 0)]

CountAll_NoClear(n, me) ==
  <<S(Until(0, "EQ", SYNC + n - 1), <<>>)>>

CountAll(n, me) ==
  <<S(Until(0, "EQ", SYNC + n - 1), <<Clear(me, 0)>>)>>

FcollectAllLinear(n, me) ==
  <<S(Now, PutToAll(n, me, Dst(me), 1) \o <<Fence>> \o IncAll(n, me))>>
    \o CountAll(n, me)

FcollectAllLinear1(n, me) ==
  <<S(Now, PutToAll(n, me, Dst(me), 1))>> \o BarrierThen(<<>>)

FcollectRecDbl(n, me) ==
  LET block(r) == (me \div 2^r) * 2^r
      peer(r) == me ^^ (2^r)
      send(r) == <<PutNbi(peer(r), Dst(block(r)), Dst(block(r)), 2^r), Fence,
                   P(peer(r), r, SYNC + 1)>>
  IN  Exchange(me, [r \in 1..Rounds(n) |-> send(r - 1)],
               <<Copy(Dst(me), Src(0), 1)>>, <<>>)

FcollectRing(n, me) ==
  LET block(i) == (me - (i - 1) + n) % n
      send(i) == <<PutNbi((me + 1) % n, Dst(block(i)), Dst(block(i)), 1), Fence,
                   Inc((me + 1) % n, 0)>>
  IN  <<S(Now, <<Copy(Dst(me), Src(0), 1)>> \o send(1))>> \o
      [i \in 1..(n-1) |->
         S(Until(0, "GE", SYNC + i),
           IF i < n - 1 THEN send(i + 1) ELSE <<Clear(me, 0)>>)]

\* What Bruck's algorithm sends in round r, and to whom.
BruckPeer(n, me, r) == (me - 2^r + n) % n
BruckLen(n, r) == IF 2 * 2^r <= n THEN 2^r ELSE n - 2^r

FcollectBruck(n, me) ==
  LET peer(r) == BruckPeer(n, me, r)
      send(r) == <<PutNbi(peer(r), Dst(2^r), Dst(0), BruckLen(n, r)), Fence,
                   P(peer(r), r, SYNC + 1)>>
  IN  Exchange(me, [r \in 1..Rounds(n) |-> send(r - 1)],
               <<Copy(Dst(0), Src(0), 1)>>, <<RotateDest(n, me)>>)

FcollectBruckNoRotate(n, me) ==
  LET peer(r) == BruckPeer(n, me, r)
      len(r) == BruckLen(n, r)
      data(r) ==
        IF me + len(r) <= n THEN <<PutNbi(peer(r), Dst(me), Dst(me), len(r))>>
        ELSE <<PutNbi(peer(r), Dst(me), Dst(me), n - me),
               PutNbi(peer(r), Dst(0), Dst(0), len(r) - (n - me))>>
      send(r) == data(r) \o <<Fence, P(peer(r), r, SYNC + 1)>>
  IN  Exchange(me, [r \in 1..Rounds(n) |-> send(r - 1)],
               <<Copy(Dst(me), Src(0), 1)>>, <<>>)

FcollectBruckSignal(n, me) ==
  LET send(r) == PutSignalNb(BruckPeer(n, me, r), Dst(2^r), Dst(0),
                             BruckLen(n, r), r, SYNC + 1)
  IN  Exchange(me, [r \in 1..Rounds(n) |-> send(r - 1)],
               <<Copy(Dst(0), Src(0), 1)>>, <<RotateDest(n, me)>>)

\* bruck_inplace differs from bruck in how it rotates, not in the outcome.
FcollectBruckInplace(n, me) == FcollectBruck(n, me)

\* Blocks travel in pairs, to the two neighbours in turn.
FcollectNeighborExchange(n, me) ==
  LET even == (me % 2) = 0
      pairOf(x) == 2 * (x \div 2)
      toRight(k) == even = (k = 0)
      neighbor(k) == IF toRight(k) THEN (me + 1) % n ELSE (me - 1 + n) % n
      offset0 == pairOf((IF even THEN me - 2 + n ELSE me + 2) % n)
      diff == IF even THEN 2 ELSE n - 2
      offset(i) == IF i % 2 = 1 THEN (pairOf(me) + ((i - 1) \div 2) * diff) % n
                   ELSE (offset0 + ((i - 2) \div 2) * (n - diff)) % n
      send(i) ==
        IF i = n \div 2 THEN <<P(me, 0, SYNC), P(me, 1, SYNC)>>
        ELSE <<PutNbi(neighbor(i % 2), Dst(offset(i)), Dst(offset(i)), 2), Fence,
               Inc(neighbor(i % 2), i % 2)>>
  IN  <<S(Now, <<Copy(Dst(me), Src(0), 1),
                 PutNbi(neighbor(0), Dst(me), Dst(me), 1), Fence,
                 Inc(neighbor(0), 0)>>),
        S(Until(0, "GE", 1), send(1))>> \o
      [i \in 1..(n \div 2 - 1) |->
         S(Until(i % 2, "GT", i \div 2), send(i + 1))]

-----------------------------------------------------------------------------
(* alltoall.c and alltoalls.c                                              *)

XorPeer(i, me, n) == i ^^ me

EdgeColor(i, me, n) ==
  LET chr == IF n % 2 = 1 THEN n ELSE n - 1
      v == IF me < chr THEN (i + chr - me) % chr
           ELSE IF i % 2 = 1 THEN ((i + chr) \div 2) % chr
           ELSE i \div 2
  IN  IF v # me THEN v ELSE IF n % 2 = 1 THEN -1 ELSE chr

\* The PEs in the order in which me sends to them.
ShiftPeers(n, me) == [i \in 1..(n-1) |-> Shift(i, me, n)]
XorPeers(n, me) == [i \in 1..(n-1) |-> XorPeer(i, me, n)]
EdgeColorPeers(n, me) == [i \in 1..(n-1) |-> EdgeColor(i, me, n)]

\* All blocks to their PEs; strides are those of alltoalls, 1 in alltoall.
AlltoallPuts(me, to, dst, sst) ==
  [i \in DOMAIN to |-> PutNbi(to[i], Dst(me * dst), Src(to[i] * sst), 1)]

AlltoallIncs(to) == [i \in DOMAIN to |-> Inc(to[i], 0)]

OwnBlock(me, dst, sst) == <<Copy(Dst(me * dst), Src(me * sst), 1)>>

AlltoallBarrier(me, to) ==
  <<S(Now, OwnBlock(me, 1, 1) \o AlltoallPuts(me, to, 1, 1))>> \o BarrierThen(<<>>)

AlltoallCounter(me, to) ==
  <<S(Now, AlltoallPuts(me, to, 1, 1) \o OwnBlock(me, 1, 1) \o <<Fence>>
             \o AlltoallIncs(to))>>
    \o CountAll(Len(to) + 1, me)

AlltoallSignal(me, to) ==
  LET put(i) == PutSignalNb(to[i], Dst(me), Src(to[i]), 1, i - 1, SYNC + 1)
  IN  <<S(Now, FlattenSeq([i \in DOMAIN to |-> put(i)]) \o OwnBlock(me, 1, 1))>>
        \o [i \in DOMAIN to |-> S(Until(i - 1, "GT", SYNC), <<Clear(me, i - 1)>>)]

AlltoallsBarrier(me, to, dst, sst) ==
  <<S(Now, OwnBlock(me, dst, sst) \o AlltoallPuts(me, to, dst, sst)), S(Quiet, <<>>)>>
    \o BarrierThen(<<>>)

AlltoallsCounter(me, to, dst, sst) ==
  <<S(Now, AlltoallPuts(me, to, dst, sst) \o OwnBlock(me, dst, sst)),
    S(Quiet, AlltoallIncs(to))>>
    \o CountAll(Len(to) + 1, me)
-----------------------------------------------------------------------------
(* collect.c and util/scan.c, util/broadcast-size.c                        *)

\* Elements of the PEs first..last together.
Total(count, first, last) ==
  FoldLeft(LAMBDA a, b : a + b, 0, SubSeq(count, first + 1, last + 1))

Offset(count, me) == Total(count, 0, me - 1)

\* exclusive_prefix_sum: in round r the sums of 2^r PEs go 2^r PEs up. A size
\* goes as size + 1, so that no message leaves its word at the sync value.
PrefixSum(count, n, me, w) ==
  LET partial(pe, r) == Total(count, IF pe < 2^r THEN 0 ELSE pe - 2^r + 1, pe)
      send(r) == IF me + 2^r < n
                   THEN <<Add(me + 2^r, w + r, partial(me, r) + 1)>> ELSE <<>>
      receive(r) ==
        IF me < 2^r THEN <<S(Now, send(r + 1))>>
        ELSE <<S(Until(w + r, "NE", SYNC),
                 <<Expect(w + r, partial(me - 2^r, r) + 1), Clear(me, w + r)>>),
               S(Until(w + r, "EQ", SYNC), send(r + 1))>>
  IN  <<S(Now, send(0))>> \o FlattenSeq([r \in 1..Rounds(n) |-> receive(r - 1)])

\* Word 2 of each PE gets the offset of its block plus 1, that of the first PE
\* the full size, which the first PE then gives to the others.
CollectLinear(count, n, me) ==
  LET off == Offset(count, me)
      all == Offset(count, n)
      next == (me + 1) % n
  IN  <<S(Now, <<P(me, 2, 0)>>)>> \o
      (IF me = 0
         THEN BarrierThen(<<Add(1, 2, count[1] + 1), Copy(Dst(0), Src(0), count[1])>>)
              \o <<S(Until(2, "NE", 0),
                     <<Expect(2, all + 1)>> \o
                     [i \in 1..(n-1) |-> P(i, 2, all + 1)])>>
         ELSE BarrierThen(<<>>)
              \o <<S(Until(2, "NE", 0),
                     <<Expect(2, off + 1), PutNbi(0, Dst(off), Src(0), count[me + 1]),
                       Add(next, 2, count[me + 1] + off + 1)>>)>>)
      \o BarrierThen(<<Expect(2, all + 1)>>)
      \o BroadcastLinear(0, me, Dst(0), all)
      \o <<S(Now, <<Clear(me, 2)>>)>>

CollectAllLinear(count, n, me) ==
  PrefixSum(count, n, me, 1)
    \o <<S(Now, PutToAll(n, me, Dst(Offset(count, me)), count[me + 1])
                  \o <<Fence>> \o IncAll(n, me))>>
    \o CountAll(n, me)

CollectAllLinear1(count, n, me) ==
  PrefixSum(count, n, me, 1)
    \o <<S(Now, PutToAll(n, me, Dst(Offset(count, me)), count[me + 1]))>>
    \o BarrierThen(<<>>)

PREFIX_SUM_SYNC_SIZE == 32

\* Recursive doubling; the partners also tell each other how much they send.
CollectRecDbl(count, n, me) ==
  LET first(pe, r) == (pe \div 2^r) * 2^r
      len(pe, r) == Total(count, first(pe, r), first(pe, r) + 2^r - 1)
      peer(r) == me ^^ (2^r)
      at(r) == Offset(count, first(me, r))
      word(r) == PREFIX_SUM_SYNC_SIZE + r
      send(r) == IF r = Rounds(n) THEN <<>>
                 ELSE <<PutNbi(peer(r), Dst(at(r)), Dst(at(r)), len(me, r)), Fence,
                        P(peer(r), word(r), len(me, r) + 1)>>
  IN  PrefixSum(count, n, me, 0)
        \o <<S(Now, <<Copy(Dst(Offset(count, me)), Src(0), count[me + 1])>> \o send(0))>>
        \o [r \in 1..Rounds(n) |->
              S(Until(word(r - 1), "NE", SYNC),
                <<Expect(word(r - 1), len(peer(r - 1), r - 1) + 1),
                  Clear(me, word(r - 1))>> \o send(r))]

\* The same, by shmem_putmem_signal_nb: a put, a fence and a store of the word.
CollectRecDblSignal(count, n, me) == CollectRecDbl(count, n, me)

\* The wait before turn j of the ring: its size needs a free word.
RingWindow(j) == Until(0, "GT", j - RingDiff + SYNC)

\* Blocks go down the ring. At most RingDiff sizes are under way to a PE; its
\* progress comes back in word 0 of the sender.
CollectRing(count, n, me) ==
  LET down == (me - 1 + n) % n
      up == (me + 1) % n
      block(j) == (me + j) % n
      word(j) == 1 + (j % RingDiff)
      data(j) == <<PutNbi(down, Dst(Offset(count, block(j))),
                          Dst(Offset(count, block(j))), count[block(j) + 1]), Fence>>
      turn(j) ==
        <<S(RingWindow(j),
            <<AtomicSet(down, word(j), count[block(j) + 1] + 1)>>),
          S(SetReturned, <<>>),
          S(Until(word(j), "NE", SYNC),
            <<Expect(word(j), count[block(j + 1) + 1] + 1), Clear(me, word(j))>>),
          S(Until(word(j), "EQ", SYNC),
            <<Inc(up, 0)>> \o (IF j < n - 2 THEN data(j + 1)
                                ELSE <<Add(me, 0, -(n - 1))>>))>>
  IN  PrefixSum(count, n, me, 1 + RingDiff)
        \o <<S(Now, <<Copy(Dst(Offset(count, me)), Src(0), count[me + 1])>> \o data(0))>>
        \o FlattenSeq([j \in 1..(n-1) |-> turn(j - 1)])

\* broadcast_size: the total goes down an 8-nomial tree from the last PE.
BroadcastSize(count, n, me, w) ==
  LET children == SetToSeq(TreeChildren("knomial", n, n - 1, 8, me))
      all == Offset(count, n)
      send == [i \in DOMAIN children |-> P(children[i], w, all + 1)]
  IN  <<IF me = n - 1 THEN S(Now, send \o <<Clear(me, w)>>)
        ELSE S(Until(w, "NE", SYNC),
               <<Expect(w, all + 1)>> \o send \o <<Clear(me, w)>>)>>

\* What PE pe has gathered before round r of Bruck's algorithm.
BruckHas(count, n, pe, r) ==
  IF 2^r >= n THEN Offset(count, n)
  ELSE IF pe + 2^r <= n THEN Total(count, pe, pe + 2^r - 1)
  ELSE Total(count, pe, n - 1) + Total(count, 0, pe + 2^r - n - 1)

\* Get len elements of pe: its first ones, behind the has elements of this PE,
FetchBehind(pe, has, len) == <<S(Now, <<Get(pe, Dst(has), Dst(0), len)>>)>>

\* or those that belong at at in dest, which ends at all.
FetchInPlace(pe, at, len, all) ==
  IF at + len <= all THEN <<S(Now, <<Get(pe, Dst(at), Dst(at), len)>>)>>
  ELSE <<S(Now, <<Get(pe, Dst(at), Dst(at), all - at)>>),
         S(Now, <<Get(pe, Dst(0), Dst(0), len - (all - at))>>)>>

\* A PE tells the one 2^r below it how much it has, and gets from the one 2^r
\* above it.
CollectBruckRounds(count, n, me, rotate) ==
  LET all == Offset(count, n)
      has(pe, r) == BruckHas(count, n, pe, r)
      from(r) == (me + 2^r) % n
      word(r) == 2 + PREFIX_SUM_SYNC_SIZE + r
      len(r) == IF has(me, r) + has(from(r), r) < all THEN has(from(r), r)
                ELSE all - has(me, r)
      own == IF rotate THEN 0 ELSE Offset(count, me)
      fetch(r) ==
        IF rotate THEN FetchBehind(from(r), has(me, r), len(r))
        ELSE LET end == own + has(me, r)
             IN  FetchInPlace(from(r), IF end < all THEN end ELSE end - all, len(r), all)
      turn(r) ==
        <<S(Now, <<AtomicSet(BruckPeer(n, me, r), word(r), has(me, r) + 1)>>),
          S(SetReturned, <<>>),
          S(Until(word(r), "NE", SYNC), <<Expect(word(r), has(from(r), r) + 1)>>)>>
        \o fetch(r)
        \o <<S(Now, <<Clear(me, word(r))>>), S(Until(word(r), "EQ", SYNC), <<>>)>>
  IN  PrefixSum(count, n, me, 2)
        \o BroadcastSize(count, n, me, 1)
        \o <<S(Now, <<Copy(Dst(own), Src(0), count[me + 1])>>)>>
        \o FlattenSeq([r \in 1..Rounds(n) |-> turn(r - 1)])

CollectBruck(count, n, me) ==
  CollectBruckRounds(count, n, me, TRUE)
    \o BarrierThen(<<RotateDest(Offset(count, n), Offset(count, me))>>)

CollectBruckNoRotate(count, n, me) ==
  CollectBruckRounds(count, n, me, FALSE) \o BarrierThen(<<>>)
=============================================================================
