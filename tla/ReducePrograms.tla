--------------------------- MODULE ReducePrograms ---------------------------
(***************************************************************************)
(* The reductions of shcoll/src/reduce.c: what PE number me of n runs to   *)
(* reduce len elements.  Three of them work on a set of PEs whose number   *)
(* is a power of two (the p2s); each other PE leaves its part to the PE    *)
(* before it.                                                              *)
(***************************************************************************)
EXTENDS BroadcastPrograms
LOCAL INSTANCE SequencesExt
LOCAL INSTANCE Bitwise

ReduceLinear(n, me, len) ==
  BarrierThen(IF me = 0 THEN <<Copy(Tmp(0), Src(0), len)>> ELSE <<>>)
    \o (IF me = 0
          THEN [i \in 1..(n-1) |->
                  S(Now, <<Get(i, Dst(0), Src(0), len),
                           ReduceTo(Tmp(0), Tmp(0), Dst(0), len)>>)]
               \o <<S(Now, <<Copy(Dst(0), Tmp(0), len)>>)>>
          ELSE <<>>)
    \o BarrierThen(<<>>)
    \o BroadcastLinear(0, me, Dst(0), len)

\* The children that have reported are bits of word 0; the PE takes the lowest
\* one it has not taken yet ("take" of Collectives).
ReduceBinomial(n, me, len) ==
  LET low == LowestBit(me)
      bits == {b \in {2^k : k \in 0..10} : (me # 0 => b < low) /\ me + b < n}
  IN  <<S(Now, <<Copy(Dst(0), Src(0), len)>>)>>
        \o [i \in 1..Cardinality(bits) |-> S(NewChild(0), <<TakeChild(0, bits, len)>>)]
        \o <<S(Now, (IF me = 0 THEN <<>> ELSE <<Add(me - low, 0, low)>>)
                     \o <<ForgetChildren, Clear(me, 0)>>)>>
        \o BarrierThen(<<>>)
        \o BroadcastBinomialTree(n, 0, me, Dst(0), len, 2)

-----------------------------------------------------------------------------
(* The power-of-two set.                                                   *)

P2sLog(n) == CHOOSE k \in 0..10 : 2^k <= n /\ n < 2^(k+1)
P2sSize(n) == 2^P2sLog(n)

\* The index of a member in the active set, and back; -1 for the others.
P2sIndex(n, q) == (q * n + P2sSize(n) - 1) \div P2sSize(n)
MeP2s(n, me) ==
  LET q == (me * P2sSize(n)) \div n
  IN  IF P2sIndex(n, q) = me THEN q ELSE -1

\* Whether the next PE leaves its part to this one.
HasExtra(n, me) ==
  MeP2s(n, me) # -1 /\ ((me + 1) * P2sSize(n)) \div n = MeP2s(n, me)

ReduceRecDbl(n, me, len) ==
  LET q == MeP2s(n, me)
      peer(r) == P2sIndex(n, q ^^ (2^r))
      begin == IF HasExtra(n, me)
               THEN <<S(Until(0, "NE", SYNC), <<Clear(me, 0)>>),
                      S(Now, <<Get(me + 1, Dst(0), Src(0), len),
                               ReduceTo(Tmp(0), Dst(0), Src(0), len)>>)>>
               ELSE <<S(Now, <<Copy(Tmp(0), Src(0), len)>>)>>
      turn(r) ==
        <<S(Now, <<P(peer(r), r + 1, SYNC + 1)>>),
          S(Until(r + 1, "GT", SYNC),
            <<Put(peer(r), Dst(0), Tmp(0), len), Fence, P(peer(r), r + 1, SYNC + 2)>>),
          S(Until(r + 1, "GT", SYNC + 1),
            <<ReduceTo(Tmp(0), Tmp(0), Dst(0), len), Clear(me, r + 1)>>)>>
      end == <<S(Now, <<Copy(Dst(0), Tmp(0), len)>> \o
                      (IF HasExtra(n, me)
                         THEN <<Put(me + 1, Dst(0), Dst(0), len), Fence,
                                P(me + 1, 0, SYNC + 1)>> ELSE <<>>))>>
  IN  IF q = -1
        THEN <<S(Now, <<P(me - 1, 0, SYNC + 1)>>),
               S(Until(0, "NE", SYNC), <<Clear(me, 0)>>)>>
        ELSE begin \o FlattenSeq([r \in 1..P2sLog(n) |-> turn(r - 1)]) \o end

-----------------------------------------------------------------------------
(* Rabenseifner: the two PEs of a pair reduce half of the elements each,   *)
(* the p2s reduces by halves, then collects.                               *)

\* The first of the p2s blocks left to member q after k halvings; after all
\* of them this is reverse_bits(q).
HalvedFrom(n, q, k) ==
  LET from[j \in 0..k] ==
        IF j = 0 THEN 0
        ELSE from[j-1] + ((q \div 2^(j-1)) % 2) * (P2sSize(n) \div 2^j)
  IN  from[k]

BlockEdge(n, len, b) == (b * len) \div P2sSize(n)

\* The pair before the halving.  CollectWord is pSync + (1 + 32).
CollectWord == 33

PairBegin(n, me, len) ==
  LET half == len \div 2
  IN  IF MeP2s(n, me) = -1
      THEN <<S(Now, <<P(me - 1, 0, SYNC + 1)>>),
             S(Until(0, "NE", SYNC), <<>>),
             S(Now, <<Get(me - 1, Dst(half), Src(half), len - half),
                      ReduceTo(Dst(half), Dst(half), Src(half), len - half),
                      Put(me - 1, Dst(half), Dst(half), len - half), Fence,
                      P(me - 1, 0, SYNC + 2)>>)>>
      ELSE IF HasExtra(n, me)
      THEN <<S(Now, <<P(me + 1, 0, SYNC + 1)>>),
             S(Until(0, "GT", SYNC), <<>>),
             S(Now, <<Get(me + 1, Dst(0), Src(0), half),
                      ReduceTo(Dst(0), Dst(0), Src(0), half)>>),
             S(Until(0, "GT", SYNC + 1), <<Clear(me, 0)>>)>>
      ELSE <<S(Now, <<Copy(Dst(0), Src(0), len)>>)>>

PairEnd(n, me, len) ==
  IF MeP2s(n, me) = -1
  THEN <<S(Until(1, "GE", SYNC + 1), <<Clear(me, 1)>>)>>
  ELSE IF HasExtra(n, me)
  THEN <<S(Now, <<Put(me + 1, Dst(0), Dst(0), len), Fence,
                  P(me + 1, 1, SYNC + 1)>>)>>
  ELSE <<>>

Halving(n, me, len) ==
  LET q == MeP2s(n, me)
      turn(r) ==
        LET w == r + 1
            peer == P2sIndex(n, q ^^ (2^r))
            first == HalvedFrom(n, q, r + 1)
            at == BlockEdge(n, len, first)
            size == BlockEdge(n, len, first + P2sSize(n) \div 2^(r+1)) - at
        IN  <<S(Now, <<P(peer, w, SYNC + 1)>>),
              S(Until(w, "GE", SYNC + 1), <<>>),
              S(Now, <<Get(peer, Tmp(0), Dst(at), size), Fence, P(peer, w, SYNC + 2),
                       ReduceTo(Dst(at), Dst(at), Tmp(0), size)>>),
              S(Until(w, "GE", SYNC + 2), <<Clear(me, w)>>)>>
  IN  FlattenSeq([r \in 1..P2sLog(n) |-> turn(r - 1)])

\* The p2s collects its blocks by doublings, or by handing them round a ring.
DoublingCollect(n, me, len) ==
  LET q == MeP2s(n, me)
      turn(k) ==
        LET d == P2sSize(n) \div 2^(k+1)
            peer == P2sIndex(n, q ^^ d)
            first == HalvedFrom(n, q, P2sLog(n) - k)
            at == BlockEdge(n, len, first)
            size == BlockEdge(n, len, first + 2^k) - at
        IN  <<S(Now, <<Put(peer, Dst(at), Dst(at), size), Fence,
                       P(peer, CollectWord + k, SYNC + 1)>>),
              S(Until(CollectWord + k, "GE", SYNC + 1), <<Clear(me, CollectWord + k)>>)>>
  IN  FlattenSeq([k \in 1..P2sLog(n) |-> turn(k - 1)])

RingCollect(n, me, len) ==
  LET q == MeP2s(n, me)
      size == P2sSize(n)
      next == P2sIndex(n, (q + 1) % size)
      send(i) ==
        LET b == HalvedFrom(n, (q - i + size) % size, P2sLog(n))
            at == BlockEdge(n, len, b)
        IN  <<S(Now, <<PutNbi(next, Dst(at), Dst(at), BlockEdge(n, len, b + 1) - at),
                       Fence, P(next, CollectWord, SYNC + i + 1)>>),
              S(Until(CollectWord, "GT", SYNC + i), <<>>)>>
  IN  FlattenSeq([i \in 1..size |-> send(i - 1)])
        \o <<S(Now, <<Clear(me, CollectWord)>>)>>

ReduceRabenseifner(n, me, len) ==
  PairBegin(n, me, len)
    \o (IF MeP2s(n, me) = -1 THEN <<>>
        ELSE Halving(n, me, len) \o DoublingCollect(n, me, len))
    \o PairEnd(n, me, len)

ReduceRabenseifner2(n, me, len) ==
  PairBegin(n, me, len)
    \o (IF MeP2s(n, me) = -1 THEN <<>>
        ELSE Halving(n, me, len) \o RingCollect(n, me, len))
    \o PairEnd(n, me, len)
=============================================================================
