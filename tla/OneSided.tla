---------------------------- MODULE OneSided ----------------------------
(***************************************************************************)
(* The steps, conditions and effects from which the collective routines of *)
(* shcoll/src are put together as programs for Collectives.                *)
(***************************************************************************)
EXTENDS Integers, Sequences, FiniteSets

S(await, do) == [await |-> await, do |-> do]

Now == [on |-> "now"]
Quiet == [on |-> "quiet"]
Together == [on |-> "together"]
World == [on |-> "world"]
SetReturned == [on |-> "returned"]
Until(w, cmp, v) == [on |-> "word", word |-> w, cmp |-> cmp, val |-> v]

Src(i) == <<"source", i>>
Dst(i) == <<"dest", i>>
Tmp(i) == <<"tmp", i>>

PutNbi(pe, place, source, len) ==
  [op |-> "nbi", to |-> pe, place |-> place, source |-> source, len |-> len]
Put(pe, place, source, len) ==
  [op |-> "put", to |-> pe, place |-> place, source |-> source, len |-> len]
Get(pe, place, source, len) ==
  [op |-> "get", of |-> pe, place |-> place, source |-> source, len |-> len]
Copy(place, source, len) ==
  [op |-> "copy", place |-> place, source |-> source, len |-> len]
ReduceTo(place, a, b, len) ==
  [op |-> "reduce", place |-> place, a |-> a, b |-> b, len |-> len]
RotateDest(len, dist) ==
  [op |-> "rotate", place |-> Dst(0), len |-> len, dist |-> dist]
P(pe, w, v) == [op |-> "store", to |-> pe, word |-> w, val |-> v]
Add(pe, w, v) == [op |-> "add", to |-> pe, word |-> w, val |-> v]
Inc(pe, w) == Add(pe, w, 1)
AtomicSet(pe, w, v) == [op |-> "set", to |-> pe, word |-> w, val |-> v]
\* The loop of the binomial reduce: a child has reported that was not there
\* before; of those, the data of the lowest is fetched and reduced.
NewChild(w) == [on |-> "child", word |-> w]
TakeChild(w, bits, len) == [op |-> "take", word |-> w, bits |-> bits, len |-> len]
ForgetChildren == [op |-> "forget"]
Expect(w, v) == [op |-> "expect", word |-> w, val |-> v]
Fence == [op |-> "fence"]
Arrive == [op |-> "arrive"]
ResetPsync == [op |-> "reset"]
NextSource == [op |-> "supply"]

SYNC == 0      \* SHCOLL_SYNC_VALUE
Clear(me, w) == P(me, w, SYNC)

\* shmem_putmem_signal_nb
PutSignalNb(pe, place, source, len, w, v) ==
  <<PutNbi(pe, place, source, len), Fence, P(pe, w, v)>>

\* A barrier as its callers see it (BarrierSpec), and a sync, which does not
\* wait for what was posted before it.
BarrierThen(do) == <<S(Quiet, <<Arrive>>), S(Together, do)>>
WorldBarrierThen(do) == <<S(Quiet, <<Arrive>>), S(World, do)>>
SyncThen(do) == <<S(Now, <<Arrive>>), S(Together, do)>>

Rounds(n) == Cardinality({r \in 0..10 : 2^r < n})

\* In every round a PE sends, waits for its word of that round, and clears it.
Exchange(me, sends, before, after) ==
  LET next(r) == IF r <= Len(sends) THEN sends[r] ELSE after
  IN  <<S(Now, before \o next(1))>> \o
      [r \in DOMAIN sends |->
         S(Until(r - 1, "NE", SYNC), <<Clear(me, r - 1)>> \o next(r + 1))]
=============================================================================
