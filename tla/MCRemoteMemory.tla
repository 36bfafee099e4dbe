--------------------------- MODULE MCRemoteMemory ---------------------------
(***************************************************************************)
(* Programs of two and three threads.  Words hold two bits.  d and e are a *)
(* buffer and f its flag, on one PE; g lies on another.  d is a 32-bit     *)
(* word and e the one behind it in the same 8 bytes.                       *)
(***************************************************************************)
EXTENDS AccessCalls

CONSTANTS t1, t2, t3, X, Y, Z, d, e, f, g

MCPEOf == [w \in {d, e, f, g} |-> IF w = g THEN 2 ELSE 1]

MCBeside == [w \in {d, e, f, g} |-> IF w = d THEN {e} ELSE {}]

\* The operations on words of two bits.
OfBits(hi, lo) == 2 * hi + lo
MCCombine(op, x, y) ==
  LET xh == x \div 2
      xl == x % 2
      yh == y \div 2
      yl == y % 2
  IN  CASE op = "add" -> (x + y) % 4
        [] op = "and" -> OfBits(xh * yh, xl * yl)
        [] op = "or"  -> OfBits(xh + yh - xh * yh, xl + yl - xl * yl)
        [] op = "xor" -> OfBits((xh + yh) % 2, (xl + yl) % 2)

MCOverwrite(x) == (x + 2) % 4

OnThreads(p, q, r) == (t1 :> p) @@ (t2 :> q) @@ (t3 :> r)

\* A buffer is filled and its flag raised ...
Data == (d :> 1) @@ (e :> 1)
Writers ==
  { DefaultPut(Data) \o FenceOn(X) \o OnDefault(AtomicSet(X, f, 1)),
    DefaultIPut(<<d, e>>, <<1, 1>>) \o FenceOn(X) \o AtomicInc(X, f),
    DefaultPutNbi(Data) \o FenceOn(X) \o DefaultP(f, 1),
    PutNbi(X, Data) \o QuietOn(X) \o AtomicAdd(Y, f, 1),
    PutNbi(Y, Data) \o QuietOn(Y) \o DefaultP(f, 1),
    PutNbi(X, d :> 1) \o PutSignal(X, e :> 1, f, 1, "add"),
    DefaultPutSignal(Data, f, 1, "swap"),
    PutSignalNbi(Y, Data, f, 1, "add") }

\* ... another thread reads the flag, then the buffer ...
Readers ==
  { SignalFetch(f) \o DefaultGet({d, e}),
    AtomicFetchNbi(Y, f) \o DefaultGetNbi({d, e}) \o QuietOn(X),
    DefaultG(f) \o DefaultIGet(<<e, d>>) }

\* ... while a third one is busy on one of their contexts, or on one without
\* ordered stores, or not at all.
Signals ==
  {OnThreads(p, q, <<>>) : p \in Writers, q \in Readers}
    \cup
  {OnThreads(DefaultPutSignalNbi(d :> 1, f, 1, "add"), SignalFetch(f) \o G(Y, d), r) :
     r \in {AtomicFetchAddNbi(X, g, 2) \o QuietOn(X),
           Put(Z, g :> 3) \o FenceOn(Z) \o AtomicFetchInc(Z, g) \o QuietOn(Z)}}

\* Atomics on a 32-bit word, and on the one that shares its 8 bytes.
Atomics ==
  { OnThreads(AtomicFetchOr(X, d, 1), AtomicFetchXorNbi(X, d, 3), AtomicInc(Y, e) \o P(Y, e, 3)),
    OnThreads(AtomicXor(Y, d, 3) \o AtomicFetchIncNbi(Y, d),
              AtomicOr(X, d, 2) \o AtomicSwapNbi(Y, d, 1),
              AtomicFetchAnd(X, e, 1)),
    OnThreads(AtomicCompareSwap(X, d, 0, 2), OnDefaultNbi(AtomicFetchOrNbi(X, d, 1)),
              AtomicCompareSwapNbi(X, e, 0, 2) \o AtomicFetch(X, e)),
    OnThreads(AtomicFetchAndNbi(X, f, 2), AtomicOr(X, f, 1), AtomicSet(X, f, 3)),
    OnThreads(AtomicAnd(Y, f, 2), AtomicFetchXor(X, f, 3), <<>>) }

MCPrograms == Signals \cup Atomics

\* What is not among them, and does not keep the properties: a bitwise and on a
\* 32-bit word without UCX support, which clears its neighbour ...
NarrowAnd == {OnThreads(AtomicAnd(X, d, 1), P(Y, e, 1) \o G(Y, e), <<>>)}
\* ... and a put with signal on a context without ordered stores.
UnorderedSignal == {OnThreads(PutSignal(Z, Data, f, 1, "add"), SignalFetch(f) \o Get(Y, {d, e}), <<>>)}

------------------------------------------------------------------------------
\* Whoever finds the flag raised finds the data in the buffer, however they were
\* written: put, fence, atomic; put, quiet, atomic on another context; put with
\* signal (api.h, shmem_put_signal: "Signal value to write after transfer").
SeenMeansThere ==
  (prog \in Signals \cup UnorderedSignal /\ got[<<t2, 1>>] # <<>> /\ got[<<t2, 1>>][f] # Zero)
     => \A m \in 2 .. MaxCalls : \A w \in {d, e} \cap DOMAIN got[<<t2, m>>] : got[<<t2, m>>][w] = 1
=============================================================================
