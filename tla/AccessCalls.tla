----------------------------- MODULE AccessCalls -----------------------------
(***************************************************************************)
(* The routines of the interface, each as the calls of shmemc/ucx/comms.c  *)
(* it makes, in order: api/rma, api/atomics, api/fence.c, api/quiet.c.     *)
(***************************************************************************)
EXTENDS RemoteMemory, SequencesExt

CONSTANTS
  Default,  \* SHMEM_CTX_DEFAULT
  One       \* the value 1

NoWord == None

\* A call; put and get name the words of its buffers, the rest its atomic.
Make(op, ctx, put, get, word, do, val, comp) ==
  [op |-> op, ctx |-> ctx, put |-> put, get |-> get,
   word |-> word, do |-> do, val |-> val, comp |-> comp]

Amo(op, ctx, w, do, v) == <<Make(op, ctx, <<>>, {}, w, do, v, Zero)>>

\* Puts and gets: of several words, of one word, and strided: one blocking put
\* or get for each element.
Put(ctx, values) == <<Make("put", ctx, values, {}, NoWord, "none", Zero, Zero)>>
PutNbi(ctx, values) == <<Make("put_nbi", ctx, values, {}, NoWord, "none", Zero, Zero)>>
P(ctx, w, v) == Put(ctx, w :> v)
IPut(ctx, words, values) == FlattenSeq([i \in DOMAIN words |-> Put(ctx, words[i] :> values[i])])

Get(ctx, words) == <<Make("get", ctx, <<>>, words, NoWord, "none", Zero, Zero)>>
GetNbi(ctx, words) == <<Make("get_nbi", ctx, <<>>, words, NoWord, "none", Zero, Zero)>>
G(ctx, w) == Get(ctx, {w})
IGet(ctx, words) == FlattenSeq([i \in DOMAIN words |-> Get(ctx, {words[i]})])

\* The forms without a context use the default one.
DefaultPut(values) == Put(Default, values)
DefaultPutNbi(values) == PutNbi(Default, values)
DefaultIPut(words, values) == IPut(Default, words, values)
DefaultP(w, v) == P(Default, w, v)
DefaultGet(words) == Get(Default, words)
DefaultGetNbi(words) == GetNbi(Default, words)
DefaultIGet(words) == IGet(Default, words)
DefaultG(w) == G(Default, w)

\* Arithmetic atomics; of the non-blocking forms only fetch_add_nbi returns
\* before its answer.
AtomicAdd(ctx, w, v) == Amo("add", ctx, w, "add", v)
AtomicInc(ctx, w) == AtomicAdd(ctx, w, One)
AtomicFetchAdd(ctx, w, v) == Amo("fadd", ctx, w, "add", v)
AtomicFetchAddNbi(ctx, w, v) == Amo("fadd_nbi", ctx, w, "add", v)
AtomicFetchInc(ctx, w) == AtomicFetchAdd(ctx, w, One)
AtomicFetchIncNbi(ctx, w) == AtomicFetchInc(ctx, w)

\* A fetch adds 0, a set is a swap whose answer is thrown away.
FetchByAdding(ctx, w) == AtomicFetchAdd(ctx, w, Zero)
AtomicFetch(ctx, w) == FetchByAdding(ctx, w)
AtomicFetchNbi(ctx, w) == AtomicFetch(ctx, w)
AtomicSwap(ctx, w, v) == Amo("swap", ctx, w, "swap", v)
AtomicSwapNbi(ctx, w, v) == AtomicSwap(ctx, w, v)
AtomicSet(ctx, w, v) == AtomicSwap(ctx, w, v)
AtomicCompareSwap(ctx, w, c, v) == <<Make("cswap", ctx, <<>>, {}, w, "cswap", v, c)>>
AtomicCompareSwapNbi(ctx, w, c, v) == AtomicCompareSwap(ctx, w, c, v)

\* Bitwise atomics, f being and, or, xor; no non-blocking form returns early.
CtxBitwise(f, ctx, w, v) == Amo("bitwise", ctx, w, f, v)
CtxFetchBitwise(f, ctx, w, v) == Amo("fetch_bitwise", ctx, w, f, v)

AtomicBitwise(f, ctx, w, v) == CtxBitwise(f, ctx, w, v)
AtomicAnd(ctx, w, v) == CtxBitwise("and", ctx, w, v)
AtomicOr(ctx, w, v) == AtomicBitwise("or", ctx, w, v)
AtomicXor(ctx, w, v) == AtomicBitwise("xor", ctx, w, v)

AtomicFetchBitwise(f, ctx, w, v) == CtxFetchBitwise(f, ctx, w, v)
AtomicFetchAnd(ctx, w, v) == AtomicFetchBitwise("and", ctx, w, v)
AtomicFetchOr(ctx, w, v) == AtomicFetchBitwise("or", ctx, w, v)
AtomicFetchXor(ctx, w, v) == AtomicFetchBitwise("xor", ctx, w, v)

AtomicFetchBitwiseNbi(f, ctx, w, v) == CtxFetchBitwise(f, ctx, w, v)
AtomicFetchAndNbi(ctx, w, v) == AtomicFetchBitwiseNbi("and", ctx, w, v)
AtomicFetchOrNbi(ctx, w, v) == AtomicFetchBitwiseNbi("or", ctx, w, v)
AtomicFetchXorNbi(ctx, w, v) == AtomicFetchBitwiseNbi("xor", ctx, w, v)

\* The atomics without a context are those above on the default one.
OnDefault(calls) == [k \in DOMAIN calls |-> [calls[k] EXCEPT !.ctx = Default]]
OnDefaultNbi(calls) == OnDefault(calls)

\* Put with signal; how is "swap" for SHMEM_SIGNAL_SET, "add" for SHMEM_SIGNAL_ADD.
PutSignal(ctx, values, sig, v, how) == <<Make("put_signal", ctx, values, {}, sig, how, v, Zero)>>
PutSignalNbi(ctx, values, sig, v, how) == PutSignal(ctx, values, sig, v, how)
DefaultPutSignal(values, sig, v, how) == PutSignal(Default, values, sig, v, how)
DefaultPutSignalNbi(values, sig, v, how) == PutSignalNbi(Default, values, sig, v, how)
SignalFetch(sig) == AtomicFetch(Default, sig)

FenceOn(ctx) == <<Make("fence", ctx, <<>>, {}, NoWord, "none", Zero, Zero)>>
QuietOn(ctx) == <<Make("quiet", ctx, <<>>, {}, NoWord, "none", Zero, Zero)>>
=============================================================================
