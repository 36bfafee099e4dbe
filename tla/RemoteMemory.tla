---------------------------- MODULE RemoteMemory ----------------------------
(***************************************************************************)
(* Puts, gets, atomics, put-with-signal, fence and quiet: the routines of  *)
(* shmemc/ucx/comms.c, called by several threads on several contexts.      *)
(*                                                                         *)
(* A context has a worker of its own; what is posted on it is in flight    *)
(* until it lands at the target, in any order a fence does not forbid.     *)
(* A put of several words lands word by word.  A blocking put returns when *)
(* its source has been read, a blocking fetch when the answer is there.    *)
(* Where UCX has no bitwise atomics (the build option native is FALSE),    *)
(* they are a loop of a get and a 64-bit compare-and-swap.                 *)
(***************************************************************************)
EXTENDS Integers, Sequences

CONSTANTS
  Thread,           \* the threads that call, of all PEs
  Ctx,              \* the contexts they call on
  NoStore,          \* those created with SHMEM_CTX_NOSTORE
  Word,             \* the words of symmetric memory, of all PEs
  PEOf,             \* the PE a word lies on
  Beside,           \* the words that share the 8 bytes beginning at a word
  Value,            \* what a word can hold
  Zero,             \* the value 0
  Combine(_, _, _), \* add, and, or, xor on the bits of a word
  Overwrite(_),     \* what the program leaves in a source it may use again
  Programs,         \* the programs: for each thread the calls it makes
  MaxCalls,         \* the longest of them
  None              \* not there yet

Arithmetic == {"add", "and", "or", "xor"}
CasOps == {"bitwise", "fetch_bitwise"}

\* What a buffer holds: a value for each of some words.
Buffer == UNION {[S -> Value] : S \in SUBSET Word}

\* The routines without an atomic, those with one.
Plain == {"put", "put_nbi", "get", "get_nbi", "fence", "quiet"}
WithWord == {"add", "fadd", "fadd_nbi", "swap", "cswap", "put_signal"} \cup CasOps

\* A call of a program: put and get name the words of its buffers; the signal
\* of a put is not in the buffer it tells of.  No call is a bitwise and on a word
\* that has another one behind it, which without native atomics it would clear.
IsCall(c) ==
  /\ c.op \in Plain \cup WithWord
  /\ c.ctx \in Ctx /\ c.put \in Buffer /\ c.get \subseteq Word
  /\ c.op \notin {"put", "put_nbi", "put_signal"} => DOMAIN c.put = {}
  /\ c.op \notin {"get", "get_nbi"} => c.get = {}
  /\ c.op \in Plain => c.word = None
  /\ c.op \in WithWord => c.word \in Word \ DOMAIN c.put /\ c.val \in Value /\ c.comp \in Value
  /\ c.op \in {"add", "fadd", "fadd_nbi"} => c.do = "add"
  /\ c.op \in {"swap", "cswap"} => c.do = c.op
  /\ c.op = "put_signal" => c.do \in {"swap", "add"}
  /\ c.op \in CasOps => c.do \in {"and", "or", "xor"} /\ (c.do = "and" => Beside[c.word] = {})

ASSUME MemoryAssumption ==
  /\ NoStore \subseteq Ctx
  /\ Beside \in [Word -> SUBSET Word]
  /\ \A w \in Word : \A b \in Beside[w] : b # w /\ PEOf[b] = PEOf[w]
  /\ Zero \in Value /\ None \notin Word /\ \A S \in SUBSET Word : None \notin [S -> Value]
  /\ \A f \in Arithmetic : \A a, b \in Value : Combine(f, a, b) \in Value
  /\ \A f \in {"add", "or", "xor"} : \A a \in Value : Combine(f, a, Zero) = a
  /\ \A a \in Value : Overwrite(a) \in Value
  /\ MaxCalls \in Nat

\* The programs are sequences of such calls.
ASSUME ProgramAssumption ==
  \A p \in Programs : \A t \in Thread :
    Len(p[t]) \in 0 .. MaxCalls /\ \A n \in 1 .. Len(p[t]) : IsCall(p[t][n])

VARIABLES
  native,   \* HAVE_UCP_BITWISE_ATOMICS
  prog,     \* the program that runs
  at,       \* the number of the call each thread is in or about to make
  stage,    \* how far it is in it
  orig,     \* rval_orig of the compare-and-swap loop
  got,      \* the result buffer of each call: the words whose answer has come
  mem,      \* the symmetric memory
  net,      \* the operations in flight
  epoch     \* the fences made on each context

vars == <<native, prog, at, stage, orig, got, mem, net, epoch>>

------------------------------------------------------------------------------
(* The calls and the operations they post.                                  *)

Call == Thread \X (1 .. MaxCalls)

\* The call a thread is in or about to make.
Now(t) == prog[t][at[t]]

\* The bytes a 64-bit access at w covers.
Cell(w) == {w} \cup Beside[w]

\* An operation of thread t's current call on the words of on.
Op(t, on, do, val, comp, fetch) ==
  [call |-> <<t, at[t]>>, ctx |-> Now(t).ctx, epoch |-> epoch[Now(t).ctx],
   on |-> on, do |-> do, val |-> val, comp |-> comp, fetch |-> fetch, answer |-> None]

OnePE(o) == {PEOf[w] : w \in o.on}

\* The puts of the words of call c; the source is read later.
Stores(t) == {Op(t, {w}, "store", None, None, FALSE) : w \in DOMAIN Now(t).put}

Loads(t) == {Op(t, {w}, "load", None, None, TRUE) : w \in Now(t).get}

\* helper_posted_amo and helper_fetching_amo_internal: the operand goes by value.
Atomic(t, fetch) ==
  LET c == Now(t)
  IN  Op(t, {c.word}, c.do, [w \in {c.word} |-> c.val], [w \in {c.word} |-> c.comp], fetch)

Mine(t) == {o \in net : o.call = <<t, at[t]>>}

Returned(t) ==
  /\ at' = [at EXCEPT ![t] = @ + 1]
  /\ stage' = [stage EXCEPT ![t] = "idle"]

------------------------------------------------------------------------------
(* The routines.                                                            *)

Ready(t, ops) ==
  /\ stage[t] = "idle"
  /\ at[t] <= Len(prog[t])
  /\ Now(t).op \in ops

\* The atomics: those that post and return, and those that wait for the answer.
\* Bitwise ones go to UCX only where it has them.
Add(t) == Ready(t, {"add"}) /\ net' = net \cup {Atomic(t, FALSE)}
NativeBitwise(t) == Ready(t, {"bitwise"}) /\ native /\ net' = net \cup {Atomic(t, FALSE)}
FetchAddNbi(t) == Ready(t, {"fadd_nbi"}) /\ net' = net \cup {Atomic(t, TRUE)}
FetchAdd(t) == Ready(t, {"fadd"}) /\ net' = net \cup {Atomic(t, TRUE)}
Swaps(t) == Ready(t, {"swap", "cswap"}) /\ net' = net \cup {Atomic(t, TRUE)}
NativeFetch(t) == Ready(t, {"fetch_bitwise"}) /\ native /\ net' = net \cup {Atomic(t, TRUE)}

\* Routines that post and return.
PostOnly(t) ==
  /\ \/ Ready(t, {"put_nbi"}) /\ net' = net \cup Stores(t)
     \/ Ready(t, {"get_nbi"}) /\ net' = net \cup Loads(t)
     \/ Add(t) \/ NativeBitwise(t) \/ FetchAddNbi(t)
  /\ Returned(t)
  /\ UNCHANGED <<native, prog, orig, got, mem, epoch>>

\* Routines that post and wait for the request.
PostAndWait(t) ==
  /\ \/ Ready(t, {"put", "put_signal"}) /\ net' = net \cup Stores(t)
     \/ Ready(t, {"get"})  /\ net' = net \cup Loads(t)
     \/ FetchAdd(t) \/ Swaps(t) \/ NativeFetch(t)
  /\ stage' = [stage EXCEPT ![t] = "posted"]
  /\ UNCHANGED <<native, prog, at, orig, got, mem, epoch>>

\* The request of a put is complete once the source has been read; that of a
\* get or of a fetching atomic once the answer is in the result buffer.
Complete(t) == \A o \in Mine(t) : ~ o.fetch /\ o.val # None

Return(t) ==
  /\ stage[t] = "posted"
  /\ Now(t).op # "put_signal"
  /\ Complete(t)
  /\ Returned(t)
  /\ UNCHANGED <<native, prog, orig, got, mem, net, epoch>>

\* shmemc_ctx_fence: nothing on a context without ordered stores.
Fenced(c) == IF c \in NoStore THEN epoch ELSE [epoch EXCEPT ![c] = @ + 1]

Fence(t) ==
  /\ Ready(t, {"fence"})
  /\ epoch' = Fenced(Now(t).ctx)
  /\ Returned(t)
  /\ UNCHANGED <<native, prog, orig, got, mem, net>>

\* shmemc_ctx_quiet flushes the worker; nothing on such a context either.
Quiet(t) ==
  /\ Ready(t, {"quiet"})
  /\ Now(t).ctx \in NoStore \/ \A o \in net : o.ctx # Now(t).ctx
  /\ Returned(t)
  /\ UNCHANGED <<native, prog, orig, got, mem, net, epoch>>

Signal_NoFence(t) ==
  LET c == Now(t) IN
  /\ stage[t] = "posted"
  /\ c.op = "put_signal"
  /\ Complete(t)
  /\ net' = net \cup {Atomic(t, c.do = "swap")}
  /\ IF c.do = "swap" THEN stage' = [stage EXCEPT ![t] = "signal"] /\ UNCHANGED at
                      ELSE Returned(t)
  /\ UNCHANGED <<native, prog, orig, got, mem, epoch>>

\* put_signal and put_signal_nbi: the put, a fence, then the signal, which is
\* set by a swap the caller waits for, or added by a posted atomic.
Signal(t) ==
  LET c == Now(t) IN
  /\ stage[t] = "posted"
  /\ c.op = "put_signal"
  /\ Complete(t)
  /\ epoch' = Fenced(c.ctx)
  /\ net' = net \cup {[Atomic(t, c.do = "swap") EXCEPT !.epoch = epoch'[c.ctx]]}
  /\ IF c.do = "swap" THEN stage' = [stage EXCEPT ![t] = "signal"] /\ UNCHANGED at
                      ELSE Returned(t)
  /\ UNCHANGED <<native, prog, orig, got, mem>>

Signalled(t) ==
  /\ stage[t] = "signal"
  /\ Complete(t)
  /\ Returned(t)
  /\ UNCHANGED <<native, prog, orig, got, mem, net, epoch>>

------------------------------------------------------------------------------
(* Bitwise atomics without UCX support: fetch 8 bytes, combine them with    *)
(* the operand, which is zero beyond the width of its type, and swap if     *)
(* they have not changed; else again.                                       *)

CasLoad(t) ==
  /\ Ready(t, CasOps) /\ ~ native
  /\ net' = net \cup {Op(t, Cell(Now(t).word), "load", None, None, TRUE)}
  /\ stage' = [stage EXCEPT ![t] = "load"]
  /\ UNCHANGED <<native, prog, at, orig, got, mem, epoch>>

Combined(c, old) ==
  [w \in DOMAIN old |-> Combine(c.do, old[w], IF w = c.word THEN c.val ELSE Zero)]

CasSwap(t) ==
  LET old == got[<<t, at[t]>>] IN
  /\ stage[t] = "load" /\ Mine(t) = {}
  /\ orig' = [orig EXCEPT ![t] = old]
  /\ net' = net \cup {Op(t, DOMAIN old, "cswap", Combined(Now(t), old), old, TRUE)}
  /\ stage' = [stage EXCEPT ![t] = "cas"]
  /\ UNCHANGED <<native, prog, at, got, mem, epoch>>

CasRetry_NoReload(t) ==
  /\ stage[t] = "cas" /\ Mine(t) = {}
  /\ got[<<t, at[t]>>] # orig[t]
  /\ net' = net \cup {Op(t, Cell(Now(t).word), "cswap", Combined(Now(t), orig[t]), orig[t], TRUE)}
  /\ UNCHANGED <<native, prog, at, stage, orig, got, mem, epoch>>

CasRetry(t) ==
  /\ stage[t] = "cas" /\ Mine(t) = {}
  /\ got[<<t, at[t]>>] # orig[t]
  /\ net' = net \cup {Op(t, Cell(Now(t).word), "load", None, None, TRUE)}
  /\ stage' = [stage EXCEPT ![t] = "load"]
  /\ UNCHANGED <<native, prog, at, orig, got, mem, epoch>>

CasReturn_NoCompare(t) ==
  /\ stage[t] = "cas" /\ Mine(t) = {}
  /\ Returned(t)
  /\ UNCHANGED <<native, prog, orig, got, mem, net, epoch>>

CasReturn(t) ==
  /\ stage[t] = "cas" /\ Mine(t) = {}
  /\ got[<<t, at[t]>>] = orig[t]
  /\ Returned(t)
  /\ UNCHANGED <<native, prog, orig, got, mem, net, epoch>>

------------------------------------------------------------------------------
(* The transport.                                                           *)

\* The program uses a source buffer again as soon as it may: after a blocking
\* put has returned, after a quiet for the others, unless quiet does nothing there.
GivenBack(o) ==
  LET t == o.call[1]
      n == o.call[2]
  IN  /\ n < at[t]
      /\ \/ prog[t][n].op # "put_nbi"
         \/ o.ctx \notin NoStore
            /\ \E m \in n + 1 .. at[t] - 1 : prog[t][m].op = "quiet" /\ prog[t][m].ctx = o.ctx

ReadSource(o) ==
  LET v == prog[o.call[1]][o.call[2]].put
  IN  /\ o.do = "store" /\ o.val = None
      /\ net' = (net \ {o}) \cup
                {[o EXCEPT !.val = [w \in o.on |-> IF GivenBack(o) THEN Overwrite(v[w]) ELSE v[w]]]}
      /\ UNCHANGED <<native, prog, at, stage, orig, got, mem, epoch>>

\* A fence keeps an operation behind the earlier ones to the same PE.
MayLand(o) ==
  /\ o.answer = None
  /\ o.do = "store" => o.val # None
  /\ \A p \in net : (p.answer = None /\ p.ctx = o.ctx /\ OnePE(p) = OnePE(o)) => p.epoch >= o.epoch

After(o, old) ==
  CASE o.do = "load"              -> old
    [] o.do \in {"store", "swap"} -> o.val
    [] o.do = "cswap"             -> IF old = o.comp THEN o.val ELSE old
    [] OTHER                      -> [w \in o.on |-> Combine(o.do, old[w], o.val[w])]

Land(o) ==
  LET old == [w \in o.on |-> mem[w]] IN
  /\ MayLand(o)
  /\ mem' = [w \in Word |-> IF w \in o.on THEN After(o, old)[w] ELSE mem[w]]
  /\ net' = (net \ {o}) \cup (IF o.fetch THEN {[o EXCEPT !.answer = old]} ELSE {})
  /\ UNCHANGED <<native, prog, at, stage, orig, got, epoch>>

Deliver(o) ==
  /\ o.answer # None
  /\ net' = net \ {o}
  /\ got' = [got EXCEPT ![o.call] =
              [w \in DOMAIN @ \cup o.on |-> IF w \in o.on THEN o.answer[w] ELSE @[w]]]
  /\ UNCHANGED <<native, prog, at, stage, orig, mem, epoch>>

------------------------------------------------------------------------------
Init ==
  /\ native \in BOOLEAN
  /\ prog \in Programs
  /\ at = [t \in Thread |-> 1]
  /\ stage = [t \in Thread |-> "idle"]
  /\ orig = [t \in Thread |-> None]
  /\ got = [c \in Call |-> [w \in {} |-> Zero]]
  /\ mem = [w \in Word |-> Zero]
  /\ net = {}
  /\ epoch = [c \in Ctx |-> 0]

Step(t) ==
  \/ PostOnly(t) \/ PostAndWait(t) \/ Return(t) \/ Fence(t) \/ Quiet(t)
  \/ Signal(t) \/ Signalled(t)
  \/ CasLoad(t) \/ CasSwap(t) \/ CasRetry(t) \/ CasReturn(t)

Transport == \E o \in net : ReadSource(o) \/ Land(o) \/ Deliver(o)

Finished == (\A t \in Thread : at[t] > Len(prog[t])) /\ net = {} /\ UNCHANGED vars

Next == (\E t \in Thread : Step(t)) \/ Transport \/ Finished

\* A thread runs on; the transport completes what was posted.
Fairness == (\A t \in Thread : WF_vars(Step(t))) /\ WF_vars(Transport)

Spec == Init /\ [][Next]_vars /\ Fairness

------------------------------------------------------------------------------
(* Properties.                                                              *)

\* An operation in flight.
Operation ==
  [call : Call, ctx : Ctx, epoch : Nat, on : SUBSET Word,
   do : {"load", "store", "swap", "cswap", "add", "and", "or", "xor"},
   val : Buffer \cup {None}, comp : Buffer \cup {None}, fetch : BOOLEAN, answer : Buffer \cup {None}]

\* The type invariant.
TypeOK ==
  /\ native \in BOOLEAN /\ prog \in Programs
  /\ at \in [Thread -> 1 .. MaxCalls + 1]
  /\ stage \in [Thread -> {"idle", "posted", "signal", "load", "cas"}]
  /\ orig \in [Thread -> Buffer \cup {None}]
  /\ got \in [Call -> Buffer]
  /\ mem \in [Word -> Value]
  /\ epoch \in [Ctx -> Nat]
  /\ net \subseteq Operation

\* The compare-and-swap loop of thread t has swapped.
Swapped(t) ==
  /\ stage[t] = "cas"
  /\ IF Mine(t) = {} THEN got[<<t, at[t]>>] = orig[t]
                     ELSE \E o \in Mine(t) : o.answer = orig[t]

\* Call c is a loop.
Looped(c) == ~ native /\ c[2] <= Len(prog[c[1]]) /\ prog[c[1]][c[2]].op \in CasOps

\* The words call c accesses: what it puts or gets, and the word of its atomic.
WordsOf(c) == DOMAIN c.put \cup c.get \cup {w \in Word : w = c.word}

\* The operations of the abstract memory: what a call does to a word, ...
Fetching(c) ==
  \/ c.op \in {"fadd", "fadd_nbi", "swap", "cswap", "fetch_bitwise"}
  \/ c.op = "put_signal" /\ c.do = "swap"

Want(x) ==
  LET c == prog[x[1][1]][x[1][2]]
      is(do, val, comp, fetch) ==
        [call |-> x[1], word |-> x[2], do |-> do, val |-> val, comp |-> comp, fetch |-> fetch]
  IN  IF x[2] \in DOMAIN c.put THEN is("store", c.put[x[2]], Zero, FALSE)
      ELSE IF x[2] \in c.get THEN is("load", Zero, Zero, TRUE)
      ELSE is(c.do, c.val, c.comp, Fetching(c))

\* ... begun by a call that has come so far, ...
Begun ==
  {x \in Call \X Word :
     LET t == x[1][1]
         n == x[1][2]
     IN  /\ n <= Len(prog[t])
         /\ x[2] \in WordsOf(prog[t][n])
         /\ \/ n < at[t]
            \/ /\ n = at[t] /\ stage[t] # "idle"
               /\ prog[t][n].op = "put_signal" /\ stage[t] = "posted" => x[2] \in DOMAIN prog[t][n].put}

\* ... and open: in flight and not landed, or of a loop that has not swapped.
Pending ==
  {x \in Call \X Word :
     LET t == x[1][1]
     IN  IF Looped(x[1])
         THEN x[1][2] = at[t] /\ stage[t] \in {"load", "cas"} /\ ~ Swapped(t) /\ x[2] = Now(t).word
         ELSE \E o \in net : o.call = x[1] /\ x[2] \in o.on /\ o.answer = None}

OpenOps == {Want(x) : x \in Pending}

Landed(x) == {o \in net : o.call = x[1] /\ x[2] \in o.on /\ o.answer # None}

\* What a call has found in a word, from the moment it took effect.
Found(x) ==
  LET c == x[1]
      w == x[2]
      t == c[1]
      n == c[2]
  IN  IF Looped(c)
      THEN IF w # prog[t][n].word \/ prog[t][n].op = "bitwise" THEN None
           ELSE IF n < at[t] THEN got[c][w]
           ELSE IF n = at[t] /\ Swapped(t) THEN orig[t][w] ELSE None
      ELSE IF w \in DOMAIN got[c] THEN got[c][w]
      ELSE IF Landed(x) # {} THEN (CHOOSE o \in Landed(x) : TRUE).answer[w] ELSE None

Answers == [x \in Call \X Word |-> Found(x)]

M == INSTANCE MemorySpec WITH
       begun <- Begun, open <- OpenOps, answer <- Answers

\* Every word a call puts, and every atomic, also one made of a get and a
\* compare-and-swap that others interrupt, takes effect once, with the operand
\* the program gave, on its own word only, and answers with what it found
\* (comms.c, HELPER_BITWISE_FETCH_ATOMIC, shmemc_ctx_put).
ImplementsMemory == M!Spec

\* Every call returns: no loop goes on for ever, no request is waited for in
\* vain (comms.c:571, while (ret != rval_orig)).
EveryCallReturns == \A t \in Thread : <>(at[t] > Len(prog[t]))
=============================================================================
