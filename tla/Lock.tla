-------------------------------- MODULE Lock --------------------------------
(***************************************************************************)
(* The distributed lock of api/lock.c: shmem_set_lock, shmem_test_lock and *)
(* shmem_clear_lock on one lock variable.                                  *)
(*                                                                         *)
(* The long that the user declares holds two pairs of shorts: the lock     *)
(* word, of which only the copy on the owner PE counts, and the node of    *)
(* each PE.  The processes are the threads that call the library; several  *)
(* may run on one PE and then share its node.  A compare-and-swap takes    *)
(* effect at the owner in one step; puts land some time after their issue. *)
(***************************************************************************)
EXTENDS Integers

CONSTANTS
  Proc,          \* the calling threads
  PeOf,          \* [Proc -> Nat]: the PE each runs on
  NPes,          \* shmemc_n_pes()
  Address,       \* [Pes -> Nat]: where each PE has the lock
  Aligned,       \* ENABLE_ALIGNED_ADDRESSES
  Global         \* shmemc_global_address(lock): a static variable

Pes == {PeOf[p] : p \in Proc}

\* "globals are always aligned" (comms.c); heap variables are only in a build
\* with aligned addresses.
ASSUME Layout ==
  /\ PeOf \in [Proc -> Nat]
  /\ NPes \in Nat \ {0}
  /\ \A p \in Proc : PeOf[p] < NPes
  /\ Address \in [Pes -> Nat]
  /\ Aligned \in BOOLEAN
  /\ Global \in BOOLEAN
  /\ Aligned \/ Global => \A q, r \in Pes : Address[q] = Address[r]

FREE == -1
RESET == 0
ACQUIRED == 1

\* Conversion to int16_t.
Short(n) == ((n + 32768) % 65536) - 32768

Shorts == -32768..32767

LockWord == [locked : Shorts, next : Shorts]

\* The word whose blob is SHMEM_LOCK_RESET.
ResetWord == [locked |-> RESET, next |-> 0]

\* The word by which PE me claims the lock.
Claim_OneBased(me) == [locked |-> ACQUIRED, next |-> Short(me + 1)]

Claim(me) == [locked |-> ACQUIRED, next |-> Short(me)]

OwnerSpread(addr) == (addr \div 8) % NPes

LockOwner(me) ==
  IF Aligned \/ Global THEN OwnerSpread(Address[me]) ELSE NPes - 1

VARIABLES
  pc,           \* where each process is
  word,         \* the lock word on each PE that some PE takes for the owner
  node,         \* the node of each PE
  t,            \* the local variable t (cmp) of set_lock, test_lock, clear_lock
  inflight      \* processes with a put in flight that they made under the lock

lockVars == <<pc, word, node, t, inflight>>

Owners == {LockOwner(q) : q \in Pes}

LockTypeOK ==
  /\ pc \in [Proc -> {"idle", "request", "execute", "wait",
                   "held", "quiet", "clear"}]
  /\ word \in [Owners -> LockWord]
  /\ node \in [Pes -> LockWord]
  /\ t \in [Proc -> LockWord]
  /\ inflight \subseteq Proc

LockingInit ==
  /\ pc = [p \in Proc |-> "idle"]
  /\ word = [o \in Owners |-> ResetWord]
  /\ node = [q \in Pes |-> ResetWord]
  /\ t = [p \in Proc |-> ResetWord]
  /\ inflight = {}

-----------------------------------------------------------------------------
Me(p) == PeOf[p]

\* The lock word as process p addresses it.
TheWord(p) == word[LockOwner(Me(p))]

\* try_request_lock and try_clear_lock; the caller gets the old word.
Swap(p, cond, value) ==
  /\ word' = IF TheWord(p) = cond
             THEN [word EXCEPT ![LockOwner(Me(p))] = value] ELSE word
  /\ t' = [t EXCEPT ![p] = TheWord(p)]

\* shmem_set_lock is called.
CallSet(p) ==
  /\ pc[p] = "idle"
  /\ pc' = [pc EXCEPT ![p] = "request"]
  /\ UNCHANGED <<word, node, t, inflight>>

\* set_lock_request: the swap that ends the loop. The ones before it find the
\* word claimed and change nothing but t, which the next one overwrites.
SetRequest_NoCompare(p) ==
  /\ pc[p] = "request"
  /\ Swap(p, TheWord(p), Claim(Me(p)))
  /\ pc' = [pc EXCEPT ![p] = "execute"]
  /\ UNCHANGED <<node, inflight>>

SetRequest(p) ==
  /\ pc[p] = "request"
  /\ TheWord(p) = ResetWord
  /\ Swap(p, ResetWord, Claim(Me(p)))
  /\ pc' = [pc EXCEPT ![p] = "execute"]
  /\ UNCHANGED <<node, inflight>>

\* test_lock_request and, when the lock was taken, the return of 1.
TestRequest(p) ==
  /\ pc[p] = "idle"
  /\ Swap(p, ResetWord, Claim(Me(p)))
  /\ pc' = IF TheWord(p) = ResetWord THEN [pc EXCEPT ![p] = "execute"] ELSE pc
  /\ UNCHANGED <<node, inflight>>

\* set_lock_execute up to its wait loop. The branch that chains the caller on
\* is in the code, but see NeverQueued.
SetExecute(p) ==
  LET me == Me(p)
      tail == [node EXCEPT ![me].next = FREE]
  IN  /\ pc[p] = "execute"
      /\ node' = IF t[p].locked = ACQUIRED
                 THEN [tail EXCEPT ![me].locked = ACQUIRED,
                                   ![t[p].next].next = Short(me)]
                 ELSE tail
      /\ pc' = [pc EXCEPT ![p] = "wait"]
      /\ UNCHANGED <<word, t, inflight>>

\* set_lock_execute returns, at once or when the node is unlocked.
SetReturns(p) ==
  /\ pc[p] = "wait"
  /\ t[p].locked = ACQUIRED => node[Me(p)].locked # ACQUIRED
  /\ pc' = [pc EXCEPT ![p] = "held"]
  /\ UNCHANGED <<word, node, t, inflight>>

\* The program puts to the data the lock protects.
PutUnderLock(p) ==
  /\ pc[p] = "held"
  /\ p \notin inflight
  /\ inflight' = inflight \cup {p}
  /\ UNCHANGED <<pc, word, node, t>>

PutLands(p) ==
  /\ p \in inflight
  /\ inflight' = inflight \ {p}
  /\ UNCHANGED <<pc, word, node, t>>

\* shmem_clear_lock is called by the holder.
CallClear(p) ==
  /\ pc[p] = "held"
  /\ pc' = [pc EXCEPT ![p] = "quiet"]
  /\ UNCHANGED <<word, node, t, inflight>>

\* shmemc_quiet waits for all puts of the PE, whichever thread made them.
Quieted(p) == \A q \in inflight : Me(q) # Me(p)

\* clear_lock_request: t stays uninitialised if the node has a successor.
ClearRequest_NoQuiet(p) ==
  /\ pc[p] = "quiet"
  /\ Swap(p, Claim(Me(p)), ResetWord)
  /\ pc' = [pc EXCEPT ![p] = "clear"]
  /\ UNCHANGED <<node, inflight>>

ClearRequest_NeverFree(p) ==
  /\ pc[p] = "quiet"
  /\ Quieted(p)
  /\ Swap(p, [locked |-> ACQUIRED, next |-> FREE], ResetWord)
  /\ pc' = [pc EXCEPT ![p] = "clear"]
  /\ UNCHANGED <<node, inflight>>

ClearRequest(p) ==
  /\ pc[p] = "quiet"
  /\ Quieted(p)
  /\ IF node[Me(p)].next = FREE
     THEN Swap(p, Claim(Me(p)), ResetWord)
     ELSE /\ \E w \in LockWord : t' = [t EXCEPT ![p] = w]
          /\ UNCHANGED word
  /\ pc' = [pc EXCEPT ![p] = "clear"]
  /\ UNCHANGED <<node, inflight>>

\* clear_lock_execute: return if the word named this PE, else wait for a
\* successor and unlock it.
ClearExecute(p) ==
  LET me == Me(p)
      sole == t[p].next = me
  IN  /\ pc[p] = "clear"
      /\ sole \/ node[me].next # FREE
      /\ node' = IF sole THEN node
                 ELSE [node EXCEPT ![node[me].next].locked = RESET]
      /\ pc' = [pc EXCEPT ![p] = "idle"]
      /\ UNCHANGED <<word, t, inflight>>

-----------------------------------------------------------------------------
\* What the library does on behalf of a caller.
Library(p) ==
  \/ SetRequest(p) \/ SetExecute(p) \/ SetReturns(p)
  \/ ClearRequest(p) \/ ClearExecute(p)

\* What the program does.
Program(p) == CallSet(p) \/ TestRequest(p) \/ PutUnderLock(p) \/ CallClear(p)

LockingNext == \E p \in Proc : Library(p) \/ Program(p) \/ PutLands(p)

LockingSpec == LockingInit /\ [][LockingNext]_lockVars

\* Threads in the library run on, puts land, holders release the lock some
\* time. Nothing obliges a process to take it.
LockingFairness ==
  \A p \in Proc :
    WF_lockVars(Library(p)) /\ WF_lockVars(CallClear(p)) /\ WF_lockVars(PutLands(p))

FairLockingSpec == LockingSpec /\ LockingFairness

-----------------------------------------------------------------------------
(* Properties.                                                             *)

\* From the successful swap at the owner to the swap that resets the word.
Holds(p) == pc[p] \in {"execute", "wait", "held", "quiet"}

\* Two processes never hold the lock at once, be they threads of one PE, PEs
\* whose numbers agree modulo 2^16, or PEs that have the lock at different
\* addresses and compute its owner independently.
MutualExclusion == \A p, q \in Proc : Holds(p) /\ Holds(q) => p = q

\* The word at the owner says who holds the lock, and is only reset when
\* nobody does: try_clear_lock always finds its own claim.
WordNamesHolder ==
  \A o \in Owners :
    IF \E p \in Proc : Holds(p)
    THEN \E p \in Proc : Holds(p) /\ word[o] = Claim(Me(p))
    ELSE word[o] = ResetWord

\* Whoever gets the lock sees what was put under it before: "required to flush
\* comms before clearing lock" (lock.c).
VisibleOnEntry ==
  \A p \in Proc : Holds(p) => inflight \subseteq {p}

\* No caller is ever chained on: the branches of set_lock_execute and
\* clear_lock_execute that queue and unlock a successor, and the use of an
\* uninitialised t, are not reached.  The proofs rest on it.  It is not what the
\* comments at lock.c:334 and 354 promise, callers queued in order of arrival.
NeverQueued ==
  \A p \in Proc :
    /\ pc[p] \in {"execute", "wait"} => t[p].locked = RESET
    /\ pc[p] \in {"wait", "held", "quiet", "clear"} => node[Me(p)].next = FREE
    /\ pc[p] = "clear" => t[p] = Claim(Me(p))

\* The lock as its callers see it.
Inside == {p \in Proc : pc[p] \in {"held", "quiet"}}

Abstract == INSTANCE LockSpec WITH
  inside <- Inside, unseen <- (inflight # {})

ImplementsLock == Abstract!LSpec

\* If some process waits for the lock, some process gets it (not necessarily
\* the same: callers race for the word and are not queued).
SomebodyGetsIn ==
  (\E p \in Proc : pc[p] = "request") ~> (\E p \in Proc : pc[p] = "held")

\* shmem_clear_lock returns.
EveryClearReturns ==
  \A p \in Proc : pc[p] \in {"quiet", "clear"} ~> pc[p] = "idle"
=============================================================================
