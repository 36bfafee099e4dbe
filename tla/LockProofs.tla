----------------------------- MODULE LockProofs -----------------------------
(***************************************************************************)
(* Proofs about Lock for any number of threads and PEs, whatever their     *)
(* numbers, and any layout of the lock in memory that Layout allows.       *)
(***************************************************************************)
EXTENDS Lock, TLAPS

\* Puts in flight are those of a process that may still put, or is waiting in
\* shmemc_quiet.
PutsOfHolder == \A p \in inflight : pc[p] \in {"held", "quiet"}

LInv ==
  /\ LockTypeOK
  /\ MutualExclusion
  /\ WordNamesHolder
  /\ NeverQueued
  /\ PutsOfHolder

-----------------------------------------------------------------------------
(* The owner and the word.                                                 *)

\* All PEs agree who owns the lock.
LEMMA OneOwner ==
  /\ \A q, r \in Pes : LockOwner(q) = LockOwner(r)
  /\ \A p \in Proc : Me(p) \in Pes /\ LockOwner(Me(p)) \in Owners
  /\ \A o \in Owners, p \in Proc : o = LockOwner(Me(p))
<1>1. \A p \in Proc : Me(p) \in Pes
  BY DEF Me, Pes
<1>2. \A q, r \in Pes : LockOwner(q) = LockOwner(r)
  BY Layout DEF LockOwner
<1> QED
  BY <1>1, <1>2 DEF Owners

LEMMA ClaimType ==
  ASSUME NEW p \in Proc
  PROVE  /\ Claim(Me(p)) \in LockWord
         /\ Claim(Me(p)) # ResetWord
         /\ ResetWord \in LockWord
         /\ Me(p) \in Nat
<1>1. Me(p) \in Nat
  BY Layout DEF Me
<1>2. Short(Me(p)) \in Shorts
  <2>1. PICK m \in Int : m = Me(p) + 32768
    BY <1>1
  <2> DEFINE r == m % 65536
  <2>2. r \in Int /\ 0 <= r
    BY SMT
  <2>3. r <= 65535
    BY SMT
  <2>4. Short(Me(p)) = r - 32768
    BY <2>1 DEF Short
  <2> HIDE DEF r
  <2> DEFINE lo == -32768
             hi == 32767
  <2>5. Short(Me(p)) \in Int /\ lo <= Short(Me(p)) /\ Short(Me(p)) <= hi
    BY <2>2, <2>3, <2>4
  <2>6. lo \in Int /\ hi \in Int /\ Shorts = lo..hi
    BY DEF Shorts
  <2> HIDE DEF lo, hi
  <2> QED
    BY <2>5, <2>6
<1>3. 0 \in Shorts /\ 1 \in Shorts
  BY DEF Shorts
<1> QED
  BY <1>1, <1>2, <1>3 DEF Claim, LockWord, ResetWord, RESET, ACQUIRED

LEMMA SwapTypes ==
  ASSUME LockTypeOK, NEW p \in Proc, NEW c, NEW v \in LockWord, Swap(p, c, v)
  PROVE  /\ word' \in [Owners -> LockWord]
         /\ t' \in [Proc -> LockWord]
         /\ t'[p] = TheWord(p)
         /\ \A q \in Proc \ {p} : t'[q] = t[q]
         /\ \A o \in Owners : word'[o] = IF TheWord(p) = c THEN v ELSE word[o]
<1>1. LockOwner(Me(p)) \in Owners /\ \A o \in Owners : o = LockOwner(Me(p))
  BY OneOwner
<1> QED
  BY <1>1 DEF LockTypeOK, Swap, TheWord

\* The word of a held lock is the claim of its holder, and a lock whose word is
\* reset is not held.
LEMMA WordFacts ==
  ASSUME LInv, NEW p \in Proc
  PROVE  /\ Holds(p) => TheWord(p) = Claim(Me(p))
         /\ TheWord(p) = ResetWord <=> \A q \in Proc : ~Holds(q)
<1>1. LockOwner(Me(p)) \in Owners
  BY OneOwner
<1>2. CASE \E q \in Proc : Holds(q)
  <2>1. PICK q \in Proc : Holds(q) /\ TheWord(p) = Claim(Me(q))
    BY <1>1, <1>2 DEF LInv, WordNamesHolder, TheWord
  <2>2. Holds(p) => p = q
    BY <2>1 DEF LInv, MutualExclusion
  <2> QED
    BY <1>2, <2>1, <2>2, ClaimType
<1>3. CASE \A q \in Proc : ~Holds(q)
  BY <1>1, <1>3 DEF LInv, WordNamesHolder, TheWord
<1> QED BY <1>2, <1>3

-----------------------------------------------------------------------------
(* Preservation, one lemma per kind of step.                               *)

\* Steps that leave the word, the nodes and the holder alone.
LEMMA QuietStep ==
  ASSUME LInv, LockTypeOK', NeverQueued', PutsOfHolder',
         \A p \in Proc : Holds(p)' <=> Holds(p),
         word' = word
  PROVE  LInv'
BY DEF LInv, MutualExclusion, WordNamesHolder

LEMMA CallSetInv ==
  ASSUME LInv, NEW p \in Proc, CallSet(p)
  PROVE  LInv'
<1>1. LockTypeOK' /\ NeverQueued' /\ PutsOfHolder'
  BY DEF CallSet, LInv, LockTypeOK, NeverQueued, PutsOfHolder
<1>2. \A q \in Proc : Holds(q)' <=> Holds(q)
  BY DEF CallSet, LInv, LockTypeOK, Holds
<1> QED
  BY <1>1, <1>2, QuietStep DEF CallSet

\* A swap that finds the word reset makes its caller the one holder.
LEMMA GrabInv ==
  ASSUME LInv, NEW p \in Proc, ~Holds(p), pc[p] \notin {"held", "quiet", "clear"},
         TheWord(p) = ResetWord,
         Swap(p, ResetWord, Claim(Me(p))),
         pc' = [pc EXCEPT ![p] = "execute"],
         UNCHANGED <<node, inflight>>
  PROVE  LInv'
<1>1. \A q \in Proc : ~Holds(q)
  BY WordFacts
<1>2. /\ word' \in [Owners -> LockWord] /\ t' \in [Proc -> LockWord]
      /\ t'[p] = ResetWord
      /\ \A q \in Proc \ {p} : t'[q] = t[q]
      /\ \A o \in Owners : word'[o] = Claim(Me(p))
  BY SwapTypes, ClaimType DEF LInv
<1>3. LockTypeOK'
  BY <1>2 DEF LInv, LockTypeOK
<1>4. \A q \in Proc : Holds(q)' <=> q = p
  BY <1>1 DEF LInv, LockTypeOK, Holds
<1>5. MutualExclusion'
  BY <1>4 DEF MutualExclusion
<1>6. WordNamesHolder'
  <2>1. Owners' = Owners /\ Claim(Me(p))' = Claim(Me(p))
    BY DEF Owners, Claim, Me
  <2> QED
    BY <1>2, <1>4, <2>1 DEF WordNamesHolder
<1>7. NeverQueued'
  <2>1. t'[p].locked = RESET
    BY <1>2 DEF ResetWord
  <2> QED
    BY <1>2, <2>1 DEF LInv, LockTypeOK, NeverQueued
<1>8. PutsOfHolder'
  BY <1>1 DEF LInv, LockTypeOK, PutsOfHolder, Holds
<1> QED
  BY <1>3, <1>5, <1>6, <1>7, <1>8 DEF LInv

LEMMA SetRequestInv ==
  ASSUME LInv, NEW p \in Proc, SetRequest(p)
  PROVE  LInv'
BY GrabInv DEF SetRequest, Holds

LEMMA TestRequestInv ==
  ASSUME LInv, NEW p \in Proc, TestRequest(p)
  PROVE  LInv'
<1>1. CASE TheWord(p) = ResetWord
  BY <1>1, GrabInv DEF TestRequest, Holds
<1>2. CASE TheWord(p) # ResetWord
  <2>1. word' = word /\ t' \in [Proc -> LockWord] /\ \A q \in Proc \ {p} : t'[q] = t[q]
    BY <1>2, SwapTypes, ClaimType DEF TestRequest, Swap, LInv
  <2>2. LockTypeOK' /\ NeverQueued' /\ PutsOfHolder'
    BY <1>2, <2>1 DEF TestRequest, LInv, LockTypeOK, NeverQueued, PutsOfHolder
  <2>3. \A q \in Proc : Holds(q)' <=> Holds(q)
    BY <1>2 DEF TestRequest, Holds
  <2> QED
    BY <2>1, <2>2, <2>3, QuietStep
<1> QED BY <1>1, <1>2

LEMMA SetExecuteInv ==
  ASSUME LInv, NEW p \in Proc, SetExecute(p)
  PROVE  LInv'
<1>1. t[p].locked = RESET /\ Me(p) \in Pes /\ FREE \in Shorts
  BY OneOwner DEF SetExecute, LInv, NeverQueued, FREE, Shorts
<1>2. node' = [node EXCEPT ![Me(p)].next = FREE]
  BY <1>1 DEF SetExecute, RESET, ACQUIRED
<1>3. LockTypeOK'
  BY <1>1, <1>2 DEF SetExecute, LInv, LockTypeOK, LockWord
<1>4. NeverQueued'
  <2>1. node'[Me(p)].next = FREE
    BY <1>1, <1>2 DEF LInv, LockTypeOK, LockWord
  <2>2. \A q \in Proc : node'[Me(q)].next \in {node[Me(q)].next, FREE}
    BY <1>1, <1>2, OneOwner DEF LInv, LockTypeOK, LockWord
  <2> QED
    BY <1>1, <2>1, <2>2 DEF SetExecute, LInv, LockTypeOK, NeverQueued, Me, Claim
<1>5. PutsOfHolder'
  BY DEF SetExecute, LInv, LockTypeOK, PutsOfHolder
<1>6. \A q \in Proc : Holds(q)' <=> Holds(q)
  BY DEF SetExecute, LInv, LockTypeOK, Holds
<1> QED
  BY <1>3, <1>4, <1>5, <1>6, QuietStep DEF SetExecute

LEMMA SetReturnsInv ==
  ASSUME LInv, NEW p \in Proc, SetReturns(p)
  PROVE  LInv'
<1>1. LockTypeOK' /\ PutsOfHolder'
  BY DEF SetReturns, LInv, LockTypeOK, PutsOfHolder
<1>2. \A q \in Proc : Holds(q)' <=> Holds(q)
  BY DEF SetReturns, LInv, LockTypeOK, Holds
<1>3. NeverQueued'
  BY DEF SetReturns, LInv, LockTypeOK, NeverQueued
<1> QED
  BY <1>1, <1>2, <1>3, QuietStep DEF SetReturns

LEMMA PutInv ==
  ASSUME LInv, NEW p \in Proc, PutUnderLock(p) \/ PutLands(p)
  PROVE  LInv'
<1>1. LockTypeOK' /\ PutsOfHolder' /\ NeverQueued'
  BY DEF PutUnderLock, PutLands, LInv, LockTypeOK, PutsOfHolder, NeverQueued
<1>2. \A q \in Proc : Holds(q)' <=> Holds(q)
  BY DEF PutUnderLock, PutLands, Holds
<1> QED
  BY <1>1, <1>2, QuietStep DEF PutUnderLock, PutLands

LEMMA CallClearInv ==
  ASSUME LInv, NEW p \in Proc, CallClear(p)
  PROVE  LInv'
<1>1. LockTypeOK' /\ PutsOfHolder' /\ NeverQueued'
  BY DEF CallClear, LInv, LockTypeOK, PutsOfHolder, NeverQueued
<1>2. \A q \in Proc : Holds(q)' <=> Holds(q)
  BY DEF CallClear, LInv, LockTypeOK, Holds
<1> QED
  BY <1>1, <1>2, QuietStep DEF CallClear

\* When a holder has been through its quiet, no put made under the lock is in
\* flight at all.
LEMMA QuietIsEnough ==
  ASSUME LInv, NEW p \in Proc, Holds(p), Quieted(p)
  PROVE  inflight = {}
BY DEF LInv, LockTypeOK, MutualExclusion, PutsOfHolder, Holds, Quieted

LEMMA ClearRequestInv ==
  ASSUME LInv, NEW p \in Proc, ClearRequest(p)
  PROVE  LInv'
<1>1. Holds(p) /\ inflight = {} /\ inflight' = {}
  BY QuietIsEnough DEF ClearRequest, Holds
<1>2. TheWord(p) = Claim(Me(p)) /\ Swap(p, Claim(Me(p)), ResetWord)
  BY <1>1, WordFacts DEF ClearRequest, LInv, NeverQueued
<1>3. /\ word' \in [Owners -> LockWord] /\ t' \in [Proc -> LockWord]
      /\ t'[p] = Claim(Me(p))
      /\ \A q \in Proc \ {p} : t'[q] = t[q]
      /\ \A o \in Owners : word'[o] = ResetWord
  BY <1>2, SwapTypes, ClaimType DEF LInv
<1>4. \A q \in Proc : ~Holds(q)'
  BY <1>1 DEF ClearRequest, LInv, LockTypeOK, MutualExclusion, Holds
<1>5. LockTypeOK'
  BY <1>3 DEF ClearRequest, LInv, LockTypeOK
<1>6. MutualExclusion'
  BY <1>4 DEF MutualExclusion
<1>7. WordNamesHolder'
  <2>1. Owners' = Owners
    BY DEF Owners
  <2> QED
    BY <1>3, <1>4, <2>1 DEF WordNamesHolder
<1>8. NeverQueued'
  <2>1. Claim(Me(p))' = Claim(Me(p)) /\ node' = node
    BY DEF Claim, Me, ClearRequest
  <2> QED
    BY <1>3, <2>1 DEF ClearRequest, LInv, LockTypeOK, NeverQueued, Claim, Me
<1>9. PutsOfHolder'
  BY <1>1 DEF PutsOfHolder
<1> QED
  BY <1>5, <1>6, <1>7, <1>8, <1>9 DEF LInv

LEMMA ClearExecuteInv ==
  ASSUME LInv, NEW p \in Proc, ClearExecute(p)
  PROVE  LInv'
<1>1. node' = node
  BY DEF ClearExecute, LInv, NeverQueued
<1>2. LockTypeOK' /\ PutsOfHolder' /\ NeverQueued'
  BY <1>1 DEF ClearExecute, LInv, LockTypeOK, PutsOfHolder, NeverQueued
<1>3. \A q \in Proc : Holds(q)' <=> Holds(q)
  BY DEF ClearExecute, LInv, LockTypeOK, Holds
<1> QED
  BY <1>2, <1>3, QuietStep DEF ClearExecute

LEMMA LockInitInv == LockingInit => LInv
<1> SUFFICES ASSUME LockingInit PROVE LInv
  OBVIOUS
<1>1. ResetWord \in LockWord
  BY DEF ResetWord, LockWord, Shorts, RESET
<1>2. LockTypeOK
  BY <1>1 DEF LockingInit, LockTypeOK
<1>3. \A p \in Proc : ~Holds(p)
  BY DEF LockingInit, Holds
<1> QED
  BY <1>2, <1>3
     DEF LockingInit, LInv, MutualExclusion, WordNamesHolder, NeverQueued, PutsOfHolder

LEMMA LockNextInv ==
  ASSUME LInv, [LockingNext]_lockVars
  PROVE  LInv'
<1>1. CASE UNCHANGED lockVars
  BY <1>1 DEF lockVars, LInv, LockTypeOK, MutualExclusion, WordNamesHolder, NeverQueued,
              PutsOfHolder, Holds
<1>2. ASSUME NEW p \in Proc, Library(p) PROVE LInv'
  BY <1>2, SetRequestInv, SetExecuteInv, SetReturnsInv,
     ClearRequestInv, ClearExecuteInv DEF Library
<1>3. ASSUME NEW p \in Proc, Program(p) \/ PutLands(p) PROVE LInv'
  BY <1>3, CallSetInv, TestRequestInv, PutInv, CallClearInv DEF Program
<1> QED
  BY <1>1, <1>2, <1>3 DEF LockingNext

-----------------------------------------------------------------------------
(* The theorems.                                                           *)

\* The lock's words, claims and puts are as LInv says in every reachable state
\* (api/lock.c).
THEOREM LockInvariance == LockingSpec => []LInv
BY LockInitInv, LockNextInv, PTL DEF LockingSpec

\* Every variable keeps its type; nothing but shorts is put into the words.
THEOREM LockTypeCorrect == LockingSpec => []LockTypeOK
<1>1. LInv => LockTypeOK
  BY DEF LInv
<1> QED
  BY <1>1, LockInvariance, PTL

\* At most one process holds the lock, whatever the PE numbers and addresses.
THEOREM LockMutualExclusion == LockingSpec => []MutualExclusion
<1>1. LInv => MutualExclusion
  BY DEF LInv
<1> QED
  BY <1>1, LockInvariance, PTL

\* The word at the owner is the claim of the holder, or reset.
THEOREM WordIsRight == LockingSpec => []WordNamesHolder
<1>1. LInv => WordNamesHolder
  BY DEF LInv
<1> QED
  BY <1>1, LockInvariance, PTL

\* The queueing half of the algorithm is never used.
THEOREM LockNeverQueues == LockingSpec => []NeverQueued
<1>1. LInv => NeverQueued
  BY DEF LInv
<1> QED
  BY <1>1, LockInvariance, PTL

\* Whoever holds the lock has no put of an earlier holder to wait for.
THEOREM LockVisible == LockingSpec => []VisibleOnEntry
<1>1. LInv => VisibleOnEntry
  BY DEF LInv, LockTypeOK, MutualExclusion, PutsOfHolder, Holds, VisibleOnEntry
<1> QED
  BY <1>1, LockInvariance, PTL

\* The lock implements the abstract lock: each step is an Acquire, a Release,
\* an Update, a Publish, or invisible.
THEOREM LockRefinement == LockingSpec => ImplementsLock
<1>1. LockingInit => Abstract!LInit
  BY DEF LockingInit, Abstract!LInit, Inside
<1>2. ASSUME LInv, LInv', [LockingNext]_lockVars
      PROVE  [Abstract!LNext]_(Abstract!lvars)
  <2> USE DEF Abstract!LNext, Abstract!lvars
  <2>1. ASSUME NEW p \in Proc, SetReturns(p) PROVE Abstract!Acquire(p)
    <3>1. Inside = {} /\ Inside' = {p}
      BY <1>2, <2>1 DEF SetReturns, LInv, LockTypeOK, MutualExclusion, Holds, Inside
    <3>2. inflight = {} /\ inflight' = {}
      BY <1>2, <2>1, <3>1 DEF SetReturns, LInv, LockTypeOK, PutsOfHolder, Inside
    <3> QED
      BY <3>1, <3>2 DEF Abstract!Acquire
  <2>2. ASSUME NEW p \in Proc, ClearRequest(p) PROVE Abstract!Release(p)
    <3>1. Inside = {p} /\ Inside' = {}
      BY <1>2, <2>2 DEF ClearRequest, LInv, LockTypeOK, MutualExclusion, Holds, Inside
    <3>2. inflight = {} /\ inflight' = {}
      BY <1>2, <2>2, QuietIsEnough DEF ClearRequest, Holds
    <3> QED
      BY <3>1, <3>2 DEF Abstract!Release
  <2>3. ASSUME NEW p \in Proc, PutUnderLock(p) PROVE Abstract!Update
    BY <2>3 DEF PutUnderLock, Inside, Abstract!Update
  <2>4. ASSUME NEW p \in Proc, PutLands(p)
        PROVE  UNCHANGED Inside /\ (inflight' = {} \/ (inflight # {} /\ inflight' # {}))
    BY <2>4 DEF PutLands, Inside
  <2>5. ASSUME NEW p \in Proc,
               \/ SetRequest(p) \/ SetExecute(p) \/ ClearExecute(p)
               \/ CallSet(p) \/ TestRequest(p) \/ CallClear(p)
        PROVE  UNCHANGED <<Inside, inflight>>
    <3>1. inflight' = inflight
      BY <2>5 DEF SetRequest, SetExecute, ClearExecute, CallSet,
                  TestRequest, CallClear
    <3>2. \A q \in Proc : q \in Inside' <=> q \in Inside
      BY <1>2, <2>5 DEF SetRequest, SetExecute, ClearExecute, CallSet,
                        TestRequest, CallClear, Inside, LInv, LockTypeOK
    <3> QED
      BY <3>1, <3>2 DEF Inside
  <2>6. CASE UNCHANGED lockVars
    BY <2>6 DEF lockVars, Inside
  <2> QED
    BY <1>2, <2>1, <2>2, <2>3, <2>4, <2>5, <2>6
       DEF LockingNext, Library, Program, Abstract!Publish
<1> QED
  BY <1>1, <1>2, LockInvariance, PTL DEF LockingSpec, ImplementsLock, Abstract!LSpec
=============================================================================
