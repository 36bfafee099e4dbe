--------------------------- MODULE WaitSetsProofs ---------------------------
(***************************************************************************)
(* Proofs about WaitSets for any number of threads, elements and calls and *)
(* any choice of routines, the ones that keep the mutex included.          *)
(***************************************************************************)
EXTENDS WaitSets, FiniteSetTheorems, WellFoundedInduction, TLAPS

Seekers == {"wait_until", "wait_until_any", "wait_until_some"}
Waits == Seekers \cup {"wait_until_all"}

\* Whoever is in the protected part of a routine has the mutex.
Guarded ==
  multiple =>
    \A t \in Waiter :
      Protected(op[t]) /\ where[t] \in {"scan", "asleep", "collect", "return"} => mutex = t

\* A pass looks at selected elements only, and what it found stays true.
Looking(t) ==
  /\ todo[t] \subseteq Elem \ skip[t]
  /\ found[t] \subseteq meets \ skip[t]

\* wait_until_all can count an element once more in each pass, but begins its
\* last one below nelems, and what it has counted it has found; the others count
\* every element once.
Counting(t) ==
  IF op[t] = "wait_until_all"
  THEN /\ where[t] \in {"lock", "scan"} => n[t] + Cardinality(todo[t]) <= 2 * NElems - 1
       /\ n[t] > 0 => found[t] # {}
       /\ where[t] = "return" => n[t] > 0
  ELSE n[t] = Cardinality(found[t]) /\ found[t] \cap todo[t] = {}

\* The waits for any and some go on until they have something: in its second
\* pass wait_until_some has still to come by the element that ended the first.
Seeking(t) ==
  /\ where[t] = "collect" => op[t] \in {"wait_until_some", "test_some"}
  /\ where[t] = "asleep" => op[t] = "wait_until"
  /\ op[t] \in Seekers =>
       /\ where[t] \in {"lock", "scan", "asleep"} => found[t] = {}
       /\ where[t] = "collect" => found[t] # {} \/ todo[t] \cap meets # {}
       /\ where[t] = "return" => found[t] # {}

ThreadOK(t) == Looking(t) /\ Counting(t) /\ Seeking(t)

WInv == WaitTypeOK /\ Guarded /\ \A t \in Waiter : ThreadOK(t)

-----------------------------------------------------------------------------
(* The smallest element of a pass, and counting.                           *)

LEMMA MinIsIn ==
  ASSUME NEW S \in SUBSET Nat, S # {}
  PROVE  Min(S) \in S
<1>1. IsWellFoundedOn({ss \in Nat \X Nat : ss[1] < ss[2]}, Nat)
  BY NatLessThanWellFounded DEF OpToRel
<1>2. PICK x \in S : \A y \in S : ~(<<y, x>> \in {ss \in Nat \X Nat : ss[1] < ss[2]})
  BY <1>1, WFMin
<1>3. ASSUME NEW y \in S PROVE x <= y
  <2>1. x \in Nat /\ y \in Nat /\ <<y, x>> \in Nat \X Nat
    OBVIOUS
  <2>2. ~(y < x)
    BY <1>2, <2>1
  <2> QED BY <2>1, <2>2
<1> QED BY <1>3 DEF Min

LEMMA ElemFacts ==
  /\ NElems \in Nat \ {0}
  /\ \A S \in SUBSET Elem :
       /\ IsFiniteSet(S)
       /\ Cardinality(S) \in Nat
       /\ Cardinality(S) <= NElems
       /\ Cardinality(S) = NElems => S = Elem
       /\ Cardinality(S) = 0 <=> S = {}
       /\ S # {} => Min(S) \in S
<1>1. NElems \in Nat \ {0}
  BY WaitAssumption
<1>2. IsFiniteSet(Elem) /\ Cardinality(Elem) = NElems
  BY <1>1, FS_Interval DEF Elem
<1>3. Elem \subseteq Nat
  BY <1>1 DEF Elem
<1>4. ASSUME NEW S \in SUBSET Elem
      PROVE  /\ IsFiniteSet(S)
             /\ Cardinality(S) \in Nat
             /\ Cardinality(S) <= NElems
             /\ Cardinality(S) = NElems => S = Elem
             /\ Cardinality(S) = 0 <=> S = {}
             /\ S # {} => Min(S) \in S
  <2>1. IsFiniteSet(S)
    BY <1>2, FS_Subset
  <2>2. Cardinality(S) <= NElems /\ (Cardinality(S) = NElems => S = Elem)
    BY <1>2, FS_Subset
  <2>3. Cardinality(S) \in Nat
    BY <2>1, FS_CardinalityType
  <2>4. Cardinality(S) = 0 <=> S = {}
    BY <2>1, FS_EmptySet
  <2>5. S # {} => Min(S) \in S
    BY <1>3, MinIsIn
  <2> QED
    BY <2>1, <2>2, <2>3, <2>4, <2>5
<1> QED
  BY <1>1, <1>4

-----------------------------------------------------------------------------
(* Preservation, one lemma per kind of step.                               *)

\* A thread that does not move is as well off after any step: elements only
\* come to meet the comparison.
LEMMA Bystander ==
  ASSUME NEW u \in Waiter, ThreadOK(u), meets \subseteq meets',
         op'[u] = op[u], where'[u] = where[u], skip'[u] = skip[u],
         todo'[u] = todo[u], n'[u] = n[u], found'[u] = found[u]
  PROVE  ThreadOK(u)'
BY DEF ThreadOK, Looking, Counting, Seeking

\* A step of thread t that leaves the calls, the status and the mutex alone and
\* does not take t into the protected part.
LEMMA StepOf ==
  ASSUME WInv, NEW t \in Waiter, WaitTypeOK', ThreadOK(t)',
         UNCHANGED <<multiple, mutex, calls, op, skip>>,
         meets \subseteq meets',
         where[t] \in {"scan", "asleep", "collect"},
         \A u \in Waiter \ {t} : /\ where'[u] = where[u] /\ todo'[u] = todo[u]
                                 /\ n'[u] = n[u] /\ found'[u] = found[u]
  PROVE  WInv'
<1>1. \A u \in Waiter : ThreadOK(u)'
  BY Bystander DEF WInv
<1>2. Guarded'
  BY DEF WInv, Guarded
<1> QED
  BY <1>1, <1>2 DEF WInv

LEMMA ProgressFacts ==
  ASSUME WaitTypeOK, Progress
  PROVE  /\ meets \subseteq meets'
         /\ meets' \in SUBSET Elem
         /\ posted' \in SUBSET Elem
BY DEF Progress, WaitTypeOK, memory

LEMMA EnterInv ==
  ASSUME WInv, NEW t \in Waiter, Enter(t)
  PROVE  WInv'
<1>0. PICK r \in Routine, s \in SUBSET Elem : Begin(t, r, s)
  BY DEF Enter, OnSome, WaitUntil, Test, WaitUntilAll, WaitUntilAny, WaitUntilSome,
         TestAll, TestAny, TestSome, AllVectorLoop, AnyVectorLoop, SomeVectorLoop,
         WaitUntilAllVector, WaitUntilAnyVector, WaitUntilSomeVector,
         TestAllVector, TestAnyVector, TestSomeVector, TypedPutSignal, Routine
<1>1. /\ op' = [op EXCEPT ![t] = r]
      /\ skip' = [skip EXCEPT ![t] = s]
      /\ todo' = [todo EXCEPT ![t] = Elem \ s]
      /\ where' = [where EXCEPT ![t] =
                  IF multiple /\ Protected(r) THEN "lock" ELSE Start(r)]
  BY <1>0 DEF Begin
<1>2. /\ n' = [n EXCEPT ![t] = 0] /\ found' = [found EXCEPT ![t] = {}]
      /\ calls' = [calls EXCEPT ![t] = @ + 1] /\ calls[t] < MaxWaits
      /\ UNCHANGED <<multiple, mutex, meets, posted>>
  BY <1>0 DEF Begin, memory
<1>3. Start(r) \in {"scan", "collect", "return"}
  BY DEF Start
<1>4. WaitTypeOK'
  <2>1. calls' \in [Waiter -> 0..MaxWaits]
    BY <1>2, WaitAssumption DEF WInv, WaitTypeOK
  <2>2. 0 \in 0..(2 * NElems - 1)
    BY ElemFacts
  <2> QED
    BY <1>1, <1>2, <1>3, <2>1, <2>2 DEF WInv, WaitTypeOK
<1>5. ThreadOK(t)'
  <2>1. /\ op'[t] = r /\ skip'[t] = s /\ todo'[t] = Elem \ s
        /\ where'[t] = IF multiple /\ Protected(r) THEN "lock" ELSE Start(r)
        /\ n'[t] = 0 /\ found'[t] = {} /\ meets' = meets
    BY <1>1, <1>2 DEF WInv, WaitTypeOK
  <2>2. Looking(t)'
    BY <2>1 DEF Looking, Elem
  <2>3. Counting(t)'
    <3>1. Cardinality(Elem \ s) \in Nat /\ Cardinality(Elem \ s) <= NElems
      BY ElemFacts
    <3>2. 0 + Cardinality(Elem \ s) <= 2 * NElems - 1
      BY <3>1, ElemFacts
    <3>3. Cardinality({}) = 0
      BY FS_EmptySet
    <3>4. r = "wait_until_all" => where'[t] # "return" /\ op'[t] = r
      BY <2>1 DEF Start
    <3> QED
      BY <2>1, <3>2, <3>3, <3>4 DEF Counting
  <2>4. Seeking(t)'
    BY <2>1 DEF Seeking, Start, Seekers, Routine
  <2> QED
    BY <2>2, <2>3, <2>4 DEF ThreadOK
<1>6. \A u \in Waiter : ThreadOK(u)'
  BY <1>1, <1>2, <1>5, Bystander DEF WInv, WaitTypeOK
<1>7. Guarded'
  BY <1>1, <1>2 DEF WInv, WaitTypeOK, Guarded
<1> QED
  BY <1>4, <1>6, <1>7 DEF WInv

LEMMA LockMutexInv ==
  ASSUME WInv, NEW t \in Waiter, LockMutex(t)
  PROVE  WInv'
<1>1. Start(op[t]) \in {"scan", "collect", "return"}
  BY DEF Start
<1>2. WaitTypeOK'
  BY <1>1 DEF LockMutex, WInv, WaitTypeOK, memory, scan
<1>3. ThreadOK(t)'
  BY DEF LockMutex, WInv, WaitTypeOK, memory, scan, ThreadOK, Looking, Counting, Seeking,
         Start, Seekers
<1>4. \A u \in Waiter \ {t} : ThreadOK(u)'
  BY Bystander DEF LockMutex, WInv, WaitTypeOK, memory, scan
<1>5. Guarded'
  <2>1. \A u \in Waiter : multiple /\ Protected(op[u]) => where[u] \notin {"scan", "asleep", "collect", "return"}
    BY WaitAssumption DEF LockMutex, WInv, Guarded
  <2> QED
    BY <2>1 DEF LockMutex, WInv, WaitTypeOK, Guarded
<1> QED
  BY <1>2, <1>3, <1>4, <1>5 DEF WInv

LEMMA HitInv ==
  ASSUME WInv, NEW t \in Waiter, Hit(t)
  PROVE  WInv'
<1> DEFINE e == Min(todo[t])
<1>1. /\ e \in todo[t] /\ e \in Elem /\ e \notin skip[t] /\ e \in meets
      /\ todo[t] \in SUBSET Elem /\ found[t] \in SUBSET Elem
  BY ElemFacts DEF Hit, WInv, WaitTypeOK, ThreadOK, Looking
<1> HIDE DEF e
<1>2. CASE where[t] = "scan" /\ op[t] = "wait_until_some"
  <2>1. /\ where' = [where EXCEPT ![t] = "collect"]
        /\ todo' = [todo EXCEPT ![t] = Elem \ skip[t]]
        /\ UNCHANGED <<n, found, multiple, mutex, meets, posted, calls, op, skip>>
    BY <1>2 DEF Hit, Selected, memory
  <2>2. WaitTypeOK'
    BY <2>1 DEF WInv, WaitTypeOK
  <2>3. ThreadOK(t)'
    <3>1. e \in todo'[t] \cap meets' /\ found[t] = {} /\ where'[t] = "collect"
      BY <1>1, <1>2, <2>1 DEF WInv, WaitTypeOK, ThreadOK, Seeking, Seekers
    <3> QED
      BY <1>2, <2>1, <3>1 DEF WInv, WaitTypeOK, ThreadOK, Looking, Counting, Seeking
  <2> QED
    BY <2>1, <2>2, <2>3, StepOf DEF Hit, WInv, WaitTypeOK
<1>3. CASE ~(where[t] = "scan" /\ op[t] = "wait_until_some")
  <2>1. /\ where' = [where EXCEPT ![t] =
                    IF op[t] \in {"wait_until", "wait_until_any", "test", "test_any"}
                    THEN "return" ELSE @]
        /\ todo' = [todo EXCEPT ![t] = @ \ {e}]
        /\ n' = [n EXCEPT ![t] = @ + 1]
        /\ found' = [found EXCEPT ![t] = @ \cup {e}]
        /\ UNCHANGED <<multiple, mutex, meets, posted, calls, op, skip>>
    BY <1>3 DEF Hit, memory, e
  <2>2. /\ where[t] \in {"scan", "collect"} /\ where'[t] \in {"scan", "collect", "return"}
        /\ where'[t] # "return" => where'[t] = where[t]
        /\ todo'[t] = todo[t] \ {e} /\ n'[t] = n[t] + 1
        /\ found'[t] = found[t] \cup {e} /\ n[t] \in Nat
    BY <2>1 DEF Hit, WInv, WaitTypeOK
  <2>3. Looking(t)'
    BY <1>1, <2>1, <2>2 DEF WInv, ThreadOK, Looking
  <2>4. Counting(t)' /\ n'[t] <= 2 * NElems - 1
    <3>1. CASE op[t] = "wait_until_all"
      <4>1. where[t] = "scan"
        BY <2>2, <3>1 DEF WInv, ThreadOK, Seeking
      <4>2. n[t] + Cardinality(todo[t]) <= 2 * NElems - 1
        BY <3>1, <4>1 DEF WInv, ThreadOK, Counting
      <4>3. /\ Cardinality(todo[t] \ {e}) = Cardinality(todo[t]) - 1
            /\ Cardinality(todo[t]) \in Nat /\ Cardinality(todo[t] \ {e}) \in Nat
        <5>1. IsFiniteSet(todo[t]) /\ Cardinality(todo[t]) \in Nat
          BY <1>1, ElemFacts
        <5>2. todo[t] \ {e} \in SUBSET Elem
          BY <1>1
        <5> QED
          BY <1>1, <5>1, <5>2, FS_RemoveElement, ElemFacts
      <4>4. n'[t] + Cardinality(todo'[t]) <= 2 * NElems - 1
        BY <2>2, <4>2, <4>3, ElemFacts
      <4>5. n'[t] <= 2 * NElems - 1
        BY <2>2, <4>2, <4>3, ElemFacts
      <4>6. op'[t] = "wait_until_all" /\ where'[t] = "scan" /\ found'[t] # {}
        BY <2>1, <2>2, <3>1, <4>1 DEF WInv, WaitTypeOK
      <4> QED
        BY <4>4, <4>5, <4>6 DEF Counting
    <3>2. CASE op[t] # "wait_until_all"
      <4>1. n[t] = Cardinality(found[t]) /\ found[t] \cap todo[t] = {}
        BY <3>2 DEF WInv, ThreadOK, Counting
      <4>2. Cardinality(found[t] \cup {e}) = Cardinality(found[t]) + 1
        <5>1. IsFiniteSet(found[t]) /\ e \notin found[t]
          BY <1>1, <4>1, ElemFacts
        <5> QED
          BY <5>1, FS_AddElement
      <4>3. found[t] \cup {e} \in SUBSET Elem
        BY <1>1
      <4>4. n'[t] = Cardinality(found'[t]) /\ n'[t] <= NElems
        BY <2>2, <4>1, <4>2, <4>3, ElemFacts
      <4>5. n'[t] <= 2 * NElems - 1
        BY <2>2, <4>4, ElemFacts
      <4>6. op'[t] # "wait_until_all" /\ found'[t] \cap todo'[t] = {}
        BY <2>1, <2>2, <3>2, <4>1
      <4> QED
        BY <4>4, <4>5, <4>6 DEF Counting
    <3> QED BY <3>1, <3>2
  <2>5. Seeking(t)'
    <3>1. where'[t] = "scan" => op'[t] \notin Seekers
      BY <1>3, <2>1, <2>2 DEF WInv, WaitTypeOK, Seekers
    <3>2. found'[t] # {}
      BY <2>2
    <3> QED
      BY <2>1, <2>2, <3>1, <3>2 DEF WInv, ThreadOK, Seeking
  <2>6. WaitTypeOK'
    <3>1. n'[t] \in 0..(2 * NElems - 1)
      BY <2>2, <2>4, ElemFacts
    <3> QED
      BY <1>1, <2>1, <2>2, <3>1 DEF WInv, WaitTypeOK
  <2> QED
    BY <2>1, <2>2, <2>3, <2>4, <2>5, <2>6, StepOf DEF ThreadOK, WInv, WaitTypeOK
<1> QED BY <1>2, <1>3

LEMMA MissInv ==
  ASSUME WInv, NEW t \in Waiter, Miss(t)
  PROVE  WInv'
<1> DEFINE e == Min(todo[t])
<1>1. e \in todo[t] /\ todo[t] \in SUBSET Elem
  BY ElemFacts DEF Miss, WInv, WaitTypeOK
<1>2. /\ where[t] \in {"scan", "collect"} /\ e \notin meets
      /\ todo' = [todo EXCEPT ![t] = @ \ {e}]
      /\ UNCHANGED <<multiple, mutex, calls, op, where, skip, n, found>>
  BY DEF Miss
<1> HIDE DEF e
<1>3. meets \subseteq meets' /\ meets' \in SUBSET Elem /\ posted' \in SUBSET Elem
  BY ProgressFacts DEF Miss, WInv
<1>4. todo'[t] = todo[t] \ {e}
  BY <1>2 DEF WInv, WaitTypeOK
<1>5. WaitTypeOK'
  BY <1>2, <1>3 DEF WInv, WaitTypeOK
<1>6. ThreadOK(t)'
  <2>1. Cardinality(todo[t] \ {e}) <= Cardinality(todo[t])
    <3>1. IsFiniteSet(todo[t])
      BY <1>1, ElemFacts
    <3> QED
      BY <3>1, FS_Subset
  <2>2. Counting(t)'
    <3>1. Cardinality(todo[t] \ {e}) \in Nat /\ Cardinality(todo[t]) \in Nat /\ n[t] \in Nat
      <4>1. todo[t] \ {e} \in SUBSET Elem
        BY <1>1
      <4> QED
        BY <1>1, <4>1, ElemFacts DEF WInv, WaitTypeOK
    <3>2. n[t] + Cardinality(todo[t]) <= 2 * NElems - 1
            => n[t] + Cardinality(todo[t] \ {e}) <= 2 * NElems - 1
      BY <2>1, <3>1, ElemFacts
    <3> QED
      BY <1>2, <1>4, <3>2 DEF WInv, ThreadOK, Counting
  <2>3. Looking(t)' /\ Seeking(t)'
    BY <1>2, <1>3, <1>4 DEF WInv, ThreadOK, Looking, Seeking
  <2> QED
    BY <2>2, <2>3 DEF ThreadOK
<1> QED
  BY <1>2, <1>3, <1>5, <1>6, StepOf DEF WInv, WaitTypeOK

LEMMA EndOfPassInv ==
  ASSUME WInv, NEW t \in Waiter, EndOfPass(t)
  PROVE  WInv'
<1>1. /\ where[t] \in {"scan", "collect"} /\ todo[t] = {} /\ op[t] # "wait_until"
      /\ UNCHANGED <<multiple, mutex, meets, posted, calls, op, skip, n, found>>
  BY DEF EndOfPass, memory
<1>2. WaitTypeOK'
  BY <1>1 DEF EndOfPass, Selected, WInv, WaitTypeOK
<1>3. CASE AllGoesOn(t) \/ AnyGoesOn(t)
  <2>1. todo'[t] = Elem \ skip[t] /\ where' = where
    BY <1>3 DEF EndOfPass, Selected, WInv, WaitTypeOK
  <2>2. Counting(t)'
    <3>1. CASE op[t] = "wait_until_all"
      <4>1. n[t] \in Nat /\ ~(n[t] >= NElems)
        BY <1>3, <3>1 DEF AllGoesOn, AnyGoesOn, AllSatisfied, WInv, WaitTypeOK
      <4>2. Cardinality(Elem \ skip[t]) \in Nat /\ Cardinality(Elem \ skip[t]) <= NElems
        BY ElemFacts
      <4>3. n[t] + Cardinality(Elem \ skip[t]) <= 2 * NElems - 1
        BY <4>1, <4>2, ElemFacts
      <4> QED
        BY <1>1, <2>1, <3>1, <4>3 DEF WInv, ThreadOK, Counting
    <3>2. CASE op[t] # "wait_until_all"
      BY <1>1, <1>3, <2>1, <3>2
      DEF AllGoesOn, AnyGoesOn, WInv, ThreadOK, Counting, Seeking, Seekers
    <3> QED BY <3>1, <3>2
  <2>3. Looking(t)' /\ Seeking(t)'
    BY <1>1, <1>3, <2>1 DEF AllGoesOn, AnyGoesOn, WInv, ThreadOK, Looking, Seeking, Seekers
  <2>4. ThreadOK(t)'
    BY <2>2, <2>3 DEF ThreadOK
  <2> QED
    BY <1>1, <1>2, <2>1, <2>4, StepOf DEF EndOfPass, WInv, WaitTypeOK
<1>4. CASE ~(AllGoesOn(t) \/ AnyGoesOn(t))
  <2>1. where' = [where EXCEPT ![t] = "return"] /\ todo' = todo
    BY <1>4 DEF EndOfPass
  <2>2. op[t] = "wait_until_all" => n[t] > 0
    BY <1>4, ElemFacts DEF AllGoesOn, AllSatisfied, WInv, WaitTypeOK
  <2>3. op[t] \in Seekers => found[t] # {}
    BY <1>1, <1>4 DEF AnyGoesOn, WInv, ThreadOK, Seeking, Seekers
  <2>4. ThreadOK(t)'
    BY <1>1, <2>1, <2>2, <2>3 DEF WInv, WaitTypeOK, ThreadOK, Looking, Counting, Seeking
  <2> QED
    BY <1>1, <1>2, <2>1, <2>4, StepOf DEF WInv, WaitTypeOK
<1> QED BY <1>3, <1>4

LEMMA WaitMemInv ==
  ASSUME WInv, NEW t \in Waiter, WaitMem(t)
  PROVE  WInv'
<1>1. /\ where[t] = "scan" /\ op[t] = "wait_until"
      /\ where' = [where EXCEPT ![t] = "asleep"]
      /\ UNCHANGED <<multiple, mutex, meets, posted, calls, op, skip, todo, n, found>>
  BY DEF WaitMem, memory, scan
<1>2. WaitTypeOK'
  BY <1>1 DEF WInv, WaitTypeOK
<1>3. ThreadOK(t)'
  BY <1>1 DEF WInv, WaitTypeOK, ThreadOK, Looking, Counting, Seeking
<1> QED
  BY <1>1, <1>2, <1>3, StepOf DEF WInv, WaitTypeOK

LEMMA TestAgainInv ==
  ASSUME WInv, NEW t \in Waiter, TestAgain(t)
  PROVE  WInv'
<1>1. /\ where[t] = "asleep" /\ op[t] = "wait_until" /\ found[t] = {}
      /\ where' = [where EXCEPT ![t] = "scan"]
      /\ todo' = [todo EXCEPT ![t] = Elem \ skip[t]]
      /\ UNCHANGED <<multiple, mutex, meets, posted, calls, op, skip, n, found>>
  BY DEF TestAgain, Selected, memory, WInv, ThreadOK, Seeking, Seekers
<1>2. WaitTypeOK'
  BY <1>1 DEF WInv, WaitTypeOK
<1>3. ThreadOK(t)'
  BY <1>1 DEF WInv, WaitTypeOK, ThreadOK, Looking, Counting, Seeking
<1> QED
  BY <1>1, <1>2, <1>3, StepOf DEF WInv, WaitTypeOK

LEMMA LeaveInv ==
  ASSUME WInv, NEW t \in Waiter, Leave(t)
  PROVE  WInv'
<1>1. WaitTypeOK'
  BY DEF Leave, WInv, WaitTypeOK, memory, scan
<1>2. ThreadOK(t)'
  BY DEF Leave, WInv, WaitTypeOK, memory, scan, ThreadOK, Looking, Counting, Seeking
<1>3. \A u \in Waiter \ {t} : ThreadOK(u)'
  BY Bystander DEF Leave, WInv, WaitTypeOK, memory, scan
<1>4. Guarded'
  <2>1. Unlocks(op[t]) => multiple /\ mutex = t
    BY DEF Leave, Unlocks, WInv, Guarded
  <2> QED
    BY <2>1 DEF Leave, WInv, WaitTypeOK, Guarded
<1> QED
  BY <1>1, <1>2, <1>3, <1>4 DEF WInv

\* Steps of the others, and none.
LEMMA OutsideInv ==
  ASSUME WInv, (\E e \in Elem : Remote(e)) \/ UpdatesLand \/ UNCHANGED waitVars
  PROVE  WInv'
<1>1. /\ UNCHANGED <<multiple, mutex, calls, op, where, skip, n, found, todo>>
      /\ meets \subseteq meets' /\ meets' \in SUBSET Elem /\ posted' \in SUBSET Elem
  BY ProgressFacts DEF WInv, WaitTypeOK, Remote, UpdatesLand, waitVars, memory, scan
<1>2. WaitTypeOK' /\ Guarded'
  BY <1>1 DEF WInv, WaitTypeOK, Guarded
<1>3. \A t \in Waiter : ThreadOK(t)'
  BY <1>1, Bystander DEF WInv
<1> QED
  BY <1>2, <1>3 DEF WInv

LEMMA WInitInv == WaitInit => WInv
<1> SUFFICES ASSUME WaitInit PROVE WInv
  OBVIOUS
<1>1. 0 \in 0..(2 * NElems - 1) /\ 0 \in 0..MaxWaits
  BY ElemFacts, WaitAssumption
<1>2. WaitTypeOK
  BY <1>1 DEF WaitInit, WaitTypeOK, Routine
<1>3. Guarded
  BY DEF WaitInit, Guarded
<1>4. Cardinality({}) = 0
  BY FS_EmptySet
<1> QED
  BY <1>2, <1>3, <1>4 DEF WaitInit, WInv, ThreadOK, Looking, Counting, Seeking, Seekers

LEMMA WNextInv ==
  ASSUME WInv, [WaitNext]_waitVars
  PROVE  WInv'
<1>1. ASSUME NEW t \in Waiter, WaitStep(t) PROVE WInv'
  BY <1>1, EnterInv, LockMutexInv, HitInv, MissInv, EndOfPassInv, WaitMemInv, TestAgainInv, LeaveInv DEF WaitStep, Goes
<1> QED
  BY <1>1, OutsideInv DEF WaitNext, AllOut

-----------------------------------------------------------------------------
(* The theorems.                                                           *)

\* What a pass over the elements has seen, and who has the mutex, is as WInv says
\* in every reachable state (ucx/waituntil.c, ucx/test.c).
THEOREM WaitInvariance == WaitSpec => []WInv
BY WInitInv, WNextInv, PTL DEF WaitSpec

\* Every variable keeps its type; the count of wait_until_all, which is not
\* reset between passes, stays below twice the number of elements.
THEOREM WaitTypeCorrect == WaitSpec => []WaitTypeOK
<1>1. WInv => WaitTypeOK
  BY DEF WInv
<1> QED
  BY <1>1, WaitInvariance, PTL

\* What the routines report holds, whatever the number of elements and however
\* late the updates land: the waits come back with selected elements that meet
\* the comparison, and so do the tests, but for the 0 of test_any.
THEOREM WaitAnswersHold == WaitSpec => []AnswersHold
<1>1. WInv => AnswersHold
  <2> SUFFICES ASSUME WInv, NEW t \in Waiter, where[t] = "return"
               PROVE  /\ found[t] \subseteq meets \ skip[t]
                      /\ op[t] \in Waits => found[t] # {}
                      /\ op[t] = "test_any" /\ AnyIndex(t) # 0
                           => AnyIndex(t) \in meets \ skip[t]
                      /\ op[t] = "test_all" /\ n[t] = NElems
                           => Elem \ skip[t] \subseteq meets
    BY DEF AnswersHold, Seekers, Waits
  <2>1. ThreadOK(t) /\ found[t] \in SUBSET Elem
    BY DEF WInv, WaitTypeOK
  <2>2. op[t] = "test_all" /\ n[t] = NElems => found[t] = Elem
    BY <2>1, ElemFacts DEF ThreadOK, Counting
  <2>3. AnyIndex(t) # 0 => AnyIndex(t) \in found[t]
    BY DEF AnyIndex
  <2>4. op[t] \in Waits => found[t] # {}
    BY <2>1 DEF ThreadOK, Counting, Seeking, Waits
  <2> QED
    BY <2>1, <2>2, <2>3, <2>4 DEF ThreadOK, Looking
<1> QED
  BY <1>1, WaitInvariance, PTL
=============================================================================
