------------------------------ MODULE WaitSets ------------------------------
(***************************************************************************)
(* The wait_until and test routines of one PE, with their forms all, any   *)
(* and some over an array (shmemc/ucx/waituntil.c, shmemc/ucx/test.c), as  *)
(* its threads call them through api/pt2pt_synch, some of them inside the  *)
(* process-wide mutex of shmemt/shmem_mutex.h.                             *)
(*                                                                         *)
(* An element is only known by whether it meets the comparison; the        *)
(* updates that make it do so come from other PEs, and it stays so.  An    *)
(* update on its way may land by itself, but need not before this PE makes *)
(* progress, which the routines do when a test fails.  wait_until rests    *)
(* between its tests in UCX, whose ucp_worker_wait_mem (external) may come *)
(* back at any time and comes back in the end: it makes no progress, and   *)
(* the code that calls it in a loop relies on that.                        *)
(***************************************************************************)
EXTENDS Integers, FiniteSets, FiniteSetsExt

CONSTANTS
  Waiter,
  NElems,      \* nelems
  MaxWaits,    \* bound: calls each thread makes
  Used         \* [BOOLEAN -> SUBSET Routine]: what the program calls when the
               \* thread level is not, and is, SHMEM_THREAD_MULTIPLE

\* "put_signal" stands for the other calls that are made under the mutex.
Routine == {"wait_until", "wait_until_all", "wait_until_any", "wait_until_some",
            "test", "test_all", "test_any", "test_some", "put_signal"}

Free == "free"     \* nobody has locked the mutex

ASSUME WaitAssumption ==
  /\ Free \notin Waiter
  /\ NElems \in Nat \ {0}
  /\ MaxWaits \in Nat
  /\ Used \in [BOOLEAN -> SUBSET Routine]

Elem == 0..(NElems - 1)

VARIABLES
  multiple,  \* the thread level is SHMEM_THREAD_MULTIPLE
  mutex,     \* the thread that has locked comms_mutex, or Free
  meets,     \* the elements that meet the comparison
  posted,    \* the elements for which such an update is on its way
  calls,     \* calls each thread has begun
  op,        \* the routine of the current or last call of each thread
  where,     \* where each thread is in that call
  skip,      \* the elements that status excludes
  todo,      \* the selected elements this pass has still to look at
  n,         \* elements found to meet the comparison, counted
  found      \* and which they are

memory == <<meets, posted>>
scan == <<todo, n, found>>
waitVars == <<multiple, mutex, memory, calls, op, where, skip, scan>>

\* wait_until_all begins its last pass with a count below nelems.
WaitTypeOK ==
  /\ multiple \in BOOLEAN
  /\ mutex \in Waiter \cup {Free}
  /\ meets \in SUBSET Elem /\ posted \in SUBSET Elem
  /\ calls \in [Waiter -> 0..MaxWaits]
  /\ op \in [Waiter -> Routine]
  /\ where \in [Waiter -> {"out", "lock", "scan", "asleep", "collect", "return"}]
  /\ skip \in [Waiter -> SUBSET Elem] /\ todo \in [Waiter -> SUBSET Elem]
  /\ n \in [Waiter -> 0..(2 * NElems - 1)]
  /\ found \in [Waiter -> SUBSET Elem]

WaitInit ==
  /\ multiple \in BOOLEAN
  /\ mutex = Free
  /\ meets = {} /\ posted = {}
  /\ calls = [t \in Waiter |-> 0]
  /\ op = [t \in Waiter |-> "put_signal"]
  /\ where = [t \in Waiter |-> "out"]
  /\ skip = [t \in Waiter |-> {}] /\ todo = [t \in Waiter |-> {}]
  /\ n = [t \in Waiter |-> 0]
  /\ found = [t \in Waiter |-> {}]

-----------------------------------------------------------------------------
(* The mutex.                                                              *)

\* The routines wrapped in SHMEMT_MUTEX_PROTECT; the others are wrapped in
\* SHMEMT_MUTEX_NOPROTECT.
Protected(r) == r \notin {"wait_until", "test"}

\* Their bodies that say "return ..." leave the wrapper before its unlock.
ReturnsInside(r) ==
  r \in {"wait_until_any", "wait_until_some", "test_all", "test_any", "test_some"}

\* Below SHMEM_THREAD_MULTIPLE lock and unlock do nothing.
Unlocks(r) == multiple /\ Protected(r) /\ ~ReturnsInside(r)

-----------------------------------------------------------------------------
(* One call.                                                               *)

Selected_All(t) == Elem

Selected(t) == Elem \ skip[t]

\* What the routine does first: test_some has only the pass that collects the
\* elements; a put with signal does not look at any.
Start(r) ==
  CASE r = "test_some" -> "collect" [] r = "put_signal" -> "return" [] OTHER -> "scan"

\* Waiter t begins routine r on the elements that status leaves in; skip are
\* the others.
Begin(t, r, s) ==
  /\ where[t] = "out"
  /\ calls[t] < MaxWaits
  /\ multiple \/ \A u \in Waiter \ {t} : calls[u] = 0
  /\ r \in Used[multiple]
  /\ calls' = [calls EXCEPT ![t] = @ + 1]
  /\ op' = [op EXCEPT ![t] = r]
  /\ skip' = [skip EXCEPT ![t] = s]
  /\ todo' = [todo EXCEPT ![t] = Elem \ s]
  /\ where' = [where EXCEPT ![t] =
              IF multiple /\ Protected(r) THEN "lock" ELSE Start(r)]
  /\ n' = [n EXCEPT ![t] = 0]
  /\ found' = [found EXCEPT ![t] = {}]
  /\ UNCHANGED <<multiple, mutex, memory>>

\* The program leaves in one element at least.
OnSome(t, r) == \E s \in SUBSET Elem \ {Elem} : Begin(t, r, s)

\* These look at one variable.
WaitUntil(t) == \E e \in Elem : Begin(t, "wait_until", Elem \ {e})
Test(t) == \E e \in Elem : Begin(t, "test", Elem \ {e})

WaitUntilAll(t) == OnSome(t, "wait_until_all")
WaitUntilAny(t) == OnSome(t, "wait_until_any")
WaitUntilSome(t) == OnSome(t, "wait_until_some")
TestAll(t) == OnSome(t, "test_all")
TestAny(t) == OnSome(t, "test_any")
TestSome(t) == OnSome(t, "test_some")

\* The vector forms compare each element with a value of its own; their loops
\* are those of the forms above.
AllVectorLoop(t) == WaitUntilAll(t)
AnyVectorLoop(t) == WaitUntilAny(t)
SomeVectorLoop(t) == WaitUntilSome(t)

WaitUntilAllVector(t) == AllVectorLoop(t)
WaitUntilAnyVector(t) == AnyVectorLoop(t)
WaitUntilSomeVector(t) == SomeVectorLoop(t)
TestAllVector(t) == TestAll(t)
TestAnyVector(t) == TestAny(t)
TestSomeVector(t) == TestSome(t)

TypedPutSignal(t) == Begin(t, "put_signal", {})

Enter(t) ==
  \/ WaitUntil(t) \/ WaitUntilAll(t) \/ WaitUntilAny(t) \/ WaitUntilSome(t)
  \/ Test(t) \/ TestAll(t) \/ TestAny(t) \/ TestSome(t)
  \/ WaitUntilAllVector(t) \/ WaitUntilAnyVector(t) \/ WaitUntilSomeVector(t)
  \/ TestAllVector(t) \/ TestAnyVector(t) \/ TestSomeVector(t)
  \/ TypedPutSignal(t)

LockMutex(t) ==
  /\ where[t] = "lock"
  /\ mutex = Free
  /\ mutex' = t
  /\ where' = [where EXCEPT ![t] = Start(op[t])]
  /\ UNCHANGED <<multiple, memory, calls, op, skip, scan>>

\* shmemc_progress: updates that are on their way land, one at least.
Progress ==
  \/ posted = {} /\ UNCHANGED memory
  \/ \E landed \in SUBSET posted \ {{}} :
       /\ meets' = meets \cup landed
       /\ posted' = posted \ landed

\* shmemc_ctx_test: look at the next element of the array, and make progress
\* if it does not meet the comparison.
Hit(t) ==
  LET e == Min(todo[t]) IN
  /\ where[t] \in {"scan", "collect"}
  /\ todo[t] # {}
  /\ e \in meets
  /\ IF where[t] = "scan" /\ op[t] = "wait_until_some"
     THEN \* one is there: now see which ones are
          /\ where' = [where EXCEPT ![t] = "collect"]
          /\ todo' = [todo EXCEPT ![t] = Selected(t)]
          /\ UNCHANGED <<n, found>>
     ELSE /\ where' = [where EXCEPT ![t] =
                      IF op[t] \in {"wait_until", "wait_until_any", "test", "test_any"}
                      THEN "return" ELSE @]
          /\ todo' = [todo EXCEPT ![t] = @ \ {e}]
          /\ n' = [n EXCEPT ![t] = @ + 1]
          /\ found' = [found EXCEPT ![t] = @ \cup {e}]
  /\ UNCHANGED <<multiple, mutex, memory, calls, op, skip>>

Miss_NoProgress(t) ==
  /\ where[t] \in {"scan", "collect"}
  /\ todo[t] # {}
  /\ Min(todo[t]) \notin meets
  /\ todo' = [todo EXCEPT ![t] = @ \ {Min(todo[t])}]
  /\ UNCHANGED <<multiple, mutex, memory, calls, op, where, skip, n, found>>

Miss(t) ==
  /\ where[t] \in {"scan", "collect"}
  /\ todo[t] # {}
  /\ Min(todo[t]) \notin meets
  /\ todo' = [todo EXCEPT ![t] = @ \ {Min(todo[t])}]
  /\ Progress
  /\ UNCHANGED <<multiple, mutex, calls, op, where, skip, n, found>>

\* What the end of a pass over the array means to the routine: whether it
\* passes over it once more.  The count of wait_until_all goes on from pass to
\* pass.
AllSatisfied(t) == n[t] >= NElems

AllGoesOn(t) == op[t] = "wait_until_all" /\ ~AllSatisfied(t)
AnyGoesOn(t) == where[t] = "scan" /\ op[t] \in {"wait_until_any", "wait_until_some"}

EndOfPass(t) ==
  /\ where[t] \in {"scan", "collect"}
  /\ todo[t] = {}
  /\ op[t] # "wait_until"
  /\ IF AllGoesOn(t) \/ AnyGoesOn(t)
     THEN todo' = [todo EXCEPT ![t] = Selected(t)] /\ UNCHANGED where
     ELSE where' = [where EXCEPT ![t] = "return"] /\ UNCHANGED todo
  /\ UNCHANGED <<multiple, mutex, memory, calls, op, skip, n, found>>

\* wait_until after a test that has failed: into ucp_worker_wait_mem ...
WaitMem(t) ==
  /\ where[t] = "scan"
  /\ todo[t] = {}
  /\ op[t] = "wait_until"
  /\ where' = [where EXCEPT ![t] = "asleep"]
  /\ UNCHANGED <<multiple, mutex, memory, calls, op, skip, scan>>

\* ... and out of it, to the next test.
TestAgain(t) ==
  /\ where[t] = "asleep"
  /\ where' = [where EXCEPT ![t] = "scan"]
  /\ todo' = [todo EXCEPT ![t] = Selected(t)]
  /\ UNCHANGED <<multiple, mutex, memory, calls, op, skip, n, found>>

\* What test_any answers: the element it has found, 0 if there is none.
AnyIndex(t) == IF found[t] = {} THEN 0 ELSE CHOOSE e \in found[t] : TRUE

Leave(t) ==
  /\ where[t] = "return"
  /\ where' = [where EXCEPT ![t] = "out"]
  /\ mutex' = IF Unlocks(op[t]) THEN Free ELSE mutex
  /\ UNCHANGED <<multiple, memory, calls, op, skip, scan>>

-----------------------------------------------------------------------------
(* The other PEs, and the transport.                                       *)

Remote(e) ==
  /\ e \notin meets \cup posted
  /\ posted' = posted \cup {e}
  /\ UNCHANGED <<multiple, mutex, meets, calls, op, where, skip, scan>>

UpdatesLand ==
  /\ posted # {}
  /\ Progress
  /\ UNCHANGED <<multiple, mutex, calls, op, where, skip, scan>>

\* The program has made its calls and nobody is left in one.
AllOut ==
  /\ \A t \in Waiter : where[t] = "out"
  /\ UNCHANGED waitVars

\* What thread t does within a call.
Goes(t) ==
  \/ LockMutex(t) \/ Hit(t) \/ Miss(t) \/ EndOfPass(t)
  \/ WaitMem(t) \/ TestAgain(t) \/ Leave(t)

WaitStep(t) == Enter(t) \/ Goes(t)

WaitNext ==
  \/ \E t \in Waiter : WaitStep(t)
  \/ \E e \in Elem : Remote(e)
  \/ UpdatesLand
  \/ AllOut

WaitSpec == WaitInit /\ [][WaitNext]_waitVars

\* Threads run on, ucp_worker_wait_mem comes back, and the other PEs send the
\* updates that are waited for.
\* Nothing obliges the program to make a call, or an update to land by itself.
WaitFairness ==
  /\ \A t \in Waiter : WF_waitVars(Goes(t))
  /\ \A e \in Elem : WF_waitVars(Remote(e))

FairWaitSpec == WaitSpec /\ WaitFairness

-----------------------------------------------------------------------------
(* Properties.                                                             *)

\* What a wait reports are selected elements that meet the comparison, and it
\* never comes back with nothing.  What test_some reports are such elements, and
\* so is what test_any answers unless it is 0, which may also mean that there is
\* none.  test_all says yes only if all selected elements meet it.
AnswersHold ==
  \A t \in Waiter :
    where[t] = "return" =>
      /\ found[t] \subseteq meets \ skip[t]
      /\ op[t] \in {"wait_until", "wait_until_all", "wait_until_any", "wait_until_some"}
           => found[t] # {}
      /\ op[t] = "test_any" /\ AnyIndex(t) # 0 => AnyIndex(t) \in meets \ skip[t]
      /\ op[t] = "test_all" /\ n[t] = NElems => Elem \ skip[t] \subseteq meets

\* Every call returns once the updates it waits for have been sent: waiting
\* itself makes them land.  For programs of one thread, or of threads that call
\* only the routines that unlock the mutex on their way out (see MutexGivenBack
\* for the others): a thread that waits with the mutex locked does not stop them
\* for ever.
EveryWaitReturns == \A t \in Waiter : where[t] # "out" ~> where[t] = "out"

\* wait_until_all "blocks until all elements in an array meet specified
\* comparison criteria" (waitall.c).
AllMeansAll ==
  \A t \in Waiter :
    where[t] = "return" /\ op[t] = "wait_until_all" => Elem \ skip[t] \subseteq meets

\* The mutex is locked by a thread that is inside a call: "Execute function
\* within mutex lock/unlock" (shmem_mutex.h).
MutexGivenBack == \A t \in Waiter : mutex = t => where[t] # "out"
=============================================================================
