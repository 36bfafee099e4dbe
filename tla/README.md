# OSSS-UCX in TLA+

Specifications, model checks and proofs for OSSS-UCX, an implementation of
OpenSHMEM over UCX and PMIx. Paths are relative to `src/src/`, the library,
unless they begin with `src/`.

1. The system  2. Modules  3. Runs  4. Disagreements  5. Proofs
6. What is only model-checked, and what is not modelled  7. Plan

## 1. The system

A program runs as a number of processes (PEs). Each PE has a symmetric heap and
static data that every other PE may read and write. The library is called by
the program's threads; it has no server. PEs interact only through

* one-sided operations on each other's memory (put, get, atomics), which the
  library posts on a UCX worker and which land later, and
* PMIx at start-up, at shutdown and for a global exit.

| Component | Source | State it keeps | Operations | What makes it correct |
|---|---|---|---|---|
| Remote memory access | `shmemc/ucx/comms.c`, `api/rma/`, `api/atomics/`, `api/fence.c`, `api/quiet.c` | UCX workers and endpoints of each context | put, get, atomics, put with signal, fence, quiet | each operation takes effect once, on its own words; order only where fence, quiet or a signal ask for it |
| Barrier, sync | `shcoll/src/barrier.c` | a symmetric work array (`pSync`) per use, pokes in flight | `barrier`, `barrier_all`, `sync`, `sync_all`, `team_sync` by five algorithms | nobody leaves before everybody has entered; consecutive calls share a work array and must not mix; a barrier completes puts |
| Trees | `shcoll/src/util/trees.c` | none | parent and children of a node | PEs compute their part each for itself and must agree |
| Data-moving collectives | `shcoll/src/{broadcast,collect,fcollect,alltoall,alltoalls,reduce}.c`, `util/{scan,rotate}.c` | work arrays, scratch buffers, data in flight | some fifty routines | the right block at the right place, a clean work array, nobody left waiting |
| Selection | `api/collectives/`, `shmemc/env.c` | a table of function pointers, the names from the environment | choice by name at start-up and again by every typed call; active-set and team interface | the routine the caller meant |
| Pool of work arrays | `shcoll/src/util/psync_pool.c` | slots with a busy mark, a counter per team | `psync_alloc`, `psync_free`; nothing calls them, "NOT CURRENTLY IN USE" (line 7) | not modelled, see section 6 |
| Memory regions | `shmemc/ucx/{init,comms}.c`, `api/{ptr,accessible}.c` | base, end and remote keys of the globals and of each heap | `shmem_ptr`, `shmem_addr_accessible`, the translation in every access | a pointer means the same object everywhere and takes the key of its region |
| Settings | `shmemc/env.c`, `shmemc/heaps.c`, `shmemu/{unitparse,parse_csv,progress}.c` | sizes, lists of PEs | parsing at start-up | what is meant is what is done |
| Teams | `shmemc/teams.c`, `api/teams/` | maps of ranks, start and stride, five work arrays each | split, translate, sync, destroy | the handles agree; work arrays are symmetric |
| Symmetric heap | `api/shmalloc.c`, `api/allocator/`, `ptmalloc/ptmalloc.c` | an mspace of dlmalloc per PE | `shmem_malloc`, `calloc`, `align`, `realloc`, `free` | the same offset on every PE; no put into what is not there |
| Contexts | `shmemc/contexts.c`, `shmemc/ucx/contexts.c` | a table of slots, a free list | create, destroy | a slot is given out once |
| Start, stop, global exit | `shmemc/init.c`, `shmemc/globalexit.c`, `shmemc/ucx/{init,pmix_client,eps}.c` | PMIx keys, workers, mapped memory, event handlers | `shmem_init`, `shmem_finalize`, `shmem_global_exit` | nothing is used before it is published or after it is unmapped; everybody gets out |
| Progress thread | `shmemu/progress.c` | a flag, the thread | start, poll, stop | it polls a worker that is there |
| Locks | `api/lock.c` | the lock word at one owner PE, a node per PE | `set_lock`, `test_lock`, `clear_lock` | exclusion, visibility of what was put under the lock, progress |
| Wait and test | `shmemc/ucx/{waituntil,test}.c`, `api/pt2pt_synch/` | loop counters | `wait_until*`, `test*`, single, all, any, some, with one value or a vector | what they report holds; they return |
| Threads | `shmemt/` | one process-wide mutex, not recursive | `SHMEMT_MUTEX_PROTECT` | protected calls exclude each other and leave it free |
| The rest | `shmemu/`, `klib/`, `osh_info/`, `api/deprecated/` | | logging, third-party code, stubs | |

**How they interact.** Every collective is made of one-sided operations on work
arrays and buffers. `shmem_malloc`, `shmem_free`, start-up and shutdown call
`shmem_barrier_all`; some reductions call `shmem_malloc`. Teams take their work
arrays from the symmetric heap by a local call, which only works if all PEs
allocate in step. The puts of a lock's holder are completed by the quiet in its
release. Fence and quiet are the only order the transport keeps.

**What is hard to test.** Posted operations land at any later time and in any
order; a fast PE is in its next call while a slow one is in the last; one word
serves for pokes from below and above and for the next call; a non-blocking put
may read its source long after the call; threads of one PE share a lock node, a
mutex and a table of contexts; sizes that are no power of two or of a radix;
one PE that is ahead in start-up or shutdown; a global exit in the middle of
either. `PROJECT.json` lists each hazard at its line, with the properties that
would catch it or the reason why none does.

## 2. Modules

| Module | Models | Composes |
|---|---|---|
| `MemorySpec` | what remote memory access promises | |
| `RemoteMemory` | `shmemc/ucx/comms.c`: the calls and the transport under them | implements `MemorySpec` |
| `AccessCalls`, `MCRemoteMemory` | the routines of `api/rma`, `api/atomics`, as the calls below them | programs for `RemoteMemory` |
| `Addresses` | regions, remote keys and the translation of addresses in `comms.c` and `ucx/init.c`, `shmem_ptr`, `shmem_addr_accessible` | |
| `Settings` | sizes and lists of the environment, the leader of a node, who has a progress thread | |
| `BarrierSpec` | what a barrier promises | |
| `Trees` | `util/trees.c` as functions of size, root, degree and node | |
| `TreeBarrier`, `MCTreeBarrier` | binomial, k-nomial and complete tree barriers | implements `BarrierSpec`; trees from `Trees` |
| `LinearBarrier`, `DisseminationBarrier` | the other two barriers | implement `BarrierSpec` |
| `MCBarriers` | instances of the trees and of the three barriers | all of the above |
| `OneSided` | the vocabulary of collective programs | |
| `BroadcastPrograms`, `ExchangePrograms`, `ReducePrograms` | `broadcast.c`; `fcollect.c`, `alltoall.c`, `alltoalls.c`, `collect.c`; `reduce.c`, `scan.c` | built from `OneSided` and `Trees` |
| `CollectiveCalls` | the active-set and the team interface around a routine, what a caller may expect | the three above |
| `Collectives`, `MCCollectives` | what runs the programs: memory, network, fences, waits | the cases from `CollectiveCalls` |
| `CollectiveSelection` | `api/collectives/table.c`, `shcoll-shim.c`: which routine a call runs | |
| `Teams` | `shmemc/teams.c`: handles, splits, translation, active sets | |
| `SymmetricHeap` | `api/shmalloc.c`, the allocation of work arrays, team split and destruction, puts by offset | `Teams` |
| `MCSymmetricHeap` | a machine, a menu of requests and of puts for it | `SymmetricHeap` |
| `HeapSpec` | what an allocator promises | |
| `Mspace`, `Mspaces` | the mspace calls of `ptmalloc/ptmalloc.c`; the heaps of all PEs | `Mspaces` implements `HeapSpec` |
| `MCLocal` | what PEs work out without a message | `Addresses`, `Settings`, `CollectiveSelection`, `Mspaces` |
| `Lifecycle`, `MCLifecycle` | start-up, contexts, progress thread, shutdown, global exit | the tree of its barrier from `Trees` |
| `LockSpec`, `Lock`, `MCLock` | `api/lock.c` and what it promises | `Lock` implements `LockSpec` |
| `WaitSets`, `MCWaitSets` | wait and test routines and the mutex around some of them | |
| `MCWaiting` | how threads wait for one another | `MCWaitSets`, `MCLock` |
| `BarrierProofs`, `LockProofs`, `WaitSetsProofs`, `AddressesProofs`, `CollectiveSelectionProofs`, `SymmetricHeapProofs`, `LifecycleProofs`, `RemoteMemoryProofs` | the proofs | each extends the module it is about |

**Conventions.** One action is one stretch of C between two points at which
another PE or thread can be noticed; a blocking wait is the guard of the action
after it. A posted operation is kept in a variable (`net`, or counters such as
`pokes`) from its issue until the action that makes it land. A fetching atomic
whose caller does nothing but wait for it is one step in the barriers and the
lock; `RemoteMemory` takes it apart. An operator with an underscore in its
name, as `Enter_NoQuiet`, is a deliberately wrong version of the definition it
stands next to, for seeing that a property notices; no behaviour contains it.

### Remote memory (`RemoteMemory`, `AccessCalls`)

`prog` is what each thread calls, `at` and `stage` how far it is, `net` the
operations in flight, `mem` the words, `got` the result buffers, `epoch` the
fences on each context. `PostOnly` and `PostAndWait` are the routines that
return at once and those that wait for their request; `Signal` is the fence and
signal after the put of `put_signal`; `CasLoad`, `CasSwap`, `CasRetry` and
`CasReturn` are the loop for bitwise atomics when UCX has none (`native` is
chosen in `Init`, as the build does). That loop works on 8 bytes, so `Beside`
says which words share them. The transport reads sources (`ReadSource`: a
non-blocking put's at any time before a quiet), lands operations in any order a
fence leaves open (`MayLand`), and delivers answers. `AccessCalls` translates
each routine of the interface; the name of an operator is that of the routine
without `shmem_`, `Default...` the forms without a context. `MemorySpec` has no
network: an operation, once begun, takes effect at one moment and once. In the
mapping, `Want` is what a call does to a word according to its program, `Begun` the words
of the calls that have come so far, and `Pending` those in flight and not landed, or
of a loop that has not swapped. `IsCall` says what a call of a program can be.

### Barriers (`TreeBarrier`, `LinearBarrier`, `DisseminationBarrier`)

The three tree helpers of `barrier.c` differ in the tree they walk and not in
what they do, so the tree is a parameter with the shape `TreeShape`, which
`TreesFit` checks of `trees.c`. `Enter` is the entry point with its quiet,
`PokeParent` the wait for the children and the inc of the parent's word,
`ClearAndPoke` the `shmem_long_p` to the own word and the incs of the children,
`ResetPsync` the reset after a team sync; `PokeLands`, `ClearLands`,
`StoreLands` are the delivery. `Uses` lists the ways the collective is called:
with or without quiet, reset, and prompt puts to the own PE. The linear barrier
waits until its own clear has landed, so nothing is assumed of that put there.
The dissemination barrier uses one word per stage as a counting semaphore.
`MCBarriers` lets each behaviour be of one of the three; the others rest.

### Other collectives (`Collectives` and its programs)

A collective routine is, on each PE, a sequence of steps: a condition of the own
PE and the effects up to the next point where another PE can be noticed. So the
routines are data, `BroadcastLinear(root, me, from, len)` and so on, one operator
per C helper, and one module runs them all. A value is the set of contributions
that went into it, so a block in the wrong place and a contribution reduced
twice both show. A word of the work array keeps its number in the code, and
sizes and offsets that collect sends through it are numbers. `lazy` lets a
non-blocking put read its source when it lands, `late` lets a put to the own PE
land late, `apart` is what the program does between two calls: a barrier, a
sync, or nothing. `Called` picks the entry point: `shmem_broadcast` and its
sisters for an active set, `Team...` with the work array of the team and its
reset for a team. PEs are indices of the active set.

### Heap and teams (`SymmetricHeap`, `Teams`)

All PEs run the same program, which the first PE to make its k-th call chooses
(`Lead`, `Follow`). A call is a sequence of steps: local allocation, arrival at
and departure from `shmem_barrier_all`, and for a split the allocation of the
work arrays by who has the parent team. The allocator is a function of heap and
request (first fit stands for dlmalloc, of which all that counts here is that it
is deterministic; what it computes is in `Mspace`). A put names an object by the
offset it has in the heap of the caller, as `translate_region_address` does.
`Teams` computes handles as each PE does for itself; `ActiveSet` is what the
collectives make of start and stride. A put is to a rank of some team, which
`TeamPtr` turns into a PE.

### Allocator (`Mspace`, `Mspaces`)

`Mspace` has the state of dlmalloc as the build configures it: one segment that
neither grows nor shrinks, boundary tags, small bins as sets, tree bins as
tries keyed by the bits of a size, the designated victim and the top chunk.
`Malloc`, `Free`, `Realloc`, `Memalign` and `Calloc` follow the branches of
`mspace_malloc` and its sisters; sizes are bytes at the interface and granules
of 8 bytes inside, and `WordBits` bounds them so that the product in `calloc` wraps
around. `Mspaces` makes each collective call on every PE's space; the bases are
page-aligned but differ, because `memalign` rounds absolute addresses
(`ptmalloc.c:4233`).

### Addresses and settings (`Addresses`, `Settings`)

Each PE registers its regions one after another (`RegisterGlobals`,
`RegisterSymmetricHeap`), where UCX puts them. Afterwards a pointer travels: `Access`
looks for the region that holds it (`LookupRegion`), computes the address at the
target (`TranslateAddress`) and takes a key (`RemoteKey`); the target finds there
what it points to. `Ask` is `shmem_addr_accessible`, `Store` goes through `shmem_ptr`.
`Settings` reads a size as a number and a unit, walks a list of ranges into an
array that grows by a chunk, and derives from the lists who leads a node and who
has a progress thread. `progress_threads` is not set, a list of ranges, or one of the
words that mean all PEs; only the leader of a node asks for a word.

### Selection (`CollectiveSelection`)

`Try` and `Register` are the look-up by name that fills an entry of the table of
implementations in use: at start-up from the environment, and once more at the
beginning of each typed call (`TypedCall`), with the type behind the name. `Run` is the
call through the entry, whatever is in it by then. `multiple` is the thread level
`SHMEM_THREAD_MULTIPLE`; below it a program makes one call at a time.

### Life of a PE (`Lifecycle`)

`todo` is the sequence of steps of start-up and shutdown, so the order of the
calls in `api/init.c`, `shmemc/init.c` and `shmemc/ucx/init.c` is `Startup` and
`Shutdown`, and each step is an action. PMIx is `pending`, `store` and `fences`:
a put becomes visible with the commit, a fence waits for everybody. The
two barriers are played out poke by poke along the binomial tree, as these
pokes are what may land too late. `software` says that an operation needs the
worker of the target to make progress. `slots` is the table of contexts with
its free list. `GlobalExit` is the PMIx event, `EventEnds` its handler at one
PE: `_exit`, so that the shutdown registered with `atexit` does not run.

### Locks and waits (`Lock`, `WaitSets`)

`word` is the lock word at the owner, `node` the per-PE half of the lock
variable, `t` the local result of the swap. The branches that would build a
queue are in the actions as in the code; `NeverQueued`, a part of the inductive
invariant, says that they are dead. `LockOwner` follows `get_owner_spread`; `Short`
cuts PE numbers to 16 bits.

In `WaitSets`, `meets` are the elements that meet the comparison, `posted` those
for which an update is on its way, `todo` what a pass has still to look at. `Miss`
is a failed test with the progress call in it. `WaitMem` and `TestAgain` are the way
of `wait_until` into `ucp_worker_wait_mem` and out of it (`ucx/waituntil.c:24`).
`mutex` follows `SHMEMT_MUTEX_PROTECT`; `wait_until` and `test` are wrapped in
`SHMEMT_MUTEX_NOPROTECT` and do without. `put_signal` stands for the other calls that
take the mutex. `Unlocks` is false for the routines that return from inside the macro.
`AnyIndex` is the answer of `test_any`, which is 0 also when nothing was found. The
forms with a vector of values take the same way as the others and compare each
element with a value of its own. An update once there stays.

## 3. Runs

Deadlock is checked unless said otherwise; `Done` and `Finished` are stuttering
steps for the state in which the program is over.

| Run | Bounds | Shows |
|---|---|---|
| `Barriers` | trees: sizes 1-12, all roots, degrees 2-4. Tree barrier: 4 PEs, binomial, 2 calls of barrier and sync, 1 of each kind with late clears, puts by PEs 0 and 3. Linear and dissemination: 4 PEs, 3 calls | parents and children computed at different PEs agree and span the active set; all three implement `BarrierSpec`, no poke is lost, barriers complete puts, calls do not mix, every call returns |
| `TeamSyncHang` (violation) | 4 PEs, 2 team syncs | the reset erases a poke of the next team sync |
| `FcollectRotate` (violation) | 3 PEs, 2 calls | the default fcollect returns with blocks out of order |
| `Collectives` | every routine in the tables, 3 PEs and 2 calls (2 PEs for those that need an even number), one call on 4 or 5 PEs, both interfaces | data right, work array clean, nobody stranded |
| `SymmetricHeap` | 3 PEs (two on one machine), 5 cells, programs of 3 calls, 1 put in flight | objects are at one address, handles agree, puts hit their object |
| `Lifecycle` | 3 PEs; 2 contexts and 1 put by PE 0, a progress thread at PE 1, which may also call for a global exit | fetches find keys, nothing outlives the memory it is for, no dead worker is polled, contexts do not share slots, everybody gets out |
| `Waiting` | waits: 2 elements, 2 calls each; 1 thread with every routine, 2 threads with those that unlock. Lock: 4 threads on 3 PEs, the heap at another address on each | what is reported holds, every wait returns; implements `LockSpec`, somebody gets in, releases return |
| `AllMeansAll` (violation) | as the waits of `Waiting` | `wait_until_all` returns while an element does not meet the comparison |
| `MutexGivenBack` (violation) | the same, with every routine also for 2 threads | a thread leaves its call and the mutex stays locked |
| `RemoteMemory` | 31 programs of 2 or 3 threads, each with and without bitwise atomics in UCX; 4 words on 2 PEs, 3 contexts of which one without ordered stores | implements `MemorySpec`; a flag or signal that is seen means data that is there; every call returns |
| `Local` | addresses: 3 PEs, PEs 0 and 1 on one node, heaps of 1 and 2 pages in either order, adjacent or not, above globals; addresses that are private at one PE and symmetric at another. Settings: 3 PEs, multiplier 4, array grown by 2. Selection: every name of a table, with a suffix or a type, and an unknown one; two threads, one at a time with any routine, at once with seven. Heaps: 2 PEs, 60 granules from neighbouring pages of 8, at most 5 blocks, requests of 56 and 136 bytes; empty at first, or fragmented so that a trie has four sizes | a pointer keeps its object and takes the key of its region; progress threads run where a list names them, each node has one leader, the size shown is the size read; a call runs its own operation by the algorithm named, and for its own type if there is one call at a time; a name that is accepted serves; `HeapSpec` is implemented, chunks tile the heap and each free one is in its bin, a large request is cut from the best fit and refused only if nothing fits, offsets agree |
| `ProgressOnAll` (violation) | as the settings of `Local` | with progress threads on all PEs asked for, one that leads no node starts none |

Modules that share no state share a run: each behaviour is of one of them (the
variable `part` of the MC module) and the rest stands still. `Barriers`, `Waiting` and
`Local` are such runs. The longest run takes about four minutes.

**Why these bounds.** Four nodes of a binomial tree are a root, an inner node
and leaves at two depths. Consecutive calls can only meet if they are
neighbours: two calls show what one leaves to the next, three show a call with a
neighbour on either side. Twelve is beyond three powers of two, two of three and
a full second level for degree four. Three PEs are the smallest number that is
no power of two, five the next beyond four, at which Bruck's and the trees' last
rounds are cut; `edge_color` and `xor` need even numbers or powers of two. Three
calls on the heap are the shortest program that allocates, changes the heap with
one PE ahead, and allocates again; five cells leave room for the two predefined
teams' arrays and some, so that requests also fail. One put in flight is enough
since puts do not affect one another. Two elements are the fewest of which one
can be missing. Four threads on three PEs have two threads that share a node and
threads that do not. The 60 granules of a heap hold the state of the allocator,
five blocks and what alignment wastes, so that requests fail as well as succeed;
56 and 136 bytes belong to different tries, and what is cut off a chunk for them
or for an alignment can be small enough for a small bin. Pages of two bytes put
heaps end to end with and without a remainder. Words of two bits are the
smallest on which `and`, `or`, `xor` and `add` differ from one another and a
carry exists.

`MaxRound`, `FlatRounds`, `MaxCalls`, `MaxNet`, `MaxContexts`, `MaxPuts`,
`MaxWaits`, `MaxBlocks` and the lengths of programs are the only bounds on
behaviours; the callers of the lock go round for ever.

`CHECK_DEADLOCK FALSE` is set where the system really may stop: team syncs in
`Barriers` and `TeamSyncHang`; `FcollectRotate`, `MutexGivenBack` and `ProgressOnAll`,
which look for one thing only; and `Local`, where start-up ends, or a program has no
symmetric pointer to go on with.

What a case leaves out, on purpose. In `Collectives`, tree broadcasts by team
have a sync, and active-set calls a barrier, between two calls, as the interface
asks for; the fcollect with Bruck's algorithm runs over a transport that takes the
data at the call, the other one is `FcollectRotate`. In `SymmetricHeap`, programs call a
barrier after a split (without it `PutsHitTheirObject` fails), and split the world
only (section 4 on what happens otherwise). In `Lifecycle`, on a `software` transport,
the program completes the puts on its own contexts before `shmem_finalize`. In
`Waiting`, a second thread calls only routines that unlock, since with the others a
wait need not return; `MutexGivenBack` has the others.

**Fairness.** Each PE runs on inside the library and makes its calls: weak
fairness of a PE's or thread's steps. UCX delivers what was posted: weak
fairness of the network. For the lock, holders release some time, but nobody
has to ask for it. For the waits, the other PEs send the updates, and nothing
makes one land but the progress that the waiting PE makes itself. Weak fairness of
a thread includes that it comes out of `ucp_worker_wait_mem` in the end, as the
loop of `wait_until` relies on (`ucx/waituntil.c:24`); nothing else is assumed of that
call, and it makes no progress. If UCX kept it until the memory has changed, a
`wait_until` could wait for an update that waits for its progress. In
`Lifecycle`, a PE goes on or its event handler ends it, its progress thread is
scheduled and wakes up, and operations land, but not at a PE that is gone. Weak
fairness is enough everywhere. `Collectives` and `SymmetricHeap` state no liveness: their programs
cannot loop, so that deadlock checking and `NobodyStranded` say what there is to
say. In `Local` a step is a call, or waits for nothing.

## 4. Disagreements between the code and what is said of it

With a run:

1. **Team sync** (`shmemc/teams.c:187`): the reset that should make the work
   array "ready for reuse" (line 149) stores over pokes that were sent for the
   next team sync. `TeamSyncHang`; the linear barrier is exposed too, so that
   liveness in `Barriers` is claimed for barrier and sync only.
2. **fcollect** (`shcoll/src/fcollect.c:402`): the default (`bruck_inplace`)
   rotates dest while its own non-blocking puts may not have read it.
   `FcollectRotate`.
3. **`wait_until_all`** (`shmemc/ucx/waituntil.c:57`): one count goes on over all
   passes, so that an element that meets the comparison is counted again in each.
   The routine can return before "all elements in an array meet specified comparison
   criteria" (`api/pt2pt_synch/waitall.c:5`). `AllMeansAll`.
4. **The mutex** (`api/pt2pt_synch/testany.c:78` and others): the waits for any and
   some, and the tests for all, any and some, return from inside
   `SHMEMT_MUTEX_PROTECT`, which promises to run them "within mutex lock/unlock"
   (`shmemt/shmem_mutex.h:56`), and keep the mutex. With several threads the next
   protected call blocks for good. `MutexGivenBack`.
5. **Progress threads** (`shmemu/progress.c:104`): only the leader of a node looks
   whether the value says yes or all; the other PEs parse it as a list, in which a
   word is PE 0. `src/man/man1/oshrun.1.in:91` promises a thread "on all PEs".
   `ProgressOnAll`; `SettingsHold` in `Local` is about lists and the value not set.

With no run of their own; for the first four, constants with which a property of a
passing run fails:

* **Nested teams** (`shmemc/teams.c:510`): start and stride are kept as ranks of
  the parent; the collectives of a team split from a team use them as PEs of the
  world. Such a split also allocates on some PEs only, after which addresses
  differ. `SymmetricHeap` with `Nested = TRUE` and a menu that splits the team of
  PEs 0 and 2 again: `HandlesAgree` and `SameAddress` fail.
* **Irregular teams** (`shmemc/teams.c:323`): collectives over a team step from its
  start by a power of two. `SHMEM_TEAM_SHARED` has stride 1 also when the PEs of a
  machine are not numbered in a row; of a stride that is no positive power of two a
  debug build warns (`shmemu/shmemu.h:386`), and the collective goes on with a smaller
  one. `SymmetricHeap` with 4 PEs placed alternately on two machines, or with a split
  of stride 3: `HandlesAgree` fails. `RegularTeams` leaves both out.
* **Large alignments** (`ptmalloc/ptmalloc.c:4233`): `memalign` rounds absolute
  addresses, and the heaps of the PEs have only a page in common. `Local` with
  `Alignments = {128}`, two pages: `SameOffset` fails.
* **Two typed collectives at once** (`api/collectives/shcoll-shim.c:53`): a call
  registers its implementation in the one process-wide table and then calls
  through it, so that of two threads one can run the implementation for the type of
  the other. `RunsWhatWasAsked` without its condition `~multiple` fails in `Local`.
* **Order of the lock** (`api/lock.c:155`): callers spin on a compare-and-swap of the
  lock word and any of them may be the next, while the comments have them "queued in
  order of arrival" (line 334) and "the first in line" acquire the lock (line 355). The
  code for a queue is there and dead: theorem `LockNeverQueues`. What `Waiting` claims
  of progress is that somebody gets in, not who.
* **Missing results** (`shcoll-shim.c:217`): the `mem` routines of alltoall,
  alltoalls, collect, fcollect and broadcast, and `shmem_team_sync`, are declared to
  return an int and return nothing.

Seen while modelling, without a run of their own. *Collectives:*

* The dissemination barrier needs a word per stage and has
  `SHMEM_BARRIER_SYNC_SIZE` = 2: five PEs overrun it (`barrier.c:257`,
  `teams.c:113`). The signalled alltoall needs a word per peer and has 64
  (`alltoall.c:191`).
* A team broadcast has no release phase: two in a row without a sync between
  them can lose an announcement (`broadcast.c:188`, `teams.c:187`). The ring
  collect by team is erased likewise (`collect.c:392`); `all_linear` fcollect and
  collect back to back can be overtaken by lazy puts.
* A team reduction allocates its scratch with `shmem_malloc`, a barrier of all
  PEs (`reduce.c:1091`): on a smaller team it never returns
  (`MCCollectives!SubTeamReduction` is the case).
* Rabenseifner with a number of PEs that is no power of two: a PE outside of
  the power of two leaves word 0 of its work array set.
* `complete_tree` and `scatter_collect` compare `PE_root` with global PE numbers
  (`broadcast.c:104`, `130`); the linear broadcast computes the root from
  `PE_start` and stride, but fcollect, collect and reduce pass `PE_start` as the
  index of the root: wrong unless the active set starts at 0. The linear fcollect
  copies `nbytes * shmem_n_pes()` (`fcollect.c:50`).
* `edge_color` returns -1 for odd numbers of PEs (`alltoall.c:48`); strides are
  passed as a truncated logarithm (`barrier.c:355`, `reduce.c:1095`).
* `collect` "simple" is in no table; no table has a name with the suffix "_mem"; a
  value of the form "algorithm:type" makes every type use the implementation of
  that type; the manual gives `color_pairwise_exchange_counter` as the default of
  alltoall, `defaults.h` has `shift_exchange_barrier`; `shmemc_team_sync`
  (`shmemc/teams.c:817`) has no caller; `SHMEMU_CHECK_SYMMETRIC` gets a string for a
  size in `reduce.c`.
* `Trees` leaves out that the array of children has a fixed capacity
  (`util/trees.c:98`).

*Teams, heap, contexts:*

* Destroying a team leaks its work arrays (`teams.c:790`); that is what keeps the
  heaps in step. It also puts contexts on the free list that the program has
  destroyed before. Nothing tears down the contexts of teams at finalize
  (`teams.c:369`, against 367).
* A strided split gives PEs outside of the new team a handle that is not
  `SHMEM_TEAM_INVALID` (the check at `teams.c:550-555` is commented out); an
  invalid one leaks work arrays (`teams.c:525`); no split synchronises.
* `SHMEM_TEAM_SHARED` has stride 1 whatever the placement of the PEs.
* `shmem_malloc(0)` returns without the barrier (`api/shmalloc.c:50`), which all
  PEs do alike; `shmem_realloc(p, 0)` returns NULL and frees nothing (line 153);
  `shmemx_malloc_by_name` has no barrier (`api/extensions/shmalloc.c:139`), and the
  heaps by name it would use are never set up (`api/allocator/xmemalloc.c:47`).
* `compute_tree_index` cuts the size to an unsigned int (`ptmalloc.c:2586`), which
  puts chunks of 2^40 bytes and more in the wrong bin.
* Globals are not translated (`comms.c:101`): the executable must be loaded at the
  same place on every PE.
* The free list of context slots is global while the table is per team
  (`contexts.c:120`): creating a context on another team than the world writes
  outside of its table. With `SHMEM_PREALLOC_CONTEXTS=0` so does the first one.
  A slot reused keeps the thread mode of its former owner (`contexts.c:226`).
  `shmem_team_create_ctx` is not under the mutex.

*Start and stop:* `done` of `progress.c:54` is never reset; `ucx/init.c:381`
reads the thread level before `api/init.c:135` sets it;
`shmemc_pmi_exchange_workers` releases only the last value
(`pmix_client.c:139-163`); the default context is destroyed before the last PMIx
barrier, so a pending put on a context of one's own that needs the target's
worker may strand its PE; `shmem_global_exit` returns to its caller, though
`shmemc/globalexit.c` says it does not; where `_exit` is missing, its handler
calls `exit` (`pmix_client.c:420`), which would run the shutdown with its barrier.

*Memory access:* put with signal has no effective fence on contexts created with
`SHMEM_CTX_NOSTORE` (`comms.c:196`; `MCRemoteMemory!UnorderedSignal`), and quiet
does not complete gets and fetches there either; without UCX bitwise atomics,
`and` on a 32-bit word clears the word beside it (`comms.c:571`;
`MCRemoteMemory!NarrowAnd`); of the non-blocking atomics only `fetch_add_nbi`
does not block.

*Settings:* sizes from exabytes on are shown without a unit; the examples of
`emulation.md` set `SHMEM_PROGRESS_THREAD`, which nothing reads.

*Waits:* `test_any` returns 0 where nothing is found (`ucx/test.c:166`), which is the
index of an element; its comment says -1 (`api/pt2pt_synch/testany.c:69`). `status` is
documented as "1=test, 0=skip" (line 65, `waitall.c:63`) while what is not 0 is skipped.
`test_all` never says yes if `status` excludes anything.

*Locks:* from PE 32768 on `clear_lock` waits for ever, because the number
read back from 16 bits differs (exclusion does not suffer).

## 5. Proofs

TLAPS checks the following for every value of the constants.

**Tree barrier** (`BarrierProofs`): type correctness, `NoEarlyLeave`,
`NoOvershoot`, `EveryPokeCounted`, `BarrierCompletesStores` and the refinement
of `BarrierSpec`, for every tree, any number of calls and PEs, under
`TreeShape`, `Parameters` and `PromptSelfPuts`: a put to the own PE has landed
when it returns. That assumption is needed: with late clears `NoEarlyLeave`
fails over two syncs. The invariants are not inductive by themselves, because
what a word counts says nothing of what is still in flight. `IInv` adds

* `EdgeInv`: along each edge of the tree, at most one poke of either direction
  is under way, and which one follows from how often each side has cleared;
* `NoStray`: pokes travel along edges only;
* `CountInv`: the word is the number of neighbours whose poke for the next clear
  has landed (at most that, with resets);
* `ClearInv`: who has stopped waiting was poked by everybody;
* `SubtreeInv`, `GlobalInv`: a poke to the parent vouches for a subtree, and a
  clear for all PEs.

The argument: an EQ wait that ends at the full count has heard from every
neighbour, hence from every subtree, hence from everybody.

**Barriers without a tree** (`BarrierProofs`, second part): `WordsServeOneCall` and
`OthersAreBarriers`, that is `CallsKeptApart` and `OthersImplementBarrier`, for any
number of calls and of work words and any number of PEs but one, with and without the
reset of team sync, under `FlatAssumption` (PEs are counted from 0) and nothing about
the transport. A lone PE is left out because its linear barrier never waits for its
clearing put, so clears may pile up, and its dissemination barrier is over in the step
that begins it, which is no step of `BarrierSpec`; neither has anybody to wait for.

*Dissemination.* `Conserved`: what a PE has taken in a stage, what lies in its word and
what is on its way to it has been sent by the one PE that pokes it there; at most, since
a reset loses some. `HeardOf`: a PE in stage k has heard of the 2^k PEs behind it. To take
a poke adds those its sender had heard of, which `BehindIs` shows to be the next 2^k
(`HearsMore`); when the loop ends the distance has come round the circle. `Distance`
doubles from stage to stage; that it is defined at all, and grows, is proved by least
counterexample (`DistanceDoubles`, `DistanceGrows`), which needs no induction theorem.

*Linear.* Counts of calls: poked (`HasPoked`), heard of (`HasHeard`; for the root, the
calls it gathered) and acknowledged (`HasAcked`). `InStep`: no PE has heard of more calls
than the root has acknowledged, and the root has gathered none that some PE has not poked
for. So all are within one call, and it follows what can be in flight: the root's word is
at most the number of pokes landed for the next call (`RootInv`), a PE's word and its
acknowledgement together are one or none (`WordsInv`), and when the root clears its word
no poke is under way (`RootInCall`), which is why the clear erases one call only.

**Lock** (`LockProofs`): type correctness, `MutualExclusion`, `WordNamesHolder`,
`NeverQueued`, `VisibleOnEntry` and the refinement of `LockSpec`, for any number
of threads, PEs and addresses under `Layout`. `NeverQueued` is about the code and
against its comments: the branches for a queue are there, and no caller takes them
(section 4, order of the lock). `LInv` is the conjunction of the
invariants and `PutsOfHolder`; `OneOwner` shows that PEs that compute the owner
each for itself agree. The 16-bit cut is harmless for them, since a claim is only
compared with the claim of the same PE.

**Waits** (`WaitSetsProofs`): type correctness and `AnswersHold`, for any number of
threads, elements and calls and any choice of routines. `AnswersHold` says of
`wait_until_all` that what it has counted holds, not that it has counted everything,
which is false (section 4); and of `test_any` that an answer other than 0 is an
element that meets the comparison. `WInv` adds to the type what a pass has seen:
`Looking` (found elements are selected and meet the comparison), `Counting` (an element
is counted once, or once per pass in `wait_until_all`, which bounds the count) and
`Seeking` (a wait for any has found nothing before it returns; `wait_until_some` has
still ahead of it the element that ended its first pass). `Guarded`, that who is in a
protected part has the mutex, also holds; that the mutex is given back does not.

**Addresses** (`AddressesProofs`): `SameObject`, `KeyOfTheRegion`, `AnswersRight` and
type correctness, for any number of PEs and heaps, any sizes and any placement.
`AInv` adds to what is proved where the regions lie (`Layout`: apart from each
other, at the size that was asked for, the globals at one place) and what a pointer
without an object can be (`PointersMean`: in no region). From that the look-up,
which goes by the address alone, can only find the region that was meant.

**Selection** (`CollectiveSelectionProofs`): `RunsWhatWasAsked` and
`AcceptedMeansServed`, for any names in the environment and any number of threads that
are in the routines at once. With several threads the entry can change between the
look-up of a call and the call; `Usable`, which `SInv` has for every call under way,
says that it is then still an implementation of the same operation by the same
algorithm, for the type of some routine. The type is the call's own if the
program makes one call at a time, and the theorem claims it for that case only. The
rest are lemmas about the tables: each lists an implementation for every type that
has a routine.

**Symmetric heap** (`SymmetricHeapProofs`): `SameAddress`,
and that a put lands in the object it was made for, for any number of PEs, any
heap, menu and sequence of calls, under `Nested = FALSE`: the program splits the
world only (section 4 has what happens otherwise). PEs are at different calls, so no
relation of two heaps at one moment is inductive. `HInv` says there is one chain
of heaps, `H[i]` being what the first `i` calls make of the first heap, and each PE's
heap is the one after the calls it has completed, or one of the few states between
two of them. It is inductive since a call changes equal heaps equally and every PE
makes every call. `PInv` adds how many barriers each PE has come to and left, and
where the caller of a put under way must be: past the call that allocated the object,
before the barrier of the one that gives it up. So the target is between these
two barriers. This settles the objects of the program without a further
condition (`PutsOfTheProgramLand`). `PutsHit` has the work arrays of teams as well,
with `SyncAfterSplit = TRUE` (the program calls a barrier after a split) and
`RegularTeams`, since it rests on `HandlesAgree`.

`HandlesAgree` (`HandlesOfMembersAgree`, the second half of the module) holds for any
number of PEs, arrangement of machines and sequence of splits and destructions under
`Nested = FALSE` and `RegularTeams` (section 4 has what it leaves out; the run
`SymmetricHeap` evaluates it for its menu). `HandleInv` is the invariant: a handle is what its PE
would compute again from the call that made it, and a strided one asked for ranks that the
world has. The rest is about that computation. `Renumber` counts through any set of PEs
without a gap (`Renumbered`: rank is an injection into as many numbers, so it is onto).
`GridIs` has `Size` as `x * q + r`, the `q` full rows and what is left, and shows that
row and column of a PE are what `/` and `%` say and that the sizes of
`shmemc_team_split_2d`, which the code computes apart from the maps, are the numbers of
PEs in a row and in a column, the last row and the short columns included. All members
of a row or a column have the same quotient or remainder, so they compute the same.

**Life of a PE** (`LifecycleProofs`): `FetchesFindTheirKeys`,
`NothingOutlivesItsMemory`, `PollsALiveWorker`, `ContextsApart` and type correctness,
for any number of PEs that an int can hold, any set of progress threads, any
contexts and puts, and a global exit at any time. The assumption `Size <= IntMax` is
that PE numbers are ints; the binomial tree of the barriers finds its parent by a
mask of one bit, and an int has no more of them. All PEs run one program of 37
steps, so what is left of it says where a PE is: `pc[p]`. `LInv` states the rest by it:

* `Walk`: a PE has the rest of the program before it, or has been ended;
* `Contexts`: the table of slots is sound (a slot is live or free, not twice, and
  below the number used) and empty before the program runs;
* `Workers`: the workers that a PE has at each step, and the steps between which
  the progress thread runs;
* `Exchange`: how many fences a PE has come to; that its keys are pending before
  the commit and stored when it comes to the fence; that nobody is past a fence
  somebody has not come to. So who fetches finds;
* `Mapped`, `Underway`: memory is there from mapping to unmapping, and what is under
  way comes from a PE between connecting and closing the worker it is on. The last
  fence keeps everybody's memory mapped until everybody has closed its workers.

A PE that is ended by a global exit satisfies all of them by being gone, except
that what it has stored in PMIx stays.

**Remote memory** (`RemoteMemoryProofs`): type correctness, the refinement of
`MemorySpec` (`MemoryRefined`), and what the routines that complete and order
promise, for any threads, contexts, words, values and programs, with and without bitwise
atomics in UCX. The assumptions are `ProgramAssumption` (programs consist of such
calls as `IsCall` allows, which leaves out the bitwise `and` on half of 8 bytes, see
section 4) and `MemoryAssumption` (words that share 8 bytes are of one PE; adding,
or-ing and xor-ing zero changes nothing). `RInv` describes each operation in flight from
the program alone:

* `Posted`: one of a plain call is on one word, as `Want` says; one of a loop is on the 8
  bytes, and loads them or swaps what the loop has read for what it makes of that;
* `Alone`, `Buffers`: of a call there is one operation on a word at a time, and none
  once the answer is in the buffer; so it takes effect once;
* `Unread`, `Quieted`, `NothingLeft`: what a return and a quiet leave behind: no source
  unread that the program may use again (`NoSourceReadTooLate`), nothing on the
  context of a quiet (`QuietCompletes`), an answer outstanding only for a call
  that does not block (`BlockingCallsLeaveNothing`).

Calls make steps of two forms: `Calling` posts what is wanted of some words, which begins
them; `Looping` goes round the loop, which nobody sees. Of the transport's steps only
`Land` takes effect; a compare-and-swap that fails has none, and one that succeeds puts
back the words beside as it has found them. `FencesKeepOrder` says that as long as
an operation has not landed, nothing behind a fence after it, on the same context and
PE, takes effect; for the signal of a put that is the fence between the two. It
needs `Epochs`: the epoch of an operation is below that of every operation behind such a
fence, and below the current one from the moment the fence has been passed.

**What proving found in the models.** The alternatives of two CASE expressions
overlapped (`ParseSize` of `Settings`, `Steps` of `SymmetricHeap`): TLC takes the
first, the semantics leave it open. They are disjoint now. `Lifecycle` needed the
bound on PE numbers. In `RemoteMemory` a quiet gave the sources of non-blocking puts back
also on contexts where it does nothing, and the mapping to `MemorySpec` took an
operation's value from the network, where a put has none before its source is read;
it takes it from the program now. `DisseminationBarrier` had powers of two where the
code doubles a distance in each stage; it doubles now. `Renumber` of `Teams` was
recursive; it says now which rank a PE has. `SharedTeam` starts at the first of the
peers, as the code has it. That `HandlesAgree` needs machines whose PEs are
numbered in a row came out of its proof.

## 6. Only model-checked, and not modelled

*Only model-checked.* All liveness, which the prover cannot do under fairness, and
everything about `ENABLED`. What takes induction over data: what `trees.c` computes
for every size, and what a collective program computes for every number of PEs.
What stands on recursive operators: the allocator
(`Mspace`, with its tries) and so `Mspaces`; `ExchangePrograms` and `ReducePrograms`
use `Bitwise`, which rules theorems out for the modules above them. `SeenMeansThere` is about what the programs of
one run read; `FencesKeepOrder` is the reason for it. `SettingsHold` compares sizes
with powers of two written with `^`, which the provers do not know.

*Not modelled.* Types and comparison operators; the order of a node's children;
argument checks, which end the program; UCX itself beyond "lands later, in any
order, unless fenced"; failures of PEs other than by a global exit (the library
has no fault tolerance: a call into UCX that fails ends in a message or an
abort); strides in the collectives (they work on indices; `Teams` has the
translation); contexts of other teams than the world; heaps by name, which are
never set up. The pool of work arrays (`util/psync_pool.c`) is built, but nothing calls it;
how a collective would share the first word of a slot, which is the busy mark as well
(line 275), and where the slots of 64 words would have one that needs 68
(`shcoll/common.h:19`), is left open by the code. Logging, the vendored klib, stubs and bindings are left aside.
`PROJECT.json` names each part with the reason.

*How much of the code that is.* About 30% of the repository's lines are
mapped to definitions. Most of the rest repeats or declares: the vendored
containers and the parts of the allocator that the build leaves out, the headers
with prototypes, aliases and type dispatch of the interface
(`src/include/shmem/api.h`, `generics.h`, `src/include/pshmem.h`), the lists of weak
symbols at the head of every interface file, one macro instance per element type, and
files that are not built (`api/atomics/atomics.c`, `atomics-nb.c`). The logic of the
collectives, the communication layer, the waits, locks, teams, the allocator and
start-up is mapped nearly throughout.

## 7. Plan

1. Proofs: the type invariant of `SymmetricHeap`; parts of `SettingsHold` that do
   without powers of two.
2. Models: contexts of teams, once a meaning for them outside of their table is
   settled; the teardown of the heap; the pool of work arrays once something calls it.

The barriers come first because every other collective, the allocator and team
creation rest on them; locks and waits are independent of them.
