----------------------------- MODULE Lifecycle -----------------------------
(***************************************************************************)
(* The life of the PEs of a program: start-up (api/init.c, shmemc/init.c,  *)
(* the exchange through PMIx in shmemc/ucx/pmix_client.c), work on the     *)
(* default context and on contexts of SHMEM_TEAM_WORLD (shmemc/contexts.c),*)
(* the progress thread (shmemu/progress.c), shutdown, and the global exit  *)
(* that ends all PEs wherever they are (pmix_client.c).                    *)
(*                                                                         *)
(* PMIx and UCX are external: PMIx is a store of committed keys, a fence   *)
(* and events for those who registered a handler; UCX completes an         *)
(* operation when it has landed.                                           *)
(***************************************************************************)
EXTENDS Trees, Sequences, FiniteSets

CONSTANTS
  Size,         \* PEs of the program
  Threaded,     \* the PEs that have a progress thread
  Block,        \* SHMEM_PREALLOC_CONTEXTS
  Quitters,     \* the PEs that may call shmem_global_exit
  MaxContexts,  \* bound: contexts that PE p creates: MaxContexts[p]
  MaxPuts       \* bound: puts of PE p: MaxPuts[p]

PE == 0..(Size - 1)

\* PEs and their number are ints.
IntMax == 2147483647

ASSUME LifecycleAssumption ==
  /\ Size \in Nat \ {0} /\ Size <= IntMax
  /\ Threaded \subseteq PE /\ Quitters \subseteq PE /\ Block \in Nat \ {0}
  /\ MaxContexts \in [PE -> Nat] /\ MaxPuts \in [PE -> Nat]

VARIABLES
  todo,     \* the steps each PE has still to take
  pending,  \* keys each PE has put and not committed
  store,    \* keys in the PMIx store
  fences,   \* PMIx fences each PE has come to
  fetched,  \* keys each PE has fetched
  mapped,   \* the PEs whose memory is mapped and registered
  workers,  \* workers of each PE: Default, or the slot of a context
  thread,   \* the progress thread: "none", "polling", "asleep" or "ended"
  stop,     \* the flag "done" of progress.c
  slots,    \* the table of contexts of each PE and its free list
  made,     \* contexts each PE has created
  puts,     \* puts each PE has made
  net,      \* operations that have not landed
  poked,    \* pokes of barriers that have landed at each PE
  software, \* whether the transport needs the default worker of the target
  handlers, \* the PEs whose event handler is registered
  exiting,  \* somebody has called for a global exit
  gone      \* the PEs that a global exit has ended

vars == <<todo, pending, store, fences, fetched, mapped, workers, thread, stop,
          slots, made, puts, net, poked, software, handlers, exiting, gone>>

Default == -1

NoSlots == [free |-> <<>>, spill |-> 0, used |-> 0, live |-> {}]

-----------------------------------------------------------------------------
(* The steps of a PE.  Barriers are those of shmem_barrier_all.            *)

Barrier(b) == <<<<"quiet", b>>, <<"gather", b>>, <<"notify", b>>,
                <<"await", b>>, <<"release", b>>>>

Fence == <<<<"commit">>, <<"fence">>, <<"fenced">>>>

Startup_NoFence ==
  <<<<"register">>, <<"map">>, <<"make_worker">>, <<"publish", "worker">>, <<"commit">>>>
  \o <<<<"fetch", "worker">>, <<"publish", "rkey">>>> \o Fence
  \o <<<<"fetch", "rkey">>, <<"connect">>>> \o Fence
  \o <<<<"start_thread">>>> \o Barrier(1)

\* shmemc_init, shmemu_progress_init and the barrier of init_thread_helper
Startup ==
  <<<<"register">>, <<"map">>, <<"make_worker">>, <<"publish", "worker">>>> \o Fence
  \o <<<<"fetch", "worker">>, <<"publish", "rkey">>>> \o Fence
  \o <<<<"fetch", "rkey">>, <<"connect">>>> \o Fence
  \o <<<<"start_thread">>>> \o Barrier(1)

Shutdown_UnmapFirst ==
  Barrier(2)
  \o <<<<"stop">>, <<"join">>, <<"close_contexts">>, <<"close_default">>>>
  \o <<<<"unmap">>>> \o Fence

Shutdown_NoJoin ==
  Barrier(2)
  \o <<<<"stop">>, <<"close_contexts">>, <<"close_default">>>>
  \o Fence \o <<<<"unmap">>>>

\* finalize_helper and shmemc_finalize
Shutdown ==
  Barrier(2)
  \o <<<<"stop">>, <<"join">>, <<"close_contexts">>, <<"close_default">>>>
  \o Fence \o <<<<"unmap">>>>

At(p, s) == todo[p] # <<>> /\ Head(todo[p])[1] = s
Argument(p) == Head(todo[p])[2]
Advance(p) == todo' = [todo EXCEPT ![p] = Tail(@)]

Init ==
  /\ todo = [p \in PE |-> Startup \o <<<<"work">>>> \o Shutdown]
  /\ pending = [p \in PE |-> {}]
  /\ store = {}
  /\ fences = [p \in PE |-> 0]
  /\ fetched = [p \in PE |-> {}]
  /\ mapped = {}
  /\ workers = [p \in PE |-> {}]
  /\ thread = [p \in PE |-> "none"]
  /\ stop = [p \in PE |-> FALSE]
  /\ slots = [p \in PE |-> NoSlots]
  /\ made = [p \in PE |-> 0]
  /\ puts = [p \in PE |-> 0]
  /\ net = {}
  /\ poked = [p \in PE |-> {}]
  /\ software \in BOOLEAN
  /\ handlers = {}
  /\ exiting = FALSE
  /\ gone = {}

pmixVars == <<pending, store, fences, fetched>>
threadVars == <<thread, stop>>
contextVars == <<slots, made>>
commVars == <<puts, net, poked, software>>
exitVars == <<handlers, exiting, gone>>

-----------------------------------------------------------------------------
(* Memory, workers and the exchange.                                       *)

\* shmemc_ucx_init: the heap is mapped, and the work arrays in it initialised.
Map(p) ==
  /\ At(p, "map")
  /\ mapped' = mapped \cup {p}
  /\ Advance(p)
  /\ UNCHANGED <<pmixVars, workers, threadVars, contextVars, commVars, exitVars>>

MakeWorker(p) ==
  /\ At(p, "make_worker")
  /\ workers' = [workers EXCEPT ![p] = {Default}]
  /\ Advance(p)
  /\ UNCHANGED <<pmixVars, mapped, threadVars, contextVars, commVars, exitVars>>

\* PMIx_Put
Publish(p) ==
  /\ At(p, "publish")
  /\ pending' = [pending EXCEPT ![p] = @ \cup {<<Argument(p), p>>}]
  /\ Advance(p)
  /\ UNCHANGED <<store, fences, fetched, mapped, workers, threadVars,
                 contextVars, commVars, exitVars>>

\* shmemc_pmi_barrier_all: PMIx_Commit, then PMIx_Fence.
Commit(p) ==
  /\ At(p, "commit")
  /\ store' = store \cup pending[p]
  /\ pending' = [pending EXCEPT ![p] = {}]
  /\ Advance(p)
  /\ UNCHANGED <<fences, fetched, mapped, workers, threadVars, contextVars,
                 commVars, exitVars>>

EnterFence(p) ==
  /\ At(p, "fence")
  /\ fences' = [fences EXCEPT ![p] = @ + 1]
  /\ Advance(p)
  /\ UNCHANGED <<pending, store, fetched, mapped, workers, threadVars,
                 contextVars, commVars, exitVars>>

LeaveFence(p) ==
  /\ At(p, "fenced")
  /\ \A q \in PE : fences[q] >= fences[p]
  /\ Advance(p)
  /\ UNCHANGED <<pmixVars, mapped, workers, threadVars, contextVars, commVars, exitVars>>

\* One turn of the loop over all PEs: the next one whose key is not there yet.
NextFetch(p) ==
  LET left == {q \in PE : <<Argument(p), q>> \notin fetched[p]}
  IN  <<Argument(p), CHOOSE q \in left : \A r \in left : q <= r>>

Fetch(p) ==
  /\ At(p, "fetch")
  /\ fetched' = [fetched EXCEPT ![p] = @ \cup {NextFetch(p)}]
  /\ IF NextFetch(p)[2] = Size - 1 THEN Advance(p) ELSE UNCHANGED todo
  /\ UNCHANGED <<pending, store, fences, mapped, workers, threadVars,
                 contextVars, commVars, exitVars>>

\* shmemc_ucx_make_eps: what it needs has all been fetched.
Connect(p) ==
  /\ At(p, "connect")
  /\ Advance(p)
  /\ UNCHANGED <<pmixVars, mapped, workers, threadVars, contextVars, commVars, exitVars>>

-----------------------------------------------------------------------------
(* The progress thread: it polls the default worker, at least once, until  *)
(* it finds the flag set.                                                  *)

StartThread(p) ==
  /\ At(p, "start_thread")
  /\ thread' = [thread EXCEPT ![p] = IF p \in Threaded THEN "polling" ELSE @]
  /\ Advance(p)
  /\ UNCHANGED <<pmixVars, mapped, workers, stop, contextVars, commVars, exitVars>>

Sleep(p) ==
  /\ thread[p] = "polling"
  /\ thread' = [thread EXCEPT ![p] = "asleep"]
  /\ UNCHANGED <<todo, pmixVars, mapped, workers, stop, contextVars, commVars, exitVars>>

Wake(p) ==
  /\ thread[p] = "asleep"
  /\ thread' = [thread EXCEPT ![p] = IF stop[p] THEN "ended" ELSE "polling"]
  /\ UNCHANGED <<todo, pmixVars, mapped, workers, stop, contextVars, commVars, exitVars>>

\* shmemu_progress_finalize
StopThread(p) ==
  /\ At(p, "stop")
  /\ stop' = [stop EXCEPT ![p] = p \in Threaded]
  /\ Advance(p)
  /\ UNCHANGED <<pmixVars, mapped, workers, thread, contextVars, commVars, exitVars>>

Join(p) ==
  /\ At(p, "join")
  /\ p \in Threaded => thread[p] = "ended"
  /\ Advance(p)
  /\ UNCHANGED <<pmixVars, mapped, workers, threadVars, contextVars, commVars, exitVars>>

-----------------------------------------------------------------------------
(* shmem_barrier_all, along the binomial tree.                             *)

ParentOf == [p \in PE |-> TreeParent("binomial", Size, 0, 2, p)]
ChildrenOf == [p \in PE |-> TreeChildren("binomial", Size, 0, 2, p)]

Landed(p, c) == \A o \in net : o.from # p \/ o.on # c

Poke(p, q, b) == [from |-> p, to |-> q, on |-> Default, poke |-> <<b, p>>]

Quiet(p) ==
  /\ At(p, "quiet")
  /\ Landed(p, Default)
  /\ Advance(p)
  /\ UNCHANGED <<pmixVars, mapped, workers, threadVars, contextVars, commVars, exitVars>>

Gather(p) ==
  /\ At(p, "gather")
  /\ \A q \in ChildrenOf[p] : <<Argument(p), q>> \in poked[p]
  /\ Advance(p)
  /\ UNCHANGED <<pmixVars, mapped, workers, threadVars, contextVars, commVars, exitVars>>

Notify(p) ==
  /\ At(p, "notify")
  /\ net' = net \cup {Poke(p, q, Argument(p)) : q \in {ParentOf[p]} \ {NoParent}}
  /\ Advance(p)
  /\ UNCHANGED <<pmixVars, mapped, workers, threadVars, contextVars, puts, poked, software, exitVars>>

Await(p) ==
  /\ At(p, "await")
  /\ ParentOf[p] # NoParent => <<Argument(p), ParentOf[p]>> \in poked[p]
  /\ Advance(p)
  /\ UNCHANGED <<pmixVars, mapped, workers, threadVars, contextVars, commVars, exitVars>>

Release_SkipsFirst(p) ==
  /\ At(p, "release")
  /\ net' = net \cup {Poke(p, q, Argument(p)) :
                       q \in {q \in ChildrenOf[p] : \E r \in ChildrenOf[p] : r < q}}
  /\ Advance(p)
  /\ UNCHANGED <<pmixVars, mapped, workers, threadVars, contextVars, puts, poked, software, exitVars>>

Release(p) ==
  /\ At(p, "release")
  /\ net' = net \cup {Poke(p, q, Argument(p)) : q \in ChildrenOf[p]}
  /\ Advance(p)
  /\ UNCHANGED <<pmixVars, mapped, workers, threadVars, contextVars, puts, poked, software, exitVars>>

-----------------------------------------------------------------------------
(* Work: puts and contexts.                                                *)

\* get_usable_context_run
Take_NoShift(s) ==
  IF s.free # <<>> THEN [slot |-> Head(s.free), rest |-> s]
  ELSE [slot |-> s.used,
        rest |-> [s EXCEPT !.used = @ + 1,
                           !.spill = IF s.used = @ THEN @ + Block ELSE @]]

Take(s) ==
  IF s.free # <<>> THEN [slot |-> Head(s.free), rest |-> [s EXCEPT !.free = Tail(@)]]
  ELSE [slot |-> s.used,
        rest |-> [s EXCEPT !.used = @ + 1,
                           !.spill = IF s.used = @ THEN @ + Block ELSE @]]

\* shmem_ctx_create, under the mutex; a slot from the free list keeps its worker.
CreateContext(p) ==
  /\ At(p, "work")
  /\ made[p] < MaxContexts[p]
  /\ LET t == Take(slots[p])
     IN  /\ slots' = [slots EXCEPT ![p] =
                        [t.rest EXCEPT !.live = @ \cup {[slot |-> t.slot, no |-> made[p]]}]]
         /\ workers' = [workers EXCEPT ![p] = @ \cup {t.slot}]
  /\ made' = [made EXCEPT ![p] = @ + 1]
  /\ UNCHANGED <<todo, pmixVars, mapped, threadVars, commVars, exitVars>>

\* shmem_ctx_destroy: a quiet, and the slot can be used again.
DestroyContext(p, c) ==
  /\ At(p, "work")
  /\ Landed(p, c.slot)
  /\ slots' = [slots EXCEPT ![p].live = @ \ {c},
                            ![p].free = Append(@, c.slot)]
  /\ UNCHANGED <<todo, pmixVars, mapped, workers, threadVars, made, commVars, exitVars>>

Put(p, q, on) ==
  /\ At(p, "work")
  /\ puts[p] < MaxPuts[p]
  /\ puts' = [puts EXCEPT ![p] = @ + 1]
  /\ net' = net \cup {[from |-> p, to |-> q, on |-> on, poke |-> <<>>]}
  /\ UNCHANGED <<todo, pmixVars, mapped, workers, threadVars, contextVars, poked, software, exitVars>>

\* The program calls shmem_finalize. On a transport that needs the target it
\* has completed the puts on contexts of its own.
Finalize(p) ==
  /\ At(p, "work")
  /\ software => \A c \in slots[p].live : Landed(p, c.slot)
  /\ Advance(p)
  /\ UNCHANGED <<pmixVars, mapped, workers, threadVars, contextVars, commVars, exitVars>>

-----------------------------------------------------------------------------
(* Shutdown: closing the endpoints of a worker flushes them.               *)

\* shmemc_teams_finalize, of SHMEM_TEAM_WORLD: every slot that was ever used.
CloseContexts(p) ==
  /\ At(p, "close_contexts")
  /\ \A c \in 0..(slots[p].used - 1) : Landed(p, c)
  /\ workers' = [workers EXCEPT ![p] = @ \ (0..(slots[p].used - 1))]
  /\ slots' = [slots EXCEPT ![p].live = {}]
  /\ Advance(p)
  /\ UNCHANGED <<pmixVars, mapped, threadVars, made, commVars, exitVars>>

\* shmemc_ucx_context_default_destroy
CloseDefault(p) ==
  /\ At(p, "close_default")
  /\ Landed(p, Default)
  /\ workers' = [workers EXCEPT ![p] = @ \ {Default}]
  /\ Advance(p)
  /\ UNCHANGED <<pmixVars, mapped, threadVars, contextVars, commVars, exitVars>>

\* shmemc_ucx_finalize
Unmap(p) ==
  /\ At(p, "unmap")
  /\ mapped' = mapped \ {p}
  /\ Advance(p)
  /\ UNCHANGED <<pmixVars, workers, threadVars, contextVars, commVars, exitVars>>

-----------------------------------------------------------------------------
(* Global exit.                                                            *)

\* init_event_handler waits for its callback.
Register(p) ==
  /\ At(p, "register")
  /\ handlers' = handlers \cup {p}
  /\ Advance(p)
  /\ UNCHANGED <<pmixVars, mapped, workers, threadVars, contextVars, commVars,
                 exiting, gone>>

\* shmem_global_exit: an event for all PEs; the caller returns to its program.
GlobalExit(p) ==
  /\ At(p, "work")
  /\ p \in Quitters
  /\ exiting' = TRUE
  /\ UNCHANGED <<todo, pmixVars, mapped, workers, threadVars, contextVars,
                 commVars, handlers, gone>>

\* notification_fn ends the process, by _exit: shmem_finalize, which is
\* registered for exit, does not run. All the process had is void, and nothing
\* lands there any more.
EventEnds(p) ==
  /\ exiting
  /\ p \in handlers
  /\ todo[p] # <<>>
  /\ todo' = [todo EXCEPT ![p] = <<>>]
  /\ gone' = gone \cup {p}
  /\ mapped' = mapped \ {p}
  /\ workers' = [workers EXCEPT ![p] = {}]
  /\ thread' = [thread EXCEPT ![p] = "ended"]
  /\ stop' = [stop EXCEPT ![p] = FALSE]
  /\ slots' = [slots EXCEPT ![p] = NoSlots]
  /\ made' = [made EXCEPT ![p] = 0]
  /\ puts' = [puts EXCEPT ![p] = 0]
  /\ poked' = [poked EXCEPT ![p] = {}]
  /\ fetched' = [fetched EXCEPT ![p] = {}]
  /\ net' = {o \in net : o.from # p}
  /\ UNCHANGED <<pending, store, fences, software, handlers, exiting>>

-----------------------------------------------------------------------------

Land(o) ==
  /\ o.to \notin gone
  /\ software => Default \in workers[o.to]
  /\ net' = net \ {o}
  /\ poked' = [poked EXCEPT ![o.to] = @ \cup ({o.poke} \ {<<>>})]
  /\ UNCHANGED <<todo, pmixVars, mapped, workers, threadVars, contextVars, puts, software, exitVars>>

Step(p) ==
  \/ Register(p) \/ Map(p) \/ MakeWorker(p) \/ Publish(p) \/ Commit(p)
  \/ EnterFence(p) \/ LeaveFence(p) \/ Fetch(p) \/ Connect(p)
  \/ StartThread(p) \/ StopThread(p) \/ Join(p)
  \/ Quiet(p) \/ Gather(p) \/ Notify(p) \/ Await(p) \/ Release(p)
  \/ Finalize(p) \/ CloseContexts(p) \/ CloseDefault(p) \/ Unmap(p)

Over(p) == todo[p] = <<>>

Done == (\A p \in PE : Over(p)) /\ UNCHANGED vars

Next ==
  \/ \E p \in PE :
       \/ Step(p) \/ Sleep(p) \/ Wake(p) \/ CreateContext(p)
       \/ GlobalExit(p) \/ EventEnds(p)
       \/ \E c \in slots[p].live : DestroyContext(p, c)
       \/ \E q \in PE \ {p}, on \in {Default} \cup {c.slot : c \in slots[p].live} :
            Put(p, q, on)
  \/ \E o \in net : Land(o)
  \/ Done

\* Every PE goes on or its event handler ends it, its progress thread is scheduled
\* and operations land, but not at a PE that is gone; a program may go on working
\* for as long as the bounds let it.
Fairness ==
  /\ \A p \in PE : WF_vars(Step(p) \/ EventEnds(p))
  /\ \A p \in Threaded : WF_vars(Sleep(p) \/ Wake(p))
  /\ WF_vars(\E o \in net : Land(o))

Spec == Init /\ [][Next]_vars /\ Fairness

-----------------------------------------------------------------------------
(* Properties.                                                             *)

TypeOK ==
  /\ DOMAIN todo = PE
  /\ store \subseteq {"worker", "rkey"} \X PE
  /\ mapped \subseteq PE
  /\ \A p \in PE :
       /\ pending[p] \subseteq {"worker", "rkey"} \X PE
       /\ fetched[p] \subseteq {"worker", "rkey"} \X PE
       /\ fences[p] \in 0..4
       /\ workers[p] \subseteq Default..(MaxContexts[p] - 1)
       /\ thread[p] \in {"none", "polling", "asleep", "ended"}
       /\ slots[p].spill \in 0..(MaxContexts[p] + Block)
  /\ handlers \subseteq PE /\ gone \subseteq PE /\ exiting \in BOOLEAN

\* What a PE fetches from PMIx has been committed (PMIx_Get of a key that is
\* not there ends the program).
FetchesFindTheirKeys ==
  \A p \in PE : At(p, "fetch") => NextFetch(p) \in store

\* Whatever is on its way, put or poke, finds the memory of its target mapped,
\* and the worker it was sent on there to complete it, unless the process of its
\* target has gone altogether.
NothingOutlivesItsMemory ==
  \A o \in net : o.to \in mapped \cup gone /\ o.on \in workers[o.from]

\* The progress thread never polls a worker that is not there.
PollsALiveWorker ==
  \A p \in PE : thread[p] = "polling" => Default \in workers[p]

\* No two contexts of a program share a slot; a live one is not on the free
\* list, which names no slot twice, and every slot used is in the table and
\* is either live or free.
ContextsApart ==
  \A p \in PE :
    LET s == slots[p]
        live == {c.slot : c \in s.live}
        free == {s.free[i] : i \in DOMAIN s.free}
    IN  /\ \A c, d \in s.live : c.slot = d.slot => c = d
        /\ Cardinality(free) = Len(s.free)
        /\ live \cap free = {}
        /\ s.used <= s.spill
        /\ At(p, "work") => live \cup free = 0..(s.used - 1)

\* Every PE gets through start-up and, when the program is done, shutdown.
EverybodyGetsOut == <>(\A p \in PE : Over(p))
=============================================================================
