---------------------------- MODULE Collectives ----------------------------
(***************************************************************************)
(* Collective routines of shcoll/src as programs of one-sided operations,  *)
(* and the memory, network and ordering rules they run under.              *)
(*                                                                         *)
(* A program is a sequence of steps.  A step waits for a condition of its  *)
(* own PE and then performs effects up to the next point at which the PE   *)
(* can notice another one.  Posted operations go to net and land later, in *)
(* any order that shmem_fence leaves open (shmemc/ucx/comms.c).            *)
(* CollectiveCalls holds the programs.                                     *)
(***************************************************************************)
EXTENDS Integers, Sequences, FiniteSets
LOCAL INSTANCE SequencesExt

CONSTANT
  Cases      \* the uses of a routine that are considered: records with
             \*   program   what each PE does, see CollectiveCalls
             \*   fresh     the memory of each PE before the first call
             \*   supply    the source of each PE, by call
             \*   due       what each PE must find in dest, by call
             \*   lazy      a non-blocking put reads its source when it lands
             \*   late      a put to the own PE lands late, too
             \*   calls     bound: the calls each PE makes

VARIABLES
  case,      \* the use this behaviour is of; it never changes
  pc,        \* the step each PE is about to take
  round,     \* the call each PE is in
  mem,       \* mem[p]: source, dest, tmp and the work array of p
  net,       \* posted operations that have not landed
  issued,    \* issued[p]: operations p has posted, and fences
  arrived,   \* barriers and syncs each PE has come to
  misread    \* a PE has read a size that its partner did not send

vars == <<case, pc, round, mem, net, issued, arrived, misread>>

SyncValue == 0      \* SHCOLL_SYNC_VALUE

PE == DOMAIN case.program
Steps(p) == case.program[p].steps
Finished(p) == pc[p] > Len(Steps(p))

\* The active set or team; the other PEs of the program do something else.
Members == {p \in PE : Steps(p) # <<>>}

\* PE p is out of the routine; and it may still use what the call gave it: it
\* has not come to the barrier or sync at which it leaves the buffer again.
Returned(p) == pc[p] >= case.program[p].return
InUse(p) == Returned(p) /\ (pc[p] <= case.program[p].leave \/ Finished(p))

Init ==
  /\ case \in Cases
  /\ pc = [p \in PE |-> 1]
  /\ round = [p \in PE |-> 1]
  /\ mem = case.fresh
  /\ net = {}
  /\ issued = [p \in PE |-> [ops |-> 0, fences |-> 0]]
  /\ arrived = [p \in PE |-> 0]
  /\ misread = FALSE

-----------------------------------------------------------------------------
(* Memory.  A place is an array and an index.                              *)

Load(m, p, place, len) ==
  [k \in 1..len |-> m[p][place[1]][place[2] + k - 1]]

\* A store beyond the end of an array makes it longer, for DataRight to find.
Store(m, p, place, vals) ==
  LET cells == place[2]..(place[2] + Len(vals) - 1)
  IN  [m EXCEPT ![p][place[1]] =
         [i \in DOMAIN @ \cup cells |->
            IF i \in cells THEN vals[i - place[2] + 1] ELSE @[i]]]

\* A value is the set of contributions that went into it; one that goes in
\* twice, as it would show in a sum, spoils it.
Spoilt == {<<"spoilt">>}
Reduce(a, b) == IF a \cap b = {} THEN a \cup b ELSE Spoilt

\* rotate and rotate_inplace: the first len cells move up by dist, cyclically.
Rotate(vals, dist) ==
  [k \in DOMAIN vals |-> vals[((k - 1 - dist) % Len(vals)) + 1]]

-----------------------------------------------------------------------------
(* Posted operations.                                                      *)

\* What landing does. A non-blocking put reads its source only now.
Landed(m, o) ==
  CASE o.op = "put"   -> Store(m, o.to, o.place, o.vals)
    [] o.op = "nbi"   -> Store(m, o.to, o.place, Load(m, o.from, o.source, o.len))
    [] o.op = "store" -> [m EXCEPT ![o.to].word[o.word] = o.val]
    [] o.op = "set"   -> [m EXCEPT ![o.to].word[o.word] = o.val]
    [] o.op = "add"   -> [m EXCEPT ![o.to].word[o.word] = @ + o.val]

\* shmem_fence: to one PE, nothing overtakes what was posted before the fence.
MayLand_AnyOrder(o) == o \in net
MayLand(o) ==
  \A b \in net : b.from = o.from /\ b.to = o.to => b.fences >= o.fences

Flushed(p) == \A o \in net : o.from # p

\* s is the state a step works on: memory, network and what p has issued.
\* A put to the own PE has landed at once unless the case says otherwise.
Post(s, p, o) ==
  LET op == o @@ [from |-> p, id |-> s.issued[p].ops,
                  fences |-> s.issued[p].fences]
  IN  IF o.to = p /\ ~case.late
        THEN [s EXCEPT !.mem = Landed(@, op)]
        ELSE [s EXCEPT !.net = @ \cup {op}, !.issued[p].ops = @ + 1]

\* shmem_putmem_nbi; the transport may also have copied the data by the time
\* the call returns, as it has in shmem_putmem.
PostData(s, p, e) ==
  IF e.op = "nbi" /\ case.lazy
    THEN Post(s, p, [op |-> "nbi", to |-> e.to, place |-> e.place,
                     source |-> e.source, len |-> e.len])
    ELSE Post(s, p, [op |-> "put", to |-> e.to, place |-> e.place,
                     vals |-> Load(s.mem, p, e.source, e.len)])

\* Of the children whose bits are in the word and not yet taken, the lowest.
TakeLowest(s, p, e) ==
  LET new == {b \in e.bits \ s.mem[p].taken : (s.mem[p].word[e.word] \div b) % 2 = 1}
      low == IF new = {} THEN 0 ELSE CHOOSE b \in new : \A c \in new : b <= c
      own == Load(s.mem, p, <<"dest", 0>>, e.len)
      got == Load(s.mem, p + low, <<"dest", 0>>, e.len)
  IN  [s EXCEPT !.mem = [Store(@, p, <<"dest", 0>>,
                               [k \in 1..e.len |-> Reduce(got[k], own[k])])
                         EXCEPT ![p].taken = @ \cup {low}]]

Perform(s, p, e) ==
  CASE e.op \in {"nbi", "put"} -> PostData(s, p, e)
    [] e.op \in {"store", "add", "set"} -> Post(s, p, e)
    [] e.op = "fence" -> [s EXCEPT !.issued[p].fences = @ + 1]
    [] e.op = "copy"  ->
         [s EXCEPT !.mem = Store(@, p, e.place, Load(@, p, e.source, e.len))]
    [] e.op = "get"   ->
         [s EXCEPT !.mem = Store(@, p, e.place, Load(@, e.of, e.source, e.len))]
    [] e.op = "reduce" ->
         LET a == Load(s.mem, p, e.a, e.len)
             b == Load(s.mem, p, e.b, e.len)
         IN  [s EXCEPT !.mem = Store(@, p, e.place,
                                     [k \in 1..e.len |-> Reduce(a[k], b[k])])]
    [] e.op = "rotate" ->
         [s EXCEPT !.mem = Store(@, p, e.place,
                                 Rotate(Load(@, p, e.place, e.len), e.dist))]
    [] e.op = "take"   -> TakeLowest(s, p, e)
    [] e.op = "forget" -> [s EXCEPT !.mem[p].taken = {}]
    [] e.op = "expect" ->
         [s EXCEPT !.misread = @ \/ s.mem[p].word[e.word] # e.val]
    [] e.op = "reset"  ->
         [s EXCEPT !.mem[p].word = [w \in DOMAIN @ |-> SyncValue]]
    [] e.op = "arrive" -> [s EXCEPT !.arrived[p] = @ + 1]
    [] e.op = "supply" ->
         [s EXCEPT !.mem[p].source = case.supply[p][round[p] + 1]]

\* old_pSync of the binomial reduce, from the children taken so far.
TakenSum(taken) == FoldLeft(LAMBDA a, b : a + b, SyncValue, SetToSeq(taken))

Compares(w, cmp, v) ==
  CASE cmp = "EQ" -> w = v
    [] cmp = "NE" -> w # v
    [] cmp = "GE" -> w >= v
    [] cmp = "GT" -> w > v

\* What a step waits for.
Ready(p, a) ==
  CASE a.on = "now"      -> TRUE
    [] a.on = "word"     -> Compares(mem[p].word[a.word], a.cmp, a.val)
    [] a.on = "quiet"    -> Flushed(p)
    [] a.on = "returned" -> \A o \in net : o.from = p => o.op # "set"
    [] a.on = "child"    -> mem[p].word[a.word] # TakenSum(mem[p].taken)
    [] a.on = "together" -> \A q \in Members : arrived[q] >= arrived[p]
    [] a.on = "world"    -> \A q \in PE : arrived[q] >= arrived[p]

-----------------------------------------------------------------------------
\* PE p performs its next step, and after the last one begins the next call.
Step(p) ==
  /\ ~Finished(p)
  /\ Ready(p, Steps(p)[pc[p]].await)
  /\ LET s == FoldLeft(LAMBDA t, e : Perform(t, p, e),
                       [mem |-> mem, net |-> net, issued |-> issued,
                        arrived |-> arrived, misread |-> misread],
                       Steps(p)[pc[p]].do)
     IN  /\ mem' = s.mem
         /\ net' = s.net
         /\ issued' = s.issued
         /\ arrived' = s.arrived
         /\ misread' = s.misread
  /\ IF pc[p] = Len(Steps(p)) /\ round[p] < case.calls
       THEN /\ pc' = [pc EXCEPT ![p] = 1]
            /\ round' = [round EXCEPT ![p] = @ + 1]
       ELSE /\ pc' = [pc EXCEPT ![p] = @ + 1]
            /\ UNCHANGED round
  /\ UNCHANGED case

Land(o) ==
  /\ MayLand(o)
  /\ mem' = Landed(mem, o)
  /\ net' = net \ {o}
  /\ UNCHANGED <<case, pc, round, issued, arrived, misread>>

Done == net = {} /\ (\A p \in PE : Finished(p)) /\ UNCHANGED vars

Next == (\E p \in PE : Step(p)) \/ (\E o \in net : Land(o)) \/ Done

Spec == Init /\ [][Next]_vars

-----------------------------------------------------------------------------
(* Properties.                                                             *)

\* A PE that has returned finds in its dest buffer the blocks of this call,
\* each from the right PE and at the right place (each contribution once, for
\* a reduction), and nothing that lands later spoils them. On the way nobody
\* writes outside the dest buffer or the work buffer of anybody, and who waits
\* for a block size or an offset wakes with the one its partner sent, not with
\* the sum or the remains of several.
DataRight ==
  /\ \A p \in Members : InUse(p) =>
       LET due == case.due[p][round[p]]
       IN  \A i \in DOMAIN due : mem[p].dest[i] = due[i]
  /\ \A p \in PE : /\ DOMAIN mem[p].dest = DOMAIN case.fresh[p].dest
                   /\ DOMAIN mem[p].tmp = DOMAIN case.fresh[p].tmp
  /\ ~misread

\* When all PEs have returned from the same call and nothing is in flight, the
\* work array holds SHCOLL_SYNC_VALUE everywhere, as the next call requires.
WorkArrayClean ==
  net = {} /\ (\A p, q \in Members : Returned(p) /\ round[p] = round[q]) =>
    \A p \in Members : \A w \in DOMAIN mem[p].word : mem[p].word[w] = SyncValue

\* Nobody waits forever: with nothing in flight, and nobody able to go on,
\* every PE has returned from its last call.
NobodyStranded ==
  net = {} /\ (\A p \in PE : Finished(p) \/ ~Ready(p, Steps(p)[pc[p]].await))
    => \A p \in PE : Finished(p)
=============================================================================
