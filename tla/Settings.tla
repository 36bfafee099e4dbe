------------------------------ MODULE Settings ------------------------------
(***************************************************************************)
(* What every PE works out for itself at start-up from text it is given    *)
(* (shmemc/env.c): the size of its heap (shmemc/heaps.c,                   *)
(* shmemu/unitparse.c), which PEs share its node and so whether it leads   *)
(* it (ucx/pmix_client.c), and whether it starts a progress thread         *)
(* (shmemu/progress.c), both from lists of numbers and ranges              *)
(* (shmemu/parse_csv.c).                                                   *)
(*                                                                         *)
(* An item of a list is the pair of the bounds it is read as: a number v   *)
(* is <<v, v>>, and a word is read as 0.  A size is a number and a unit.   *)
(***************************************************************************)
EXTENDS Integers, Sequences, Functions

CONSTANTS
  NPes,          \* nranks
  PeerLists,     \* what PMIx may say of the nodes: for each PE a list
  ThreadLists,   \* values of SHMEM_PROGRESS_THREADS that are lists
  SymmetricSizes,   \* values of SHMEM_SYMMETRIC_SIZE and SMA_SYMMETRIC_SIZE
  DefaultHeapSize,  \* SHMEM_DEFAULT_HEAP_SIZE, <<number, unit>>
  Delays,        \* values of SHMEM_PROGRESS_DELAY
  Units,         \* units_string
  Multiplier,    \* 1024
  Chunk          \* 8: the numbers a result array grows by

PE == 0 .. NPes - 1
NoUnit == ""
NotSet == <<>>
AllPEs == << <<0, 0, "all">> >>   \* what begins with y or a, in either case
Nothing == <<1, 0>>   \* no number of an item left to append
Bad == -1             \* could not be parsed

VARIABLES
  peers,             \* the list each PE gets from PMIx
  progress_threads,  \* SHMEM_PROGRESS_THREADS, the same for all
  symmetric_size,    \* the size with either prefix, [shmem, sma], the same for all
  progress_delay,    \* SHMEM_PROGRESS_DELAY, the same for all
  heap_spec,         \* the size that each PE goes by
  stage,             \* what each PE is doing
  next,              \* the items it has still to parse
  range,             \* the numbers of the current item it has still to append
  out, nnums,        \* the numbers so far, and how many the array has room for
  heapsize,          \* the size of its heap
  leader,            \* whether it leads its node
  needed             \* whether it starts a progress thread

environment == <<peers, progress_threads, symmetric_size, progress_delay>>
parser == <<next, range, out, nnums>>
vars == <<environment, stage, parser, heap_spec, heapsize, leader, needed>>

------------------------------------------------------------------------------
(* Sizes.                                                                   *)

Power(k) == Multiplier ^ k

\* The scale of a unit, or Bad.
ParseUnit(u) ==
  IF \E k \in DOMAIN Units : Units[k] = u
  THEN Power(CHOOSE k \in DOMAIN Units : Units[k] = u)
  ELSE Bad

ParseSize(spec) ==
  IF spec[1] < 0 THEN Bad
  ELSE IF spec[2] = NoUnit THEN spec[1]
  ELSE IF ParseUnit(spec[2]) = Bad THEN Bad
  ELSE spec[1] * ParseUnit(spec[2])

\* How the size is shown: in the largest unit of which there is one. (The
\* number is printed to one decimal.) With no larger unit to stop at, none.
TooLarge(bytes) == {k \in DOMAIN Units : bytes \div Power(k) = 0}

HumanNumber_NoStepBack(bytes) ==
  LET k == CHOOSE i \in TooLarge(bytes) : \A j \in TooLarge(bytes) : i <= j
  IN  <<bytes \div Power(k - 1), Units[k]>>

HumanNumber(bytes) ==
  IF TooLarge(bytes) = {}
  THEN <<bytes \div Power(Len(Units)), NoUnit>>
  ELSE LET k == CHOOSE i \in TooLarge(bytes) : \A j \in TooLarge(bytes) : i <= j
       IN  <<bytes \div Power(k - 1), IF k = 1 THEN NoUnit ELSE Units[k - 1]>>

------------------------------------------------------------------------------
Init ==
  /\ peers \in PeerLists
  /\ progress_threads \in ThreadLists \cup {NotSet, AllPEs}
  /\ symmetric_size \in SymmetricSizes
  /\ progress_delay \in Delays
  /\ heap_spec = [p \in PE |-> NotSet]
  /\ stage = [p \in PE |-> "env"]
  /\ next = [p \in PE |-> <<>>]
  /\ range = [p \in PE |-> Nothing]
  /\ out = [p \in PE |-> <<>>]
  /\ nnums = [p \in PE |-> Chunk]
  /\ heapsize = [p \in PE |-> 0]
  /\ leader = [p \in PE |-> FALSE]
  /\ needed = [p \in PE |-> FALSE]

CheckEnv(variable) == variable.shmem
CheckEnvWithDeprecation(variable) ==
  IF CheckEnv(variable) # NotSet THEN CheckEnv(variable) ELSE variable.sma

HeapSpec ==
  LET e == CheckEnvWithDeprecation(symmetric_size)
  IN  IF e # NotSet THEN e ELSE DefaultHeapSize

\* shmemc_env_init ends the program when it cannot read the delay.
EnvInit(p) ==
  /\ stage[p] = "env"
  /\ heap_spec' = [heap_spec EXCEPT ![p] = HeapSpec]
  /\ stage' = [stage EXCEPT ![p] =
       IF progress_delay # NotSet /\ ParseSize(progress_delay) = Bad THEN "ended" ELSE "heap"]
  /\ UNCHANGED <<environment, parser, heapsize, leader, needed>>

\* shmemc_heaps_init ends the program when it cannot read the size.
HeapsInit(p) ==
  /\ stage[p] = "heap"
  /\ IF ParseSize(heap_spec[p]) = Bad
     THEN /\ stage' = [stage EXCEPT ![p] = "ended"]
          /\ UNCHANGED <<heapsize, next>>
     ELSE /\ heapsize' = [heapsize EXCEPT ![p] = ParseSize(heap_spec[p])]
          /\ stage' = [stage EXCEPT ![p] = "peers"]
          /\ next' = [next EXCEPT ![p] = peers[p]]
  /\ UNCHANGED <<environment, heap_spec, range, out, nnums, leader, needed>>

Parsing(p) == stage[p] \in {"peers", "threads"}
Empty(r) == r[1] > r[2]

\* shmemu_parse_csv: the next item ...
Strtok(p) ==
  /\ Parsing(p) /\ Empty(range[p]) /\ next[p] # <<>>
  /\ range' = [range EXCEPT ![p] = Head(next[p])]
  /\ next' = [next EXCEPT ![p] = Tail(@)]
  /\ UNCHANGED <<environment, stage, out, nnums, heap_spec, heapsize, leader, needed>>

\* ... and its numbers one by one; the array grows as soon as it is full.
Assign(p) ==
  /\ Parsing(p) /\ ~ Empty(range[p])
  /\ out' = [out EXCEPT ![p] = Append(@, range[p][1])]
  /\ nnums' = [nnums EXCEPT ![p] = IF Len(out[p]) + 1 >= @ THEN @ + Chunk ELSE @]
  /\ range' = [range EXCEPT ![p][1] = @ + 1]
  /\ UNCHANGED <<environment, stage, next, heap_spec, heapsize, leader, needed>>

Parsed(p) == next[p] = <<>> /\ Empty(range[p])

\* The first of the peers leads the node.
InitPeers(p) ==
  /\ stage[p] = "peers" /\ Parsed(p)
  /\ leader' = [leader EXCEPT ![p] = out[p][1] = p]
  /\ stage' = [stage EXCEPT ![p] = "check"]
  /\ UNCHANGED <<environment, parser, heap_spec, heapsize, needed>>

\* check_if_progress_required: only a leader takes "yes" or "all" for what it
\* says; on another PE it is parsed, as the number 0. So a thread runs on the
\* leaders and on PE 0.
CheckIfProgressRequired(p) ==
  /\ stage[p] = "check"
  /\ IF progress_threads = NotSet \/ (leader[p] /\ progress_threads = AllPEs)
     THEN /\ needed' = [needed EXCEPT ![p] = progress_threads = AllPEs]
          /\ stage' = [stage EXCEPT ![p] = "done"]
          /\ UNCHANGED parser
     ELSE /\ stage' = [stage EXCEPT ![p] = "threads"]
          /\ next' = [next EXCEPT ![p] = progress_threads]
          /\ out' = [out EXCEPT ![p] = <<>>]
          /\ nnums' = [nnums EXCEPT ![p] = Chunk]
          /\ UNCHANGED <<range, needed>>
  /\ UNCHANGED <<environment, heap_spec, heapsize, leader>>

\* Its loop over the numbers of the list.
Required(p) ==
  /\ stage[p] = "threads" /\ Parsed(p)
  /\ needed' = [needed EXCEPT ![p] = p \in Range(out[p])]
  /\ stage' = [stage EXCEPT ![p] = "done"]
  /\ UNCHANGED <<environment, parser, heap_spec, heapsize, leader>>

Next ==
  \E p \in PE :
    EnvInit(p) \/ HeapsInit(p) \/ Strtok(p) \/ Assign(p) \/ InitPeers(p)
      \/ CheckIfProgressRequired(p) \/ Required(p)

Spec == Init /\ [][Next]_vars

------------------------------------------------------------------------------
(* Properties.                                                              *)

\* The type invariant: also, the result array always has room for one more
\* number, so that ASSIGN, which writes before it grows the array, never
\* writes past it (parse_csv.c).
TypeOK ==
  /\ stage \in [PE -> {"env", "heap", "peers", "check", "threads", "done", "ended"}]
  /\ heapsize \in [PE -> Nat]
  /\ leader \in [PE -> BOOLEAN] /\ needed \in [PE -> BOOLEAN]
  /\ \A p \in PE : Len(out[p]) < nnums[p] /\ nnums[p] % Chunk = 0

Named(list, p) == \E i \in DOMAIN list : list[i][1] <= p /\ p <= list[i][2]

\* With a list, a progress thread runs exactly on the PEs that it names, however
\* often and in whatever ranges; without one, nowhere (progress.c).
RunsWhereNamed ==
  \A p \in PE :
    stage[p] = "done" =>
      /\ progress_threads = NotSet => ~ needed[p]
      /\ progress_threads \in ThreadLists => (needed[p] <=> Named(progress_threads, p))

\* "activate progress threads on the named PEs", "or on all PEs if the
\* variable's (case-insensitive) value is y[es] or a[ll]" (oshrun.1).
AllMeansEveryPE ==
  \A p \in PE : stage[p] = "done" /\ progress_threads = AllPEs => needed[p]

\* Once all PEs know their peers, one PE of each node leads it.
OneLeaderPerNode ==
  (\A p \in PE : stage[p] \in {"check", "threads", "done"}) =>
    \A p \in PE : \E l \in PE : {q \in PE : leader[q] /\ Named(peers[p], q)} = {l}

\* Sizes that one decimal shows exactly.
Round == {m * Power(k) : m \in 1 .. Multiplier - 1, k \in 0 .. Len(Units) - 1}

\* Showing the size of the heap "does the reverse of parse_size"
\* (unitparse.c): read again, it is the same size. (From the largest unit on,
\* no unit is shown.)
SizeShownAsRead ==
  \A p \in PE : heapsize[p] \in Round => ParseSize(HumanNumber(heapsize[p])) = heapsize[p]
=============================================================================
