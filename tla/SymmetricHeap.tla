--------------------------- MODULE SymmetricHeap ---------------------------
(***************************************************************************)
(* Symmetric memory: the collective calls of api/shmalloc.c, and the teams *)
(* of shmemc/teams.c, whose work arrays come from the same heap.           *)
(*                                                                         *)
(* Every PE manages its own heap.  A put names a remote object by the      *)
(* offset it has in the heap of the caller (translate_region_address of    *)
(* shmemc/ucx/comms.c), so all PEs must allocate in step.                  *)
(*                                                                         *)
(* The program is the same on all PEs; the first PE to make its k-th call  *)
(* chooses what that is.  <<k, 1>> names the object that call k allocates, *)
(* or the work arrays of the team that it creates; <<k, 2>> is the second  *)
(* team of a 2D split.  <<0, 1>> is SHMEM_TEAM_WORLD, <<0, 2>> is          *)
(* SHMEM_TEAM_SHARED.                                                      *)
(***************************************************************************)
EXTENDS Teams, Sequences, FiniteSetsExt

CONSTANTS
  Size,           \* PEs of the program: 0 .. Size - 1
  NodeOf,         \* NodeOf[p] is the machine that PE p runs on
  Cells,          \* the capacity of the heap
  Menu,           \* the calls the program may make; the object or team they
                  \* are about, field "of", is filled in when they are made
  Nested,         \* whether the program splits teams other than the world
  SyncAfterSplit, \* whether it calls shmem_barrier_all after a split
  MaxCalls,       \* bound: calls of the program
  MaxNet          \* bound: puts in flight; they do not affect one another

PE == 0..(Size - 1)

ASSUME HeapAssumption ==
  /\ Size \in Nat \ {0} /\ Cells \in Nat /\ Cells >= 2 /\ MaxCalls \in Nat /\ MaxNet \in Nat
  /\ DOMAIN NodeOf = PE
  /\ Nested \in BOOLEAN /\ SyncAfterSplit \in BOOLEAN

ASSUME MenuAssumption ==
  \A m \in Menu :
    /\ "kind" \in DOMAIN m
    /\ m.kind # "malloc" => "of" \in DOMAIN m
    /\ m.kind \in {"malloc", "free", "realloc", "strided", "grid", "destroy"}

VARIABLES
  calls,    \* the calls of the program so far, as the first PE chose them
  pos,      \* calls each PE has begun
  step,     \* the step of that call it is at; 0 when it has returned
  arrived,  \* barriers each PE has come to
  heap,     \* heap[p]: object -> its place in the heap of p
  team,     \* team[p]: work arrays -> the handle p has of their team
  net       \* puts that have not landed

vars == <<calls, pos, step, arrived, heap, team, net>>

World == <<0, 1>>
Shared == <<0, 2>>

\* initialize_team_shared
SharedTeam(p) ==
  LET peers == {q \in PE : NodeOf[q] = NodeOf[p]}
      fwd == Renumber(WorldTeam(Size), peers)
  IN  Handle(fwd, Cardinality(peers), fwd[0], 1)

Place == [at : -1..(Cells - 1), len : 0..Cells]
NoRoom == [at |-> -1, len |-> 0]    \* the call returned NULL

\* The work arrays of the two teams there are from the start.
StartHeap ==
  [k \in {World, Shared} |-> [at |-> IF k = World THEN 0 ELSE 1, len |-> 1]]

Init ==
  /\ calls = <<>>
  /\ pos = [p \in PE |-> 0]
  /\ step = [p \in PE |-> 0]
  /\ arrived = [p \in PE |-> 0]
  /\ heap = [p \in PE |-> StartHeap]
  /\ team = [p \in PE |-> [k \in {World, Shared} |->
                             IF k = World THEN WorldTeam(Size) ELSE SharedTeam(p)]]
  /\ net = {}

-----------------------------------------------------------------------------
(* The allocator of one PE: what it returns depends on its heap and on the *)
(* request, and on nothing else.                                           *)

CellsOf(place) == place.at..(place.at + place.len - 1)
Taken(h) == UNION {CellsOf(h[k]) : k \in DOMAIN h}

\* shmema_malloc, shmema_calloc and shmema_align
Fit(h, len, align) ==
  LET room == {a \in 0..(Cells - len) : /\ a % align = 0
                                        /\ (a..(a + len - 1)) \cap Taken(h) = {}}
  IN  IF room = {} THEN NoRoom ELSE [at |-> Min(room), len |-> len]

With(h, k, place) == [i \in DOMAIN h \cup {k} |-> IF i = k THEN place ELSE h[i]]
Without(h, k) == [i \in DOMAIN h \ {k} |-> h[i]]

\* shmema_realloc: object old of h becomes object new; it stays where it is if
\* it can, and there is no change if there is no room at all.
Realloc(h, old, new, len) ==
  LET rest == Without(h, old)
      same == [at |-> h[old].at, len |-> len]
      moved == Fit(h, len, 1)
  IN  IF same.at + len <= Cells /\ CellsOf(same) \cap Taken(rest) = {}
        THEN With(rest, new, same)
      ELSE IF moved # NoRoom THEN With(rest, new, moved)
      ELSE With(h, new, NoRoom)

-----------------------------------------------------------------------------
(* Calls.                                                                  *)

IsSplit(c) == c.kind \in {"strided", "grid"}

\* Who splits a team: every PE that has it, member of the new one or not.
Takes(p, c) ==
  /\ c.of \in DOMAIN team[p]
  /\ p \in Members(team[p][c.of])

\* Who destroys a team: its members; the world and the shared team remain.
Destroys(p, c) ==
  /\ c.of \in DOMAIN team[p] \ {World, Shared}
  /\ p \in Members(team[p][c.of])

AfterSplit == IF SyncAfterSplit THEN <<"arrive", "leave">> ELSE <<>>

\* The steps of a call. Arrive and leave are shmem_barrier_all; a request for
\* no bytes returns before any of it.
Steps_NoBarrier(p, c) ==
  IF c.kind \in {"malloc", "realloc"} /\ c.len = 0 THEN <<>>
  ELSE CASE c.kind = "malloc"  -> <<"allocate">>
         [] c.kind = "free"    -> <<"arrive", "leave", "release">>
         [] c.kind = "realloc" -> <<"arrive", "leave", "resize", "arrive", "leave">>
         [] c.kind = "strided" -> (IF Takes(p, c) THEN <<"split">> ELSE <<>>) \o AfterSplit
         [] c.kind = "grid"    -> (IF Takes(p, c) THEN <<"rows", "columns">> ELSE <<>>)
                                  \o AfterSplit
         [] c.kind = "destroy" -> IF Destroys(p, c) THEN <<"destroy">> ELSE <<>>

Steps(p, c) ==
  IF c.kind \in {"malloc", "realloc"} /\ c.len = 0 THEN <<>>
  ELSE CASE c.kind = "malloc"  -> <<"allocate", "arrive", "leave">>
         [] c.kind = "free"    -> <<"arrive", "leave", "release">>
         [] c.kind = "realloc" -> <<"arrive", "leave", "resize", "arrive", "leave">>
         [] c.kind = "strided" -> (IF Takes(p, c) THEN <<"split">> ELSE <<>>) \o AfterSplit
         [] c.kind = "grid"    -> (IF Takes(p, c) THEN <<"rows", "columns">> ELSE <<>>)
                                  \o AfterSplit
         [] c.kind = "destroy" -> IF Destroys(p, c) THEN <<"destroy">> ELSE <<>>

\* Whether k is an object the program asked for, not a work array.
IsForTheUser(k) == k[1] # 0 /\ ~IsSplit(calls[k[1]])

\* PE p has object k and has not begun to give it back.
Has(p, k) ==
  /\ k \in DOMAIN heap[p] /\ heap[p][k].at >= 0
  /\ \A i \in 1..pos[p] : calls[i].kind \in {"free", "realloc"} => calls[i].of # k

\* Entry m of the menu, about object or team k.
About(m, k) == [m EXCEPT !.of = k]

\* The calls that PE p may make next: a shmem_free or shmem_realloc is of an
\* object it allocated, a split is of the world or of a team it is in, and a
\* team is destroyed by who is in it.
Calls(p) ==
  {About(m, k) : m \in {m \in Menu : m.kind \in {"free", "realloc"}},
                 k \in {k \in DOMAIN heap[p] : Has(p, k) /\ IsForTheUser(k)}}
  \cup {c \in {About(m, k) : m \in {m \in Menu : IsSplit(m)},
                             k \in IF Nested THEN DOMAIN team[p] ELSE {World}} :
          Takes(p, c)}
  \cup {c \in {About(m, k) : m \in {m \in Menu : m.kind = "destroy"},
                             k \in DOMAIN team[p]} : Destroys(p, c)}
  \cup {m \in Menu : m.kind = "malloc"}

Enter(p, c) ==
  /\ pos' = [pos EXCEPT ![p] = @ + 1]
  /\ step' = [step EXCEPT ![p] = IF Steps(p, c) # <<>> THEN 1 ELSE 0]
  /\ UNCHANGED <<arrived, heap, team, net>>

\* PE p makes its next call, the first of all PEs to do so.
Lead(p) ==
  /\ step[p] = 0 /\ pos[p] = Len(calls) /\ pos[p] < MaxCalls
  /\ \E c \in Calls(p) : calls' = Append(calls, c) /\ Enter(p, c)

Follow(p) ==
  /\ step[p] = 0 /\ pos[p] < Len(calls)
  /\ Enter(p, calls[pos[p] + 1])
  /\ UNCHANGED calls

Call(p) == calls[pos[p]]

At(p, s) == step[p] # 0 /\ Steps(p, Call(p))[step[p]] = s

Advance(p) ==
  step' = [step EXCEPT ![p] = IF @ = Len(Steps(p, Call(p))) THEN 0 ELSE @ + 1]

Allocate(p) ==
  /\ At(p, "allocate")
  /\ heap' = [heap EXCEPT ![p] =
                With(@, <<pos[p], 1>>, Fit(@, Call(p).len, Call(p).align))]
  /\ Advance(p)
  /\ UNCHANGED <<calls, pos, arrived, team, net>>

Release(p) ==
  /\ At(p, "release")
  /\ heap' = [heap EXCEPT ![p] = Without(@, Call(p).of)]
  /\ Advance(p)
  /\ UNCHANGED <<calls, pos, arrived, team, net>>

Resize(p) ==
  /\ At(p, "resize")
  /\ heap' = [heap EXCEPT ![p] = Realloc(@, Call(p).of, <<pos[p], 1>>, Call(p).len)]
  /\ Advance(p)
  /\ UNCHANGED <<calls, pos, arrived, team, net>>

\* initialize_psync_buffers. The work arrays of a team count as one object of
\* one cell; without room for them the program ends, so that is not a step.
AllocateWorkArrays(p, k) ==
  /\ Fit(heap[p], 1, 1) # NoRoom
  /\ heap' = [heap EXCEPT ![p] = With(@, k, Fit(@, 1, 1))]
  /\ Advance(p)
  /\ UNCHANGED <<calls, pos, arrived, net>>

Create(p, k, handle) ==
  /\ AllocateWorkArrays(p, k)
  /\ team' = [team EXCEPT ![p] = With(@, k, handle)]

\* A rank that the parent does not have is found after the work arrays have
\* been allocated; they stay.
Split(p) ==
  /\ At(p, "split")
  /\ LET c == Call(p)
         parent == team[p][c.of]
     IN  IF StridedIsValid(parent, c.start, c.stride, c.size)
           THEN Create(p, <<pos[p], 1>>,
                       SplitStrided(parent, c.start, c.stride, c.size))
           ELSE AllocateWorkArrays(p, <<pos[p], 1>>) /\ UNCHANGED team

SplitRows(p) ==
  /\ At(p, "rows")
  /\ LET parent == team[p][Call(p).of]
     IN  Create(p, <<pos[p], 1>>, XAxis(parent, Call(p).xrange, RankIn(parent, p)))

SplitColumns(p) ==
  /\ At(p, "columns")
  /\ LET parent == team[p][Call(p).of]
     IN  Create(p, <<pos[p], 2>>, YAxis(parent, Call(p).xrange, RankIn(parent, p)))

\* shmemc_team_destroy gives up the handle; the work arrays stay in the heap.
Destroy_FreeArrays(p) ==
  /\ At(p, "destroy")
  /\ team' = [team EXCEPT ![p] = Without(@, Call(p).of)]
  /\ heap' = [heap EXCEPT ![p] = Without(@, Call(p).of)]
  /\ Advance(p)
  /\ UNCHANGED <<calls, pos, arrived, net>>

Destroy(p) ==
  /\ At(p, "destroy")
  /\ team' = [team EXCEPT ![p] = Without(@, Call(p).of)]
  /\ Advance(p)
  /\ UNCHANGED <<calls, pos, arrived, heap, net>>

\* A barrier completes the puts of its caller.
Arrive(p) ==
  /\ At(p, "arrive")
  /\ \A o \in net : o.from # p
  /\ arrived' = [arrived EXCEPT ![p] = @ + 1]
  /\ Advance(p)
  /\ UNCHANGED <<calls, pos, heap, team, net>>

Leave(p) ==
  /\ At(p, "leave")
  /\ \A q \in PE : arrived[q] >= arrived[p]
  /\ Advance(p)
  /\ UNCHANGED <<calls, pos, arrived, heap, team, net>>

\* The PEs whose memory a program reaches by way of team t.
RanksOf(t, world) == {TeamPtr(t, i, world) : i \in 0..(t.nranks - 1)} \ {-1}

\* Whom PE p may write to in object k: any rank of a team it has, or, if k is
\* the work array of a team, who is in what its collectives take for the
\* active set.
Partners(p, k) ==
  IF IsForTheUser(k)
  THEN UNION {RanksOf(team[p][t], team[p][World]) : t \in DOMAIN team[p]}
  ELSE IF k \in DOMAIN team[p] /\ p \in Members(team[p][k])
    THEN ActiveSet(team[p][k]) ELSE {}

\* Outside of the calls above PE p writes to object k of another PE, itself or
\* in a collective.
Put(p, q, k) ==
  /\ step[p] = 0 /\ Has(p, k)
  /\ q \in Partners(p, k) \ {p}
  /\ Cardinality(net) < MaxNet
  /\ net' = net \cup {[from |-> p, to |-> q, of |-> k, at |-> heap[p][k].at]}
  /\ UNCHANGED <<calls, pos, step, arrived, heap, team>>

Land(o) ==
  /\ net' = net \ {o}
  /\ UNCHANGED <<calls, pos, step, arrived, heap, team>>

\* The program is over, or a split had no room for its work arrays.
Done ==
  /\ net = {}
  /\ \A p \in PE : \/ step[p] = 0 /\ pos[p] = Len(calls)
                   \/ \E q \in PE : (At(q, "split") \/ At(q, "rows") \/ At(q, "columns"))
                                    /\ Fit(heap[q], 1, 1) = NoRoom
  /\ UNCHANGED vars

Next ==
  \/ \E p \in PE :
       \/ Lead(p) \/ Follow(p) \/ Allocate(p) \/ Release(p) \/ Resize(p)
       \/ Split(p) \/ SplitRows(p) \/ SplitColumns(p) \/ Destroy(p)
       \/ Arrive(p) \/ Leave(p)
       \/ \E q \in PE : \E k \in DOMAIN heap[p] : Put(p, q, k)
  \/ \E o \in net : Land(o)
  \/ Done

Spec == Init /\ [][Next]_vars

-----------------------------------------------------------------------------
(* Properties.                                                             *)

\* The objects of a PE are inside its heap and do not overlap.
TypeOK ==
  /\ Len(calls) <= MaxCalls
  /\ \A p \in PE :
       /\ pos[p] \in 0..Len(calls)
       /\ step[p] \in 0..5
       /\ DOMAIN team[p] \subseteq DOMAIN heap[p]
       /\ \A k \in DOMAIN heap[p] : heap[p][k] \in Place
       /\ \A j, k \in DOMAIN heap[p] :
            j # k => CellsOf(heap[p][j]) \cap CellsOf(heap[p][k]) = {}

\* An object is at the same place, and as long, in every heap it is in; if
\* the heap of one PE has no room for it, that of no PE has.
SameAddress ==
  \A p, q \in PE : \A k \in DOMAIN heap[p] \cap DOMAIN heap[q] :
    heap[p][k] = heap[q][k]

\* The handles that PEs compute on their own agree: the members of a team all
\* have the same one, its size is the number of its members, its ranks count
\* through them without a gap, and its collectives address them and no others.
\* The last holds of the world and of the teams split from it.
HandlesAgree ==
  \A p \in PE : \A k \in DOMAIN team[p] :
    LET t == team[p][k]
    IN  /\ DOMAIN t.fwd = 0..(t.nranks - 1)
        /\ Cardinality(Members(t)) = t.nranks
        /\ \A q \in Members(t) : k \in DOMAIN team[q] => team[q][k] = t
        /\ ActiveSet(t) = Members(t)

\* What the program and the machines have to be like for that: the PEs of a machine
\* are numbered in a row, a split asks for ranks in ascending order, and the logarithm
\* loses nothing of a stride: it is a power of two (SHMEMU_CHECK_TEAM_STRIDE).
KeptByLog(stride) == 2^LogStride(stride) = stride

RegularTeams ==
  /\ \A p, q, r \in PE : p <= q /\ q <= r /\ NodeOf[p] = NodeOf[r] => NodeOf[q] = NodeOf[p]
  /\ KeptByLog(1)
  /\ \A m \in Menu : m.kind = "strided" =>
       /\ {"start", "stride", "size"} \subseteq DOMAIN m
       /\ m.start \in Int /\ m.stride \in Nat \ {0} /\ m.size \in Nat
       /\ KeptByLog(m.stride)
  /\ \A m \in Menu : m.kind = "grid" =>
       /\ "xrange" \in DOMAIN m /\ m.xrange \in Nat \ {0}
       /\ m.xrange < Size => KeptByLog(m.xrange)

\* Whenever a put lands, what it is for is there: the target has made it and
\* has neither moved nor freed it, has it at the address the caller computed,
\* and is a member if it is the work array of a team.
PutsHitTheirObject ==
  \A o \in net :
    /\ o.to \in PE
    /\ o.of \in DOMAIN heap[o.to] /\ heap[o.to][o.of].at = o.at
    /\ o.of \in DOMAIN team[o.from]
         => /\ o.to \in Members(team[o.from][o.of])
            /\ o.of \in DOMAIN team[o.to] => team[o.to][o.of] = team[o.from][o.of]
=============================================================================
