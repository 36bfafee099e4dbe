------------------------------- MODULE Teams -------------------------------
(***************************************************************************)
(* Teams as shmemc/teams.c computes them.  Nothing is communicated when a  *)
(* team is split: each PE builds its own handle, from its own rank in the  *)
(* parent, and the handles must agree.                                     *)
(*                                                                         *)
(* A handle: fwd maps ranks to PEs (rev is its inverse), nranks is what    *)
(* the handle says the size is, start and stride are what the collectives  *)
(* take for the active set.                                                *)
(***************************************************************************)
EXTENDS Integers, FiniteSets

Handle(fwd, nranks, start, stride) ==
  [fwd |-> fwd, nranks |-> nranks, start |-> start, stride |-> stride]

Members(team) == {team.fwd[i] : i \in DOMAIN team.fwd}

\* shmemc_team_my_pe; -1 for a PE outside of the team
RankIn(team, pe) ==
  IF pe \in Members(team) THEN CHOOSE i \in DOMAIN team.fwd : team.fwd[i] = pe ELSE -1

\* initialize_team_world
WorldTeam(n) == Handle([i \in 0..(n - 1) |-> i], n, 0, 1)

\* shmemc_team_translate_pe
Translate(from, i, to) ==
  IF i \in DOMAIN from.fwd THEN RankIn(to, from.fwd[i]) ELSE -1

\* shmem_team_ptr: the PE whose memory rank i of a team names, -1 for none
TeamPtr(team, i, world) ==
  IF i \in 0..(team.nranks - 1) THEN Translate(team, i, world) ELSE -1

-----------------------------------------------------------------------------
\* shmemc_team_split_strided; start and stride are ranks of the parent, and
\* are stored as they are.
StridedIsValid(parent, start, stride, size) ==
  \A i \in 0..(size - 1) : start + i * stride \in DOMAIN parent.fwd

SplitStrided(parent, start, stride, size) ==
  Handle([i \in 0..(size - 1) |-> parent.fwd[start + i * stride]],
         size, start, stride)

\* The ranks of a set of ranks of the parent, in ascending order: rank r gets
\* the number of those before it.
Renumber(parent, ranks) ==
  LET Nth(i) == CHOOSE r \in ranks : Cardinality({s \in ranks : s < r}) = i
  IN  [i \in 0..(Cardinality(ranks) - 1) |-> parent.fwd[Nth(i)]]

\* The start and the stride of one axis, from its first two PEs.
AxisHandle(parent, ranks, nranks, first, second) ==
  LET pe0 == parent.fwd[first]
  IN  Handle(Renumber(parent, ranks), nranks, pe0,
             IF nranks > 1 /\ second \in DOMAIN parent.fwd
               THEN parent.fwd[second] - pe0 ELSE 1)

\* shmemc_team_split_2d, as the PE of rank "me" in the parent does it. The
\* sizes are computed apart from the maps.
Columns(parent, xrange) == IF xrange > parent.nranks THEN parent.nranks ELSE xrange

XAxis_NoLastRow(parent, xrange, me) ==
  LET x == Columns(parent, xrange)
      y == me \div x
  IN  AxisHandle(parent, {i \in 0..(parent.nranks - 1) : i \div x = y},
                 x, y * x, y * x + 1)

XAxis(parent, xrange, me) ==
  LET n == parent.nranks
      x == Columns(parent, xrange)
      y == me \div x
      last == y = (n + x - 1) \div x - 1
  IN  AxisHandle(parent, {i \in 0..(n - 1) : i \div x = y},
                 IF last /\ n % x # 0 THEN n % x ELSE x, y * x, y * x + 1)

YAxis(parent, xrange, me) ==
  LET n == parent.nranks
      x == Columns(parent, xrange)
      rows == (n + x - 1) \div x
  IN  AxisHandle(parent, {i \in 0..(n - 1) : (i % x) = (me % x)},
                 IF n % x = 0 \/ (me % x) < (n % x) THEN rows ELSE rows - 1,
                 me % x, x + (me % x))

-----------------------------------------------------------------------------
\* (int)log2((double)stride), as the team collectives compute it
LogStride(stride) ==
  CHOOSE k \in 0..stride : 2^k <= stride /\ stride < 2^(k + 1)

\* The PEs that a collective over a team addresses; shcoll steps through them
\* by PE_start, logPE_stride and PE_size.
ActiveSet(team) ==
  {team.start + i * 2^LogStride(team.stride) : i \in 0..(team.nranks - 1)}
=============================================================================
