--------------------------- MODULE MCCollectives ---------------------------
(***************************************************************************)
(* The collective routines and the ways they are called that TLC looks at. *)
(***************************************************************************)
EXTENDS Collectives, CollectiveCalls

\* A routine of some family, called on an active set of n PEs with a barrier
\* between the calls, over a transport that does everything as late as it may.
Plain(alg, fam, n) ==
  [alg |-> alg, fam |-> fam, n |-> n, root |-> 0, len |-> n,
   count |-> IF fam = "collect" THEN SubSeq(<<1, 0, 2, 1>>, 1, n)
                                ELSE [i \in 1..n |-> 1],
   world |-> n, team |-> FALSE, apart |-> "barrier", reuse |-> FALSE,
   lazy |-> TRUE, late |-> TRUE, calls |-> 2]

Uses(algs, fam, n) == {Plain(a, fam, n) : a \in algs}
Fcollects(algs, n) == Uses(algs, "fcollect", n)
Collects(algs, n) == Uses(algs, "collect", n)
Alltoall(algs, n) == Uses(algs, "alltoall", n)
Alltoalls(algs, n) == Uses(algs, "alltoalls", n)
Reductions(algs, n) == Uses(algs, "reduce", n)

TreeBroadcasts == {"complete", "binomial", "knomial", "signal"}
Bruck == {"bruck", "bruck_signal", "bruck_inplace"}

\* The transport takes the data when the put is called.
Eager(uses) == {[u EXCEPT !.lazy = FALSE] : u \in uses}
\* Puts to the own PE have landed when they return.
Prompt(uses) == {[u EXCEPT !.late = FALSE] : u \in uses}
Once(uses) == {[u EXCEPT !.calls = 1] : u \in uses}
\* The team interface, with what the program does between the calls.
ByTeam(uses, apart) ==
  {[u EXCEPT !.team = TRUE, !.apart = apart, !.late = FALSE] : u \in uses}

\* Three PEs, two calls.  A tree broadcast lets the root reuse its source.
ActiveSets ==
  {[u EXCEPT !.root = r, !.reuse = TRUE, !.len = 1] :
     u \in Uses(TreeBroadcasts, "broadcast", 3), r \in {0, 1}}
  \cup {[u EXCEPT !.root = 1] : u \in Uses({"linear", "scatter"}, "broadcast", 3)}
  \cup Fcollects({"linear", "all_linear", "all_linear1", "ring",
                  "bruck_no_rotate"}, 3)
  \cup Eager(Fcollects(Bruck, 3))
  \cup Alltoall({"shift_barrier", "shift_counter", "shift_signal"}, 3)
  \cup Alltoalls({"shift_barrier", "shift_counter"}, 3)
  \cup Collects({"linear", "all_linear", "all_linear1", "ring", "bruck",
                 "bruck_no_rotate"}, 3)
  \cup Reductions({"linear", "binomial", "rec_dbl"}, 3)

\* More PEs, one call.
MorePEs ==
  Once(Prompt({[u EXCEPT !.root = 2] :
                u \in Uses({"linear", "binomial"}, "broadcast", 5)}
        \cup Eager(Fcollects(Bruck, 5)) \cup Fcollects({"ring"}, 4)
        \cup Eager(Reductions({"binomial", "rec_dbl"}, 5))))

\* Routines for an even number of PEs, or for a power of two.
EvenSets ==
  Fcollects({"rec_dbl"}, 2) \cup Once(Prompt(Fcollects({"rec_dbl", "neighbor"}, 4)))
  \cup Alltoall({"xor_barrier", "xor_counter", "xor_signal", "color_barrier",
                 "color_counter", "color_signal"}, 2)
  \cup Alltoalls({"xor_barrier", "xor_counter", "color_barrier", "color_counter"}, 2)
  \cup Once(Prompt(Alltoall({"xor_barrier", "color_barrier"}, 4)))
  \cup Collects({"rec_dbl", "rec_dbl_signal"}, 2)
  \cup Once(Prompt(Collects({"rec_dbl", "rec_dbl_signal"}, 4)))
  \cup Reductions({"rabenseifner", "rabenseifner2"}, 2)
  \cup Once(Prompt(Eager(Reductions({"rec_dbl", "rabenseifner", "rabenseifner2"}, 4))))

\* The routines of the team interface that need no barrier between two calls,
\* and the others.
TeamCalls ==
  ByTeam(Eager(Fcollects({"linear", "all_linear1", "ring", "bruck_no_rotate"}
                         \cup Bruck, 3)), "nothing")
  \cup ByTeam(Collects({"linear", "bruck", "bruck_no_rotate"}, 3), "nothing")
  \cup ByTeam(Reductions({"linear", "binomial", "rec_dbl", "rabenseifner",
                        "rabenseifner2"}, 3), "nothing")
  \cup ByTeam(Uses(TreeBroadcasts \cup {"linear"}, "broadcast", 3), "sync")
  \cup ByTeam(Alltoall({"shift_barrier", "shift_counter"}, 3)
              \cup Alltoalls({"shift_counter"}, 3), "sync")

MCUses == ActiveSets \cup MorePEs \cup EvenSets \cup TeamCalls

PEsOf(c) == 0..(c.world - 1)

\* The use of a routine that c describes.
Use(c, program) ==
  LET words == UNION {WordsOf(program[p].steps) : p \in PEsOf(c)}
  IN  [name    |-> c.alg,
       program |-> program,
       fresh   |-> [p \in PEsOf(c) |->
                     [source |-> IF p < c.n THEN SourceOf(c, p, 1) ELSE <<>>,
                      dest   |-> [i \in 0..(DestLen(c) - 1) |-> {}],
                      tmp    |-> [i \in 0..(TmpLen(c) - 1) |-> {}],
                      word   |-> [w \in words |-> SyncValue],
                      taken  |-> {}]],
       supply  |-> [p \in 0..(c.n - 1) |->
                     [k \in 1..(c.calls + 1) |-> SourceOf(c, p, k)]],
       due     |-> [p \in 0..(c.n - 1) |-> [k \in 1..c.calls |-> Owed(c, p, k)]],
       calls   |-> c.calls,
       lazy    |-> c.lazy,
       late    |-> c.late]

UseOf(c) == Use(c, [p \in PEsOf(c) |-> Calls(c, p)])

MCCases == {UseOf(c) : c \in MCUses}

\* A team of two PEs reduces in a program of three; the third does not.
SubTeamReduction ==
  {UseOf([u EXCEPT !.world = 3]) : u \in ByTeam(Reductions({"rec_dbl"}, 2), "nothing")}

\* The default fcollect, over a transport that reads the source of a
\* non-blocking put late.
LazyFcollect == {UseOf(u) : u \in Fcollects({"bruck_inplace"}, 3)}
=============================================================================
