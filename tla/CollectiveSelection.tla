------------------------ MODULE CollectiveSelection ------------------------
(***************************************************************************)
(* Which implementation a collective routine runs: the names that the      *)
(* environment gives (shmemc/env.c), the tables of implementations         *)
(* (api/collectives/table.c), the table "colls" with the implementation in *)
(* use, and the routines of api/collectives/shcoll-shim.c that go through  *)
(* it.  One PE, several threads.  CollectiveCalls has what the             *)
(* implementations do.                                                     *)
(*                                                                         *)
(* An entry of colls is an operation and the form of its routines: typed,  *)
(* by size, in bytes (mem), to_all and reduce; "sync" are the barriers.    *)
(***************************************************************************)
EXTENDS Naturals, Sequences, SequencesExt

CONSTANTS
  Thread,
  Name       \* what the environment may say

DataOps == {"alltoall", "alltoalls", "collect", "fcollect", "broadcast"}
BitOps == {"and", "or", "xor"}
MinMaxOps == {"max", "min"}
ArithOps == {"sum", "prod"}
SyncOps == {"barrier", "barrier_all", "sync", "sync_all", "team_sync"}

\* an entry of coll_ops_t
Entry == (DataOps \X {"type", "mem", "size"})
         \cup ((BitOps \cup MinMaxOps \cup ArithOps) \X {"to_all", "reduce"})
         \cup (SyncOps \X {"sync"})

Typed(e) == e[2] \in {"type", "to_all", "reduce"}

\* A name, see Plain.
ASSUME NameAssumption ==
  \A n \in Name : n = [algo |-> n.algo, suffix |-> n.suffix, type |-> n.type]

-----------------------------------------------------------------------------
(* The type tables of shmem/api_types.h, in their order.                   *)

FixedWidths == <<"int8", "int16", "int32", "int64", "uint8", "uint16", "uint32", "uint64", "size">>
Signed == <<"char", "schar", "short", "int", "long", "longlong">>
Unsigned == <<"uchar", "ushort", "uint", "ulong", "ulonglong">>
Floating == <<"float", "double", "longdouble">>
Complex == <<"complexd", "complexf">>

RmaTypes == Floating \o Signed \o Unsigned \o FixedWidths \o <<"ptrdiff">>
ToAllBitwise == SubSeq(Signed, 3, 6)
ToAllMinMax == ToAllBitwise \o Floating
ToAllArith == ToAllMinMax \o Complex
ReduceBitwise == Unsigned \o FixedWidths
ReduceMinMax == Signed \o <<"ptrdiff">> \o Unsigned \o FixedWidths \o Floating
ReduceArith == ReduceMinMax \o Complex

-----------------------------------------------------------------------------
(* The tables of implementations: per entry, the algorithms, each for all  *)
(* of the types.                                                           *)

Exchanges(endings) ==
  {order \o "_exchange_" \o ending :
     order \in {"shift", "xor_pairwise", "color_pairwise"}, ending \in endings}

SyncAlgos == {"linear", "complete_tree", "binomial_tree", "knomial_tree", "dissemination"}
ReduceAlgos == {"linear", "binomial", "rec_dbl", "rabenseifner", "rabenseifner2"}

AlgosOf(op) ==
  CASE op = "alltoall" -> Exchanges({"barrier", "counter", "signal"})
    [] op = "alltoalls" -> Exchanges({"barrier", "counter"})
    [] op = "collect" -> {"linear", "all_linear", "all_linear1", "rec_dbl",
                          "rec_dbl_signal", "ring", "bruck", "bruck_no_rotate"}
    [] op = "fcollect" -> {"linear", "all_linear", "all_linear1", "rec_dbl", "ring", "bruck",
                           "bruck_no_rotate", "bruck_signal", "bruck_inplace", "neighbor_exchange"}
    [] op = "broadcast" -> {"linear", "complete_tree", "binomial_tree", "knomial_tree",
                            "knomial_tree_signal", "scatter_collect"}
    [] op \in SyncOps -> SyncAlgos
    [] OTHER -> ReduceAlgos

TypesOf_NoComplex(e) ==
  CASE e[2] = "type" -> RmaTypes
    [] e[2] = "to_all" -> IF e[1] \in BitOps THEN ToAllBitwise ELSE ToAllMinMax
    [] e[2] = "reduce" -> IF e[1] \in BitOps THEN ReduceBitwise ELSE ReduceMinMax

TypesOf(e) ==
  CASE e[2] = "type" -> RmaTypes
    [] e[2] = "to_all" -> IF e[1] \in BitOps THEN ToAllBitwise
                          ELSE IF e[1] \in MinMaxOps THEN ToAllMinMax ELSE ToAllArith
    [] e[2] = "reduce" -> IF e[1] \in BitOps THEN ReduceBitwise
                          ELSE IF e[1] \in MinMaxOps THEN ReduceMinMax ELSE ReduceArith

\* the types for which the shim declares the reductions of active sets and of
\* teams
ToAllRoutines(op) ==
  ToSet(CASE op \in BitOps -> ToAllBitwise
          [] op \in MinMaxOps -> ToAllMinMax
          [] op \in ArithOps -> ToAllArith)

BitReductions == ToSet(ReduceBitwise)
MinMaxReductions == ToSet(ReduceMinMax)
ArithReductions == ToSet(ReduceArith)

\* the routines of an entry, by what is in their names
Routines(e) ==
  CASE e[2] = "type" -> ToSet(RmaTypes)
    [] e[2] = "to_all" -> ToAllRoutines(e[1])
    [] e[2] = "reduce" /\ e[1] \in BitOps -> BitReductions
    [] e[2] = "reduce" /\ e[1] \in MinMaxOps -> MinMaxReductions
    [] e[2] = "reduce" /\ e[1] \in ArithOps -> ArithReductions
    [] e[2] = "size" -> {"32", "64"}
    [] OTHER -> {""}

-----------------------------------------------------------------------------
(* Names and their registration.  A name is an algorithm, a suffix that    *)
(* may follow it ("_size", "_mem") and the type behind the colon, if any.  *)

Plain(algo) == [algo |-> algo, suffix |-> "", type |-> ""]

DefaultOf(e) ==
  Plain(CASE e[1] \in {"alltoall", "alltoalls"} -> "shift_exchange_barrier"
          [] e[1] = "collect" -> "bruck"
          [] e[1] = "fcollect" -> "bruck_inplace"
          [] e[1] \in SyncOps \cup {"broadcast"} -> "binomial_tree"
          [] OTHER -> "rec_dbl")

Implementation(e, algo, type) == [entry |-> e, algo |-> algo, type |-> type]

\* the null pointer of colls, and the answer that no implementation was found
Null == Implementation(<<>>, "", "")

RegisterSized(e, name) ==
  IF name.algo \in AlgosOf(e[1]) /\ name.suffix \in {"", "_size"} /\ name.type = ""
  THEN Implementation(e, name.algo, "") ELSE Null

\* what follows the algorithm in an untyped name, even the "mem" that is left
\* of "_mem", is in no table
RegisterPlain(e, name) ==
  IF name.algo \in AlgosOf(e[1]) /\ name.suffix = "" /\ name.type = ""
  THEN Implementation(e, name.algo, "") ELSE Null

\* a name without a type stands for the first one that has the algorithm
RegisterTyped(e, name) ==
  IF name.algo \notin AlgosOf(e[1]) \/ name.suffix # "" THEN Null
  ELSE IF name.type = "" THEN Implementation(e, name.algo, Head(TypesOf(e)))
  ELSE IF name.type \in ToSet(TypesOf(e)) THEN Implementation(e, name.algo, name.type)
  ELSE Null

Register(e, name) ==
  IF Typed(e) THEN RegisterTyped(e, name)
  ELSE IF e[2] = "size" THEN RegisterSized(e, name) ELSE RegisterPlain(e, name)

\* the name that a typed routine looks up
OpString_AsGiven(name, type) == name

OpString(name, type) == IF name.type = "" THEN [name EXCEPT !.type = type] ELSE name

-----------------------------------------------------------------------------
VARIABLES
  multiple, \* the thread level is SHMEM_THREAD_MULTIPLE; below it, the program
            \* makes one call at a time
  env,     \* proc.env.coll
  colls,   \* the implementation in use, per entry
  tried,   \* the entries that collectives_init has registered
  fatal,   \* the program has ended for want of an implementation
  use,     \* the entry whose routines the program calls (a bound)
  call,    \* call[t]: which of them thread t is in, or Idle
  last     \* what the last call of the program has run

selectionVars == <<multiple, env, colls, tried, fatal, use, call, last>>

Idle == "idle"
NoCall == [asked |-> Idle]

\* one variable is set; it is the one for the routines that the program uses
SelectionInit ==
  /\ multiple \in BOOLEAN
  /\ use \in Entry
  /\ \E name \in Name \cup {DefaultOf(use)} :
       env = [e \in Entry |-> IF e = use THEN name ELSE DefaultOf(e)]
  /\ colls = [e \in Entry |-> Null]
  /\ tried = {} /\ fatal = FALSE
  /\ call = [t \in Thread |-> Idle]
  /\ last = NoCall

Started == tried = Entry /\ ~fatal

\* TRY, in collectives_init: in any order, which makes no difference
Try ==
  LET e == CHOOSE e \in Entry \ tried : TRUE
      found == Register(e, env[e])
  IN  /\ ~fatal /\ tried # Entry
      /\ fatal' = (found = Null)
      /\ colls' = [colls EXCEPT ![e] = IF found = Null THEN @ ELSE found]
      /\ tried' = tried \cup {e}
      /\ UNCHANGED <<multiple, env, use, call, last>>

MayCall(t) == Started /\ call[t] = Idle /\ (multiple \/ \A u \in Thread : call[u] = Idle)

\* TYPED_CALL and TO_ALL_TYPED_CALL up to the call
TypedCall(t, type) ==
  LET found == Register(use, OpString(env[use], type))
  IN  /\ MayCall(t) /\ Typed(use)
      /\ fatal' = (found = Null)
      /\ colls' = [colls EXCEPT ![use] = IF found = Null THEN @ ELSE found]
      /\ call' = [call EXCEPT ![t] = type]
      /\ UNCHANGED <<multiple, env, tried, use, last>>

\* the other routines go straight to the implementation
Call(t, size) ==
  /\ MayCall(t) /\ ~Typed(use)
  /\ call' = [call EXCEPT ![t] = size]
  /\ UNCHANGED <<multiple, env, colls, tried, fatal, use, last>>

\* colls.CONFIG.f, .f32 or .f64, by way of the pointer that is there now
Run(t) ==
  /\ Started /\ call[t] # Idle
  /\ last' = [asked |-> call[t], algo |-> colls[use].algo, entry |-> colls[use].entry,
              type |-> IF Typed(use) THEN colls[use].type ELSE call[t]]
  /\ call' = [call EXCEPT ![t] = Idle]
  /\ UNCHANGED <<multiple, env, colls, tried, fatal, use>>

SelectionNext ==
  \/ Try
  \/ \E t \in Thread :
       \/ \E r \in Routines(use) : TypedCall(t, r) \/ Call(t, r)
       \/ Run(t)

SelectionSpec == SelectionInit /\ [][SelectionNext]_selectionVars

-----------------------------------------------------------------------------
SelectionTypeOK ==
  /\ multiple \in BOOLEAN
  /\ \A e \in Entry : colls[e] = Null
                      \/ /\ colls[e].entry = e /\ colls[e].algo \in AlgosOf(e[1])
                         /\ Typed(e) <=> colls[e].type # ""
  /\ tried \subseteq Entry /\ use \in Entry /\ fatal \in BOOLEAN
  /\ \A t \in Thread : call[t] \in Routines(use) \cup {Idle}

\* A routine runs the implementation for its own operation, and of the
\* algorithm that the environment names, whatever has been called before and
\* whatever other threads do to the table between its look-up and its call: the
\* PEs of one call, with different pasts, run the same algorithm.  Where calls
\* are made one at a time, the implementation is also the one for its own type.
RunsWhatWasAsked ==
  last # NoCall =>
    /\ last.entry = use
    /\ last.algo = env[use].algo
    /\ ~multiple /\ env[use].type = "" => last.type = last.asked

\* A name that start-up has accepted serves every routine: no later call ends
\* the program for want of an implementation.
AcceptedMeansServed == fatal => \A t \in Thread : call[t] = Idle
=============================================================================
