--------------------- MODULE CollectiveSelectionProofs ---------------------
(***************************************************************************)
(* A collective call runs its own operation with the algorithm that was    *)
(* asked for, however threads interleave at the table, and for its own     *)
(* type if calls are made one at a time; what start-up has accepted is     *)
(* never refused later.                                                    *)
(*                                                                         *)
(* The pointer of an entry is rewritten by every typed call.  SInv says    *)
(* what it is while calls are under way: the implementation of the type    *)
(* of some routine, and of the one under way where there is but one.  Then *)
(* it is about the tables: each has an implementation for every type of    *)
(* which there is a routine.                                               *)
(***************************************************************************)
EXTENDS CollectiveSelection, SequenceTheorems, FiniteSetTheorems, TLAPS

TypeName ==
  {"float", "double", "longdouble", "char", "schar", "short", "int", "long", "longlong",
   "uchar", "ushort", "uint", "ulong", "ulonglong", "int8", "int16", "int32", "int64",
   "uint8", "uint16", "uint32", "uint64", "size", "ptrdiff", "complexd", "complexf"}

IsName(n) == n = [algo |-> n.algo, suffix |-> n.suffix, type |-> n.type]

\* The lists that the tables are put together from hold names of types.
LEMMA TypeLists ==
  /\ FixedWidths \in Seq(TypeName) /\ Signed \in Seq(TypeName) /\ Unsigned \in Seq(TypeName)
  /\ Floating \in Seq(TypeName) /\ Complex \in Seq(TypeName) /\ <<"ptrdiff">> \in Seq(TypeName)
  /\ ToAllBitwise \in Seq(TypeName)
PROOF
  <1>1. FixedWidths \in Seq(TypeName) /\ Unsigned \in Seq(TypeName)
    BY DEF FixedWidths, Unsigned, TypeName
  <1>2. Signed \in Seq(TypeName) /\ Len(Signed) = 6
    BY DEF Signed, TypeName
  <1>3. /\ Floating \in Seq(TypeName)
        /\ Complex \in Seq(TypeName)
        /\ <<"ptrdiff">> \in Seq(TypeName)
    <2>1. Floating \in Seq(TypeName)
      BY DEF Floating, TypeName
    <2>2. Complex \in Seq(TypeName)
      BY DEF Complex, TypeName
    <2>3. <<"ptrdiff">> \in Seq(TypeName)
      BY DEF TypeName
    <2> QED
      BY <2>1, <2>2, <2>3
  <1>4. ToAllBitwise \in Seq(TypeName)
    <2>1. \A n \in 3 .. 6 : Signed[n] \in TypeName
      <3> TAKE n \in 3 .. 6
      <3>1. n \in 1 .. Len(Signed)
        BY <1>2
      <3> QED
        BY <1>2, <3>1, ElementOfSeq
    <2>2. SubSeq(Signed, 3, 6) \in Seq(TypeName)
      BY <2>1, SubSeqProperties
    <2> QED
      BY <2>2 DEF ToAllBitwise
  <1> QED
    BY <1>1, <1>2, <1>3, <1>4

\* So do the tables themselves.
LEMMA Tables ==
  ASSUME NEW e
  PROVE  /\ RmaTypes \in Seq(TypeName)
         /\ ToAllMinMax \in Seq(TypeName) /\ ToAllArith \in Seq(TypeName)
         /\ ReduceBitwise \in Seq(TypeName) /\ ReduceMinMax \in Seq(TypeName)
         /\ ReduceArith \in Seq(TypeName)
  <1>1. \A s, t \in Seq(TypeName) : s \o t \in Seq(TypeName)
    OBVIOUS
  <1>2. RmaTypes \in Seq(TypeName)
    BY <1>1, TypeLists DEF RmaTypes
  <1>3. ToAllMinMax \in Seq(TypeName) /\ ReduceBitwise \in Seq(TypeName)
    BY <1>1, TypeLists DEF ToAllMinMax, ReduceBitwise
  <1>4. ToAllArith \in Seq(TypeName)
    BY <1>1, <1>3, TypeLists DEF ToAllArith
  <1>5. ReduceMinMax \in Seq(TypeName)
    BY <1>1, TypeLists DEF ReduceMinMax
  <1>6. ReduceArith \in Seq(TypeName)
    BY <1>1, <1>5, TypeLists DEF ReduceArith
  <1> QED
    BY <1>2, <1>3, <1>4, <1>5, <1>6

LEMMA EntriesTyped ==
  ASSUME NEW e \in Entry, Typed(e)
  PROVE  \/ e[2] = "type"
         \/ e[2] \in {"to_all", "reduce"} /\ e[1] \in BitOps \cup MinMaxOps \cup ArithOps
  BY DEF Entry, Typed

LEMMA OpsApart ==
  /\ BitOps \cap MinMaxOps = {} /\ BitOps \cap ArithOps = {} /\ MinMaxOps \cap ArithOps = {}
  BY DEF BitOps, MinMaxOps, ArithOps

\* The types of a table are those of the routines the shim declares, and none
\* of them is the empty one.
LEMMA TableOfTheRoutines ==
  ASSUME NEW e \in Entry, Typed(e)
  PROVE  /\ Routines(e) = ToSet(TypesOf(e))
         /\ "" \notin ToSet(TypesOf(e))
  <1>1. Routines(e) = ToSet(TypesOf(e))
    <2>1. CASE e[2] = "type"
      BY <2>1 DEF Routines, TypesOf
    <2>2. CASE e[2] = "to_all"
      BY <2>2, EntriesTyped, OpsApart DEF Routines, TypesOf, ToAllRoutines
    <2>3. CASE e[2] = "reduce"
      BY <2>3, EntriesTyped, OpsApart
         DEF Routines, TypesOf, BitReductions, MinMaxReductions, ArithReductions
    <2> QED
      BY <2>1, <2>2, <2>3, EntriesTyped
  <1>2. TypesOf(e) \in Seq(TypeName)
    BY EntriesTyped, TypeLists, Tables DEF TypesOf
  <1>3. "" \notin TypeName
    BY DEF TypeName
  <1>4. ToSet(TypesOf(e)) \subseteq TypeName
    BY <1>2 DEF ToSet
  <1> QED
    BY <1>1, <1>3, <1>4

\* What is found in a table is not the null pointer, belongs to the entry and
\* has the algorithm that was named.
LEMMA Found ==
  ASSUME NEW e \in Entry, NEW name, Register(e, name) # Null
  PROVE  /\ Register(e, name).entry = e
         /\ Register(e, name).algo = name.algo
         /\ Typed(e) /\ name.type # "" => Register(e, name).type = name.type
  BY DEF Register, RegisterTyped, RegisterSized, RegisterPlain, Implementation

\* A typed call finds its type under every name that start-up has taken.
LEMMA EveryTypeFound ==
  ASSUME NEW e \in Entry, Typed(e), NEW name, IsName(name),
         Register(e, name) # Null, NEW type \in Routines(e)
  PROVE  /\ Register(e, OpString(name, type)) # Null
         /\ Register(e, OpString(name, type)).entry = e
         /\ Register(e, OpString(name, type)).algo = name.algo
         /\ name.type = "" => Register(e, OpString(name, type)).type = type
  <1>1. type # "" /\ type \in ToSet(TypesOf(e))
    BY TableOfTheRoutines
  <1>2. e # <<>>
    BY DEF Entry
  <1>3. CASE name.type # ""
    BY <1>3, Found DEF OpString
  <1>4. CASE name.type = ""
    <2> DEFINE full == OpString(name, type)
    <2>1. full.algo = name.algo /\ full.suffix = name.suffix /\ full.type = type
      BY <1>4 DEF OpString, IsName
    <2>2. name.algo \in AlgosOf(e[1]) /\ name.suffix = ""
      BY DEF Register, RegisterTyped
    <2>3. Register(e, full) = Implementation(e, name.algo, type)
      BY <1>1, <2>1, <2>2 DEF Register, RegisterTyped
    <2>4. /\ Register(e, full).entry = e /\ Register(e, full).algo = name.algo
          /\ Register(e, full).type = type
      BY <2>3 DEF Implementation
    <2>5. Null.entry = <<>>
      BY DEF Null, Implementation
    <2> QED
      BY <1>2, <2>4, <2>5
  <1> QED
    BY <1>3, <1>4

-----------------------------------------------------------------------------
(* The inductive invariant.                                                *)

\* While start-up runs, no call is under way.
BeforeCalls ==
  ~Started => last = NoCall /\ \A t \in Thread : call[t] = Idle

\* What start-up has registered and found good.
Accepted ==
  ~fatal => \A e \in tried : colls[e] # Null /\ Register(e, env[e]) # Null

\* The entry in use, as a call that is under way may find it.
Usable == \E r \in Routines(use) : colls[use] = Register(use, OpString(env[use], r))

\* ... and as the only call under way finds it.
Alone(t) ==
  /\ \A u \in Thread \ {t} : call[u] = Idle
  /\ Typed(use) => colls[use] = Register(use, OpString(env[use], call[t]))

InUse ==
  Started => /\ ~Typed(use) => colls[use] = Register(use, env[use])
             /\ \A t \in Thread : call[t] # Idle =>
                  /\ call[t] \in Routines(use)
                  /\ Typed(use) => Usable
                  /\ ~multiple => Alone(t)

\* The pointer in use is what start-up has put there, until the first call.
Registered ==
  use \in tried /\ ~fatal /\ ~Typed(use) => colls[use] = Register(use, env[use])

SInv ==
  /\ use \in Entry /\ tried \subseteq Entry
  /\ DOMAIN colls = Entry /\ DOMAIN call = Thread
  /\ IsName(env[use])
  /\ BeforeCalls /\ Accepted /\ Registered /\ InUse
  /\ RunsWhatWasAsked

LEMMA SInvInit ==
  ASSUME SelectionInit
  PROVE  SInv
  <1>1. use \in Entry /\ IsName(env[use])
    <2>1. \A x : IsName(Plain(x))
      BY DEF IsName, Plain
    <2>2. IsName(DefaultOf(use))
      BY <2>1 DEF DefaultOf
    <2>3. \A n \in Name : IsName(n)
      BY NameAssumption DEF IsName
    <2>4. PICK name \in Name \cup {DefaultOf(use)} :
            env = [e \in Entry |-> IF e = use THEN name ELSE DefaultOf(e)]
      BY DEF SelectionInit
    <2>5. use \in Entry /\ env[use] = name
      BY <2>4 DEF SelectionInit
    <2> QED
      BY <2>2, <2>3, <2>4, <2>5
  <1>2. Entry # {}
    BY <1>1
  <1>3. ~Started
    BY <1>2 DEF SelectionInit, Started
  <1>4. BeforeCalls /\ Accepted /\ Registered /\ RunsWhatWasAsked
    BY DEF SelectionInit, BeforeCalls, Accepted, Registered, RunsWhatWasAsked
  <1> QED
    BY <1>1, <1>3, <1>4 DEF SelectionInit, SInv, InUse

LEMMA SInvTry ==
  ASSUME SInv, Try
  PROVE  SInv'
  <1> DEFINE e == CHOOSE x \in Entry \ tried : TRUE
             found == Register(e, env[e])
  <1>1. e \in Entry /\ e \notin tried
    BY DEF SInv, Try
  <1>2. /\ ~fatal /\ fatal' = (found = Null) /\ tried' = tried \cup {e}
        /\ colls' = [colls EXCEPT ![e] = IF found = Null THEN @ ELSE found]
        /\ UNCHANGED <<multiple, env, use, call, last>>
    BY DEF Try
  <1> HIDE DEF e
  <1>3. last = NoCall /\ \A t \in Thread : call[t] = Idle
    BY DEF SInv, BeforeCalls, Started, Try
  <1>4. DOMAIN colls' = Entry /\ tried' \subseteq Entry
    BY <1>1, <1>2 DEF SInv
  <1>5. Accepted'
    BY <1>1, <1>2 DEF SInv, Accepted
  <1>6. Registered'
    BY <1>1, <1>2 DEF SInv, Registered
  <1>7. InUse'
    BY <1>2, <1>3, <1>6 DEF SInv, InUse, Registered, Started
  <1> QED
    BY <1>2, <1>3, <1>4, <1>5, <1>6, <1>7 DEF SInv, BeforeCalls, RunsWhatWasAsked

LEMMA SInvTypedCall ==
  ASSUME SInv, NEW t \in Thread, NEW type \in Routines(use),
         TypedCall(t, type)
  PROVE  SInv' /\ ~fatal'
  <1> DEFINE found == Register(use, OpString(env[use], type))
  <1>1. /\ Started /\ Typed(use) /\ (multiple \/ \A u \in Thread : call[u] = Idle)
        /\ fatal' = (found = Null)
        /\ colls' = [colls EXCEPT ![use] = IF found = Null THEN @ ELSE found]
        /\ call' = [call EXCEPT ![t] = type]
        /\ UNCHANGED <<multiple, env, tried, use, last>>
    BY DEF TypedCall, MayCall
  <1>2. found # Null
    BY <1>1, EveryTypeFound DEF SInv, Accepted, Started
  <1>3. ~fatal' /\ Started'
    BY <1>1, <1>2 DEF Started
  <1>4. colls'[use] = found /\ \A e \in Entry \ {use} : colls'[e] = colls[e]
    BY <1>1, <1>2 DEF SInv
  <1> HIDE DEF found
  <1>5. Accepted'
    BY <1>1, <1>2, <1>4 DEF SInv, Accepted, Started
  <1>6. InUse'
    <2>1. call'[t] = type /\ \A u \in Thread \ {t} : call'[u] = call[u]
      BY <1>1 DEF SInv
    <2>2. Routines(use)' = Routines(use) /\ Typed(use)'
      BY <1>1
    <2>3. Usable'
      BY <1>1, <1>4, <2>2 DEF Usable, found
    <2>4. \A u \in Thread : call'[u] # Idle => call'[u] \in Routines(use)'
      BY <1>1, <2>1, <2>2 DEF SInv, InUse
    <2>5. ~multiple => Alone(t)' /\ \A u \in Thread \ {t} : call'[u] = Idle
      BY <1>1, <1>4, <2>1 DEF Alone, found
    <2> QED
      BY <1>1, <2>2, <2>3, <2>4, <2>5 DEF InUse
  <1> QED
    BY <1>1, <1>3, <1>5, <1>6 DEF SInv, BeforeCalls, Registered, RunsWhatWasAsked

LEMMA SInvCall ==
  ASSUME SInv, NEW t \in Thread, NEW size \in Routines(use),
         Call(t, size)
  PROVE  SInv'
  <1>1. /\ Started /\ ~Typed(use) /\ (multiple \/ \A u \in Thread : call[u] = Idle)
        /\ call' = [call EXCEPT ![t] = size]
        /\ UNCHANGED <<multiple, env, colls, tried, fatal, use, last>>
    BY DEF Call, MayCall
  <1>2. call'[t] = size /\ \A u \in Thread \ {t} : call'[u] = call[u]
    BY <1>1 DEF SInv
  <1>3. ~multiple => Alone(t)' /\ \A u \in Thread \ {t} : call'[u] = Idle
    BY <1>1, <1>2 DEF Alone
  <1>4. InUse'
    BY <1>1, <1>2, <1>3 DEF SInv, InUse, Started
  <1> QED
    BY <1>1, <1>4 DEF SInv, BeforeCalls, Accepted, Registered, RunsWhatWasAsked, Started

LEMMA SInvRun ==
  ASSUME SInv, NEW t \in Thread, Run(t)
  PROVE  SInv'
  <1>1. /\ Started /\ call[t] # Idle
        /\ last' = [asked |-> call[t], algo |-> colls[use].algo, entry |-> colls[use].entry,
                    type |-> IF Typed(use) THEN colls[use].type ELSE call[t]]
        /\ call' = [call EXCEPT ![t] = Idle]
        /\ UNCHANGED <<multiple, env, colls, tried, fatal, use>>
    BY DEF Run
  <1>2. /\ call[t] \in Routines(use)
        /\ Typed(use) => Usable
        /\ ~multiple => Alone(t)
        /\ ~Typed(use) => colls[use] = Register(use, env[use])
        /\ Register(use, env[use]) # Null
    BY <1>1 DEF SInv, InUse, Accepted, Started
  <1>3. RunsWhatWasAsked'
    <2>1. CASE Typed(use)
      <3>1. /\ use \in Entry /\ IsName(env[use])
        BY DEF SInv
      <3>2. PICK r \in Routines(use) : /\ colls[use] = Register(use, OpString(env[use], r))
                                       /\ ~multiple => r = call[t]
        BY <1>2, <2>1 DEF Usable, Alone
      <3>3. /\ colls[use].entry = use
            /\ colls[use].algo = env[use].algo
            /\ env[use].type = "" => colls[use].type = r
        <4>1. Register(use, env[use]) # Null /\ r \in Routines(use)
          BY <1>2, <3>2
        <4>2. /\ Register(use, OpString(env[use], r)).entry = use
              /\ Register(use, OpString(env[use], r)).algo = env[use].algo
          BY <2>1, <3>1, <4>1, EveryTypeFound, Zenon
        <4>3. env[use].type = "" => Register(use, OpString(env[use], r)).type = r
          BY <2>1, <3>1, <4>1, EveryTypeFound, Zenon
        <4> QED
          BY <3>2, <4>2, <4>3
      <3> QED
        BY <1>1, <2>1, <3>2, <3>3 DEF RunsWhatWasAsked
    <2>2. CASE ~Typed(use)
      <3>1. colls[use].entry = use /\ colls[use].algo = env[use].algo
        <4>1. Register(use, env[use]).entry = use /\ Register(use, env[use]).algo = env[use].algo
          BY <1>2, Found DEF SInv
        <4> QED
          BY <1>2, <2>2, <4>1
      <3>2. last'.type = call[t] /\ last'.asked = call[t]
        BY <1>1, <2>2 DEF Typed
      <3> QED
        BY <1>1, <3>1, <3>2 DEF RunsWhatWasAsked
    <2> QED
      BY <2>1, <2>2
  <1>4. call'[t] = Idle /\ \A u \in Thread \ {t} : call'[u] = call[u]
    BY <1>1 DEF SInv
  <1>5. InUse'
    BY <1>1, <1>2, <1>4 DEF SInv, InUse, Usable, Alone, Started
  <1> QED
    BY <1>1, <1>3, <1>4, <1>5 DEF SInv, BeforeCalls, Accepted, Registered, Started

LEMMA SInvNext ==
  ASSUME SInv, [SelectionNext]_selectionVars
  PROVE  SInv'
  <1>1. CASE Try
    BY <1>1, SInvTry
  <1>2. ASSUME NEW t \in Thread, NEW r \in Routines(use), TypedCall(t, r) \/ Call(t, r)
        PROVE  SInv'
    BY <1>2, SInvTypedCall, SInvCall
  <1>3. ASSUME NEW t \in Thread, Run(t)
        PROVE  SInv'
    BY <1>3, SInvRun
  <1>4. CASE UNCHANGED selectionVars
    BY <1>4 DEF selectionVars, SInv, BeforeCalls, Accepted, Registered, InUse, Usable, Alone, RunsWhatWasAsked, Started
  <1> QED
    BY <1>1, <1>2, <1>3, <1>4 DEF SelectionNext

-----------------------------------------------------------------------------
\* For every environment, any number of threads and either thread level: what
\* calls find in the table (shcoll-shim.c, colls).
THEOREM SelectionInvariance ==
  SelectionSpec => []SInv
  BY SInvInit, SInvNext, PTL DEF SelectionSpec

\* A collective routine runs its own operation with the algorithm that the
\* environment names, also if another thread rewrites the table between its
\* look-up and its call; below SHMEM_THREAD_MULTIPLE it runs its own type too
\* (shcoll-shim.c, TYPED_CALL).
THEOREM CallsRunWhatWasAsked ==
  SelectionSpec => []RunsWhatWasAsked
  <1>1. SInv => RunsWhatWasAsked
    BY DEF SInv
  <1> QED
    BY <1>1, SelectionInvariance, PTL

\* A name that start-up takes for a table is good for every routine of it: no
\* typed call ends the program (shcoll-shim.c:54).
THEOREM AcceptedNamesServe ==
  SelectionSpec => []AcceptedMeansServed
  <1>1. SInv => AcceptedMeansServed
    BY DEF SInv, BeforeCalls, AcceptedMeansServed, Started
  <1> QED
    BY <1>1, SelectionInvariance, PTL
=============================================================================
