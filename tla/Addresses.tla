----------------------------- MODULE Addresses ------------------------------
(***************************************************************************)
(* Where an address of one PE is on another one (shmemc/ucx/comms.c).      *)
(* Each PE registers the global variables of the executable and then its   *)
(* symmetric heaps, which UCX places where it likes (shmemc/ucx/init.c);   *)
(* every access looks up the region of its local address and translates    *)
(* it for the target.  The model starts with the registration and stops    *)
(* before the teardown; the exchange between the two is in Lifecycle.      *)
(*                                                                         *)
(* Each PE has one pointer.  It gets it from its own program, which may    *)
(* point to anything, or finds it where another PE's access has landed.    *)
(***************************************************************************)
EXTENDS Integers

CONSTANTS
  NPes,         \* nranks
  NHeaps,       \* nheaps
  HeapSize,     \* heapsize[0 .. NHeaps - 1]
  GlobalsBase,  \* data_start
  GlobalsEnd,   \* end
  Page,         \* UCX maps whole pages
  Bases,        \* where UCX may place a heap
  Private,      \* addresses that may belong to no region: a stack, say
  SameNode      \* pairs of PEs that can map each other's memory

PE == 0 .. NPes - 1
nregions == 1 + NHeaps
Region == 0 .. nregions - 1
Extent == [base : Nat, end : Nat]
Unregistered == [base |-> 0, end |-> 0]
NULL == 0
NoObject == [region |-> -1, offset |-> 0]

ASSUME AddressesAssumption ==
  /\ NPes \in Nat \ {0} /\ NHeaps \in Nat \ {0}
  /\ HeapSize \in [0 .. NHeaps - 1 -> Nat \ {0}]
  /\ GlobalsBase \in Nat \ {0} /\ GlobalsEnd \in Nat /\ GlobalsBase < GlobalsEnd
  /\ Page \in Nat \ {0}
  /\ Bases \subseteq Nat \ {0} /\ Private \subseteq Nat \ {0}
  /\ SameNode \subseteq PE \X PE

VARIABLES
  minfo,     \* minfo[r][p]: where region r lies at PE p
  mapped,    \* how many regions each PE has registered
  pointer,   \* the address each PE holds, or NULL
  object,    \* what it is meant to point to
  answer     \* what the PE was last told about it

vars == <<minfo, mapped, pointer, object, answer>>

-----------------------------------------------------------------------------
(* Lookup and translation.                                                 *)

InRegion_EndToo(p, addr, r) ==
  minfo[r][p].base <= addr /\ addr <= minfo[r][p].end

InRegion(p, addr, r) ==
  minfo[r][p].base <= addr /\ addr < minfo[r][p].end

\* The search goes down from the top heap.
LookupRegion(p, addr) ==
  IF \E r \in Region : InRegion(p, addr, r)
  THEN CHOOSE r \in Region :
         InRegion(p, addr, r) /\ \A s \in Region : InRegion(p, addr, s) => s <= r
  ELSE -1

TranslateRegion_OwnBase(p, addr, r, q) ==
  IF r = 0 THEN addr ELSE (addr - minfo[r][p].base) + minfo[r][p].base

TranslateRegion(p, addr, r, q) ==
  IF r = 0
  THEN addr
  ELSE LET my_offset == addr - minfo[r][p].base IN
       IF my_offset < 0 THEN NULL ELSE my_offset + minfo[r][q].base

TranslateAddress(p, addr, q) ==
  IF LookupRegion(p, addr) < 0
  THEN NULL
  ELSE TranslateRegion(p, addr, LookupRegion(p, addr), q)

\* get_remote_key_and_addr: the PE goes no further without a region.
RemoteKey(p, addr) == LookupRegion(p, addr)
RemoteAddr(p, addr, q) == TranslateRegion(p, addr, RemoteKey(p, addr), q)

AddrAccessible(p, addr, q) == TranslateAddress(p, addr, q) > 0

\* shmem_ptr gives PE p a mapping of PE q's memory, which is named here by
\* the address it has at q.
SelfCheck(p, addr) == IF LookupRegion(p, addr) >= 0 THEN addr ELSE NULL
RemoteCheck(p, addr, q) ==
  IF <<p, q>> \in SameNode THEN RemoteAddr(p, addr, q) ELSE NULL

Ptr(p, addr, q) == IF p = q THEN SelfCheck(p, addr) ELSE RemoteCheck(p, addr, q)

-----------------------------------------------------------------------------
(* Registration.                                                           *)

Init ==
  /\ minfo = [r \in Region |-> [p \in PE |-> Unregistered]]
  /\ mapped = [p \in PE |-> 0]
  /\ pointer = [p \in PE |-> NULL]
  /\ object = [p \in PE |-> NoObject]
  /\ answer = [p \in PE |-> "none"]

Registered == \A p \in PE : mapped[p] = nregions

RegisterGlobals(p) ==
  /\ mapped[p] = 0
  /\ minfo' = [minfo EXCEPT ![0][p] = [base |-> GlobalsBase, end |-> GlobalsEnd]]
  /\ mapped' = [mapped EXCEPT ![p] = 1]
  /\ UNCHANGED <<pointer, object, answer>>

\* The length UCX answers when it is asked what it has mapped: whole pages.
Padded(len) == len + ((Page - (len % Page)) % Page)

Size(r) ==
  IF r = 0 THEN GlobalsEnd - GlobalsBase ELSE Padded(HeapSize[r - 1])

Disjoint(e, f) == e.end <= f.base \/ f.end <= e.base

\* The next heap, anywhere it does not overlap what is mapped already.
RegisterSymmetricHeap(p) ==
  /\ mapped[p] \in 1 .. NHeaps
  /\ \E b \in Bases :
       LET here == [base |-> b, end |-> b + Size(mapped[p])] IN
       /\ \A r \in 0 .. mapped[p] - 1 : Disjoint(here, minfo[r][p])
       /\ minfo' = [minfo EXCEPT ![mapped[p]][p] = here]
  /\ mapped' = [mapped EXCEPT ![p] = @ + 1]
  /\ UNCHANGED <<pointer, object, answer>>

-----------------------------------------------------------------------------
(* The program.                                                            *)

Points(p, addr, obj) ==
  /\ pointer' = [pointer EXCEPT ![p] = addr]
  /\ object' = [object EXCEPT ![p] = obj]
  /\ answer' = [answer EXCEPT ![p] = "none"]
  /\ UNCHANGED <<minfo, mapped>>

\* A PE takes the address of a symmetric object of its own,
TakeSymmetric(p) ==
  /\ Registered
  /\ \E r \in Region : \E off \in 0 .. Size(r) - 1 :
       Points(p, minfo[r][p].base + off, [region |-> r, offset |-> off])

\* or of something else.
TakePrivate(p) ==
  /\ Registered
  /\ \E addr \in Private :
       /\ \A r \in Region : addr < minfo[r][p].base \/ minfo[r][p].end <= addr
       /\ Points(p, addr, NoObject)

\* It asks whether q can be reached at its pointer.
Ask(p, q) ==
  /\ Registered /\ pointer[p] # NULL
  /\ answer' = [answer EXCEPT ![p] = IF AddrAccessible(p, pointer[p], q) THEN "yes" ELSE "no"]
  /\ UNCHANGED <<minfo, mapped, pointer, object>>

\* After a yes it accesses q there, and q finds what p has left.
Access(p, q) ==
  /\ answer[p] = "yes"
  /\ RemoteKey(p, pointer[p]) >= 0
  /\ Points(q, RemoteAddr(p, pointer[p], q), object[p])

\* Or it writes through the pointer that shmem_ptr gives, if it gives one.
Store(p, q) ==
  /\ answer[p] = "yes"
  /\ RemoteKey(p, pointer[p]) >= 0
  /\ Ptr(p, pointer[p], q) # NULL
  /\ Points(q, Ptr(p, pointer[p], q), object[p])

Next ==
  \E p \in PE :
    \/ RegisterGlobals(p) \/ RegisterSymmetricHeap(p)
    \/ TakeSymmetric(p) \/ TakePrivate(p)
    \/ \E q \in PE : Ask(p, q) \/ Access(p, q) \/ Store(p, q)

Spec == Init /\ [][Next]_vars

-----------------------------------------------------------------------------
(* Properties.                                                             *)

\* The type invariant: also, what a translation gives is an address.
TypeOK ==
  /\ minfo \in [Region -> [PE -> Extent]]
  /\ mapped \in [PE -> 0 .. nregions]
  /\ pointer \in [PE -> Nat]
  /\ object \in [PE -> [region : Region, offset : Nat] \cup {NoObject}]
  /\ answer \in [PE -> {"none", "yes", "no"}]

\* Through however many PEs a pointer has come, each time translated by the
\* PE before, it points to the same offset of the same region, wherever the
\* heap lies there.
SameObject ==
  \A p \in PE :
    object[p] # NoObject =>
      /\ object[p].offset < Size(object[p].region)
      /\ pointer[p] = minfo[object[p].region][p].base + object[p].offset

\* An access takes the key of the region that its pointer means, though the
\* lookup is told an address only and regions may lie next to one another.
KeyOfTheRegion ==
  \A p \in PE :
    object[p] # NoObject => RemoteKey(p, pointer[p]) = object[p].region

\* A PE is told yes exactly for symmetric memory: an access after a yes finds
\* its region, and shmem_addr_accessible denies none that would
\* ("@return Non-zero if address is accessible, 0 otherwise", accessible.c).
AnswersRight ==
  \A p \in PE :
    answer[p] # "none" => (answer[p] = "yes" <=> object[p] # NoObject)
=============================================================================
