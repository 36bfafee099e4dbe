-------------------------- MODULE AddressesProofs ---------------------------
(***************************************************************************)
(* The translation of addresses is right for any number of PEs and heaps,  *)
(* of any sizes, wherever they are placed.                                 *)
(***************************************************************************)
EXTENDS Addresses, TLAPS

\* Region r of PE p lies where it was put, or is not registered.
Placed(p, r) ==
  IF r < mapped[p]
  THEN minfo[r][p].base > 0 /\ minfo[r][p].end = minfo[r][p].base + Size(r)
  ELSE minfo[r][p] = Unregistered

Apart(p) ==
  \A r, s \in 0 .. mapped[p] - 1 : r # s => Disjoint(minfo[r][p], minfo[s][p])

GlobalsAligned ==
  \A p \in PE : mapped[p] > 0 => minfo[0][p].base = GlobalsBase

Layout ==
  /\ \A p \in PE : \A r \in Region : Placed(p, r)
  /\ \A p \in PE : Apart(p)
  /\ GlobalsAligned

\* Pointers come after the registration; one that means no object lies in no
\* region.
PointersMean ==
  \A p \in PE :
    /\ pointer[p] # NULL \/ object[p] # NoObject \/ answer[p] # "none" => Registered
    /\ object[p] = NoObject => \A r \in Region : ~ InRegion(p, pointer[p], r)

AInv == TypeOK /\ Layout /\ PointersMean /\ SameObject /\ AnswersRight

USE AddressesAssumption

-----------------------------------------------------------------------------
(* Sizes and regions.                                                      *)

\* A heap that was asked for at least one byte has at least one byte.
LEMMA PaddedPositive ==
  ASSUME NEW len \in Nat \ {0}
  PROVE  Padded(len) \in Nat \ {0}
<1>1. len % Page \in 0 .. Page - 1
  OBVIOUS
<1>2. (Page - (len % Page)) % Page \in 0 .. Page - 1
  BY <1>1
<1> QED
  BY <1>2 DEF Padded

LEMMA SizePositive ==
  ASSUME NEW r \in Region
  PROVE  Size(r) \in Nat \ {0}
<1>1. CASE r = 0
  BY <1>1 DEF Size
<1>2. CASE r # 0
  <2>1. r - 1 \in 0 .. NHeaps - 1
    BY <1>2 DEF Region, nregions
  <2>2. HeapSize[r - 1] \in Nat \ {0}
    BY <2>1
  <2> QED
    BY <2>2, PaddedPositive, <1>2 DEF Size
<1> QED
  BY <1>1, <1>2

\* No address is in two regions of a PE: the lookup, which takes the highest,
\* finds the one.
LEMMA OneRegion ==
  ASSUME TypeOK, Layout, NEW p \in PE, NEW r \in Region, NEW addr \in Nat,
         InRegion(p, addr, r)
  PROVE  LookupRegion(p, addr) = r
<1>1. ASSUME NEW s \in Region, InRegion(p, addr, s)
      PROVE  s = r
  <2>1. minfo[r][p] \in Extent /\ minfo[s][p] \in Extent /\ mapped[p] \in 0 .. nregions
    BY DEF TypeOK
  <2>2. r < mapped[p] /\ s < mapped[p]
    BY <2>1, <1>1 DEF Layout, Placed, InRegion, Unregistered, Region, nregions
  <2>3. r \in 0 .. mapped[p] - 1 /\ s \in 0 .. mapped[p] - 1
    BY <2>1, <2>2 DEF Region, nregions
  <2>4. r # s => Disjoint(minfo[r][p], minfo[s][p])
    BY <2>3 DEF Layout, Apart
  <2> QED
    BY <2>1, <2>4, <1>1 DEF Disjoint, InRegion, Extent
<1>2. \A s \in Region : InRegion(p, addr, s) => s <= r
  BY <1>1 DEF Region, nregions
<1>3. PICK t \in Region :
        /\ t = LookupRegion(p, addr)
        /\ InRegion(p, addr, t) /\ \A s \in Region : InRegion(p, addr, s) => s <= t
  BY <1>2 DEF LookupRegion
<1> QED
  BY <1>1, <1>3

LEMMA NoRegion ==
  ASSUME NEW p \in PE, NEW addr, \A r \in Region : ~ InRegion(p, addr, r)
  PROVE  LookupRegion(p, addr) = -1
BY DEF LookupRegion

\* An offset within a region is an address of that region on every PE.
LEMMA OffsetInside ==
  ASSUME TypeOK, Layout, Registered, NEW p \in PE, NEW r \in Region, NEW off \in Nat,
         off < Size(r)
  PROVE  /\ minfo[r][p].base + off \in Nat \ {0}
         /\ InRegion(p, minfo[r][p].base + off, r)
<1>1. minfo[r][p] \in Extent
  BY DEF TypeOK
<1>2. r < mapped[p]
  BY DEF Registered, Region, nregions
<1>3. minfo[r][p].base > 0 /\ minfo[r][p].end = minfo[r][p].base + Size(r)
  BY <1>2 DEF Layout, Placed
<1> QED
  BY <1>1, <1>3, SizePositive DEF InRegion, Extent

\* What a PE translates for another is the same offset there.
LEMMA SameOffset ==
  ASSUME TypeOK, Layout, Registered, NEW p \in PE, NEW q \in PE, NEW r \in Region,
         NEW off \in Nat, off < Size(r)
  PROVE  TranslateRegion(p, minfo[r][p].base + off, r, q) = minfo[r][q].base + off
<1>1. minfo[r][p].base \in Nat /\ minfo[r][q].base \in Nat
  BY DEF TypeOK, Extent
<1>2. CASE r = 0
  <2>1. mapped[p] > 0 /\ mapped[q] > 0
    BY DEF Registered, nregions
  <2>2. minfo[0][p].base = GlobalsBase /\ minfo[0][q].base = GlobalsBase
    BY <2>1 DEF Layout, GlobalsAligned
  <2> QED
    BY <1>2, <2>2 DEF TranslateRegion
<1>3. CASE r # 0
  BY <1>1, <1>3 DEF TranslateRegion
<1> QED
  BY <1>2, <1>3

-----------------------------------------------------------------------------
(* The invariant.                                                          *)

LEMMA InitInv == Init => AInv
<1> SUFFICES ASSUME Init PROVE AInv
  OBVIOUS
<1>1. TypeOK
  BY DEF Init, TypeOK, Extent, Unregistered, NULL, Region, PE, nregions
<1>2. Layout
  <2>1. \A p \in PE : mapped[p] = 0
    BY DEF Init
  <2>2. \A p \in PE : \A r \in Region : Placed(p, r)
    BY <2>1 DEF Init, Placed, Region, nregions
  <2>3. \A p \in PE : Apart(p)
    BY <2>1 DEF Apart
  <2> QED
    BY <2>1, <2>2, <2>3 DEF Layout, GlobalsAligned
<1>3. PointersMean
  BY DEF Init, PointersMean, InRegion, Unregistered, NULL, Region, nregions
<1>4. SameObject /\ AnswersRight
  BY DEF Init, SameObject, AnswersRight
<1> QED
  BY <1>1, <1>2, <1>3, <1>4 DEF AInv

\* While some PE registers, no PE has a pointer.
LEMMA NoPointersYet ==
  ASSUME AInv, ~ Registered, NEW p \in PE
  PROVE  pointer[p] = NULL /\ object[p] = NoObject /\ answer[p] = "none"
BY DEF AInv, PointersMean

LEMMA RegisterGlobalsInv ==
  ASSUME AInv, NEW p \in PE, RegisterGlobals(p)
  PROVE  AInv'
<1> DEFINE here == [base |-> GlobalsBase, end |-> GlobalsEnd]
<1>1. /\ mapped[p] = 0 /\ mapped' = [mapped EXCEPT ![p] = 1]
      /\ minfo' = [minfo EXCEPT ![0][p] = here]
      /\ UNCHANGED <<pointer, object, answer>>
  BY DEF RegisterGlobals
<1>2. ~ Registered
  BY <1>1 DEF Registered, nregions
<1>3. here \in Extent /\ 0 \in Region /\ 1 \in 0 .. nregions
  BY DEF Extent, Region, nregions
<1>4. TypeOK'
  <2>1. minfo' \in [Region -> [PE -> Extent]] /\ mapped' \in [PE -> 0 .. nregions]
    BY <1>1, <1>3 DEF AInv, TypeOK
  <2> QED
    BY <1>1, <2>1 DEF AInv, TypeOK
<1>5. \A q \in PE \ {p} : mapped'[q] = mapped[q] /\ \A r \in Region : minfo'[r][q] = minfo[r][q]
  BY <1>1, <1>3 DEF AInv, TypeOK
<1>6. /\ mapped'[p] = 1 /\ minfo'[0][p] = here
      /\ \A r \in Region \ {0} : minfo'[r][p] = minfo[r][p]
  BY <1>1, <1>3 DEF AInv, TypeOK
<1>7. Layout'
  <2>1. ASSUME NEW q \in PE, NEW r \in Region
        PROVE  Placed(q, r)'
    <3>1. Placed(q, r)
      BY DEF AInv, Layout
    <3>2. CASE q # p
      BY <3>1, <3>2, <1>5 DEF Placed
    <3>3. CASE q = p /\ r # 0
      BY <3>1, <3>3, <1>1, <1>6 DEF Placed, Region, nregions
    <3>4. CASE q = p /\ r = 0
      BY <3>4, <1>6 DEF Placed, Size
    <3> QED
      BY <3>2, <3>3, <3>4
  <2>2. ASSUME NEW q \in PE
        PROVE  Apart(q)'
    <3>1. CASE q # p
      <4>1. Apart(q) /\ mapped[q] \in 0 .. nregions
        BY DEF AInv, Layout, TypeOK
      <4>2. 0 .. mapped[q] - 1 \subseteq Region
        BY <4>1 DEF Region, nregions
      <4> QED
        BY <3>1, <4>1, <4>2, <1>5 DEF Apart
    <3>2. CASE q = p
      BY <3>2, <1>6 DEF Apart
    <3> QED
      BY <3>1, <3>2
  <2>3. GlobalsAligned'
    BY <1>3, <1>5, <1>6 DEF AInv, Layout, GlobalsAligned
  <2> QED
    BY <2>1, <2>2, <2>3 DEF Layout
<1>8. PointersMean'
  <2>1. ASSUME NEW q \in PE, NEW r \in Region
        PROVE  ~ InRegion(q, NULL, r)'
    <3>1. Placed(q, r)' /\ minfo'[r][q] \in Extent
      BY <1>4, <1>7 DEF Layout, TypeOK
    <3> QED
      BY <3>1 DEF InRegion, Placed, NULL, Unregistered, Extent
  <2>2. \A q \in PE : pointer'[q] = NULL /\ object'[q] = NoObject /\ answer'[q] = "none"
    BY <1>1, <1>2, NoPointersYet
  <2> QED
    BY <2>1, <2>2 DEF PointersMean, InRegion
<1>9. (SameObject /\ AnswersRight)'
  BY <1>1, <1>2, NoPointersYet DEF SameObject, AnswersRight
<1> QED
  BY <1>4, <1>7, <1>8, <1>9 DEF AInv

LEMMA RegisterHeapInv ==
  ASSUME AInv, NEW p \in PE, RegisterSymmetricHeap(p)
  PROVE  AInv'
<1> DEFINE h == mapped[p]
<1>0. PICK b \in Bases :
        LET here == [base |-> b, end |-> b + Size(h)] IN
        /\ \A r \in 0 .. h - 1 : Disjoint(here, minfo[r][p])
        /\ minfo' = [minfo EXCEPT ![h][p] = here]
  BY DEF RegisterSymmetricHeap
<1> DEFINE here == [base |-> b, end |-> b + Size(h)]
<1>1. /\ h \in 1 .. NHeaps /\ mapped' = [mapped EXCEPT ![p] = h + 1]
      /\ minfo' = [minfo EXCEPT ![h][p] = here]
      /\ \A r \in 0 .. h - 1 : Disjoint(here, minfo[r][p])
      /\ UNCHANGED <<pointer, object, answer>>
  BY <1>0 DEF RegisterSymmetricHeap
<1>2. ~ Registered
  BY <1>1 DEF Registered, nregions
<1>3. h \in Region /\ h + 1 \in 0 .. nregions /\ b \in Nat \ {0}
  BY <1>1 DEF Region, nregions
<1>3a. here \in Extent
  BY <1>3, SizePositive DEF Extent
<1>4. TypeOK'
  <2>1. minfo' \in [Region -> [PE -> Extent]] /\ mapped' \in [PE -> 0 .. nregions]
    BY <1>1, <1>3, <1>3a DEF AInv, TypeOK
  <2> QED
    BY <1>1, <2>1 DEF AInv, TypeOK
<1>5. \A q \in PE \ {p} : mapped'[q] = mapped[q] /\ \A r \in Region : minfo'[r][q] = minfo[r][q]
  BY <1>1, <1>3 DEF AInv, TypeOK
<1>6. /\ mapped'[p] = h + 1 /\ minfo'[h][p] = here
      /\ \A r \in Region \ {h} : minfo'[r][p] = minfo[r][p]
  BY <1>1, <1>3 DEF AInv, TypeOK
<1>7. Layout'
  <2>1. ASSUME NEW q \in PE, NEW r \in Region
        PROVE  Placed(q, r)'
    <3>1. Placed(q, r)
      BY DEF AInv, Layout
    <3>2. CASE q # p
      BY <3>1, <3>2, <1>5 DEF Placed
    <3>3. CASE q = p /\ r # h
      <4>1. r < h + 1 <=> r < h
        BY <3>3, <1>1 DEF Region, nregions
      <4> QED
        BY <3>1, <3>3, <4>1, <1>6 DEF Placed
    <3>4. CASE q = p /\ r = h
      BY <3>4, <1>1, <1>3, <1>6 DEF Placed
    <3> QED
      BY <3>2, <3>3, <3>4
  <2>2. ASSUME NEW q \in PE
        PROVE  Apart(q)'
    <3>0. Apart(q) /\ mapped[q] \in 0 .. nregions
      BY DEF AInv, Layout, TypeOK
    <3>0a. 0 .. mapped[q] - 1 \subseteq Region
      BY <3>0 DEF Region, nregions
    <3>1. CASE q # p
      BY <3>0, <3>0a, <3>1, <1>5 DEF Apart
    <3>2. CASE q = p
      <4>1. SUFFICES ASSUME NEW r \in 0 .. h, NEW s \in 0 .. h, r # s
                     PROVE  Disjoint(minfo'[r][p], minfo'[s][p])
        <5>1. (0 .. mapped'[p] - 1) = 0 .. h
          BY <1>1, <1>6
        <5> QED
          BY <3>2, <5>1 DEF Apart
      <4>2. r \in Region /\ s \in Region
        BY <1>1 DEF Region, nregions
      <4>3. CASE r = h
        <5>1. s \in 0 .. h - 1
          BY <4>1, <4>3, <1>1
        <5>2. Disjoint(here, minfo[s][p])
          BY <5>1, <1>1
        <5> QED
          BY <4>1, <4>2, <4>3, <5>2, <1>6
      <4>4. CASE s = h
        <5>1. r \in 0 .. h - 1
          BY <4>1, <4>4, <1>1
        <5>2. Disjoint(minfo[r][p], here)
          BY <5>1, <1>1 DEF Disjoint
        <5> QED
          BY <4>1, <4>2, <4>4, <5>2, <1>6
      <4>5. CASE r # h /\ s # h
        <5>1. r \in 0 .. h - 1 /\ s \in 0 .. h - 1
          BY <4>5, <1>1
        <5>2. Disjoint(minfo[r][p], minfo[s][p])
          BY <3>0, <3>2, <4>1, <5>1 DEF Apart
        <5> QED
          BY <4>2, <4>5, <5>2, <1>6
      <4> QED
        BY <4>3, <4>4, <4>5
    <3> QED
      BY <3>1, <3>2
  <2>3. GlobalsAligned'
    <3>1. h # 0 /\ 0 \in Region
      BY <1>1 DEF Region, nregions
    <3> QED
      BY <3>1, <1>1, <1>5, <1>6 DEF AInv, Layout, GlobalsAligned
  <2> QED
    BY <2>1, <2>2, <2>3 DEF Layout
<1>8. PointersMean'
  <2>1. ASSUME NEW q \in PE, NEW r \in Region
        PROVE  ~ InRegion(q, NULL, r)'
    <3>1. Placed(q, r)' /\ minfo'[r][q] \in Extent
      BY <1>4, <1>7 DEF Layout, TypeOK
    <3> QED
      BY <3>1 DEF InRegion, Placed, NULL, Unregistered, Extent
  <2>2. \A q \in PE : pointer'[q] = NULL /\ object'[q] = NoObject /\ answer'[q] = "none"
    BY <1>1, <1>2, NoPointersYet
  <2> QED
    BY <2>1, <2>2 DEF PointersMean, InRegion
<1>9. (SameObject /\ AnswersRight)'
  BY <1>1, <1>2, NoPointersYet DEF SameObject, AnswersRight
<1> QED
  BY <1>4, <1>7, <1>8, <1>9 DEF AInv

\* A pointer that is what it is meant to be keeps the invariant.
LEMMA PointsInv ==
  ASSUME AInv, Registered, NEW p \in PE, NEW addr \in Nat,
         NEW obj \in [region : Region, offset : Nat] \cup {NoObject},
         Points(p, addr, obj),
         obj # NoObject =>
           /\ obj.offset < Size(obj.region)
           /\ addr = minfo[obj.region][p].base + obj.offset,
         obj = NoObject => \A r \in Region : ~ InRegion(p, addr, r)
  PROVE  AInv'
<1>1. /\ pointer' = [pointer EXCEPT ![p] = addr]
      /\ object' = [object EXCEPT ![p] = obj]
      /\ answer' = [answer EXCEPT ![p] = "none"]
      /\ UNCHANGED <<minfo, mapped>>
  BY DEF Points
<1>2. TypeOK'
  BY <1>1 DEF AInv, TypeOK
<1>3. Layout' /\ Registered'
  BY <1>1 DEF AInv, Layout, Placed, Apart, GlobalsAligned, Registered
<1>4. /\ \A q \in PE \ {p} : /\ pointer'[q] = pointer[q] /\ object'[q] = object[q]
                             /\ answer'[q] = answer[q]
      /\ pointer'[p] = addr /\ object'[p] = obj /\ answer'[p] = "none"
  BY <1>1 DEF AInv, TypeOK
<1>5. PointersMean'
  <2>1. ASSUME NEW q \in PE, NEW r \in Region, object'[q] = NoObject
        PROVE  ~ InRegion(q, pointer'[q], r)
    <3>1. CASE q = p
      BY <2>1, <3>1, <1>4
    <3>2. CASE q # p
      BY <2>1, <3>2, <1>4 DEF AInv, PointersMean
    <3> QED
      BY <3>1, <3>2
  <2>2. UNCHANGED minfo
    BY <1>1
  <2> QED
    BY <2>1, <2>2, <1>3 DEF PointersMean, InRegion
<1>6. SameObject'
  <2>1. ASSUME NEW q \in PE, object'[q] # NoObject
        PROVE  /\ object'[q].offset < Size(object'[q].region)
               /\ pointer'[q] = minfo[object'[q].region][q].base + object'[q].offset
    <3>1. CASE q = p
      BY <2>1, <3>1, <1>4
    <3>2. CASE q # p
      BY <2>1, <3>2, <1>4 DEF AInv, SameObject
    <3> QED
      BY <3>1, <3>2
  <2> QED
    BY <1>1, <2>1 DEF SameObject
<1>7. AnswersRight'
  BY <1>4 DEF AInv, AnswersRight
<1> QED
  BY <1>2, <1>3, <1>5, <1>6, <1>7 DEF AInv

\* What the pointer of a PE that was told yes means, and where it leads.
LEMMA Reaches ==
  ASSUME AInv, NEW p \in PE, NEW q \in PE, answer[p] = "yes"
  PROVE  /\ Registered /\ object[p] # NoObject
         /\ object[p] \in [region : Region, offset : Nat]
         /\ object[p].offset < Size(object[p].region)
         /\ LookupRegion(p, pointer[p]) = object[p].region
         /\ RemoteAddr(p, pointer[p], q)
              = minfo[object[p].region][q].base + object[p].offset
<1>1. Registered /\ object[p] # NoObject
  BY DEF AInv, PointersMean, AnswersRight
<1>2. object[p] \in [region : Region, offset : Nat] /\ pointer[p] \in Nat
  BY <1>1 DEF AInv, TypeOK
<1>3. /\ object[p].offset < Size(object[p].region)
      /\ pointer[p] = minfo[object[p].region][p].base + object[p].offset
  BY <1>1 DEF AInv, SameObject
<1>4. InRegion(p, pointer[p], object[p].region)
  BY <1>1, <1>2, <1>3, OffsetInside DEF AInv
<1>5. LookupRegion(p, pointer[p]) = object[p].region
  BY <1>2, <1>4, OneRegion DEF AInv
<1>6. TranslateRegion(p, pointer[p], object[p].region, q)
        = minfo[object[p].region][q].base + object[p].offset
  BY <1>1, <1>2, <1>3, SameOffset DEF AInv
<1> QED
  BY <1>1, <1>2, <1>3, <1>5, <1>6 DEF RemoteAddr, RemoteKey

LEMMA TakeInv ==
  ASSUME AInv, NEW p \in PE, TakeSymmetric(p) \/ TakePrivate(p)
  PROVE  AInv'
<1>1. CASE TakeSymmetric(p)
  <2>0. PICK r \in Region :
          \E off \in 0 .. Size(r) - 1 :
            Points(p, minfo[r][p].base + off, [region |-> r, offset |-> off])
    BY <1>1 DEF TakeSymmetric
  <2>1. PICK off \in 0 .. Size(r) - 1 :
          Points(p, minfo[r][p].base + off, [region |-> r, offset |-> off])
    BY <2>0
  <2>2. off \in Nat /\ off < Size(r) /\ Registered
    BY <1>1, SizePositive DEF TakeSymmetric
  <2>3. minfo[r][p].base + off \in Nat
    BY <2>2, OffsetInside DEF AInv
  <2>4. [region |-> r, offset |-> off] # NoObject
    BY DEF NoObject, Region
  <2> QED
    BY <2>1, <2>2, <2>3, <2>4, PointsInv
<1>2. CASE TakePrivate(p)
  <2>1. PICK addr \in Private :
          /\ \A r \in Region : addr < minfo[r][p].base \/ minfo[r][p].end <= addr
          /\ Points(p, addr, NoObject)
    BY <1>2 DEF TakePrivate
  <2>2. addr \in Nat /\ Registered
    BY <1>2 DEF TakePrivate
  <2>3. ASSUME NEW r \in Region PROVE ~ InRegion(p, addr, r)
    <3>1. minfo[r][p] \in Extent
      BY DEF AInv, TypeOK
    <3>2. minfo[r][p].base \in Nat /\ minfo[r][p].end \in Nat
      BY <3>1 DEF Extent
    <3> QED
      BY <2>1, <2>2, <3>2 DEF InRegion
  <2> QED
    BY <2>1, <2>2, <2>3, PointsInv
<1> QED
  BY <1>1, <1>2

LEMMA AskInv ==
  ASSUME AInv, NEW p \in PE, NEW q \in PE, Ask(p, q)
  PROVE  AInv'
<1>1. /\ Registered /\ pointer[p] # NULL /\ UNCHANGED <<minfo, mapped, pointer, object>>
      /\ answer' = [answer EXCEPT ![p] = IF AddrAccessible(p, pointer[p], q) THEN "yes" ELSE "no"]
  BY DEF Ask
<1>2. TypeOK' /\ Layout' /\ SameObject'
  BY <1>1 DEF AInv, TypeOK, Layout, Placed, Apart, GlobalsAligned, SameObject
<1>3. PointersMean'
  BY <1>1 DEF AInv, PointersMean, Registered, InRegion
<1>4. AddrAccessible(p, pointer[p], q) <=> object[p] # NoObject
  <2>1. CASE object[p] = NoObject
    <3>1. LookupRegion(p, pointer[p]) = -1
      BY <2>1, NoRegion DEF AInv, PointersMean
    <3> QED
      BY <2>1, <3>1 DEF AddrAccessible, TranslateAddress, NULL
  <2>2. CASE object[p] # NoObject
    <3>1. object[p] \in [region : Region, offset : Nat] /\ pointer[p] \in Nat
      BY <2>2 DEF AInv, TypeOK
    <3>2. /\ object[p].offset < Size(object[p].region)
          /\ pointer[p] = minfo[object[p].region][p].base + object[p].offset
      BY <2>2 DEF AInv, SameObject
    <3>3. InRegion(p, pointer[p], object[p].region)
      BY <1>1, <3>1, <3>2, OffsetInside DEF AInv
    <3>4. LookupRegion(p, pointer[p]) = object[p].region
      BY <3>1, <3>3, OneRegion DEF AInv
    <3>5. TranslateRegion(p, pointer[p], object[p].region, q)
            = minfo[object[p].region][q].base + object[p].offset
      BY <1>1, <3>1, <3>2, SameOffset DEF AInv
    <3>6. minfo[object[p].region][q].base + object[p].offset \in Nat \ {0}
      BY <1>1, <3>1, <3>2, OffsetInside DEF AInv
    <3>7. ~ (object[p].region < 0)
      BY <3>1 DEF Region, nregions
    <3> QED
      BY <2>2, <3>4, <3>5, <3>6, <3>7 DEF AddrAccessible, TranslateAddress
  <2> QED
    BY <2>1, <2>2
<1>5. AnswersRight'
  BY <1>1, <1>4 DEF AInv, AnswersRight, TypeOK
<1> QED
  BY <1>2, <1>3, <1>5 DEF AInv

LEMMA AccessInv ==
  ASSUME AInv, NEW p \in PE, NEW q \in PE, Access(p, q) \/ Store(p, q)
  PROVE  AInv'
<1>1. answer[p] = "yes"
  BY DEF Access, Store
<1> DEFINE obj == object[p]
           there == minfo[obj.region][q].base + obj.offset
<1>2. /\ Registered /\ obj # NoObject /\ obj \in [region : Region, offset : Nat]
      /\ obj.offset < Size(obj.region)
      /\ LookupRegion(p, pointer[p]) = obj.region
      /\ RemoteAddr(p, pointer[p], q) = there
  BY <1>1, Reaches
<1>3. there \in Nat
  BY <1>2, OffsetInside DEF AInv
<1>4. Points(q, there, obj)
  <2>1. CASE Access(p, q)
    BY <1>2, <2>1 DEF Access
  <2>2. CASE Store(p, q) /\ p # q
    BY <1>2, <2>2 DEF Store, Ptr, RemoteCheck
  <2>3. CASE Store(p, q) /\ p = q
    <3>1. pointer[p] = there
      BY <1>2, <2>3 DEF AInv, SameObject
    <3>2. Ptr(p, pointer[p], q) = pointer[p]
      BY <2>3 DEF Store, Ptr, SelfCheck
    <3> QED
      BY <2>3, <3>1, <3>2 DEF Store
  <2> QED
    BY <2>1, <2>2, <2>3
<1> HIDE DEF obj, there
<1>5. obj \in [region : Region, offset : Nat] \cup {NoObject}
  BY <1>2
<1>6. there = minfo[obj.region][q].base + obj.offset
  BY DEF there
<1> QED
  BY <1>2, <1>3, <1>4, <1>5, <1>6, PointsInv

-----------------------------------------------------------------------------
(* Theorems.                                                               *)

\* The inductive invariant: the regions of a PE lie apart, pointers come after
\* the registration, and one that means no object lies in no region.
THEOREM AddressesInvariance == Spec => []AInv
<1>1. Init => AInv
  BY InitInv
<1>2. AInv /\ [Next]_vars => AInv'
  <2> SUFFICES ASSUME AInv, [Next]_vars PROVE AInv'
    OBVIOUS
  <2>1. ASSUME NEW p \in PE, RegisterGlobals(p) PROVE AInv'
    BY <2>1, RegisterGlobalsInv
  <2>2. ASSUME NEW p \in PE, RegisterSymmetricHeap(p) PROVE AInv'
    BY <2>2, RegisterHeapInv
  <2>3. ASSUME NEW p \in PE, TakeSymmetric(p) \/ TakePrivate(p) PROVE AInv'
    BY <2>3, TakeInv
  <2>4. ASSUME NEW p \in PE, NEW q \in PE, Ask(p, q) PROVE AInv'
    BY <2>4, AskInv
  <2>5. ASSUME NEW p \in PE, NEW q \in PE, Access(p, q) \/ Store(p, q) PROVE AInv'
    BY <2>5, AccessInv
  <2>6. CASE UNCHANGED vars
    BY <2>6 DEF vars, AInv, TypeOK, Layout, Placed, Apart, GlobalsAligned, PointersMean,
                Registered, InRegion, SameObject, AnswersRight
  <2> QED
    BY <2>1, <2>2, <2>3, <2>4, <2>5, <2>6 DEF Next
<1> QED
  BY <1>1, <1>2, PTL DEF Spec

\* What a translation gives is an address, on every PE.
THEOREM AddressesTypeCorrect == Spec => []TypeOK
<1>1. AInv => TypeOK
  BY DEF AInv
<1> QED
  BY <1>1, AddressesInvariance, PTL

\* A pointer that PEs hand on and translate for one another points to the
\* same offset of the same region, for any number of PEs and hops and
\* wherever UCX has placed the heaps (comms.c).
THEOREM PointersKeepTheirObject == Spec => []SameObject
<1>1. AInv => SameObject
  BY DEF AInv
<1> QED
  BY <1>1, AddressesInvariance, PTL

\* The lookup, which is told an address only, finds the region it is meant
\* for, and so the right key.
THEOREM KeysMatch == Spec => []KeyOfTheRegion
<1>1. AInv => KeyOfTheRegion
  <2> SUFFICES ASSUME AInv, NEW p \in PE, object[p] # NoObject
               PROVE  RemoteKey(p, pointer[p]) = object[p].region
    BY DEF KeyOfTheRegion
  <2>1. /\ Registered /\ pointer[p] \in Nat
        /\ object[p] \in [region : Region, offset : Nat]
    BY DEF AInv, PointersMean, TypeOK
  <2>2. /\ object[p].offset < Size(object[p].region)
        /\ pointer[p] = minfo[object[p].region][p].base + object[p].offset
    BY DEF AInv, SameObject
  <2>3. InRegion(p, pointer[p], object[p].region)
    BY <2>1, <2>2, OffsetInside DEF AInv
  <2> QED
    BY <2>1, <2>3, OneRegion DEF AInv, RemoteKey
<1> QED
  BY <1>1, AddressesInvariance, PTL

\* shmem_addr_accessible says yes exactly to symmetric memory.
THEOREM AccessibleIsSymmetric == Spec => []AnswersRight
<1>1. AInv => AnswersRight
  BY DEF AInv
<1> QED
  BY <1>1, AddressesInvariance, PTL
=============================================================================
