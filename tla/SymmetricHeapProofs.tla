------------------------ MODULE SymmetricHeapProofs ------------------------
(***************************************************************************)
(* The heaps of all PEs agree on where an object is, if the program splits *)
(* no team but the world.                                                  *)
(*                                                                         *)
(* The PEs make their calls at different times, so that their heaps differ *)
(* at any moment.  But there is one chain of heaps: H[i] is what the first *)
(* i calls make of the heap there is at the start, whoever makes them.     *)
(* HInv says that a PE that has made i calls has the heap H[i], and one in *)
(* its i-th call has H[i - 1], H[i], or, between the two allocations of a  *)
(* 2D split, the heap with the first of them.  It is inductive because the *)
(* allocator returns the same for the same heap and the same request, and  *)
(* because every PE makes every call: a split of a team that some PEs are  *)
(* not in would be a call that these do not make.                          *)
(*                                                                         *)
(* An object has one name in all heaps, the number of the call that made   *)
(* it, and stays in the chain until the call that gives it up.             *)
(*                                                                         *)
(* The second half is about the handles of teams.  HandleInv says that a   *)
(* handle is what its PE would compute again from the call that made it;   *)
(* the rest is arithmetic of rows, columns and strides.                    *)
(***************************************************************************)
EXTENDS SymmetricHeap, FiniteSetTheorems, SequenceTheorems, TLAPS

\* Names of objects and work arrays; kinds of calls; the calls there can be.
Key == Nat \X {1, 2}
Kind == {"malloc", "free", "realloc", "strided", "grid", "destroy"}
CallSet == Menu \cup {About(m, k) : m \in Menu, k \in Key}

\* A call of the program, which splits nothing but the world.
IsCall(c) == c.kind \in Kind /\ (IsSplit(c) => c.of = World)

\* A request for no bytes.
Void(c) == c.kind \in {"malloc", "realloc"} /\ c.len = 0

\* A heap between the two allocations of a 2D split.
Half(h, n) == With(h, <<n, 1>>, Fit(h, 1, 1))

\* What call c, the n-th, makes of heap h.
After(h, c, n) ==
  IF Void(c) \/ c.kind = "destroy" THEN h
  ELSE
  CASE c.kind = "malloc"  -> With(h, <<n, 1>>, Fit(h, c.len, c.align))
    [] c.kind = "free"    -> Without(h, c.of)
    [] c.kind = "realloc" -> Realloc(h, c.of, <<n, 1>>, c.len)
    [] c.kind = "strided" -> Half(h, n)
    [] c.kind = "grid"    -> With(Half(h, n), <<n, 2>>, Fit(Half(h, n), 1, 1))

\* Call c ends what k is for.
Ends(c, k) == c.kind \in {"free", "realloc"} /\ c.of = k /\ ~Void(c)

\* The step of a call that changes the heap, or the last of them.
OpStep(c) ==
  CASE c.kind \in {"malloc", "strided"} -> 1
    [] c.kind \in {"free", "realloc"}   -> 3
    [] c.kind = "grid"                  -> 2
    [] c.kind = "destroy"               -> 0

\* H is the chain of the heaps that the calls so far make.
Chain(H) ==
  /\ H[0] = StartHeap
  /\ \A i \in 1..Len(calls) : H[i] = After(H[i - 1], calls[i], i)
  /\ \A i \in 0..Len(calls) : \A k \in DOMAIN H[i] : k \in Key /\ k[1] <= i
  /\ \A i, j \in 0..Len(calls) : i <= j =>
       /\ \A k \in DOMAIN H[j] : k[1] <= i => k \in DOMAIN H[i] /\ H[i][k] = H[j][k]
       /\ \A k \in DOMAIN H[i] : k \in DOMAIN H[j] \/ \E m \in (i + 1)..j : Ends(calls[m], k)

\* PE p has done to its heap what its last call does; and the heap that the
\* chain says it has.
Complete(p) == step[p] = 0 \/ step[p] > OpStep(Call(p))

Image(H, p) ==
  IF Complete(p) THEN H[pos[p]]
  ELSE IF Call(p).kind = "grid" /\ step[p] = 2 THEN Half(H[pos[p] - 1], pos[p])
  ELSE H[pos[p] - 1]

Images(H) == \A p \in PE : heap[p] = Image(H, p)

\* What the steps need to know of the types of the variables.
Shape ==
  /\ calls \in Seq(CallSet) /\ \A i \in 1..Len(calls) : IsCall(calls[i])
  /\ pos \in [PE -> Nat] /\ step \in [PE -> Nat]
  /\ heap = [p \in PE |-> heap[p]] /\ team = [p \in PE |-> team[p]]
  /\ \A p \in PE :
       /\ pos[p] <= Len(calls)
       /\ step[p] # 0 => pos[p] >= 1 /\ step[p] <= Len(Steps(p, Call(p)))
       /\ DOMAIN team[p] \subseteq Key
       /\ World \in DOMAIN team[p] /\ team[p][World] = WorldTeam(Size)

\* The inductive invariant.
HInv == Shape /\ \E H : Chain(H) /\ Images(H)

-----------------------------------------------------------------------------
\* The world has every PE.
LEMMA WorldHasAll == Members(WorldTeam(Size)) = PE
  BY HeapAssumption DEF Members, WorldTeam, Handle, PE

\* What follows a split.
LEMMA AfterSplitIs ==
  /\ SyncAfterSplit => AfterSplit = <<"arrive", "leave">>
  /\ ~SyncAfterSplit => AfterSplit = <<>>
  BY DEF AfterSplit

\* What the steps of a split are made of.
LEMMA StepLists ==
  /\ <<"split">> \o <<"arrive", "leave">> = <<"split", "arrive", "leave">>
  /\ <<"rows", "columns">> \o <<"arrive", "leave">> = <<"rows", "columns", "arrive", "leave">>
PROOF
  <1> DEFINE W == {"split", "rows", "columns", "arrive", "leave"}
             barrier == <<"arrive", "leave">>
  <1>1. barrier \in Seq(W) /\ Len(barrier) = 2 /\ barrier[1] = "arrive" /\ barrier[2] = "leave"
    OBVIOUS
  <1>2. <<"split">> \o barrier = <<"split", "arrive", "leave">>
    <2> DEFINE one == <<"split">>
               all == <<"split", "arrive", "leave">>
    <2>1. one \in Seq(W) /\ Len(one) = 1 /\ one[1] = "split"
      OBVIOUS
    <2>2. /\ all \in Seq(W) /\ Len(all) = 3
          /\ all[1] = "split" /\ all[2] = "arrive" /\ all[3] = "leave"
      OBVIOUS
    <2> HIDE DEF one, all, barrier, W
    <2>3. /\ one \o barrier \in Seq(W) /\ Len(one \o barrier) = 3
          /\ \A i \in 1..3 : (one \o barrier)[i] = IF i <= 1 THEN one[i] ELSE barrier[i - 1]
      <3>1. /\ one \o barrier \in Seq(W) /\ Len(one \o barrier) = Len(one) + Len(barrier)
            /\ \A i \in 1..(Len(one) + Len(barrier)) :
                 (one \o barrier)[i] = IF i <= Len(one) THEN one[i] ELSE barrier[i - Len(one)]
        BY <1>1, <2>1, ConcatProperties
      <3> QED
        BY <1>1, <2>1, <3>1
    <2>4. \A i \in 1..3 : (one \o barrier)[i] = all[i]
      BY <1>1, <2>1, <2>2, <2>3
    <2> QED
      BY <2>2, <2>3, <2>4, SeqEqual DEF one, all
  <1>3. <<"rows", "columns">> \o barrier = <<"rows", "columns", "arrive", "leave">>
    <2> DEFINE two == <<"rows", "columns">>
               all == <<"rows", "columns", "arrive", "leave">>
    <2>1. two \in Seq(W) /\ Len(two) = 2 /\ two[1] = "rows" /\ two[2] = "columns"
      OBVIOUS
    <2>2. /\ all \in Seq(W) /\ Len(all) = 4
          /\ all[1] = "rows" /\ all[2] = "columns" /\ all[3] = "arrive" /\ all[4] = "leave"
      OBVIOUS
    <2> HIDE DEF two, all, barrier, W
    <2>3. /\ two \o barrier \in Seq(W) /\ Len(two \o barrier) = 4
          /\ \A i \in 1..4 : (two \o barrier)[i] = IF i <= 2 THEN two[i] ELSE barrier[i - 2]
      <3>1. /\ two \o barrier \in Seq(W) /\ Len(two \o barrier) = Len(two) + Len(barrier)
            /\ \A i \in 1..(Len(two) + Len(barrier)) :
                 (two \o barrier)[i] = IF i <= Len(two) THEN two[i] ELSE barrier[i - Len(two)]
        BY <1>1, <2>1, ConcatProperties
      <3> QED
        BY <1>1, <2>1, <3>1
    <2>4. \A i \in 1..4 : (two \o barrier)[i] = all[i]
      BY <1>1, <2>1, <2>2, <2>3
    <2> QED
      BY <2>2, <2>3, <2>4, SeqEqual DEF two, all
  <1> QED
    BY <1>2, <1>3

\* The steps of each kind of call, and how many they are.
LEMMA StepsOf ==
  ASSUME NEW p \in PE, NEW c, IsCall(c),
         World \in DOMAIN team[p], team[p][World] = WorldTeam(Size)
  PROVE  /\ Void(c) => Steps(p, c) = <<>>
         /\ c.kind = "malloc" /\ ~Void(c) => Steps(p, c) = <<"allocate", "arrive", "leave">>
         /\ c.kind = "free" => Steps(p, c) = <<"arrive", "leave", "release">>
         /\ c.kind = "realloc" /\ ~Void(c)
              => Steps(p, c) = <<"arrive", "leave", "resize", "arrive", "leave">>
         /\ c.kind = "strided" => Steps(p, c) = IF SyncAfterSplit
                                    THEN <<"split", "arrive", "leave">> ELSE <<"split">>
         /\ c.kind = "grid" => Steps(p, c) = IF SyncAfterSplit
                                 THEN <<"rows", "columns", "arrive", "leave">>
                                 ELSE <<"rows", "columns">>
         /\ c.kind = "destroy" => Steps(p, c) \in {<<>>, <<"destroy">>}
PROOF
  <1>1. IsSplit(c) => Takes(p, c)
    BY WorldHasAll DEF IsCall, Takes
  <1>2. <<"split">> \o <<>> = <<"split">> /\ <<"rows", "columns">> \o <<>> = <<"rows", "columns">>
    OBVIOUS
  <1>5. CASE Void(c)
    BY <1>5 DEF Void, Steps
  <1>6. CASE ~Void(c) /\ c.kind \in {"malloc", "free", "realloc", "destroy"}
    BY <1>6 DEF Void, Steps
  <1>7. CASE c.kind = "strided"
    BY <1>1, <1>2, <1>7, StepLists, AfterSplitIs DEF Void, Steps, IsSplit
  <1>8. CASE c.kind = "grid"
    BY <1>1, <1>2, <1>8, StepLists, AfterSplitIs DEF Void, Steps, IsSplit
  <1> QED
    BY <1>5, <1>6, <1>7, <1>8 DEF IsCall, Kind

\* A call that has steps begins with its first; one without is over at once.
LEMMA Begins ==
  ASSUME NEW p \in PE, NEW c, IsCall(c),
         World \in DOMAIN team[p], team[p][World] = WorldTeam(Size)
  PROVE  /\ ~Void(c) /\ c.kind # "destroy" => Steps(p, c) # <<>>
         /\ c.kind = "destroy" => Len(Steps(p, c)) \in {0, 1}
PROOF
  <1> DEFINE S == Steps(p, c)
  <1>1. CASE c.kind = "destroy"
    <2>1. S \in {<<>>, <<"destroy">>}
      BY <1>1, StepsOf
    <2> HIDE DEF S
    <2>2. Len(S) \in {0, 1}
      BY <2>1
    <2> QED
      BY <1>1, <2>2 DEF S
  <1>2. CASE ~Void(c) /\ c.kind # "destroy"
    <2>1. \/ S = <<"allocate", "arrive", "leave">>
          \/ S = <<"arrive", "leave", "release">>
          \/ S = <<"arrive", "leave", "resize", "arrive", "leave">>
          \/ S \in {<<"split", "arrive", "leave">>, <<"split">>}
          \/ S \in {<<"rows", "columns", "arrive", "leave">>, <<"rows", "columns">>}
      BY <1>2, StepsOf DEF IsCall, Kind
    <2> HIDE DEF S
    <2>2. S # <<>>
      BY <2>1
    <2> QED
      BY <1>2, <2>2 DEF S
  <1> QED
    BY <1>1, <1>2

\* The step that a PE is at gives away its call.
LEMMA WhereIs ==
  ASSUME Shape, NEW p \in PE, step[p] # 0
  PROVE  LET c == Call(p) s == step[p] IN
         /\ pos[p] \in 1..Len(calls) /\ c = calls[pos[p]] /\ IsCall(c) /\ ~Void(c)
         /\ s \in 1..Len(Steps(p, c))
         /\ At(p, "allocate") => c.kind = "malloc" /\ s = 1
         /\ At(p, "release") => c.kind = "free" /\ s = 3
         /\ At(p, "resize") => c.kind = "realloc" /\ s = 3
         /\ At(p, "split") => c.kind = "strided" /\ s = 1
         /\ At(p, "rows") => c.kind = "grid" /\ s = 1
         /\ At(p, "columns") => c.kind = "grid" /\ s = 2
         /\ At(p, "destroy") => c.kind = "destroy" /\ s = 1 /\ Len(Steps(p, c)) = 1
         /\ At(p, "arrive") =>
              \/ c.kind = "malloc" /\ s = 2
              \/ c.kind = "free" /\ s = 1
              \/ c.kind = "realloc" /\ s \in {1, 4}
              \/ c.kind = "strided" /\ s = 2 /\ SyncAfterSplit
              \/ c.kind = "grid" /\ s = 3 /\ SyncAfterSplit
         /\ At(p, "leave") =>
              \/ c.kind = "malloc" /\ s = 3
              \/ c.kind = "free" /\ s = 2
              \/ c.kind = "realloc" /\ s \in {2, 5}
              \/ c.kind = "strided" /\ s = 3 /\ SyncAfterSplit
              \/ c.kind = "grid" /\ s = 4 /\ SyncAfterSplit
         /\ Len(Steps(p, c)) = 
              IF c.kind \in {"malloc", "free"} THEN 3
              ELSE IF c.kind = "realloc" THEN 5
              ELSE IF c.kind = "strided" THEN (IF SyncAfterSplit THEN 3 ELSE 1)
              ELSE IF c.kind = "grid" THEN (IF SyncAfterSplit THEN 4 ELSE 2) ELSE 1
PROOF
  <1> DEFINE c == Call(p)
             s == step[p]
             S == Steps(p, c)
  <1>1. pos[p] \in 1..Len(calls) /\ c = calls[pos[p]] /\ IsCall(c)
    BY DEF Shape, Call
  <1>2. s \in Nat /\ s # 0 /\ s <= Len(S)
    BY DEF Shape
  <1>3. World \in DOMAIN team[p] /\ team[p][World] = WorldTeam(Size)
    BY DEF Shape
  <1>4. \A x : At(p, x) <=> S[s] = x
    BY DEF At
  <1> HIDE DEF c, s, S
  <1>5. /\ Void(c) => S = <<>>
        /\ c.kind = "malloc" /\ ~Void(c) => S = <<"allocate", "arrive", "leave">>
        /\ c.kind = "free" => S = <<"arrive", "leave", "release">>
        /\ c.kind = "realloc" /\ ~Void(c) => S = <<"arrive", "leave", "resize", "arrive", "leave">>
        /\ c.kind = "strided" => S = IF SyncAfterSplit
                                     THEN <<"split", "arrive", "leave">> ELSE <<"split">>
        /\ c.kind = "grid" => S = IF SyncAfterSplit
                                  THEN <<"rows", "columns", "arrive", "leave">>
                                  ELSE <<"rows", "columns">>
        /\ c.kind = "destroy" => S \in {<<>>, <<"destroy">>}
    BY <1>1, <1>3, StepsOf DEF S
  <1>6. ~Void(c)
    BY <1>2, <1>5
  <1>7. CASE c.kind = "malloc"
    <2>1. S = <<"allocate", "arrive", "leave">>
      BY <1>5, <1>6, <1>7
    <2>2. /\ \/ s = 1 /\ S[s] = "allocate"
             \/ s = 2 /\ S[s] = "arrive"
             \/ s = 3 /\ S[s] = "leave"
          /\ Len(S) = 3
      BY <1>2, <2>1
    <2> QED
      BY <1>1, <1>2, <1>4, <1>6, <1>7, <2>2 DEF c, s, S
  <1>8. CASE c.kind = "free"
    <2>1. S = <<"arrive", "leave", "release">>
      BY <1>5, <1>6, <1>8
    <2>2. /\ \/ s = 1 /\ S[s] = "arrive"
             \/ s = 2 /\ S[s] = "leave"
             \/ s = 3 /\ S[s] = "release"
          /\ Len(S) = 3
      BY <1>2, <2>1
    <2> QED
      BY <1>1, <1>2, <1>4, <1>6, <1>8, <2>2 DEF c, s, S
  <1>9. CASE c.kind = "realloc"
    <2>1. S = <<"arrive", "leave", "resize", "arrive", "leave">>
      BY <1>5, <1>6, <1>9
    <2>2. /\ \/ s = 1 /\ S[s] = "arrive"
             \/ s = 2 /\ S[s] = "leave"
             \/ s = 3 /\ S[s] = "resize"
             \/ s = 4 /\ S[s] = "arrive"
             \/ s = 5 /\ S[s] = "leave"
          /\ Len(S) = 5
      BY <1>2, <2>1
    <2> QED
      BY <1>1, <1>2, <1>4, <1>6, <1>9, <2>2 DEF c, s, S
  <1>10. CASE c.kind = "strided"
    <2>1. S = IF SyncAfterSplit THEN <<"split", "arrive", "leave">> ELSE <<"split">>
      BY <1>5, <1>10
    <2>2. /\ \/ s = 1 /\ S[s] = "split"
             \/ SyncAfterSplit /\ s = 2 /\ S[s] = "arrive"
             \/ SyncAfterSplit /\ s = 3 /\ S[s] = "leave"
          /\ Len(S) = IF SyncAfterSplit THEN 3 ELSE 1
      BY <1>2, <2>1
    <2> QED
      BY <1>1, <1>2, <1>4, <1>6, <1>10, <2>2 DEF c, s, S
  <1>11. CASE c.kind = "grid"
    <2>1. S = IF SyncAfterSplit THEN <<"rows", "columns", "arrive", "leave">>
              ELSE <<"rows", "columns">>
      BY <1>5, <1>11
    <2>2. /\ \/ s = 1 /\ S[s] = "rows"
             \/ s = 2 /\ S[s] = "columns"
             \/ SyncAfterSplit /\ s = 3 /\ S[s] = "arrive"
             \/ SyncAfterSplit /\ s = 4 /\ S[s] = "leave"
          /\ Len(S) = IF SyncAfterSplit THEN 4 ELSE 2
      BY <1>2, <2>1
    <2> QED
      BY <1>1, <1>2, <1>4, <1>6, <1>11, <2>2 DEF c, s, S
  <1>12. CASE c.kind = "destroy"
    <2>1. S \in {<<>>, <<"destroy">>}
      BY <1>5, <1>12
    <2>2. s = 1 /\ S[s] = "destroy" /\ Len(S) = 1
      BY <1>2, <2>1
    <2> QED
      BY <1>1, <1>2, <1>4, <1>6, <1>12, <2>2 DEF c, s, S
  <1> QED
    BY <1>1, <1>7, <1>8, <1>9, <1>10, <1>11, <1>12 DEF IsCall, Kind

-----------------------------------------------------------------------------
(* The heaps that follow from one another.                                 *)

\* A heap with one object more,
LEMMA WithIs ==
  ASSUME NEW h, NEW k, NEW place
  PROVE  /\ DOMAIN With(h, k, place) = DOMAIN h \cup {k}
         /\ With(h, k, place)[k] = place
         /\ \A i \in DOMAIN h : i # k => With(h, k, place)[i] = h[i]
  BY DEF With

\* and with one less.
LEMMA WithoutIs ==
  ASSUME NEW h, NEW k
  PROVE  /\ DOMAIN Without(h, k) = DOMAIN h \ {k}
         /\ \A i \in DOMAIN h : i # k => Without(h, k)[i] = h[i]
  BY DEF Without

\* What a step of call n may do to a heap in which nothing is of that call.
Follows(g, h, c, n) ==
  /\ \A k \in DOMAIN g : k \in Key /\ k[1] <= n
  /\ \A k \in DOMAIN g : k[1] < n => k \in DOMAIN h /\ g[k] = h[k]
  /\ \A k \in DOMAIN h : k \in DOMAIN g \/ Ends(c, k)

\* A call makes of a heap one that follows it.
LEMMA AfterFollows ==
  ASSUME NEW h, NEW c, IsCall(c), NEW n \in Nat \ {0},
         \A k \in DOMAIN h : k \in Key /\ k[1] < n
  PROVE  Follows(After(h, c, n), h, c, n)
PROOF
  <1> DEFINE one == <<n, 1>>
             two == <<n, 2>>
  <1>1. /\ one \in Key /\ one[1] = n /\ two \in Key /\ two[1] = n
        /\ one \notin DOMAIN h /\ two \notin DOMAIN h /\ one # two
    BY DEF Key
  <1>2. n \in Nat /\ \A k \in Key : k[1] \in Nat
    BY DEF Key
  <1> HIDE DEF one, two
  <1>3. \A place : Follows(With(h, one, place), h, c, n)
    <2> TAKE place
    <2> QED
      BY <1>1, <1>2 DEF With, Follows
  <1>4. \A p1, p2 : Follows(With(With(h, one, p1), two, p2), h, c, n)
    <2> TAKE p1, p2
    <2> DEFINE g == With(h, one, p1)
    <2>1. DOMAIN g = DOMAIN h \cup {one} /\ \A i \in DOMAIN h : i # one => g[i] = h[i]
      BY DEF With
    <2>2. /\ DOMAIN With(g, two, p2) = DOMAIN g \cup {two}
          /\ \A i \in DOMAIN g : i # two => With(g, two, p2)[i] = g[i]
      BY DEF With
    <2> HIDE DEF g
    <2>3. Follows(With(g, two, p2), h, c, n)
      BY <1>1, <1>2, <2>1, <2>2 DEF Follows
    <2> QED
      BY <2>3 DEF g
  <1>5. Follows(h, h, c, n)
    BY <1>2 DEF Follows
  <1>6. Ends(c, c.of) => Follows(Without(h, c.of), h, c, n)
    BY <1>2 DEF Without, Follows, Ends
  <1>7. \A place : Ends(c, c.of) => Follows(With(Without(h, c.of), one, place), h, c, n)
    <2> TAKE place
    <2> DEFINE g == Without(h, c.of)
    <2>1. DOMAIN g = DOMAIN h \ {c.of} /\ \A i \in DOMAIN h : i # c.of => g[i] = h[i]
      BY DEF Without
    <2>2. /\ DOMAIN With(g, one, place) = DOMAIN g \cup {one}
          /\ \A i \in DOMAIN g : i # one => With(g, one, place)[i] = g[i]
      BY DEF With
    <2> HIDE DEF g
    <2>3. Ends(c, c.of) => Follows(With(g, one, place), h, c, n)
      BY <1>1, <1>2, <2>1, <2>2 DEF Follows, Ends
    <2> QED
      BY <2>3 DEF g
  <1>8. Ends(c, c.of) => Follows(Realloc(h, c.of, one, c.len), h, c, n)
    BY <1>3, <1>7 DEF Realloc
  <1>9. CASE Void(c) \/ c.kind = "destroy"
    BY <1>5, <1>9 DEF After
  <1>10. CASE ~Void(c) /\ c.kind = "malloc"
    BY <1>3, <1>10 DEF After, one
  <1>11. CASE c.kind = "free"
    BY <1>6, <1>11 DEF After, Ends, Void
  <1>12. CASE ~Void(c) /\ c.kind = "realloc"
    BY <1>8, <1>12 DEF After, Ends, one
  <1>13. CASE c.kind = "strided"
    BY <1>3, <1>13 DEF After, Half, Void, one, two
  <1>14. CASE c.kind = "grid"
    BY <1>4, <1>14 DEF After, Half, Void, one, two
  <1> QED
    BY <1>9, <1>10, <1>11, <1>12, <1>13, <1>14 DEF IsCall, Kind

\* A call more, and a heap more.
LEMMA ChainGrows ==
  ASSUME Shape, NEW H, Chain(H), NEW c \in CallSet, IsCall(c), calls' = Append(calls, c)
  PROVE  \E G : Chain(G)' /\ \A i \in 0..Len(calls) : G[i] = H[i]
PROOF
  <1> DEFINE n == Len(calls)
             new == After(H[n], c, n + 1)
  <1>0. PICK G : G = [i \in 0..(n + 1) |-> IF i = n + 1 THEN new ELSE H[i]]
    OBVIOUS
  <1>1. /\ n \in Nat /\ Len(calls') = n + 1 /\ calls'[n + 1] = c
        /\ \A i \in 1..n : calls'[i] = calls[i]
    BY AppendProperties, LenProperties DEF Shape
  <1>2. G[n + 1] = new /\ \A i \in 0..n : G[i] = H[i]
    BY <1>0, <1>1
  <1>3. \A i \in 0..n : \A k \in DOMAIN H[i] : k \in Key /\ k[1] <= i
    BY DEF Chain
  <1>4. Follows(new, H[n], c, n + 1)
    <2>1. \A k \in DOMAIN H[n] : k \in Key /\ k[1] < n + 1
      BY <1>1, <1>3 DEF Key
    <2> QED
      BY <1>1, <2>1, AfterFollows
  <1> HIDE DEF new, n
  <1>5. G[0] = StartHeap
    BY <1>1, <1>2 DEF Chain, n
  <1>6. \A i \in 1..(n + 1) : G[i] = After(G[i - 1], calls'[i], i)
    <2> TAKE i \in 1..(n + 1)
    <2>1. CASE i \in 1..n
      BY <1>1, <1>2, <2>1 DEF Chain, n
    <2>2. CASE i = n + 1
      BY <1>1, <1>2, <2>2 DEF new
    <2> QED
      BY <1>1, <2>1, <2>2
  <1>7. \A i \in 0..(n + 1) : \A k \in DOMAIN G[i] : k \in Key /\ k[1] <= i
    BY <1>1, <1>2, <1>3, <1>4 DEF Follows
  <1>8. ASSUME NEW i \in 0..(n + 1), NEW j \in 0..(n + 1), i <= j
        PROVE  /\ \A k \in DOMAIN G[j] : k[1] <= i => k \in DOMAIN G[i] /\ G[i][k] = G[j][k]
               /\ \A k \in DOMAIN G[i] :
                    k \in DOMAIN G[j] \/ \E m \in (i + 1)..j : Ends(calls'[m], k)
    <2>1. ASSUME NEW x \in 0..n, NEW y \in 0..n, x <= y
          PROVE  /\ \A k \in DOMAIN H[y] : k[1] <= x => k \in DOMAIN H[x] /\ H[x][k] = H[y][k]
                 /\ \A k \in DOMAIN H[x] :
                      k \in DOMAIN H[y] \/ \E m \in (x + 1)..y : Ends(calls'[m], k)
      <3>1. /\ \A k \in DOMAIN H[y] : k[1] <= x => k \in DOMAIN H[x] /\ H[x][k] = H[y][k]
            /\ \A k \in DOMAIN H[x] :
                 k \in DOMAIN H[y] \/ \E m \in (x + 1)..y : Ends(calls[m], k)
        BY <2>1 DEF Chain, n
      <3>2. \A m \in (x + 1)..y : m \in 1..n
        BY <1>1
      <3> QED
        BY <1>1, <3>1, <3>2
    <2>2. CASE j \in 0..n
      BY <1>1, <1>2, <2>1, <2>2, <1>8
    <2>3. CASE j = n + 1 /\ i = n + 1
      BY <2>3
    <2>4. CASE j = n + 1 /\ i \in 0..n
      <3>1. ASSUME NEW k \in DOMAIN new, k[1] <= i
            PROVE  k \in DOMAIN H[i] /\ H[i][k] = new[k]
        <4>1. k[1] < n + 1
          BY <1>1, <1>4, <2>4, <3>1 DEF Follows, Key
        <4>2. k \in DOMAIN H[n] /\ new[k] = H[n][k]
          BY <1>4, <4>1 DEF Follows
        <4> QED
          BY <1>1, <2>1, <2>4, <3>1, <4>2
      <3>2. ASSUME NEW k \in DOMAIN H[i]
            PROVE  k \in DOMAIN new \/ \E m \in (i + 1)..(n + 1) : Ends(calls'[m], k)
        <4>1. k \in DOMAIN H[n] \/ \E m \in (i + 1)..n : Ends(calls'[m], k)
          BY <1>1, <2>1, <2>4
        <4>2. k \in DOMAIN H[n] => k \in DOMAIN new \/ Ends(calls'[n + 1], k)
          BY <1>1, <1>4 DEF Follows
        <4>3. \A m \in (i + 1)..n : m \in (i + 1)..(n + 1)
          BY <1>1
        <4>4. n + 1 \in (i + 1)..(n + 1)
          BY <1>1, <2>4
        <4> QED
          BY <4>1, <4>2, <4>3, <4>4
      <3> QED
        BY <1>2, <2>4, <3>1, <3>2
    <2> QED
      BY <1>1, <2>2, <2>3, <2>4
  <1>9. Chain(G)'
    <2>1. Len(calls') = n + 1
      BY <1>1
    <2>2. \A i, j \in 0..(n + 1) : i <= j =>
       /\ \A k \in DOMAIN G[j] : k[1] <= i => k \in DOMAIN G[i] /\ G[i][k] = G[j][k]
       /\ \A k \in DOMAIN G[i] : k \in DOMAIN G[j] \/ \E m \in (i + 1)..j : Ends(calls'[m], k)
      BY <1>8
    <2>3. (\A i \in 1..Len(calls) : G[i] = After(G[i - 1], calls[i], i))'
      BY <1>6, <2>1
    <2>4. (\A i, j \in 0..Len(calls) : i <= j =>
       /\ \A k \in DOMAIN G[j] : k[1] <= i => k \in DOMAIN G[i] /\ G[i][k] = G[j][k]
       /\ \A k \in DOMAIN G[i] : k \in DOMAIN G[j] \/ \E m \in (i + 1)..j : Ends(calls[m], k))'
      BY <2>2, <2>1
    <2>5. (\A i \in 0..Len(calls) : \A k \in DOMAIN G[i] : k \in Key /\ k[1] <= i)'
      BY <1>7, <2>1
    <2> QED
      BY <1>5, <2>3, <2>4, <2>5 DEF Chain
  <1> QED
    BY <1>2, <1>9 DEF n

\* Every heap is a part of one of the chain.
LEMMA ImageInChain ==
  ASSUME Shape, NEW H, Chain(H), Images(H), NEW p \in PE
  PROVE  \E i \in 0..Len(calls) :
           \A k \in DOMAIN heap[p] : k \in DOMAIN H[i] /\ heap[p][k] = H[i][k]
PROOF
  <1>1. heap[p] = Image(H, p) /\ pos[p] \in 0..Len(calls)
    BY LenProperties DEF Images, Shape
  <1>2. CASE Complete(p)
    BY <1>1, <1>2 DEF Image
  <1>3. CASE ~Complete(p)
    <2>1. pos[p] \in 1..Len(calls) /\ Call(p) = calls[pos[p]] /\ ~Void(Call(p))
      BY <1>3, WhereIs DEF Complete
    <2>2. pos[p] - 1 \in 0..Len(calls)
      BY <2>1
    <2>3. CASE Call(p).kind = "grid" /\ step[p] = 2
      <3> DEFINE h == H[pos[p] - 1]
                 n == pos[p]
      <3>1. heap[p] = Half(h, n)
        BY <1>1, <1>3, <2>3 DEF Image
      <3>2. H[n] = With(Half(h, n), <<n, 2>>, Fit(Half(h, n), 1, 1))
        BY <2>1, <2>3 DEF Chain, After, Void
      <3>3. \A k \in DOMAIN h : k # <<n, 2>>
        <4>1. \A k \in DOMAIN h : k \in Key /\ k[1] <= n - 1
          BY <2>2 DEF Chain
        <4> QED
          BY <2>1, <4>1 DEF Key
      <3>4. DOMAIN Half(h, n) = DOMAIN h \cup {<<n, 1>>}
        BY WithIs DEF Half
      <3> HIDE DEF h, n
      <3>5. \A k \in DOMAIN Half(h, n) : k # <<n, 2>>
        BY <3>3, <3>4
      <3>6. \A k \in DOMAIN heap[p] : k \in DOMAIN H[n] /\ heap[p][k] = H[n][k]
        BY <3>1, <3>2, <3>5 DEF With
      <3> QED
        BY <1>1, <3>6 DEF n
    <2>4. CASE ~(Call(p).kind = "grid" /\ step[p] = 2)
      BY <1>1, <1>3, <2>2, <2>4 DEF Image
    <2> QED
      BY <2>3, <2>4
  <1> QED
    BY <1>2, <1>3

-----------------------------------------------------------------------------
(* The steps.                                                              *)

\* At the start there are no calls, and the chain is one heap.
LEMMA HInvInit == Init => HInv
PROOF
  <1> SUFFICES ASSUME Init PROVE HInv
    OBVIOUS
  <1>1. PICK H : H = [i \in {0} |-> StartHeap]
    OBVIOUS
  <1>2. calls = <<>> /\ Len(calls) = 0
    BY DEF Init
  <1>3. /\ DOMAIN StartHeap = {World, Shared} /\ {World, Shared} \subseteq Key
        /\ World[1] = 0 /\ Shared[1] = 0
    BY DEF StartHeap, World, Shared, Key
  <1>4. Chain(H)
    BY <1>1, <1>2, <1>3 DEF Chain
  <1>5. Images(H)
    BY <1>1 DEF Images, Image, Complete, Init, StartHeap
  <1>6. Shape
    <2>1. \A p \in PE : /\ DOMAIN team[p] = {World, Shared}
                         /\ team[p][World] = WorldTeam(Size)
      BY <1>3 DEF Init
    <2> QED
      BY <1>2, <1>3, <2>1, EmptySeq DEF Init, Shape
  <1> QED
    BY <1>4, <1>5, <1>6 DEF HInv

\* The steps of a call do not change while it is under way.
LEMMA StepsStay ==
  ASSUME NEW p, NEW c, IsCall(c), Call(p)' = c,
         \/ team'[p] = team[p]
         \/ /\ c.kind # "destroy" /\ World \in DOMAIN team[p] /\ World \in DOMAIN team'[p]
            /\ team'[p][World] = team[p][World]
  PROVE  Steps(p, Call(p))' = Steps(p, c)
PROOF
  <1>1. IsSplit(c) => (Takes(p, Call(p))' <=> Takes(p, c))
    BY DEF IsCall, Takes
  <1>2. c.kind = "destroy" => (Destroys(p, Call(p))' <=> Destroys(p, c))
    BY DEF Destroys
  <1>3. CASE Void(c) \/ c.kind \in {"malloc", "free", "realloc"}
    BY <1>3 DEF Steps, Void
  <1>4. CASE IsSplit(c)
    BY <1>1, <1>4 DEF Steps, IsSplit, AfterSplit
  <1>5. CASE c.kind = "destroy"
    BY <1>2, <1>5 DEF Steps
  <1> QED
    BY <1>3, <1>4, <1>5 DEF IsCall, Kind, IsSplit

\* PE p begins a call.
LEMMA Enters ==
  ASSUME Shape, NEW H, Images(H), NEW p \in PE,
         calls' \in Seq(CallSet), Len(calls) <= Len(calls'),
         \A i \in 1..Len(calls') : IsCall(calls'[i]),
         \A i \in 1..Len(calls) : calls'[i] = calls[i],
         Chain(H)',
         step[p] = 0, pos[p] < Len(calls'), Enter(p, calls'[pos[p] + 1])
  PROVE  Shape' /\ Images(H)'
PROOF
  <1>0. PICK n, c : n = pos[p] + 1 /\ c = calls'[n]
    OBVIOUS
  <1>1. /\ pos[p] \in Nat /\ Len(calls) \in Nat /\ Len(calls') \in Nat
        /\ n \in 1..Len(calls') /\ IsCall(c)
    BY <1>0, LenProperties DEF Shape
  <1>2. /\ pos' \in [PE -> Nat] /\ pos'[p] = n /\ \A q \in PE : q # p => pos'[q] = pos[q]
        /\ step' \in [PE -> Nat] /\ \A q \in PE : q # p => step'[q] = step[q]
        /\ step'[p] = IF Steps(p, c) # <<>> THEN 1 ELSE 0
        /\ heap' = heap /\ team' = team
    BY <1>0 DEF Enter, Shape
  <1>3. Call(p)' = c
    BY <1>0, <1>2 DEF Call
  <1>4. \A q \in PE : q # p /\ step[q] # 0 => Call(q)' = Call(q) /\ IsCall(Call(q))
    <2> TAKE q \in PE
    <2> HAVE q # p /\ step[q] # 0
    <2>1. pos[q] \in 1..Len(calls) /\ IsCall(Call(q))
      BY WhereIs
    <2> QED
      BY <1>2, <2>1 DEF Call
  <1>5. World \in DOMAIN team[p] /\ team[p][World] = WorldTeam(Size)
    BY DEF Shape
  <1>6. Steps(p, Call(p))' = Steps(p, c)
    BY <1>1, <1>2, <1>3, StepsStay
  <1>7. Steps(p, c) # <<>> => Len(Steps(p, c)) >= 1
    BY <1>1, <1>5, StepsOf DEF IsCall, Kind
  <1>8. Shape'
    <2>1. ASSUME NEW q \in PE, step'[q] # 0
          PROVE  pos'[q] >= 1 /\ step'[q] <= Len(Steps(q, Call(q))')
      <3>1. CASE q = p
        BY <1>1, <1>2, <1>6, <1>7, <2>1, <3>1
      <3>2. CASE q # p
        <4>1. step[q] # 0 /\ pos[q] >= 1 /\ step[q] <= Len(Steps(q, Call(q)))
          BY <1>2, <2>1, <3>2 DEF Shape
        <4>2. Steps(q, Call(q))' = Steps(q, Call(q))
          BY <1>2, <1>4, <3>2, <4>1, StepsStay
        <4> QED
          BY <1>2, <3>2, <4>1, <4>2
      <3> QED
        BY <3>1, <3>2
    <2>2. \A q \in PE : pos'[q] <= Len(calls')
      <3> TAKE q \in PE
      <3>1. pos[q] \in Nat /\ pos[q] <= Len(calls)
        BY DEF Shape
      <3> QED
        BY <1>1, <1>2, <3>1
    <2> QED
      BY <1>2, <2>1, <2>2 DEF Shape
  <1>9. ASSUME NEW q \in PE PROVE heap'[q] = Image(H, q)'
    <2>1. CASE q # p /\ step[q] # 0
      BY <1>2, <1>4, <2>1 DEF Images, Image, Complete
    <2>2. CASE q # p /\ step[q] = 0
      BY <1>2, <2>2 DEF Images, Image, Complete
    <2>3. CASE q = p
      <3>1. heap[p] = H[pos[p]]
        BY DEF Images, Image, Complete
      <3>2. H[n] = After(H[pos[p]], c, n)
        BY <1>0, <1>1 DEF Chain
      <3>3. CASE Void(c) \/ c.kind = "destroy"
        <4>1. H[n] = H[pos[p]]
          BY <3>2, <3>3 DEF After
        <4>2. Void(c) => step'[p] = 0
          BY <1>1, <1>2, <1>5, StepsOf
        <4>3. c.kind = "destroy" => OpStep(c) = 0
          BY DEF OpStep
        <4>4. Complete(p)'
          BY <1>2, <1>3, <3>3, <4>2, <4>3 DEF Complete
        <4> QED
          BY <1>2, <2>3, <3>1, <4>1, <4>4 DEF Image
      <3>4. CASE ~(Void(c) \/ c.kind = "destroy")
        <4>1. c.kind \in {"malloc", "free", "realloc", "strided", "grid"}
          BY <1>1, <3>4 DEF IsCall, Kind
        <4>2. step'[p] = 1
          <5>1. Steps(p, c) # <<>>
            BY <1>1, <1>5, <3>4, <4>1, Begins
          <5> QED
            BY <1>2, <5>1
        <4>3. OpStep(c) >= 1
          BY <4>1 DEF OpStep
        <4>4. ~Complete(p)'
          BY <1>3, <4>2, <4>3, <4>1 DEF Complete, OpStep
        <4>5. n - 1 = pos[p]
          BY <1>0, <1>1
        <4> QED
          BY <1>2, <1>3, <2>3, <3>1, <4>2, <4>4, <4>5 DEF Image
      <3> QED
        BY <3>3, <3>4
    <2> QED
      BY <2>1, <2>2, <2>3
  <1> QED
    BY <1>8, <1>9 DEF Images

\* PE p takes a step of the call that it is making.
LEMMA Moves ==
  ASSUME Shape, NEW H, Images(H), NEW p \in PE, step[p] # 0,
         calls' = calls, pos' = pos, Advance(p),
         NEW h, heap' = [heap EXCEPT ![p] = h], h = Image(H, p)',
         NEW t, team' = [team EXCEPT ![p] = t], DOMAIN t \subseteq Key,
         World \in DOMAIN t, t[World] = WorldTeam(Size)
  PROVE  Shape' /\ Images(H)'
PROOF
  <1>1. \A q \in PE : Call(q)' = Call(q)
    BY DEF Call
  <1>2. /\ \A q \in PE : q # p => /\ step'[q] = step[q] /\ heap'[q] = heap[q]
                                  /\ team'[q] = team[q]
        /\ heap'[p] = h /\ team'[p] = t
        /\ heap' = [q \in PE |-> heap'[q]] /\ team' = [q \in PE |-> team'[q]]
        /\ step'[p] = IF step[p] = Len(Steps(p, Call(p))) THEN 0 ELSE step[p] + 1
        /\ step' \in [PE -> Nat]
    <2>1. step \in [PE -> Nat] /\ DOMAIN heap = PE /\ DOMAIN team = PE
      BY DEF Shape
    <2>2. \A q \in PE : q # p => heap'[q] = heap[q] /\ team'[q] = team[q]
      BY <2>1
    <2>3. heap'[p] = h /\ team'[p] = t
      BY <2>1
    <2>4. heap' = [q \in PE |-> heap'[q]] /\ team' = [q \in PE |-> team'[q]]
      BY <2>1
    <2>5. /\ \A q \in PE : q # p => step'[q] = step[q]
          /\ step'[p] = IF step[p] = Len(Steps(p, Call(p))) THEN 0 ELSE step[p] + 1
          /\ step' \in [PE -> Nat]
      BY <2>1 DEF Advance
    <2> QED
      BY <2>2, <2>3, <2>4, <2>5
  <1>3. Shape'
    <2>1. ASSUME NEW q \in PE, step'[q] # 0
          PROVE  pos'[q] >= 1 /\ step'[q] <= Len(Steps(q, Call(q))')
      <3>1. step[q] # 0 /\ pos[q] >= 1 /\ step[q] <= Len(Steps(q, Call(q)))
        BY <1>2, <2>1 DEF Shape
      <3>2. IsCall(Call(q)) /\ step[q] \in 1..Len(Steps(q, Call(q)))
        BY <3>1, WhereIs
      <3>3. CASE q # p
        <4>1. Steps(q, Call(q))' = Steps(q, Call(q))
          BY <1>1, <1>2, <3>2, <3>3, StepsStay
        <4> QED
          BY <1>2, <3>1, <3>3, <4>1
      <3>4. CASE q = p
        <4>1. step'[p] = step[p] + 1 /\ step[p] # Len(Steps(p, Call(p)))
          BY <1>2, <2>1, <3>4
        <4>2. Call(p).kind # "destroy"
          <5>1. Call(p).kind = "destroy" => Len(Steps(p, Call(p))) \in {0, 1}
            BY <3>2, <3>4, Begins DEF Shape
          <5>2. /\ step[p] \in 1..Len(Steps(p, Call(p)))
                /\ step[p] # Len(Steps(p, Call(p)))
            BY <3>2, <3>4, <4>1
          <5>3. \A l \in {0, 1} : \A s \in 1..l : s = l
            OBVIOUS
          <5> QED
            BY <5>1, <5>2, <5>3
        <4>3. Steps(p, Call(p))' = Steps(p, Call(p))
          BY <1>1, <3>2, <3>4, <4>2, StepsStay DEF Shape
        <4> QED
          BY <3>1, <3>2, <3>4, <4>1, <4>3
      <3> QED
        BY <3>3, <3>4
    <2> QED
      BY <1>2, <2>1 DEF Shape
  <1>4. \A q \in PE : heap'[q] = Image(H, q)'
    BY <1>1, <1>2 DEF Images, Image, Complete
  <1> QED
    BY <1>3, <1>4 DEF Images

\* The step of a call in which it changes the heap, or the last of them.
LEMMA Operates ==
  ASSUME Shape, NEW H, Chain(H), Images(H), NEW p \in PE, step[p] # 0,
         step[p] = OpStep(Call(p)), calls' = calls, pos' = pos, Advance(p)
  PROVE  /\ pos[p] \in 1..Len(calls)
         /\ Image(H, p)' = After(H[pos[p] - 1], Call(p), pos[p])
         /\ heap[p] = IF Call(p).kind = "grid" THEN Half(H[pos[p] - 1], pos[p])
                      ELSE H[pos[p] - 1]
PROOF
  <1>1. pos[p] \in 1..Len(calls) /\ Call(p) = calls[pos[p]] /\ IsCall(Call(p))
    BY WhereIs
  <1>2. Call(p)' = Call(p)
    BY DEF Call
  <1>3. step[p] \in Nat /\ step'[p] \in {0, step[p] + 1}
    BY DEF Advance, Shape
  <1>4. Complete(p)'
    <2>1. OpStep(Call(p))' = OpStep(Call(p))
      BY <1>2 DEF OpStep
    <2> QED
      BY <1>3, <2>1 DEF Complete
  <1>5. Image(H, p)' = H[pos[p]]
    BY <1>4 DEF Image
  <1>6. H[pos[p]] = After(H[pos[p] - 1], Call(p), pos[p])
    BY <1>1 DEF Chain
  <1>7. ~Complete(p)
    BY <1>3 DEF Complete
  <1>8. Call(p).kind = "grid" => step[p] = 2
    BY DEF OpStep
  <1>9. heap[p] = IF Call(p).kind = "grid" THEN Half(H[pos[p] - 1], pos[p]) ELSE H[pos[p] - 1]
    BY <1>7, <1>8 DEF Images, Image
  <1> QED
    BY <1>1, <1>5, <1>6, <1>9

\* A step of a barrier.
LEMMA Barrier ==
  ASSUME Shape, NEW H, Chain(H), Images(H), NEW p \in PE, step[p] # 0,
         At(p, "arrive") \/ At(p, "leave"), calls' = calls, pos' = pos, Advance(p)
  PROVE  Image(H, p)' = heap[p]
PROOF
  <1>1. Call(p)' = Call(p) /\ step[p] \in Nat
    BY DEF Call, Shape
  <1>2. step'[p] = IF step[p] = Len(Steps(p, Call(p))) THEN 0 ELSE step[p] + 1
    BY DEF Advance, Shape
  <1>3. heap[p] = Image(H, p)
    BY DEF Images
  <1>4. \/ Call(p).kind = "malloc" /\ step[p] >= 2
        \/ Call(p).kind \in {"free", "realloc"} /\ step[p] \in {1, 2}
        \/ Call(p).kind = "realloc" /\ step[p] >= 4
        \/ Call(p).kind = "strided" /\ step[p] >= 2
        \/ Call(p).kind = "grid" /\ step[p] >= 3
    BY WhereIs
  <1>5. Call(p).kind \in {"free", "realloc"} => Len(Steps(p, Call(p))) >= 3
    <2>1. IsCall(Call(p)) /\ ~Void(Call(p))
      BY WhereIs
    <2>2. Call(p).kind \in {"free", "realloc"} =>
            \/ Steps(p, Call(p)) = <<"arrive", "leave", "release">>
            \/ Steps(p, Call(p)) = <<"arrive", "leave", "resize", "arrive", "leave">>
      BY <2>1, StepsOf DEF Shape
    <2>3. \A S : S \in {<<"arrive", "leave", "release">>,
                        <<"arrive", "leave", "resize", "arrive", "leave">>} => Len(S) >= 3
      OBVIOUS
    <2> QED
      BY <2>2, <2>3
  <1>6. OpStep(Call(p))' = OpStep(Call(p))
    BY <1>1 DEF OpStep
  <1>7. \/ step[p] > OpStep(Call(p))
        \/ step[p] \in {1, 2} /\ OpStep(Call(p)) = 3 /\ Call(p).kind \in {"free", "realloc"}
    BY <1>1, <1>4 DEF OpStep
  <1>8. CASE step[p] > OpStep(Call(p))
    <2>1. OpStep(Call(p)) \in Nat
      BY <1>4 DEF OpStep
    <2>2. Complete(p) /\ Complete(p)'
      BY <1>1, <1>2, <1>6, <1>8, <2>1 DEF Complete
    <2> QED
      BY <1>3, <2>2 DEF Image
  <1>9. CASE step[p] \in {1, 2} /\ OpStep(Call(p)) = 3 /\ Call(p).kind \in {"free", "realloc"}
    <2>1. step'[p] \in {2, 3}
      BY <1>2, <1>5, <1>9
    <2>2. ~Complete(p) /\ ~Complete(p)'
      BY <1>6, <1>9, <2>1 DEF Complete
    <2> QED
      BY <1>1, <1>3, <1>9, <2>2 DEF Image
  <1> QED
    BY <1>7, <1>8, <1>9

\* shmem_malloc allocates; nothing of its call is in the heap before.
LEMMA AllocateStep ==
  ASSUME Shape, NEW H, Chain(H), Images(H), NEW p \in PE, Allocate(p)
  PROVE  Shape' /\ Images(H)'
PROOF
  <1> DEFINE h == With(heap[p], <<pos[p], 1>>, Fit(heap[p], Call(p).len, Call(p).align))
  <1>1. step[p] # 0 /\ At(p, "allocate") /\ calls' = calls /\ pos' = pos /\ Advance(p)
        /\ heap' = [heap EXCEPT ![p] = h] /\ team' = team
    BY DEF Allocate, At
  <1>2. Call(p).kind = "malloc" /\ step[p] = 1 /\ ~Void(Call(p))
    BY <1>1, WhereIs
  <1>3. step[p] = OpStep(Call(p))
    BY <1>2 DEF OpStep
  <1>4. h = Image(H, p)'
    <2>1. /\ Image(H, p)' = After(H[pos[p] - 1], Call(p), pos[p])
          /\ heap[p] = IF Call(p).kind = "grid" THEN Half(H[pos[p] - 1], pos[p])
                      ELSE H[pos[p] - 1]
      BY <1>1, <1>3, Operates
    <2> QED
      BY <1>2, <2>1 DEF After
  <1> HIDE DEF h
  <1>5. /\ team' = [team EXCEPT ![p] = team[p]] /\ DOMAIN team[p] \subseteq Key
        /\ World \in DOMAIN team[p] /\ team[p][World] = WorldTeam(Size)
    BY <1>1 DEF Shape
  <1> QED
    BY <1>1, <1>4, <1>5, Moves

\* shmem_free takes its object from the heap, after its barrier.
LEMMA ReleaseStep ==
  ASSUME Shape, NEW H, Chain(H), Images(H), NEW p \in PE, Release(p)
  PROVE  Shape' /\ Images(H)'
PROOF
  <1> DEFINE h == Without(heap[p], Call(p).of)
  <1>1. step[p] # 0 /\ At(p, "release") /\ calls' = calls /\ pos' = pos /\ Advance(p)
        /\ heap' = [heap EXCEPT ![p] = h] /\ team' = team
    BY DEF Release, At
  <1>2. Call(p).kind = "free" /\ step[p] = 3
    BY <1>1, WhereIs
  <1>3. step[p] = OpStep(Call(p))
    BY <1>2 DEF OpStep
  <1>4. h = Image(H, p)'
    <2>1. /\ Image(H, p)' = After(H[pos[p] - 1], Call(p), pos[p])
          /\ heap[p] = IF Call(p).kind = "grid" THEN Half(H[pos[p] - 1], pos[p])
                      ELSE H[pos[p] - 1]
      BY <1>1, <1>3, Operates
    <2> QED
      BY <1>2, <2>1 DEF After, Void
  <1> HIDE DEF h
  <1>5. /\ team' = [team EXCEPT ![p] = team[p]] /\ DOMAIN team[p] \subseteq Key
        /\ World \in DOMAIN team[p] /\ team[p][World] = WorldTeam(Size)
    BY <1>1 DEF Shape
  <1> QED
    BY <1>1, <1>4, <1>5, Moves

\* shmem_realloc puts one object in the place of another.
LEMMA ResizeStep ==
  ASSUME Shape, NEW H, Chain(H), Images(H), NEW p \in PE, Resize(p)
  PROVE  Shape' /\ Images(H)'
PROOF
  <1> DEFINE h == Realloc(heap[p], Call(p).of, <<pos[p], 1>>, Call(p).len)
  <1>1. step[p] # 0 /\ At(p, "resize") /\ calls' = calls /\ pos' = pos /\ Advance(p)
        /\ heap' = [heap EXCEPT ![p] = h] /\ team' = team
    BY DEF Resize, At
  <1>2. Call(p).kind = "realloc" /\ step[p] = 3 /\ ~Void(Call(p))
    BY <1>1, WhereIs
  <1>3. step[p] = OpStep(Call(p))
    BY <1>2 DEF OpStep
  <1>4. h = Image(H, p)'
    <2>1. /\ Image(H, p)' = After(H[pos[p] - 1], Call(p), pos[p])
          /\ heap[p] = IF Call(p).kind = "grid" THEN Half(H[pos[p] - 1], pos[p])
                      ELSE H[pos[p] - 1]
      BY <1>1, <1>3, Operates
    <2> QED
      BY <1>2, <2>1 DEF After
  <1> HIDE DEF h
  <1>5. /\ team' = [team EXCEPT ![p] = team[p]] /\ DOMAIN team[p] \subseteq Key
        /\ World \in DOMAIN team[p] /\ team[p][World] = WorldTeam(Size)
    BY <1>1 DEF Shape
  <1> QED
    BY <1>1, <1>4, <1>5, Moves

\* A handle more is no harm to the one of the world.
LEMMA Handles ==
  ASSUME Shape, NEW p \in PE, step[p] # 0, NEW i \in {1, 2}, NEW t, NEW handle,
         t = team[p] \/ t = With(team[p], <<pos[p], i>>, handle)
  PROVE  DOMAIN t \subseteq Key /\ World \in DOMAIN t /\ t[World] = WorldTeam(Size)
PROOF
  <1>1. /\ DOMAIN team[p] \subseteq Key
        /\ World \in DOMAIN team[p] /\ team[p][World] = WorldTeam(Size)
    BY DEF Shape
  <1>2. pos[p] \in Nat /\ pos[p] # 0
    BY DEF Shape
  <1>3. <<pos[p], i>> \in Key /\ <<pos[p], i>> # World
    BY <1>2 DEF Key, World
  <1> QED
    BY <1>1, <1>3 DEF With

\* A strided split allocates the work arrays of one team,
LEMMA SplitStep ==
  ASSUME Shape, NEW H, Chain(H), Images(H), NEW p \in PE, Split(p)
  PROVE  Shape' /\ Images(H)'
PROOF
  <1> DEFINE h == Half(heap[p], pos[p])
  <1>1. step[p] # 0 /\ At(p, "split") /\ calls' = calls /\ pos' = pos /\ Advance(p)
        /\ heap' = [heap EXCEPT ![p] = h]
    BY DEF Split, Create, AllocateWorkArrays, At, Half
  <1>2. Call(p).kind = "strided" /\ step[p] = 1
    BY <1>1, WhereIs
  <1>3. step[p] = OpStep(Call(p))
    BY <1>2 DEF OpStep
  <1>4. h = Image(H, p)'
    <2>1. /\ Image(H, p)' = After(H[pos[p] - 1], Call(p), pos[p])
          /\ heap[p] = IF Call(p).kind = "grid" THEN Half(H[pos[p] - 1], pos[p])
                      ELSE H[pos[p] - 1]
      BY <1>1, <1>3, Operates
    <2> QED
      BY <1>2, <2>1 DEF After, Void
  <1> HIDE DEF h
  <1>5. PICK handle, t : /\ t = team[p] \/ t = With(team[p], <<pos[p], 1>>, handle)
                         /\ team' = [team EXCEPT ![p] = t]
    <2>1. \/ team' = team
          \/ \E x : team' = [team EXCEPT ![p] = With(@, <<pos[p], 1>>, x)]
      BY DEF Split, Create
    <2>2. team' = team => team' = [team EXCEPT ![p] = team[p]]
      BY DEF Shape
    <2> QED
      BY <2>1, <2>2
  <1>6. DOMAIN t \subseteq Key /\ World \in DOMAIN t /\ t[World] = WorldTeam(Size)
    BY <1>1, <1>5, Handles
  <1> QED
    BY <1>1, <1>4, <1>5, <1>6, Moves

\* a 2D split those of its rows,
LEMMA SplitRowsStep ==
  ASSUME Shape, NEW H, Chain(H), Images(H), NEW p \in PE, SplitRows(p)
  PROVE  Shape' /\ Images(H)'
PROOF
  <1> DEFINE h == Half(heap[p], pos[p])
  <1>1. step[p] # 0 /\ At(p, "rows") /\ calls' = calls /\ pos' = pos /\ Advance(p)
        /\ heap' = [heap EXCEPT ![p] = h]
    BY DEF SplitRows, Create, AllocateWorkArrays, At, Half
  <1>2. Call(p).kind = "grid" /\ step[p] = 1 /\ IsCall(Call(p))
    BY <1>1, WhereIs
  <1>3. Call(p)' = Call(p)
    BY <1>1 DEF Call
  <1>4. step'[p] = 2
    <2>1. Steps(p, Call(p)) \in {<<"rows", "columns", "arrive", "leave">>, <<"rows", "columns">>}
      BY <1>2, StepsOf DEF Shape
    <2>2. \A S : S \in {<<"rows", "columns", "arrive", "leave">>, <<"rows", "columns">>}
                   => Len(S) # 1
      OBVIOUS
    <2>3. Len(Steps(p, Call(p))) # 1
      BY <2>1, <2>2
    <2> QED
      BY <1>1, <1>2, <2>3 DEF Advance, Shape
  <1>5. h = Image(H, p)'
    <2>1. ~Complete(p) /\ ~Complete(p)'
      BY <1>2, <1>3, <1>4 DEF Complete, OpStep
    <2>2. heap[p] = H[pos[p] - 1]
      BY <1>2, <2>1 DEF Images, Image
    <2>3. Image(H, p)' = Half(H[pos[p] - 1], pos[p])
      BY <1>1, <1>2, <1>3, <1>4, <2>1 DEF Image
    <2> QED
      BY <2>2, <2>3
  <1> HIDE DEF h
  <1>6. PICK handle, t : /\ t = team[p] \/ t = With(team[p], <<pos[p], 1>>, handle)
                         /\ team' = [team EXCEPT ![p] = t]
    BY DEF SplitRows, Create
  <1>7. DOMAIN t \subseteq Key /\ World \in DOMAIN t /\ t[World] = WorldTeam(Size)
    BY <1>1, <1>6, Handles
  <1> QED
    BY <1>1, <1>5, <1>6, <1>7, Moves

\* and then those of its columns.
LEMMA SplitColumnsStep ==
  ASSUME Shape, NEW H, Chain(H), Images(H), NEW p \in PE, SplitColumns(p)
  PROVE  Shape' /\ Images(H)'
PROOF
  <1> DEFINE h == With(heap[p], <<pos[p], 2>>, Fit(heap[p], 1, 1))
  <1>1. step[p] # 0 /\ At(p, "columns") /\ calls' = calls /\ pos' = pos /\ Advance(p)
        /\ heap' = [heap EXCEPT ![p] = h]
    BY DEF SplitColumns, Create, AllocateWorkArrays, At
  <1>2. Call(p).kind = "grid" /\ step[p] = 2
    BY <1>1, WhereIs
  <1>3. step[p] = OpStep(Call(p))
    BY <1>2 DEF OpStep
  <1>4. h = Image(H, p)'
    <2>1. /\ Image(H, p)' = After(H[pos[p] - 1], Call(p), pos[p])
          /\ heap[p] = IF Call(p).kind = "grid" THEN Half(H[pos[p] - 1], pos[p])
                      ELSE H[pos[p] - 1]
      BY <1>1, <1>3, Operates
    <2> QED
      BY <1>2, <2>1 DEF After, Void
  <1> HIDE DEF h
  <1>6. PICK handle, t : /\ t = team[p] \/ t = With(team[p], <<pos[p], 2>>, handle)
                         /\ team' = [team EXCEPT ![p] = t]
    BY DEF SplitColumns, Create
  <1>7. DOMAIN t \subseteq Key /\ World \in DOMAIN t /\ t[World] = WorldTeam(Size)
    BY <1>1, <1>6, Handles
  <1> QED
    BY <1>1, <1>4, <1>6, <1>7, Moves

\* The end of a team leaves the heap as it is.
LEMMA DestroyStep ==
  ASSUME Shape, NEW H, Chain(H), Images(H), NEW p \in PE, Destroy(p)
  PROVE  Shape' /\ Images(H)'
PROOF
  <1> DEFINE t == Without(team[p], Call(p).of)
  <1>1. step[p] # 0 /\ At(p, "destroy") /\ calls' = calls /\ pos' = pos /\ Advance(p)
        /\ heap' = heap /\ team' = [team EXCEPT ![p] = t]
    BY DEF Destroy, At
  <1>2. /\ Call(p).kind = "destroy" /\ IsCall(Call(p)) /\ ~Void(Call(p))
        /\ step[p] = 1 /\ Len(Steps(p, Call(p))) = 1
    BY <1>1, WhereIs
  <1>3. Call(p)' = Call(p) /\ step'[p] = 0
    BY <1>1, <1>2 DEF Call, Advance, Shape
  <1>4. Image(H, p)' = heap[p]
    BY <1>1, <1>2, <1>3 DEF Complete, OpStep, Images, Image
  <1>5. Call(p).of # World
    <2>1. Len(<<>>) = 0
      OBVIOUS
    <2>2. Steps(p, Call(p)) # <<>>
      BY <1>2, <2>1
    <2>3. Destroys(p, Call(p))
      BY <1>2, <2>2 DEF Steps, Void
    <2> QED
      BY <2>3 DEF Destroys
  <1>6. DOMAIN t \subseteq Key /\ World \in DOMAIN t /\ t[World] = WorldTeam(Size)
    BY <1>5 DEF Shape, Without
  <1>7. heap' = [heap EXCEPT ![p] = heap[p]]
    BY <1>1 DEF Shape
  <1> HIDE DEF t
  <1> QED
    BY <1>1, <1>4, <1>6, <1>7, Moves

\* So does a barrier.
LEMMA BarrierStep ==
  ASSUME Shape, NEW H, Chain(H), Images(H), NEW p \in PE, Arrive(p) \/ Leave(p)
  PROVE  Shape' /\ Images(H)'
PROOF
  <1>1. /\ step[p] # 0
        /\ \/ At(p, "arrive")
           \/ At(p, "leave")
        /\ calls' = calls /\ pos' = pos /\ Advance(p)
        /\ heap' = heap /\ team' = team
    BY DEF Arrive, Leave, At
  <1>2. Image(H, p)' = heap[p]
    BY <1>1, Barrier
  <1>3. heap' = [heap EXCEPT ![p] = heap[p]] /\ team' = [team EXCEPT ![p] = team[p]]
    BY <1>1 DEF Shape
  <1>4. /\ DOMAIN team[p] \subseteq Key
        /\ World \in DOMAIN team[p] /\ team[p][World] = WorldTeam(Size)
    BY DEF Shape
  <1> QED
    BY <1>1, <1>2, <1>3, <1>4, Moves

\* What a program may call, if it splits the world only.
LEMMA CallsAreCalls ==
  ASSUME Nested = FALSE, Shape, NEW H, Chain(H), Images(H), NEW p \in PE, NEW c \in Calls(p)
  PROVE  c \in CallSet /\ IsCall(c)
PROOF
  <1>1. \A k \in DOMAIN heap[p] : k \in Key
    BY ImageInChain DEF Chain
  <1>2. \A k \in DOMAIN team[p] : k \in Key
    BY DEF Shape
  <1>3. ASSUME NEW m \in Menu, m.kind # "malloc", NEW k
        PROVE  About(m, k).kind = m.kind /\ About(m, k).of = k /\ m.kind \in Kind
    BY MenuAssumption DEF About, Kind
  <1>4. World \in Key
    BY DEF World, Key
  <1>5. CASE \E m \in Menu : \E k \in DOMAIN heap[p] :
               m.kind \in {"free", "realloc"} /\ c = About(m, k)
    BY <1>1, <1>3, <1>5 DEF CallSet, IsCall, IsSplit
  <1>6. CASE \E m \in Menu : IsSplit(m) /\ c = About(m, World)
    BY <1>3, <1>4, <1>6 DEF CallSet, IsCall, IsSplit
  <1>7. CASE \E m \in Menu : \E k \in DOMAIN team[p] :
               m.kind = "destroy" /\ c = About(m, k)
    BY <1>2, <1>3, <1>7 DEF CallSet, IsCall, IsSplit
  <1>8. CASE c \in Menu /\ c.kind = "malloc"
    BY <1>8 DEF CallSet, IsCall, IsSplit, Kind
  <1> QED
    BY <1>5, <1>6, <1>7, <1>8 DEF Calls

\* The first PE to make a call makes the chain longer.
LEMMA LeadStep ==
  ASSUME Nested = FALSE, Shape, NEW H, Chain(H), Images(H), NEW p \in PE, Lead(p)
  PROVE  /\ Shape'
         /\ \E G : Chain(G)' /\ Images(G)' /\ \A i \in 0..Len(calls) : G[i] = H[i]
PROOF
  <1>2. PICK c \in Calls(p) : calls' = Append(calls, c) /\ Enter(p, c)
    BY DEF Lead
  <1>3. c \in CallSet /\ IsCall(c)
    BY CallsAreCalls
  <1>4. PICK G : Chain(G)' /\ \A i \in 0..Len(calls) : G[i] = H[i]
    BY <1>2, <1>3, ChainGrows
  <1>5. /\ calls \in Seq(CallSet) /\ Len(calls) \in Nat
        /\ step[p] = 0 /\ pos[p] = Len(calls)
        /\ \A i \in 1..Len(calls) : IsCall(calls[i])
    BY LenProperties DEF Shape, Lead
  <1>6. /\ calls' \in Seq(CallSet) /\ Len(calls') = Len(calls) + 1
        /\ calls'[Len(calls) + 1] = c
        /\ \A i \in 1..Len(calls) : calls'[i] = calls[i]
    BY <1>2, <1>3, <1>5, AppendProperties
  <1>7. \A i \in 1..Len(calls') : IsCall(calls'[i])
    BY <1>3, <1>5, <1>6
  <1>8. Images(G)
    <2>1. ASSUME NEW q \in PE PROVE Image(G, q) = Image(H, q)
      <3>1. pos[q] \in Nat /\ pos[q] <= Len(calls)
        BY DEF Shape
      <3>2. G[pos[q]] = H[pos[q]]
        BY <1>4, <1>5, <3>1
      <3>3. ~Complete(q) => G[pos[q] - 1] = H[pos[q] - 1]
        <4>1. ~Complete(q) => pos[q] >= 1
          BY DEF Shape, Complete
        <4> QED
          BY <1>4, <1>5, <3>1, <4>1
      <3> QED
        BY <3>2, <3>3 DEF Image
    <2> QED
      BY <2>1 DEF Images
  <1>9. Enter(p, calls'[pos[p] + 1]) /\ pos[p] < Len(calls') /\ Len(calls) <= Len(calls')
    BY <1>2, <1>5, <1>6
  <1>10. Shape' /\ Images(G)'
    BY <1>4, <1>5, <1>6, <1>7, <1>8, <1>9, Enters
  <1> QED
    BY <1>4, <1>10

\* A step that makes no call leaves the chain as it is.
LEMMA ChainStays ==
  ASSUME NEW H, Chain(H), calls' = calls
  PROVE  Chain(H)'
  BY DEF Chain

\* The other PEs make the call that the first one chose.
LEMMA FollowStep ==
  ASSUME Shape, NEW H, Chain(H), Images(H), NEW p \in PE, Follow(p)
  PROVE  Shape' /\ Images(H)'
PROOF
  <1>1. /\ calls' = calls /\ step[p] = 0 /\ pos[p] < Len(calls')
        /\ Enter(p, calls'[pos[p] + 1])
    BY DEF Follow
  <1>2. /\ calls' \in Seq(CallSet) /\ Len(calls) <= Len(calls')
        /\ \A i \in 1..Len(calls') : IsCall(calls'[i])
        /\ \A i \in 1..Len(calls) : calls'[i] = calls[i]
    BY <1>1, LenProperties DEF Shape
  <1>3. Chain(H)'
    BY <1>1, ChainStays
  <1> QED
    BY <1>1, <1>2, <1>3, Enters

\* What does not touch the heap: puts, their landing, and the end.
LEMMA QuietStep ==
  ASSUME Shape, NEW H, Images(H), UNCHANGED <<calls, pos, step, heap, team>>
  PROVE  Shape' /\ Images(H)'
PROOF
  <1>1. \A p : Call(p)' = Call(p)
    BY DEF Call
  <1>2. \A p \in PE : step[p] # 0 => Steps(p, Call(p))' = Steps(p, Call(p))
    <2> TAKE p \in PE
    <2> HAVE step[p] # 0
    <2>1. IsCall(Call(p))
      BY WhereIs
    <2> QED
      BY <1>1, <2>1, StepsStay
  <1>3. Shape'
    BY <1>2 DEF Shape
  <1>4. \A p \in PE : Image(H, p)' = Image(H, p)
    BY <1>1 DEF Image, Complete, OpStep
  <1> QED
    BY <1>3, <1>4 DEF Images

\* Every step leaves a chain, of which the old one is a part.
LEMMA HeapStep ==
  ASSUME Nested = FALSE, Shape, NEW H, Chain(H), Images(H), [Next]_vars
  PROVE  /\ Shape'
         /\ \E G : Chain(G)' /\ Images(G)' /\ \A i \in 0..Len(calls) : G[i] = H[i]
PROOF
  <1>1. ASSUME NEW p \in PE, Lead(p)
        PROVE  /\ Shape'
               /\ \E G : Chain(G)' /\ Images(G)' /\ \A i \in 0..Len(calls) : G[i] = H[i]
    BY <1>1, LeadStep
  <1>2. ASSUME NEW p \in PE,
               \/ Follow(p) \/ Allocate(p) \/ Release(p) \/ Resize(p) \/ Split(p)
               \/ SplitRows(p) \/ SplitColumns(p) \/ Destroy(p) \/ Arrive(p) \/ Leave(p)
        PROVE  Shape' /\ Chain(H)' /\ Images(H)'
    <2>1. Shape' /\ Images(H)'
      BY <1>2, FollowStep, AllocateStep, ReleaseStep, ResizeStep, SplitStep,
         SplitRowsStep, SplitColumnsStep, DestroyStep, BarrierStep
    <2>2. calls' = calls
      BY <1>2 DEF Follow, Allocate, Release, Resize, Split, SplitRows, SplitColumns,
         Destroy, Arrive, Leave, Create, AllocateWorkArrays
    <2> QED
      BY <2>1, <2>2, ChainStays
  <1>3. ASSUME UNCHANGED <<calls, pos, step, heap, team>>
        PROVE  Shape' /\ Chain(H)' /\ Images(H)'
    BY <1>3, QuietStep, ChainStays
  <1>4. ASSUME NEW p \in PE, NEW q \in PE, NEW k \in DOMAIN heap[p], Put(p, q, k)
        PROVE  UNCHANGED <<calls, pos, step, heap, team>>
    BY <1>4 DEF Put
  <1>5. ASSUME NEW o \in net, Land(o)
        PROVE  UNCHANGED <<calls, pos, step, heap, team>>
    BY <1>5 DEF Land
  <1>6. ASSUME UNCHANGED vars
        PROVE  UNCHANGED <<calls, pos, step, heap, team>>
    BY <1>6 DEF vars
  <1> QED
    BY <1>1, <1>2, <1>3, <1>4, <1>5, <1>6 DEF Next, Done

\* Every step keeps the chain and the place of each heap in it.
LEMMA HInvNext ==
  ASSUME Nested = FALSE, HInv, [Next]_vars
  PROVE  HInv'
  BY HeapStep DEF HInv

\* The heaps of all PEs are heaps of one chain, each of them the one after the
\* calls that its PE has completed: shmalloc.c:54, :133 and :159 and the split of
\* teams.c allocate in step although no PE tells another what it allocated.
THEOREM HeapsInStep ==
  ASSUME Nested = FALSE
  PROVE  Spec => []HInv
  BY HInvInit, HInvNext, PTL DEF Spec

\* Two PEs that both have an object have it at the same place: both heaps are
\* parts of heaps of one chain, and along the chain a place never changes.
LEMMA HInvSameAddress == HInv => SameAddress
PROOF
  <1> SUFFICES ASSUME HInv, NEW p \in PE, NEW q \in PE, NEW k \in DOMAIN heap[p] \cap DOMAIN heap[q]
               PROVE  heap[p][k] = heap[q][k]
    BY DEF SameAddress
  <1>1. PICK H : Shape /\ Chain(H) /\ Images(H)
    BY DEF HInv
  <1>2. PICK i \in 0..Len(calls) : k \in DOMAIN H[i] /\ heap[p][k] = H[i][k]
    BY <1>1, ImageInChain
  <1>3. PICK j \in 0..Len(calls) : k \in DOMAIN H[j] /\ heap[q][k] = H[j][k]
    BY <1>1, ImageInChain
  <1>4. Len(calls) \in Nat
    BY <1>1, LenProperties DEF Shape
  <1>5. k[1] <= i /\ k[1] <= j
    BY <1>1, <1>2, <1>3 DEF Chain
  <1>6. CASE i <= j
    BY <1>1, <1>2, <1>3, <1>5, <1>6 DEF Chain
  <1>7. CASE j <= i
    BY <1>1, <1>2, <1>3, <1>5, <1>7 DEF Chain
  <1> QED
    BY <1>4, <1>6, <1>7

\* An object that two PEs have is at the same place in both heaps, however far
\* the one PE is ahead of the other.  This is what translate_region_address of
\* comms.c relies on when it makes a remote address of a local one.
THEOREM SameAddressEverywhere ==
  ASSUME Nested = FALSE
  PROVE  Spec => []SameAddress
  BY HeapsInStep, HInvSameAddress, PTL

-----------------------------------------------------------------------------
(***************************************************************************)
(* A put lands in the object it was made for.                              *)
(*                                                                         *)
(* To the chain of heaps comes a count of barriers:                        *)
(* B[i] of them are in the first i calls.  From the call and the step that *)
(* a PE is at follows how many barriers it has come to and how many it has *)
(* left, and no PE has left one that another has not come to (Counted).    *)
(* Of an object that a put is on its way to it is known (Underway) that    *)
(* the caller has completed the call that made it, so that every PE has    *)
(* come to the barrier at the end of that call, and has not come to the    *)
(* barrier in front of the call that gives it up, so that no PE has left   *)
(* it.  Between these two barriers every PE has the object.                *)
(*                                                                         *)
(* For the work arrays of teams the first barrier is the one the program   *)
(* makes after a split (SyncAfterSplit); nothing ever gives them up.       *)
(***************************************************************************)
-----------------------------------------------------------------------------
(* Where the PEs are: the barriers that each has come to, and has left.    *)

\* The barriers of a call, and how many of them a PE has come to, and has
\* left, when it is at step s of the call.
Barriers(c) ==
  IF Void(c) \/ c.kind = "destroy" THEN 0
  ELSE IF c.kind = "realloc" THEN 2
  ELSE IF c.kind \in {"malloc", "free"} \/ SyncAfterSplit THEN 1 ELSE 0

Came(c, s) ==
  IF c.kind = "realloc" THEN (IF s >= 5 THEN 2 ELSE IF s >= 2 THEN 1 ELSE 0)
  ELSE IF \/ c.kind = "free" /\ s >= 2
          \/ c.kind \in {"malloc", "strided"} /\ s >= 3
          \/ c.kind = "grid" /\ s >= 4 THEN 1 ELSE 0

Left(c, s) == IF c.kind \in {"free", "realloc"} /\ s >= 3 THEN 1 ELSE 0

\* B counts the barriers of the calls so far.
Count(B) ==
  /\ B[0] = 0
  /\ \A i \in 1..Len(calls) : B[i] = B[i - 1] + Barriers(calls[i])
  /\ \A i \in 0..Len(calls) : B[i] \in Nat
  /\ \A i, j \in 0..Len(calls) : i <= j => B[i] <= B[j]

\* The barriers that PE p has come to, and those it has left.
ComeTo(B, p) == IF step[p] = 0 THEN B[pos[p]] ELSE B[pos[p] - 1] + Came(Call(p), step[p])
GoneFrom(B, p) == IF step[p] = 0 THEN B[pos[p]] ELSE B[pos[p] - 1] + Left(Call(p), step[p])

\* The counters of the PEs are right, and nobody left a barrier before all came.
Counted(B) ==
  /\ arrived \in [PE -> Nat]
  /\ \A p \in PE : arrived[p] = ComeTo(B, p)
  /\ \A p, q \in PE : GoneFrom(B, p) <= arrived[q]

\* What is known of an object while a put to it is on its way.
Underway(H, o) ==
  LET p == o.from k == o.of IN
  /\ p \in PE /\ o.to \in PE /\ k \in Key
  /\ k[1] < pos[p] \/ (k[1] = pos[p] /\ step[p] = 0)
  /\ k \in DOMAIN H[k[1]] /\ H[k[1]][k].at = o.at
  /\ \A e \in 1..pos[p] : Ends(calls[e], k) => e = pos[p] /\ step[p] = 1

\* All puts are so.
Puts(H) == \A o \in net : Underway(H, o)

\* A handle is for work arrays.
HandleKeys == \A p \in PE : \A k \in DOMAIN team[p] : k[1] <= pos[p] /\ ~IsForTheUser(k)

\* A put to work arrays goes to a member of their team.
PutsToMembers ==
  \A o \in net : o.of \in DOMAIN team[o.from] => o.to \in Members(team[o.from][o.of])

\* The inductive invariant: the chain of heaps, the count of barriers, and the puts.
PInv ==
  /\ Shape
  /\ \E H, B : Chain(H) /\ Images(H) /\ Count(B) /\ Counted(B) /\ Puts(H)

\* The barriers of a call are numbers.
LEMMA BarriersOf ==
  ASSUME NEW c, IsCall(c)
  PROVE  /\ Barriers(c) \in Nat
         /\ \A s \in Nat : Came(c, s) \in Nat /\ Left(c, s) \in Nat
  BY DEF Barriers, Came, Left

\* A call more, and a count more.
LEMMA CountGrows ==
  ASSUME Shape, NEW B, Count(B), NEW c \in CallSet, IsCall(c), calls' = Append(calls, c)
  PROVE  \E D : Count(D)' /\ \A i \in 0..Len(calls) : D[i] = B[i]
PROOF
  <1> DEFINE n == Len(calls)
             new == B[n] + Barriers(c)
  <1>0. PICK D : D = [i \in 0..(n + 1) |-> IF i = n + 1 THEN new ELSE B[i]]
    OBVIOUS
  <1>1. /\ n \in Nat /\ Len(calls') = n + 1 /\ calls'[n + 1] = c
        /\ \A i \in 1..n : calls'[i] = calls[i]
    BY AppendProperties, LenProperties DEF Shape
  <1>2. D[n + 1] = new /\ \A i \in 0..n : D[i] = B[i]
    BY <1>0, <1>1
  <1>3. B[n] \in Nat /\ Barriers(c) \in Nat /\ new \in Nat /\ B[n] <= new
    <2>1. Barriers(c) \in Nat
      BY BarriersOf
    <2>2. B[n] \in Nat
      BY <1>1 DEF Count
    <2> QED
      BY <2>1, <2>2
  <1>4. /\ B[0] = 0 /\ \A i \in 0..n : B[i] \in Nat
        /\ \A i \in 1..n : B[i] = B[i - 1] + Barriers(calls[i])
        /\ \A i, j \in 0..n : i <= j => B[i] <= B[j]
    BY DEF Count
  <1> HIDE DEF n
  <1>5. D[0] = 0
    BY <1>1, <1>2, <1>4
  <1>6. \A i \in 1..(n + 1) : D[i] = D[i - 1] + Barriers(calls'[i])
    <2> TAKE i \in 1..(n + 1)
    <2>1. CASE i \in 1..n
      BY <1>1, <1>2, <1>4, <2>1
    <2>2. CASE i = n + 1
      BY <1>1, <1>2, <2>2
    <2> QED
      BY <1>1, <2>1, <2>2
  <1> HIDE DEF new
  <1>7. \A i \in 0..(n + 1) : D[i] \in Nat
    BY <1>1, <1>2, <1>3, <1>4
  <1>8. \A i, j \in 0..(n + 1) : i <= j => D[i] <= D[j]
    <2> TAKE i, j \in 0..(n + 1)
    <2> HAVE i <= j
    <2>1. CASE j \in 0..n
      BY <1>1, <1>2, <1>4, <2>1
    <2>2. CASE j = n + 1 /\ i \in 0..n
      <3>1. B[i] <= B[n]
        BY <1>1, <1>4, <2>2
      <3> QED
        BY <1>1, <1>2, <1>3, <1>4, <2>2, <3>1
    <2>3. CASE j = n + 1 /\ i = n + 1
      BY <1>2, <1>3, <2>3
    <2> QED
      BY <1>1, <2>1, <2>2, <2>3
  <1>9. Count(D)'
    <2>1. Len(calls') = n + 1
      BY <1>1
    <2>2. (\A i \in 1..Len(calls) : D[i] = D[i - 1] + Barriers(calls[i]))'
      BY <1>6, <2>1
    <2>3. (\A i \in 0..Len(calls) : D[i] \in Nat)'
      BY <1>7, <2>1
    <2>4. (\A i, j \in 0..Len(calls) : i <= j => D[i] <= D[j])'
      BY <1>8, <2>1
    <2> QED
      BY <1>5, <2>2, <2>3, <2>4 DEF Count
  <1> QED
    BY <1>2, <1>9 DEF n

\* The steps in which a call does its work.
Works == {"allocate", "release", "resize", "split", "rows", "columns", "destroy"}

\* What a step of PE p makes of its own numbers.
LEMMA OwnNumbers ==
  ASSUME Shape, NEW B, Count(B), NEW p \in PE, step[p] # 0,
         calls' = calls, pos' = pos, Advance(p)
  PROVE  /\ At(p, "arrive") =>
              ComeTo(B, p)' = ComeTo(B, p) + 1 /\ GoneFrom(B, p)' = GoneFrom(B, p)
         /\ At(p, "leave") =>
              ComeTo(B, p)' = ComeTo(B, p) /\ GoneFrom(B, p)' = ComeTo(B, p)
         /\ (\E x \in Works : At(p, x)) =>
              ComeTo(B, p)' = ComeTo(B, p) /\ GoneFrom(B, p)' = GoneFrom(B, p)
PROOF
  <1>1. PICK c, s, n : c = Call(p) /\ s = step[p] /\ n = pos[p]
    OBVIOUS
  <1>2. /\ n \in 1..Len(calls) /\ c = calls[n] /\ ~Void(c) /\ IsCall(c)
        /\ s \in Nat /\ s # 0
    BY <1>1, WhereIs DEF Shape
  <1>3. B[n] = B[n - 1] + Barriers(c) /\ B[n - 1] \in Nat /\ Barriers(c) \in Nat
    <2>1. Barriers(c) \in Nat
      BY <1>2, BarriersOf
    <2>2. n - 1 \in 0..Len(calls)
      BY <1>2
    <2> QED
      BY <1>2, <2>1, <2>2 DEF Count
  <1>4. PICK t : t = step'[p]
    OBVIOUS
  <1>5. Call(p)' = c /\ pos'[p] = n
    BY <1>1 DEF Call
  <1>6. /\ ComeTo(B, p) = B[n - 1] + Came(c, s)
        /\ GoneFrom(B, p) = B[n - 1] + Left(c, s)
        /\ ComeTo(B, p)' = IF t = 0 THEN B[n] ELSE B[n - 1] + Came(c, t)
        /\ GoneFrom(B, p)' = IF t = 0 THEN B[n] ELSE B[n - 1] + Left(c, t)
    <2>1. ComeTo(B, p) = B[n - 1] + Came(c, s) /\ GoneFrom(B, p) = B[n - 1] + Left(c, s)
      BY <1>1 DEF ComeTo, GoneFrom
    <2>2. ComeTo(B, p)' = IF t = 0 THEN B[n] ELSE B[n - 1] + Came(c, t)
      BY <1>4, <1>5 DEF ComeTo, Came
    <2>3. GoneFrom(B, p)' = IF t = 0 THEN B[n] ELSE B[n - 1] + Left(c, t)
      BY <1>4, <1>5 DEF GoneFrom, Left
    <2> QED
      BY <2>1, <2>2, <2>3
  <1>7. /\ t = IF s = Len(Steps(p, c)) THEN 0 ELSE s + 1
        /\ Len(Steps(p, c)) = IF c.kind \in {"malloc", "free"} THEN 3
              ELSE IF c.kind = "realloc" THEN 5
              ELSE IF c.kind = "strided" THEN (IF SyncAfterSplit THEN 3 ELSE 1)
              ELSE IF c.kind = "grid" THEN (IF SyncAfterSplit THEN 4 ELSE 2) ELSE 1
    <2>1. t = IF s = Len(Steps(p, c)) THEN 0 ELSE s + 1
      BY <1>1, <1>4 DEF Advance, Shape
    <2> QED
      BY <1>1, <2>1, WhereIs
  <1>8. At(p, "arrive") =>
              ComeTo(B, p)' = ComeTo(B, p) + 1 /\ GoneFrom(B, p)' = GoneFrom(B, p)
    <2>1. At(p, "arrive") =>
              \/ c.kind = "malloc" /\ s = 2
              \/ c.kind = "free" /\ s = 1
              \/ c.kind = "realloc" /\ s \in {1, 4}
              \/ c.kind = "strided" /\ s = 2 /\ SyncAfterSplit
              \/ c.kind = "grid" /\ s = 3 /\ SyncAfterSplit
      BY <1>1, WhereIs
    <2>2. At(p, "arrive") => t = s + 1 /\ Came(c, t) = Came(c, s) + 1 /\ Left(c, t) = Left(c, s)
      BY <1>2, <1>7, <2>1 DEF Came, Left
    <2>3. Came(c, s) \in Nat
      BY <1>2, BarriersOf
    <2>4. At(p, "arrive") => t # 0
      BY <1>2, <2>2
    <2>5. At(p, "arrive") => ComeTo(B, p)' = B[n - 1] + (Came(c, s) + 1)
      BY <1>6, <2>2, <2>4
    <2>6. At(p, "arrive") => GoneFrom(B, p)' = GoneFrom(B, p)
      BY <1>6, <2>2, <2>4
    <2>7. ComeTo(B, p) = B[n - 1] + Came(c, s)
      BY <1>6
    <2> QED
      BY <1>3, <2>3, <2>5, <2>6, <2>7
  <1>9. At(p, "leave") =>
              ComeTo(B, p)' = ComeTo(B, p) /\ GoneFrom(B, p)' = ComeTo(B, p)
    <2>1. At(p, "leave") =>
              \/ c.kind = "malloc" /\ s = 3
              \/ c.kind = "free" /\ s = 2
              \/ c.kind = "realloc" /\ s \in {2, 5}
              \/ c.kind = "strided" /\ s = 3 /\ SyncAfterSplit
              \/ c.kind = "grid" /\ s = 4 /\ SyncAfterSplit
      BY <1>1, WhereIs
    <2> QED
      BY <1>2, <1>3, <1>6, <1>7, <2>1 DEF Came, Left, Barriers
  <1>10. (\E x \in Works : At(p, x)) =>
           ComeTo(B, p)' = ComeTo(B, p) /\ GoneFrom(B, p)' = GoneFrom(B, p)
    <2>1. (\E x \in Works : At(p, x)) =>
            \/ c.kind = "malloc" /\ s = 1
            \/ c.kind \in {"free", "realloc"} /\ s = 3
            \/ c.kind = "strided" /\ s = 1
            \/ c.kind = "grid" /\ s \in {1, 2}
            \/ c.kind = "destroy" /\ s = 1
      BY <1>1, WhereIs DEF Works
    <2> QED
      BY <1>2, <1>3, <1>6, <1>7, <2>1 DEF Came, Left, Barriers
  <1> QED
    BY <1>8, <1>9, <1>10

\* The barriers a PE has come to and left are numbers, and in order.
LEMMA Numbers ==
  ASSUME Shape, NEW B, Count(B), NEW p \in PE
  PROVE  /\ ComeTo(B, p) \in Nat /\ GoneFrom(B, p) \in Nat
         /\ ComeTo(B, p) <= B[pos[p]]
         /\ step[p] # 0 => /\ pos[p] \in 1..Len(calls)
                           /\ B[pos[p] - 1] <= GoneFrom(B, p)
         /\ B[pos[p]] \in Nat
PROOF
  <1>1. pos[p] \in 0..Len(calls) /\ B[pos[p]] \in Nat /\ step[p] \in Nat
    BY LenProperties DEF Shape, Count
  <1>2. CASE step[p] = 0
    BY <1>1, <1>2 DEF ComeTo, GoneFrom
  <1>3. CASE step[p] # 0
    <2>1. PICK c, s, n : c = Call(p) /\ s = step[p] /\ n = pos[p]
      OBVIOUS
    <2>2. n \in 1..Len(calls) /\ c = calls[n] /\ ~Void(c) /\ IsCall(c)
      BY <1>3, <2>1, WhereIs
    <2>3. n - 1 \in 0..Len(calls)
      BY <2>2
    <2>4. B[n] = B[n - 1] + Barriers(c) /\ B[n - 1] \in Nat
      BY <2>2, <2>3 DEF Count
    <2>5. Barriers(c) \in Nat /\ Came(c, s) \in Nat /\ Left(c, s) \in Nat
      BY <1>1, <2>1, <2>2, BarriersOf
    <2>6. ComeTo(B, p) = B[n - 1] + Came(c, s) /\ GoneFrom(B, p) = B[n - 1] + Left(c, s)
      BY <1>3, <2>1 DEF ComeTo, GoneFrom
    <2>7. Came(c, s) <= Barriers(c)
      <3>1. c.kind = "strided" /\ ~SyncAfterSplit => s <= 1
        BY <1>3, <2>1, WhereIs DEF Shape
      <3>2. c.kind = "grid" /\ ~SyncAfterSplit => s <= 2
        BY <1>3, <2>1, WhereIs DEF Shape
      <3> QED
        BY <1>1, <2>1, <2>2, <3>1, <3>2 DEF Came, Barriers, IsCall, Kind
    <2> QED
      BY <1>1, <2>1, <2>2, <2>4, <2>5, <2>6, <2>7
  <1> QED
    BY <1>2, <1>3

\* A count of more calls counts these as well.
LEMMA Recounted ==
  ASSUME Shape, NEW B, Count(B), Counted(B), NEW D, \A i \in 0..Len(calls) : D[i] = B[i]
  PROVE  Count(D) /\ Counted(D)
PROOF
  <1>1. Len(calls) \in Nat /\ \A p \in PE : pos[p] \in 0..Len(calls)
    BY LenProperties DEF Shape
  <1>2. Count(D)
    BY <1>1 DEF Count
  <1>3. ASSUME NEW p \in PE
        PROVE  ComeTo(D, p) = ComeTo(B, p) /\ GoneFrom(D, p) = GoneFrom(B, p)
    <2>1. D[pos[p]] = B[pos[p]]
      BY <1>1
    <2>2. step[p] # 0 => D[pos[p] - 1] = B[pos[p] - 1]
      BY <1>1 DEF Shape
    <2> QED
      BY <2>1, <2>2 DEF ComeTo, GoneFrom
  <1> QED
    BY <1>2, <1>3 DEF Counted

\* A PE that stays where it is has come to as many barriers as before.
LEMMA OthersNumbers ==
  ASSUME NEW B, NEW q, pos'[q] = pos[q], step'[q] = step[q],
         step[q] # 0 => Call(q)' = Call(q)
  PROVE  ComeTo(B, q)' = ComeTo(B, q) /\ GoneFrom(B, q)' = GoneFrom(B, q)
  BY DEF ComeTo, GoneFrom, Came, Left

\* One PE comes to a barrier or leaves one.
LEMMA Recount ==
  ASSUME Shape, NEW B, Count(B), Counted(B), NEW p \in PE, arrived' \in [PE -> Nat],
         \A q \in PE : q # p => /\ arrived'[q] = arrived[q]
                                /\ ComeTo(B, q)' = ComeTo(B, q)
                                /\ GoneFrom(B, q)' = GoneFrom(B, q),
         arrived'[p] = ComeTo(B, p)', arrived[p] <= arrived'[p],
         GoneFrom(B, p)' \in Nat, \A q \in PE : GoneFrom(B, p)' <= arrived[q]
  PROVE  Counted(B)'
PROOF
  <1>1. \A q \in PE : /\ arrived[q] \in Nat /\ arrived'[q] \in Nat /\ arrived[q] <= arrived'[q]
                      /\ GoneFrom(B, q) \in Nat
    BY Numbers DEF Counted
  <1>2. \A q \in PE : arrived'[q] = ComeTo(B, q)'
    BY DEF Counted
  <1>3. \A r, q \in PE : GoneFrom(B, r)' <= arrived[q]
    BY DEF Counted
  <1>4. \A r \in PE : GoneFrom(B, r)' \in Nat
    BY <1>1
  <1>5. \A r, q \in PE : GoneFrom(B, r)' <= arrived'[q]
    BY <1>1, <1>3, <1>4
  <1> QED
    BY <1>2, <1>5 DEF Counted

\* The beginning of a call is not the beginning of its barriers.
LEMMA EntersNumbers ==
  ASSUME Shape, NEW B, Count(B)', NEW p \in PE, step[p] = 0,
         NEW n, n = pos[p] + 1, n \in 1..Len(calls'),
         NEW c, c = calls'[n], IsCall(c), Enter(p, c)
  PROVE  ComeTo(B, p)' = ComeTo(B, p) /\ GoneFrom(B, p)' = GoneFrom(B, p)
PROOF
  <1>1. /\ pos[p] \in Nat
        /\ pos'[p] = n /\ step'[p] = IF Steps(p, c) # <<>> THEN 1 ELSE 0
    BY DEF Enter, Shape
  <1>2. Call(p)' = c
    BY <1>1 DEF Call
  <1>3. ComeTo(B, p) = B[n - 1] /\ GoneFrom(B, p) = B[n - 1]
    BY <1>1 DEF ComeTo, GoneFrom
  <1>4. B[n] = B[n - 1] + Barriers(c) /\ B[n - 1] \in Nat
    <2>1. n - 1 \in 0..Len(calls')
      OBVIOUS
    <2>2. B[n - 1] \in Nat
      BY <2>1 DEF Count
    <2>3. B[n] = B[n - 1] + Barriers(c)
      BY DEF Count, Barriers, Void
    <2> QED
      BY <2>2, <2>3
  <1>5. CASE Steps(p, c) = <<>>
    <2>1. Void(c) \/ c.kind = "destroy"
      BY <1>5, Begins DEF Shape
    <2>2. Barriers(c) = 0
      BY <2>1 DEF Barriers
    <2> QED
      BY <1>1, <1>3, <1>4, <1>5, <2>2 DEF ComeTo, GoneFrom
  <1>6. CASE Steps(p, c) # <<>>
    <2>1. Came(c, 1) = 0 /\ Left(c, 1) = 0
      BY DEF Came, Left
    <2>2. ComeTo(B, p)' = B[n - 1] + Came(c, 1)
      BY <1>1, <1>2, <1>6 DEF ComeTo, Came
    <2>3. GoneFrom(B, p)' = B[n - 1] + Left(c, 1)
      BY <1>1, <1>2, <1>6 DEF GoneFrom, Left
    <2> QED
      BY <1>3, <1>4, <2>1, <2>2, <2>3
  <1> QED
    BY <1>5, <1>6

\* What a step of the system does to the calls: none, or one more.
LEMMA CallsStay ==
  ASSUME Nested = FALSE, Shape, NEW H, Chain(H), Images(H), [Next]_vars
  PROVE  \/ calls' = calls
         \/ \E c \in CallSet, p \in PE :
              IsCall(c) /\ calls' = Append(calls, c) /\ step[p] = 0 /\ pos[p] = Len(calls) /\ Enter(p, c)
PROOF
  <1>1. ASSUME NEW p \in PE, Lead(p)
        PROVE  \E c \in CallSet : /\ IsCall(c) /\ calls' = Append(calls, c)
                                  /\ step[p] = 0 /\ pos[p] = Len(calls) /\ Enter(p, c)
    BY <1>1, CallsAreCalls DEF Lead
  <1>2. ASSUME NEW p \in PE,
               \/ Follow(p) \/ Allocate(p) \/ Release(p) \/ Resize(p) \/ Split(p)
               \/ SplitRows(p) \/ SplitColumns(p) \/ Destroy(p) \/ Arrive(p) \/ Leave(p)
        PROVE  calls' = calls
    BY <1>2 DEF Follow, Allocate, Release, Resize, Split, SplitRows, SplitColumns,
       Destroy, Arrive, Leave, Create, AllocateWorkArrays
  <1>3. ASSUME \/ \E p, q \in PE : \E k \in DOMAIN heap[p] : Put(p, q, k)
               \/ \E o \in net : Land(o)
               \/ UNCHANGED vars
        PROVE  calls' = calls
    BY <1>3 DEF Put, Land, vars
  <1> QED
    BY <1>1, <1>2, <1>3 DEF Next, Done

\* What a step of PE p is: the beginning of a call, a step of it, or neither.
LEMMA StepsOfOne ==
  ASSUME Nested = FALSE, Shape, NEW H, Chain(H), Images(H), [Next]_vars
  PROVE  \/ UNCHANGED <<calls, pos, step, arrived, team>>
         \/ \E p \in PE :
              /\ net' = net
              /\ step[p] = 0
              /\ pos[p] + 1 \in 1..Len(calls') /\ IsCall(calls'[pos[p] + 1])
              /\ Enter(p, calls'[pos[p] + 1])
         \/ \E p \in PE :
              /\ net' = net /\ calls' = calls /\ pos' = pos /\ step[p] # 0 /\ Advance(p)
              /\ \/ At(p, "arrive") /\ Arrive(p)
                 \/ At(p, "leave") /\ Leave(p)
                 \/ (\E x \in Works : At(p, x)) /\ arrived' = arrived
PROOF
  <1>0. calls \in Seq(CallSet) /\ Len(calls) \in Nat
    BY LenProperties DEF Shape
  <1>1. ASSUME NEW p \in PE, Lead(p)
        PROVE  /\ net' = net
               /\ step[p] = 0
               /\ pos[p] + 1 \in 1..Len(calls') /\ IsCall(calls'[pos[p] + 1])
               /\ Enter(p, calls'[pos[p] + 1])
    <2>1. PICK c \in Calls(p) : calls' = Append(calls, c) /\ Enter(p, c)
      BY <1>1 DEF Lead
    <2>2. c \in CallSet /\ IsCall(c)
      BY CallsAreCalls
    <2>3. step[p] = 0 /\ pos[p] = Len(calls)
      BY <1>1 DEF Lead
    <2>4. Len(calls') = Len(calls) + 1 /\ calls'[Len(calls) + 1] = c
      BY <1>0, <2>1, <2>2, AppendProperties
    <2>5. net' = net
      BY <2>1 DEF Enter
    <2> QED
      BY <1>0, <2>1, <2>2, <2>3, <2>4, <2>5
  <1>2. ASSUME NEW p \in PE, Follow(p)
        PROVE  /\ net' = net
               /\ step[p] = 0
               /\ pos[p] + 1 \in 1..Len(calls') /\ IsCall(calls'[pos[p] + 1])
               /\ Enter(p, calls'[pos[p] + 1])
    BY <1>0, <1>2 DEF Follow, Enter, Shape
  <1>3. ASSUME NEW p \in PE, Arrive(p) \/ Leave(p)
        PROVE  /\ net' = net /\ calls' = calls /\ pos' = pos /\ step[p] # 0 /\ Advance(p)
               /\ \/ At(p, "arrive") /\ Arrive(p)
                  \/ At(p, "leave") /\ Leave(p)
    BY <1>3 DEF Arrive, Leave, At
  <1>4. ASSUME NEW p \in PE,
               \/ Allocate(p) \/ Release(p) \/ Resize(p) \/ Split(p)
               \/ SplitRows(p) \/ SplitColumns(p) \/ Destroy(p)
        PROVE  /\ net' = net /\ calls' = calls /\ pos' = pos /\ step[p] # 0 /\ Advance(p)
               /\ (\E x \in Works : At(p, x)) /\ arrived' = arrived
    BY <1>4 DEF Allocate, Release, Resize, Split, SplitRows, SplitColumns,
       Destroy, Create, AllocateWorkArrays, At, Works
  <1>5. ASSUME \/ \E p, q \in PE : \E k \in DOMAIN heap[p] : Put(p, q, k)
               \/ \E o \in net : Land(o)
               \/ UNCHANGED vars
        PROVE  UNCHANGED <<calls, pos, step, arrived, team>>
    BY <1>5 DEF Put, Land, vars
  <1> QED
    BY <1>1, <1>2, <1>3, <1>4, <1>5 DEF Next, Done

\* Every step keeps the count of the barriers.
LEMMA CountedStep ==
  ASSUME Nested = FALSE, Shape, NEW H, Chain(H), Images(H), [Next]_vars,
         NEW B, Count(B), Count(B)', Counted(B),
         \A i \in 1..Len(calls) : calls'[i] = calls[i]
  PROVE  Counted(B)'
PROOF
  <1>1. \A q \in PE : /\ arrived[q] \in Nat /\ arrived[q] = ComeTo(B, q)
                      /\ ComeTo(B, q) \in Nat /\ GoneFrom(B, q) \in Nat
    BY Numbers DEF Counted
  <1>2. ASSUME NEW q \in PE, pos'[q] = pos[q], step'[q] = step[q]
        PROVE  ComeTo(B, q)' = ComeTo(B, q) /\ GoneFrom(B, q)' = GoneFrom(B, q)
    <2>1. step[q] # 0 => pos[q] \in 1..Len(calls)
      BY WhereIs
    <2>2. step[q] # 0 => Call(q)' = Call(q)
      BY <1>2, <2>1 DEF Call
    <2> QED
      BY <1>2, <2>2, OthersNumbers
  <1>3. CASE UNCHANGED <<calls, pos, step, arrived, team>>
    <2>1. \A q \in PE : ComeTo(B, q)' = ComeTo(B, q) /\ GoneFrom(B, q)' = GoneFrom(B, q)
      BY <1>2, <1>3
    <2> QED
      BY <1>3, <2>1 DEF Counted
  <1>4. ASSUME NEW p \in PE, step[p] = 0, pos[p] + 1 \in 1..Len(calls'),
               IsCall(calls'[pos[p] + 1]), Enter(p, calls'[pos[p] + 1])
        PROVE  Counted(B)'
    <2>1. /\ arrived' = arrived
          /\ \A q \in PE : q # p => pos'[q] = pos[q] /\ step'[q] = step[q]
      BY <1>4 DEF Enter, Shape
    <2>2. ComeTo(B, p)' = ComeTo(B, p) /\ GoneFrom(B, p)' = GoneFrom(B, p)
      BY <1>4, EntersNumbers
    <2>3. \A q \in PE : GoneFrom(B, p)' <= arrived[q]
      BY <2>2 DEF Counted
    <2>4. arrived' \in [PE -> Nat] /\ arrived'[p] = ComeTo(B, p)' /\ arrived[p] <= arrived'[p]
      BY <1>1, <2>1, <2>2 DEF Counted
    <2>5. \A q \in PE : q # p => /\ arrived'[q] = arrived[q]
                                 /\ ComeTo(B, q)' = ComeTo(B, q)
                                 /\ GoneFrom(B, q)' = GoneFrom(B, q)
      BY <1>2, <2>1
    <2> QED
      BY <1>1, <2>2, <2>3, <2>4, <2>5, Recount
  <1>5. ASSUME NEW p \in PE, calls' = calls, pos' = pos, step[p] # 0, Advance(p),
               \/ At(p, "arrive") /\ Arrive(p)
               \/ At(p, "leave") /\ Leave(p)
               \/ (\E x \in Works : At(p, x)) /\ arrived' = arrived
        PROVE  Counted(B)'
    <2>1. \A q \in PE : q # p => pos'[q] = pos[q] /\ step'[q] = step[q]
      BY <1>5 DEF Advance, Shape
    <2>2. \A q \in PE : q # p => /\ ComeTo(B, q)' = ComeTo(B, q)
                                 /\ GoneFrom(B, q)' = GoneFrom(B, q)
      BY <1>2, <2>1
    <2>3. arrived \in [PE -> Nat] /\ \A q \in PE : GoneFrom(B, p) <= arrived[q]
      BY DEF Counted
    <2>4. CASE At(p, "arrive") /\ Arrive(p)
      <3>1. arrived' = [arrived EXCEPT ![p] = @ + 1]
        BY <2>4 DEF Arrive
      <3>2. ComeTo(B, p)' = ComeTo(B, p) + 1 /\ GoneFrom(B, p)' = GoneFrom(B, p)
        BY <1>5, <2>4, OwnNumbers
      <3>3. /\ arrived' \in [PE -> Nat] /\ arrived'[p] = ComeTo(B, p)' /\ arrived[p] <= arrived'[p]
            /\ \A q \in PE : q # p => arrived'[q] = arrived[q]
        BY <1>1, <2>3, <3>1, <3>2
      <3> QED
        BY <1>1, <2>2, <2>3, <3>2, <3>3, Recount
    <2>5. CASE At(p, "leave") /\ Leave(p)
      <3>1. arrived' = arrived /\ \A q \in PE : arrived[q] >= arrived[p]
        BY <2>5 DEF Leave
      <3>2. ComeTo(B, p)' = ComeTo(B, p) /\ GoneFrom(B, p)' = ComeTo(B, p)
        BY <1>5, <2>5, OwnNumbers
      <3>3. /\ arrived' \in [PE -> Nat] /\ arrived'[p] = ComeTo(B, p)' /\ arrived[p] <= arrived'[p]
            /\ \A q \in PE : GoneFrom(B, p)' <= arrived[q]
        BY <1>1, <2>3, <3>1, <3>2
      <3> QED
        BY <1>1, <2>2, <3>1, <3>2, <3>3, Recount
    <2>6. CASE (\E x \in Works : At(p, x)) /\ arrived' = arrived
      <3>1. ComeTo(B, p)' = ComeTo(B, p) /\ GoneFrom(B, p)' = GoneFrom(B, p)
        BY <1>5, <2>6, OwnNumbers
      <3>2. arrived' \in [PE -> Nat] /\ arrived'[p] = ComeTo(B, p)' /\ arrived[p] <= arrived'[p]
        BY <1>1, <2>3, <2>6, <3>1
      <3> QED
        BY <1>1, <2>2, <2>3, <2>6, <3>1, <3>2, Recount
    <2> QED
      BY <1>5, <2>4, <2>5, <2>6
  <1> QED
    BY <1>3, <1>4, <1>5, StepsOfOne

\* A put stays underway.
LEMMA UnderwayStays ==
  ASSUME Shape, NEW H, NEW G, \A i \in 0..Len(calls) : G[i] = H[i],
         NEW o, Underway(H, o), NEW p \in PE, o.from = p,
         Len(calls) <= Len(calls'), Len(calls') \in Nat,
         \A i \in 1..Len(calls) : calls'[i] = calls[i],
         \/ pos'[p] = pos[p] /\ step'[p] = step[p]
         \/ /\ pos'[p] = pos[p] /\ step[p] # 0
            /\ \A e \in 1..pos[p] : ~Ends(calls[e], o.of)
         \/ /\ step[p] = 0 /\ pos'[p] = pos[p] + 1
            /\ Ends(calls'[pos[p] + 1], o.of) => step'[p] = 1
  PROVE  Underway(G, o)'
PROOF
  <1>1. PICK k : k = o.of
    OBVIOUS
  <1>2. /\ o.to \in PE /\ k \in Key
        /\ k[1] < pos[p] \/ (k[1] = pos[p] /\ step[p] = 0)
        /\ k \in DOMAIN H[k[1]] /\ H[k[1]][k].at = o.at
        /\ \A e \in 1..pos[p] : Ends(calls[e], k) => e = pos[p] /\ step[p] = 1
    BY <1>1 DEF Underway
  <1>3. k[1] \in Nat /\ pos[p] \in Nat /\ pos[p] <= Len(calls) /\ Len(calls) \in Nat
    BY <1>2, LenProperties DEF Key, Shape
  <1>4. G[k[1]] = H[k[1]]
    <2>1. k[1] \in 0..Len(calls)
      BY <1>2, <1>3
    <2> QED
      BY <2>1
  <1>5. \A e \in 1..pos[p] : calls'[e] = calls[e]
    BY <1>3
  <1>6. k[1] < pos'[p] \/ (k[1] = pos'[p] /\ step'[p] = 0)
    BY <1>2, <1>3
  <1>7. \A e \in 1..pos'[p] : Ends(calls'[e], k) => e = pos'[p] /\ step'[p] = 1
    <2>1. CASE pos'[p] = pos[p] /\ step'[p] = step[p]
      BY <1>2, <1>5, <2>1
    <2>2. CASE pos'[p] = pos[p] /\ \A e \in 1..pos[p] : ~Ends(calls[e], o.of)
      BY <1>1, <1>5, <2>2
    <2>3. CASE /\ step[p] = 0 /\ pos'[p] = pos[p] + 1
               /\ Ends(calls'[pos[p] + 1], o.of) => step'[p] = 1
      <3> TAKE e \in 1..pos'[p]
      <3>1. e \in 1..pos[p] \/ e = pos[p] + 1
        BY <1>3, <2>3
      <3>2. e \in 1..pos[p] => ~Ends(calls'[e], k)
        BY <1>2, <1>5, <2>3
      <3> QED
        BY <1>1, <2>3, <3>1, <3>2
    <2> QED
      BY <2>1, <2>2, <2>3
  <1>8. (\A e \in 1..pos[p] : Ends(calls[e], k) => e = pos[p] /\ step[p] = 1)'
    BY <1>7 DEF Ends, Void
  <1> QED
    BY <1>1, <1>2, <1>4, <1>6, <1>8 DEF Underway

\* What a step does to the puts on their way: there is one more, or none.
LEMMA NetStep ==
  ASSUME [Next]_vars
  PROVE  \/ \A o \in net' : o \in net
         \/ \E p \in PE, q \in PE : \E k \in DOMAIN heap[p] : Put(p, q, k)
PROOF
  <1>1. ASSUME NEW p \in PE,
               \/ Lead(p) \/ Follow(p) \/ Allocate(p) \/ Release(p) \/ Resize(p) \/ Split(p)
               \/ SplitRows(p) \/ SplitColumns(p) \/ Destroy(p) \/ Arrive(p) \/ Leave(p)
        PROVE  net' = net
    BY <1>1 DEF Lead, Follow, Enter, Allocate, Release, Resize, Split, SplitRows,
       SplitColumns, Destroy, Arrive, Leave, Create, AllocateWorkArrays
  <1>2. ASSUME (\E o \in net : Land(o)) \/ UNCHANGED vars
        PROVE  \A o \in net' : o \in net
    BY <1>2 DEF Land, vars
  <1> QED
    BY <1>1, <1>2 DEF Next, Done

\* Every step keeps what is known of the puts on their way.
LEMMA PutsStep ==
  ASSUME Nested = FALSE, Shape, NEW H, Chain(H), Images(H), [Next]_vars,
         NEW G, \A i \in 0..Len(calls) : G[i] = H[i], Puts(H),
         Len(calls) <= Len(calls'), Len(calls') \in Nat,
         \A i \in 1..Len(calls) : calls'[i] = calls[i]
  PROVE  Puts(G)'
PROOF
  <1>1. Len(calls) \in Nat /\ \A p \in PE : pos[p] \in 0..Len(calls)
    BY LenProperties DEF Shape
  <1>2. ASSUME NEW o \in net, UNCHANGED <<calls, pos, step, arrived, team>>
        PROVE  Underway(G, o)'
    <2>1. Underway(H, o)
      BY DEF Puts
    <2>2. PICK p : p = o.from
      OBVIOUS
    <2>3. p \in PE
      BY <2>1, <2>2 DEF Underway
    <2> QED
      BY <1>2, <2>1, <2>2, <2>3, UnderwayStays
  <1>3. ASSUME NEW o \in net, NEW p \in PE, step[p] = 0, pos[p] + 1 \in 1..Len(calls'),
               IsCall(calls'[pos[p] + 1]), Enter(p, calls'[pos[p] + 1])
        PROVE  Underway(G, o)'
    <2>1. PICK q, c : q = o.from /\ c = calls'[pos[p] + 1]
      OBVIOUS
    <2>2. Underway(H, o) /\ q \in PE
      BY <2>1 DEF Puts, Underway
    <2>3. /\ pos'[p] = pos[p] + 1 /\ (Steps(p, c) # <<>> => step'[p] = 1)
          /\ q # p => pos'[q] = pos[q] /\ step'[q] = step[q]
      BY <1>3, <2>1, <2>2 DEF Enter, Shape
    <2>4. Ends(c, o.of) => step'[p] = 1
      <3>1. Ends(c, o.of) => ~Void(c) /\ c.kind # "destroy"
        BY DEF Ends
      <3> QED
        BY <1>3, <2>1, <2>3, <3>1, Begins DEF Shape
    <2> QED
      BY <1>3, <2>1, <2>2, <2>3, <2>4, UnderwayStays
  <1>4. ASSUME NEW o \in net, NEW p \in PE, calls' = calls, pos' = pos, step[p] # 0, Advance(p),
               \/ At(p, "arrive") /\ Arrive(p)
               \/ At(p, "leave") /\ Leave(p)
               \/ (\E x \in Works : At(p, x)) /\ arrived' = arrived
        PROVE  Underway(G, o)'
    <2>1. PICK q : q = o.from
      OBVIOUS
    <2>2. Underway(H, o) /\ q \in PE
      BY <2>1 DEF Puts, Underway
    <2>3. CASE q # p
      <3>1. pos'[q] = pos[q] /\ step'[q] = step[q]
        BY <1>4, <2>2, <2>3 DEF Advance, Shape
      <3> QED
        BY <2>1, <2>2, <3>1, UnderwayStays
    <2>4. CASE q = p
      <3>1. ASSUME NEW e \in 1..pos[p], Ends(calls[e], o.of) PROVE FALSE
        <4>1. e = pos[p] /\ step[p] = 1
          BY <2>1, <2>2, <2>4, <3>1 DEF Underway
        <4>2. Call(p) = calls[e] /\ Call(p).kind \in {"free", "realloc"}
          BY <3>1, <4>1 DEF Call, Ends
        <4>3. ~At(p, "leave")
          BY <1>4, <4>1, <4>2, WhereIs
        <4>4. \A x \in Works : ~At(p, x)
          BY <1>4, <4>1, <4>2, WhereIs DEF Works
        <4>5. Arrive(p)
          BY <1>4, <4>3, <4>4
        <4> QED
          BY <2>1, <2>4, <4>5 DEF Arrive
      <3> QED
        BY <1>4, <2>1, <2>2, <2>4, <3>1, UnderwayStays
    <2> QED
      BY <2>3, <2>4
  <1>5. ASSUME NEW o \in net PROVE Underway(G, o)'
    BY <1>2, <1>3, <1>4, StepsOfOne
  <1>6. ASSUME NEW p \in PE, NEW q \in PE, NEW k \in DOMAIN heap[p], Put(p, q, k)
        PROVE  Puts(G)'
    <2>1. PICK o : o = [from |-> p, to |-> q, of |-> k, at |-> heap[p][k].at]
      OBVIOUS
    <2>2. /\ net' = net \cup {o} /\ UNCHANGED <<calls, pos, step, heap>>
          /\ step[p] = 0 /\ Has(p, k)
      BY <1>6, <2>1 DEF Put
    <2>3. heap[p] = H[pos[p]]
      BY <2>2 DEF Images, Image, Complete
    <2>4. k \in Key /\ k[1] <= pos[p]
      BY <1>1, <2>3 DEF Chain
    <2>5. k[1] \in 0..Len(calls) /\ k[1] \in Nat /\ pos[p] \in Nat
      BY <1>1, <2>4 DEF Key
    <2>6. k \in DOMAIN H[k[1]] /\ H[k[1]][k] = heap[p][k]
      BY <1>1, <2>3, <2>4, <2>5 DEF Chain
    <2>7. \A e \in 1..pos[p] : ~Ends(calls[e], k)
      BY <2>2 DEF Has, Ends
    <2>8. G[k[1]] = H[k[1]]
      BY <2>5
    <2>9. Underway(G, o)'
      <3>1. o.from = p /\ o.to = q /\ o.of = k /\ o.at = heap[p][k].at
        BY <2>1
      <3>2. (\A e \in 1..pos[p] : Ends(calls[e], k) => e = pos[p] /\ step[p] = 1)'
        BY <2>2, <2>7 DEF Ends, Void
      <3>3. k[1] < pos[p] \/ (k[1] = pos[p] /\ step[p] = 0)
        BY <2>2, <2>4, <2>5
      <3> QED
        BY <2>2, <2>4, <2>6, <2>8, <3>1, <3>2, <3>3 DEF Underway
    <2> QED
      BY <1>5, <2>2, <2>9 DEF Puts
  <1>7. CASE \A o \in net' : o \in net
    BY <1>5, <1>7 DEF Puts
  <1>8. \/ \A o \in net' : o \in net
        \/ \E p \in PE, q \in PE : \E k \in DOMAIN heap[p] : Put(p, q, k)
    BY NetStep
  <1> QED
    BY <1>6, <1>7, <1>8

\* A call that makes an object and ends with a barrier.
Makes(c) ==
  /\ ~Void(c)
  /\ c.kind \in {"malloc", "realloc"} \/ (c.kind \in {"strided", "grid"} /\ SyncAfterSplit)

\* A PE that has come to all the barriers of the calls up to one that makes an
\* object has made it.
LEMMA MadeBefore ==
  ASSUME Shape, NEW H, Chain(H), Images(H), NEW B, Count(B), Counted(B),
         NEW q \in PE, NEW j \in 0..Len(calls), B[j] <= arrived[q],
         j >= 1 => Makes(calls[j])
  PROVE  \E m \in 0..Len(calls) :
           /\ j <= m /\ m <= pos[q]
           /\ m = pos[q] => Complete(q)
           /\ \A k \in DOMAIN H[m] : k \in DOMAIN heap[q] /\ heap[q][k] = H[m][k]
PROOF
  <1>1. /\ Len(calls) \in Nat /\ pos[q] \in 0..Len(calls) /\ step[q] \in Nat
        /\ arrived[q] = ComeTo(B, q) /\ ComeTo(B, q) \in Nat /\ ComeTo(B, q) <= B[pos[q]]
        /\ B[pos[q]] \in Nat /\ B[j] \in Nat
    <2>1. Len(calls) \in Nat /\ pos[q] \in 0..Len(calls) /\ step[q] \in Nat
      BY LenProperties DEF Shape
    <2>2. ComeTo(B, q) \in Nat /\ ComeTo(B, q) <= B[pos[q]] /\ B[pos[q]] \in Nat
      BY Numbers
    <2>3. arrived[q] = ComeTo(B, q) /\ B[j] \in Nat
      BY DEF Counted, Count
    <2> QED
      BY <2>1, <2>2, <2>3
  <1>2. j <= pos[q]
    <2>1. SUFFICES ASSUME pos[q] < j PROVE FALSE
      BY <1>1
    <2>2. j \in 1..Len(calls) /\ j - 1 \in 0..Len(calls) /\ pos[q] <= j - 1
      BY <1>1, <2>1
    <2>3. B[pos[q]] <= B[j - 1] /\ B[j] = B[j - 1] + Barriers(calls[j]) /\ B[j - 1] \in Nat
      BY <1>1, <2>2 DEF Count
    <2>4. Barriers(calls[j]) >= 1 /\ Barriers(calls[j]) \in Nat
      BY <2>2 DEF Makes, Barriers
    <2> QED
      BY <1>1, <2>3, <2>4
  <1>3. CASE Complete(q)
    <2>1. heap[q] = H[pos[q]]
      BY <1>3 DEF Images, Image
    <2> QED
      BY <1>1, <1>2, <1>3, <2>1
  <1>4. CASE ~Complete(q)
    <2>1. step[q] # 0
      BY <1>4 DEF Complete
    <2>2. PICK c, s, n : c = Call(q) /\ s = step[q] /\ n = pos[q]
      OBVIOUS
    <2>3. n \in 1..Len(calls) /\ c = calls[n] /\ IsCall(c) /\ ~Void(c)
      BY <2>1, <2>2, WhereIs
    <2>4. n - 1 \in 0..Len(calls) /\ B[n] = B[n - 1] + Barriers(c) /\ B[n - 1] \in Nat
      BY <2>3 DEF Count
    <2>5. ComeTo(B, q) = B[n - 1] + Came(c, s)
      BY <2>1, <2>2 DEF ComeTo
    <2>6. Makes(c) => Came(c, s) < Barriers(c)
      <3>1. /\ c.kind \in {"malloc", "strided"} => OpStep(c) = 1
            /\ c.kind \in {"free", "realloc"} => OpStep(c) = 3
            /\ c.kind = "grid" => OpStep(c) = 2
            /\ c.kind = "destroy" => OpStep(c) = 0
        BY DEF OpStep
      <3>2. c.kind \in {"malloc", "strided", "free", "realloc", "grid", "destroy"}
        BY <2>3 DEF IsCall, Kind
      <3>3. OpStep(c) \in Nat /\ s \in Nat
        BY <1>1, <2>2, <3>1, <3>2
      <3>4. s <= OpStep(c)
        BY <1>4, <2>2, <3>3 DEF Complete
      <3> QED
        BY <3>1, <3>2, <3>3, <3>4 DEF Came, Barriers, Makes
    <2>7. j # n
      <3>1. SUFFICES ASSUME j = n PROVE FALSE
        OBVIOUS
      <3>2. Barriers(c) \in Nat /\ Came(c, s) \in Nat
        BY <1>1, <2>2, <2>3, BarriersOf
      <3>3. Makes(c)
        BY <2>3, <3>1
      <3> QED
        BY <1>1, <2>4, <2>5, <2>6, <3>1, <3>2, <3>3
    <2>8. j <= n - 1 /\ n - 1 <= n /\ n - 1 # n
      BY <1>2, <2>2, <2>3, <2>7
    <2>9. \A k \in DOMAIN H[n - 1] : k \in DOMAIN heap[q] /\ heap[q][k] = H[n - 1][k]
      <3>1. CASE c.kind = "grid" /\ s = 2
        <4>1. heap[q] = Half(H[n - 1], n)
          BY <1>4, <2>2, <3>1 DEF Images, Image
        <4>2. \A k \in DOMAIN H[n - 1] : k # <<n, 1>>
          <5>1. \A k \in DOMAIN H[n - 1] : k \in Key /\ k[1] <= n - 1
            BY <2>4 DEF Chain
          <5> QED
            BY <2>3, <5>1 DEF Key
        <4> QED
          BY <4>1, <4>2 DEF Half, With
      <3>2. CASE ~(c.kind = "grid" /\ s = 2)
        <4>1. heap[q] = H[n - 1]
          BY <1>4, <2>2, <3>2 DEF Images, Image
        <4> QED
          BY <4>1
      <3> QED
        BY <3>1, <3>2
    <2> QED
      BY <2>2, <2>4, <2>8, <2>9
  <1> QED
    BY <1>3, <1>4

\* When a put is underway, its target has made the object, and has not begun
\* to give it back: the caller has left the barrier behind the one, and has not
\* come to the barrier in front of the other.
LEMMA PutLands ==
  ASSUME Shape, NEW H, Chain(H), Images(H), NEW B, Count(B), Counted(B),
         NEW o, Underway(H, o), IsForTheUser(o.of) \/ SyncAfterSplit
  PROVE  o.of \in DOMAIN heap[o.to] /\ heap[o.to][o.of].at = o.at
PROOF
  <1>1. PICK p, q, k, j : p = o.from /\ q = o.to /\ k = o.of /\ j = k[1]
    OBVIOUS
  <1>2. /\ p \in PE /\ q \in PE /\ k \in Key
        /\ j < pos[p] \/ (j = pos[p] /\ step[p] = 0)
        /\ k \in DOMAIN H[j] /\ H[j][k].at = o.at
        /\ \A e \in 1..pos[p] : Ends(calls[e], k) => e = pos[p] /\ step[p] = 1
    BY <1>1 DEF Underway
  <1>3. /\ Len(calls) \in Nat /\ j \in Nat /\ step \in [PE -> Nat]
        /\ \A r \in PE : pos[r] \in 0..Len(calls)
        /\ \A i \in 1..Len(calls) : IsCall(calls[i])
    BY <1>1, <1>2, LenProperties DEF Key, Shape
  <1>4. j \in 0..Len(calls) /\ j <= pos[p] /\ (step[p] # 0 => j <= pos[p] - 1)
    BY <1>2, <1>3
  <1>5. /\ \A i \in 0..Len(calls) : B[i] \in Nat
        /\ \A i, l \in 0..Len(calls) : i <= l => B[i] <= B[l]
        /\ \A i \in 1..Len(calls) : B[i] = B[i - 1] + Barriers(calls[i])
    BY DEF Count
  <1>6. \A r \in PE : /\ ComeTo(B, r) \in Nat /\ GoneFrom(B, r) \in Nat
                      /\ ComeTo(B, r) <= B[pos[r]] /\ arrived[r] = ComeTo(B, r)
                      /\ step[r] # 0 => pos[r] \in 1..Len(calls) /\ B[pos[r] - 1] <= GoneFrom(B, r)
                      /\ step[r] = 0 => GoneFrom(B, r) = B[pos[r]]
    BY Numbers DEF Counted, GoneFrom
  <1>7. \A r, t \in PE : GoneFrom(B, r) <= arrived[t]
    BY DEF Counted
  <1>8. \A r \in PE : \A i \in 0..Len(calls) :
          (i <= pos[r] /\ (step[r] # 0 => i <= pos[r] - 1)) => B[i] <= GoneFrom(B, r)
    <2> TAKE r \in PE
    <2> TAKE i \in 0..Len(calls)
    <2> HAVE i <= pos[r] /\ (step[r] # 0 => i <= pos[r] - 1)
    <2>1. CASE step[r] = 0
      BY <1>3, <1>5, <1>6, <2>1
    <2>2. CASE step[r] # 0
      <3>1. pos[r] - 1 \in 0..Len(calls) /\ B[pos[r] - 1] <= GoneFrom(B, r)
        BY <1>3, <1>6, <2>2
      <3>2. B[i] <= B[pos[r] - 1]
        BY <1>5, <2>2, <3>1
      <3> QED
        BY <1>5, <1>6, <3>1, <3>2
    <2> QED
      BY <2>1, <2>2
  <1>9. j >= 1 => Makes(calls[j])
    <2>1. SUFFICES ASSUME j >= 1 PROVE Makes(calls[j])
      OBVIOUS
    <2>2. PICK c : c = calls[j]
      OBVIOUS
    <2>3. j \in 1..Len(calls) /\ j - 1 \in 0..Len(calls) /\ IsCall(c)
      BY <1>3, <1>4, <2>1, <2>2
    <2>4. H[j] = After(H[j - 1], c, j)
      BY <2>2, <2>3 DEF Chain
    <2>5. k \notin DOMAIN H[j - 1]
      <3>1. k \in DOMAIN H[j - 1] => k[1] <= j - 1
        BY <2>3 DEF Chain
      <3> QED
        BY <1>1, <2>3, <3>1
    <2>6. ~Void(c) /\ c.kind # "destroy"
      BY <1>2, <2>4, <2>5 DEF After
    <2>7. c.kind # "free"
      BY <1>2, <2>4, <2>5, <2>6 DEF After, Without
    <2>8. c.kind \in {"strided", "grid"} => SyncAfterSplit
      BY <1>1, <2>2 DEF IsForTheUser, IsSplit
    <2> QED
      BY <2>2, <2>3, <2>6, <2>7, <2>8 DEF Makes, IsCall, Kind
  <1>10. B[j] <= arrived[q]
    BY <1>2, <1>4, <1>5, <1>6, <1>7, <1>8
  <1>11. PICK m \in 0..Len(calls) :
           /\ j <= m /\ m <= pos[q]
           /\ m = pos[q] => Complete(q)
           /\ \A x \in DOMAIN H[m] : x \in DOMAIN heap[q] /\ heap[q][x] = H[m][x]
    BY <1>2, <1>4, <1>9, <1>10, MadeBefore
  <1>12. k \in DOMAIN H[m]
    <2>1. ASSUME NEW e \in (j + 1)..m, Ends(calls[e], k) PROVE FALSE
      <3>1. e \in 1..Len(calls) /\ e - 1 \in 0..Len(calls) /\ e \in 0..Len(calls) /\ e <= pos[q]
        BY <1>2, <1>3, <1>11
      <3>2. B[e] >= B[e - 1] + 1 /\ B[e - 1] \in Nat /\ B[e] \in Nat
        <4>1. Barriers(calls[e]) \in {1, 2}
          BY <2>1 DEF Ends, Barriers
        <4> QED
          BY <1>5, <3>1, <4>1
      <3>3. B[e - 1] + 1 <= GoneFrom(B, q)
        <4>1. CASE step[q] # 0 => e <= pos[q] - 1
          <5>1. B[e] <= GoneFrom(B, q)
            BY <1>2, <1>8, <3>1, <4>1
          <5> QED
            BY <1>2, <1>6, <3>2, <5>1
        <4>2. CASE step[q] # 0 /\ ~(e <= pos[q] - 1)
          <5>1. e = pos[q] /\ m = pos[q]
            BY <1>2, <1>3, <1>11, <3>1, <4>2
          <5>2. Call(q) = calls[e] /\ Call(q).kind \in {"free", "realloc"}
            BY <2>1, <5>1 DEF Call, Ends
          <5>3. step[q] > 3
            BY <1>11, <4>2, <5>1, <5>2 DEF Complete, OpStep
          <5>4. Left(Call(q), step[q]) = 1
            BY <1>2, <1>3, <5>2, <5>3 DEF Left
          <5> QED
            BY <4>2, <5>1, <5>4, <3>2 DEF GoneFrom
        <4> QED
          BY <4>1, <4>2
      <3>4. B[e - 1] + 1 <= arrived[p]
        BY <1>2, <1>6, <1>7, <3>2, <3>3
      <3>5. CASE e <= pos[p]
        <4>1. e = pos[p] /\ step[p] = 1
          BY <1>2, <1>3, <2>1, <3>1, <3>5
        <4>2. Came(Call(p), 1) = 0
          BY DEF Came
        <4>3. arrived[p] = B[e - 1] + Came(Call(p), 1)
          BY <1>2, <1>6, <4>1 DEF ComeTo
        <4> QED
          BY <3>2, <3>4, <4>2, <4>3
      <3>6. CASE ~(e <= pos[p])
        <4>1. pos[p] \in 0..Len(calls) /\ pos[p] <= e - 1
          BY <1>2, <1>3, <3>1, <3>6
        <4>2. B[pos[p]] <= B[e - 1] /\ B[pos[p]] \in Nat
          BY <1>5, <3>1, <4>1
        <4>3. arrived[p] <= B[pos[p]] /\ arrived[p] \in Nat
          BY <1>2, <1>6
        <4> QED
          BY <3>2, <3>4, <4>2, <4>3
      <3> QED
        BY <3>5, <3>6
    <2>2. k \in DOMAIN H[m] \/ \E e \in (j + 1)..m : Ends(calls[e], k)
      BY <1>2, <1>4, <1>11 DEF Chain
    <2> QED
      BY <2>1, <2>2
  <1>13. H[m][k] = H[j][k]
    BY <1>1, <1>2, <1>3, <1>4, <1>11, <1>12 DEF Chain
  <1> QED
    BY <1>1, <1>2, <1>11, <1>12, <1>13

\* No PE has come to a barrier at the start, and no put is on its way.
LEMMA PInvInit == Init => PInv
PROOF
  <1> SUFFICES ASSUME Init PROVE PInv
    OBVIOUS
  <1>1. PICK H : Shape /\ Chain(H) /\ Images(H)
    BY HInvInit DEF HInv
  <1>2. PICK B : B = [i \in {0} |-> 0]
    OBVIOUS
  <1>3. calls = <<>> /\ Len(calls) = 0
    BY DEF Init
  <1>4. Count(B)
    BY <1>2, <1>3 DEF Count
  <1>5. Counted(B)
    BY <1>2 DEF Counted, ComeTo, GoneFrom, Init
  <1>6. Puts(H)
    BY DEF Puts, Init
  <1> QED
    BY <1>1, <1>4, <1>5, <1>6 DEF PInv

\* All three parts together are inductive.
LEMMA PInvNext ==
  ASSUME Nested = FALSE, PInv, [Next]_vars
  PROVE  PInv'
PROOF
  <1>1. PICK H, B : Shape /\ Chain(H) /\ Images(H) /\ Count(B) /\ Counted(B) /\ Puts(H)
    BY DEF PInv
  <1>2. PICK G : /\ Shape' /\ Chain(G)' /\ Images(G)'
                 /\ \A i \in 0..Len(calls) : G[i] = H[i]
    BY <1>1, HeapStep
  <1>3. calls \in Seq(CallSet) /\ Len(calls) \in Nat
    BY <1>1, LenProperties DEF Shape
  <1>4. /\ Len(calls) <= Len(calls') /\ Len(calls') \in Nat
        /\ \A i \in 1..Len(calls) : calls'[i] = calls[i]
    <2>1. CASE calls' = calls
      BY <1>3, <2>1
    <2>2. ASSUME NEW c \in CallSet, calls' = Append(calls, c)
          PROVE  /\ Len(calls) <= Len(calls') /\ Len(calls') \in Nat
                 /\ \A i \in 1..Len(calls) : calls'[i] = calls[i]
      BY <1>3, <2>2, AppendProperties
    <2> QED
      BY <1>1, <2>1, <2>2, CallsStay
  <1>5. PICK D : Count(D)' /\ \A i \in 0..Len(calls) : D[i] = B[i]
    <2>1. CASE calls' = calls
      <3>1. Count(B)'
        BY <1>1, <2>1 DEF Count
      <3> QED
        BY <3>1
    <2>2. ASSUME NEW c \in CallSet, IsCall(c), calls' = Append(calls, c)
          PROVE  \E D : Count(D)' /\ \A i \in 0..Len(calls) : D[i] = B[i]
      BY <1>1, <2>2, CountGrows
    <2> QED
      BY <1>1, <2>1, <2>2, CallsStay
  <1>6. Count(D) /\ Counted(D)
    BY <1>1, <1>5, Recounted
  <1>7. Counted(D)'
    BY <1>1, <1>4, <1>5, <1>6, CountedStep
  <1>8. Puts(G)'
    BY <1>1, <1>2, <1>4, PutsStep
  <1> QED
    BY <1>2, <1>5, <1>7, <1>8 DEF PInv

\* While a put is on its way, its caller has not come to the barrier in front of
\* the shmem_free or shmem_realloc of its object (shmalloc.c:131 and :157), and all
\* PEs have left the one that ends the shmem_malloc (shmalloc.c:56).
THEOREM PutsInvariance ==
  ASSUME Nested = FALSE
  PROVE  Spec => []PInv
  BY PInvInit, PInvNext, PTL DEF Spec

\* An object of the program that is on its way to another PE is there.
PutsOfTheProgram ==
  \A o \in net : IsForTheUser(o.of) =>
    /\ o.to \in PE
    /\ o.of \in DOMAIN heap[o.to] /\ heap[o.to][o.of].at = o.at

\* A put to an object of the program lands where that object is: its target has
\* allocated it, has it at the address the caller computed, and has not yet given
\* it up.  The barriers of shmalloc.c are what makes this so; it holds for every
\* number of PEs, every heap and every sequence of calls.
THEOREM PutsOfTheProgramLand ==
  ASSUME Nested = FALSE
  PROVE  Spec => []PutsOfTheProgram
PROOF
  <1>1. PInv => PutsOfTheProgram
    <2> SUFFICES ASSUME PInv, NEW o \in net, IsForTheUser(o.of)
                 PROVE  /\ o.to \in PE
                        /\ o.of \in DOMAIN heap[o.to] /\ heap[o.to][o.of].at = o.at
      BY DEF PutsOfTheProgram
    <2>1. PICK H, B : Shape /\ Chain(H) /\ Images(H) /\ Count(B) /\ Counted(B) /\ Puts(H)
      BY DEF PInv
    <2>2. Underway(H, o) /\ o.to \in PE
      BY <2>1 DEF Puts, Underway
    <2> QED
      BY <2>1, <2>2, PutLands
  <1> QED
    BY <1>1, PutsInvariance, PTL

\* Two things about the work arrays of teams: a handle is for nothing else, and
\* a put to some goes to a member of their team.
TInv == PInv /\ HandleKeys /\ PutsToMembers

\* At the start there are the handles of two teams, made by no call.
LEMMA MembersInit == Init => TInv
PROOF
  <1> SUFFICES ASSUME Init PROVE TInv
    OBVIOUS
  <1>1. PInv
    BY PInvInit
  <1>2. HandleKeys
    <2>1. \A p \in PE : DOMAIN team[p] = {World, Shared} /\ pos[p] = 0
      BY DEF Init
    <2>2. World[1] = 0 /\ Shared[1] = 0
      BY DEF World, Shared
    <2> QED
      BY <2>1, <2>2 DEF HandleKeys, IsForTheUser
  <1>3. PutsToMembers
    BY DEF PutsToMembers, Init
  <1> QED
    BY <1>1, <1>2, <1>3 DEF TInv

\* What happens to the handles of a PE: nothing, or it gets one for the call
\* that it is making, or gives one up.
LEMMA HandlesStep ==
  ASSUME Nested = FALSE, Shape, [Next]_vars, NEW p \in PE
  PROVE  \/ team'[p] = team[p]
         \/ /\ net' = net /\ calls' = calls /\ pos' = pos /\ step[p] # 0
            /\ IsSplit(Call(p)) /\ pos[p] \in 1..Len(calls)
            /\ \E i \in {1, 2} : \E t : team'[p] = With(team[p], <<pos[p], i>>, t)
         \/ /\ net' = net /\ calls' = calls /\ pos' = pos
            /\ \E k : team'[p] = Without(team[p], k)
PROOF
  <1>1. DOMAIN team = PE
    BY DEF Shape
  <1>2. ASSUME NEW q \in PE, Split(q)
        PROVE  \/ team'[p] = team[p]
               \/ /\ net' = net /\ calls' = calls /\ pos' = pos /\ step[p] # 0
                  /\ IsSplit(Call(p)) /\ pos[p] \in 1..Len(calls)
                  /\ \E i \in {1, 2} : \E t : team'[p] = With(team[p], <<pos[p], i>>, t)
    <2>1. /\ net' = net /\ calls' = calls /\ pos' = pos /\ step[q] # 0 /\ At(q, "split")
          /\ \/ team' = team
             \/ \E t : team' = [team EXCEPT ![q] = With(@, <<pos[q], 1>>, t)]
      BY <1>2 DEF Split, Create, AllocateWorkArrays, At
    <2>2. IsSplit(Call(q)) /\ pos[q] \in 1..Len(calls)
      BY <2>1, WhereIs DEF IsSplit
    <2> QED
      BY <1>1, <2>1, <2>2
  <1>3. ASSUME NEW q \in PE, SplitRows(q)
        PROVE  \/ team'[p] = team[p]
               \/ /\ net' = net /\ calls' = calls /\ pos' = pos /\ step[p] # 0
                  /\ IsSplit(Call(p)) /\ pos[p] \in 1..Len(calls)
                  /\ \E i \in {1, 2} : \E t : team'[p] = With(team[p], <<pos[p], i>>, t)
    <2>1. /\ net' = net /\ calls' = calls /\ pos' = pos /\ step[q] # 0 /\ At(q, "rows")
          /\ \E t : team' = [team EXCEPT ![q] = With(@, <<pos[q], 1>>, t)]
      BY <1>3 DEF SplitRows, Create, AllocateWorkArrays, At
    <2>2. IsSplit(Call(q)) /\ pos[q] \in 1..Len(calls)
      BY <2>1, WhereIs DEF IsSplit
    <2> QED
      BY <1>1, <2>1, <2>2
  <1>4. ASSUME NEW q \in PE, SplitColumns(q)
        PROVE  \/ team'[p] = team[p]
               \/ /\ net' = net /\ calls' = calls /\ pos' = pos /\ step[p] # 0
                  /\ IsSplit(Call(p)) /\ pos[p] \in 1..Len(calls)
                  /\ \E i \in {1, 2} : \E t : team'[p] = With(team[p], <<pos[p], i>>, t)
    <2>1. /\ net' = net /\ calls' = calls /\ pos' = pos /\ step[q] # 0 /\ At(q, "columns")
          /\ \E t : team' = [team EXCEPT ![q] = With(@, <<pos[q], 2>>, t)]
      BY <1>4 DEF SplitColumns, Create, AllocateWorkArrays, At
    <2>2. IsSplit(Call(q)) /\ pos[q] \in 1..Len(calls)
      BY <2>1, WhereIs DEF IsSplit
    <2> QED
      BY <1>1, <2>1, <2>2
  <1>5. ASSUME NEW q \in PE, Destroy(q)
        PROVE  \/ team'[p] = team[p]
               \/ /\ net' = net /\ calls' = calls /\ pos' = pos
                  /\ \E k : team'[p] = Without(team[p], k)
    BY <1>1, <1>5 DEF Destroy
  <1>6. ASSUME NEW q \in PE,
               \/ Lead(q) \/ Follow(q) \/ Allocate(q) \/ Release(q) \/ Resize(q)
               \/ Arrive(q) \/ Leave(q)
        PROVE  team' = team
    BY <1>6 DEF Lead, Follow, Enter, Allocate, Release, Resize, Arrive, Leave
  <1>7. ASSUME \/ \E q, r \in PE : \E k \in DOMAIN heap[q] : Put(q, r, k)
               \/ \E o \in net : Land(o)
               \/ UNCHANGED vars
        PROVE  team' = team
    BY <1>7 DEF Put, Land, vars
  <1> QED
    BY <1>2, <1>3, <1>4, <1>5, <1>6, <1>7 DEF Next, Done

\* A put to the work arrays of a team goes to a member, if the handles agree.
LEMMA MembersNext ==
  ASSUME Nested = FALSE, TInv, HandlesAgree, [Next]_vars
  PROVE  TInv'
PROOF
  <1>1. PICK H, B : Shape /\ Chain(H) /\ Images(H) /\ Count(B) /\ Counted(B) /\ Puts(H)
    BY DEF TInv, PInv
  <1>2. PInv'
    BY PInvNext DEF TInv
  <1>3. /\ calls \in Seq(CallSet) /\ Len(calls) \in Nat
        /\ \A p \in PE : pos[p] \in 0..Len(calls) /\ DOMAIN team[p] \subseteq Key
    BY <1>1, LenProperties DEF Shape
  <1>4. \A i \in 1..Len(calls) : calls'[i] = calls[i]
    <2>1. ASSUME NEW c \in CallSet, calls' = Append(calls, c)
          PROVE  \A i \in 1..Len(calls) : calls'[i] = calls[i]
      BY <1>3, <2>1, AppendProperties
    <2> QED
      BY <1>1, <2>1, CallsStay
  <1>5. \A p \in PE : pos'[p] \in Nat /\ pos[p] <= pos'[p]
    <2>1. ASSUME NEW q \in PE, NEW c, Enter(q, c)
          PROVE  \A p \in PE : pos'[p] \in Nat /\ pos[p] <= pos'[p]
      BY <1>1, <2>1 DEF Enter, Shape
    <2>2. ASSUME pos' = pos PROVE \A p \in PE : pos'[p] \in Nat /\ pos[p] <= pos'[p]
      BY <1>3, <2>2
    <2> QED
      BY <1>1, <2>1, <2>2, StepsOfOne
  <1>6. HandleKeys'
    <2> SUFFICES ASSUME NEW p \in PE, NEW k \in DOMAIN team'[p]
                 PROVE  k[1] <= pos'[p] /\ ~IsForTheUser(k)'
      BY DEF HandleKeys
    <2>1. ASSUME k \in DOMAIN team[p]
          PROVE  k[1] <= pos'[p] /\ ~IsForTheUser(k)'
      <3>1. k[1] <= pos[p] /\ ~IsForTheUser(k) /\ k[1] \in Nat
        BY <1>3, <2>1 DEF TInv, HandleKeys, Key
      <3>2. k[1] # 0 => calls'[k[1]] = calls[k[1]]
        BY <1>3, <1>4, <3>1
      <3> QED
        BY <1>3, <1>5, <3>1, <3>2 DEF IsForTheUser, IsSplit
    <2>2. ASSUME NEW i, k = <<pos[p], i>>, calls' = calls, pos' = pos, IsSplit(Call(p)),
                 pos[p] \in 1..Len(calls)
          PROVE  k[1] <= pos'[p] /\ ~IsForTheUser(k)'
      BY <1>3, <2>2 DEF IsForTheUser, IsSplit, Call
    <2>3. \A i, t : team'[p] = With(team[p], <<pos[p], i>>, t) =>
             k \in DOMAIN team[p] \/ k = <<pos[p], i>>
      BY DEF With
    <2>4. \A x : team'[p] = Without(team[p], x) => k \in DOMAIN team[p]
      BY DEF Without
    <2> QED
      BY <1>1, <2>1, <2>2, <2>3, <2>4, HandlesStep
  <1>7. ASSUME NEW o \in net, o.of \in DOMAIN team'[o.from]
        PROVE  o.to \in Members(team'[o.from][o.of])
    <2>1. PICK p, k : p = o.from /\ k = o.of
      OBVIOUS
    <2>2. p \in PE /\ (k[1] < pos[p] \/ (k[1] = pos[p] /\ step[p] = 0))
      BY <1>1, <2>1 DEF Puts, Underway
    <2>3. k \in DOMAIN team[p] => o.to \in Members(team[p][k])
      BY <2>1 DEF TInv, PutsToMembers
    <2>4. k \in DOMAIN team[p] /\ team'[p][k] = team[p][k]
      <3>1. CASE team'[p] = team[p]
        BY <1>7, <2>1, <3>1
      <3>2. ASSUME step[p] # 0, NEW i, NEW t, team'[p] = With(team[p], <<pos[p], i>>, t)
            PROVE  k \in DOMAIN team[p] /\ team'[p][k] = team[p][k]
        <4>1. k # <<pos[p], i>>
          BY <1>3, <2>2, <3>2
        <4> QED
          BY <1>7, <2>1, <3>2, <4>1 DEF With
      <3>3. ASSUME NEW x, team'[p] = Without(team[p], x)
            PROVE  k \in DOMAIN team[p] /\ team'[p][k] = team[p][k]
        BY <1>7, <2>1, <3>3 DEF Without
      <3> QED
        BY <1>1, <2>2, <3>1, <3>2, <3>3, HandlesStep
    <2> QED
      BY <2>1, <2>3, <2>4
  <1>8. ASSUME NEW p \in PE, NEW q \in PE, NEW k \in DOMAIN heap[p], Put(p, q, k)
        PROVE  PutsToMembers'
    <2>1. PICK o : o = [from |-> p, to |-> q, of |-> k, at |-> heap[p][k].at]
      OBVIOUS
    <2>2. net' = net \cup {o} /\ team' = team /\ q \in Partners(p, k)
      BY <1>8, <2>1 DEF Put
    <2>3. ASSUME k \in DOMAIN team[p] PROVE q \in Members(team[p][k])
      <3>1. ~IsForTheUser(k)
        BY <2>3 DEF TInv, HandleKeys
      <3>2. q \in ActiveSet(team[p][k])
        BY <2>2, <3>1 DEF Partners
      <3> QED
        BY <2>3, <3>2 DEF HandlesAgree
    <2>4. o.from = p /\ o.to = q /\ o.of = k
      BY <2>1
    <2>5. o.of \in DOMAIN team'[o.from] => o.to \in Members(team'[o.from][o.of])
      BY <2>2, <2>3, <2>4
    <2> QED
      BY <1>7, <2>2, <2>5 DEF PutsToMembers
  <1>9. ASSUME \A o \in net' : o \in net PROVE PutsToMembers'
    <2> SUFFICES ASSUME NEW o \in net', o.of \in DOMAIN team'[o.from]
                 PROVE  o.to \in Members(team'[o.from][o.of])
      BY DEF PutsToMembers
    <2> QED
      BY <1>7, <1>9
  <1>10. \/ \A o \in net' : o \in net
         \/ \E p \in PE, q \in PE : \E k \in DOMAIN heap[p] : Put(p, q, k)
    BY <1>1, NetStep
  <1> QED
    BY <1>2, <1>6, <1>8, <1>9, <1>10 DEF TInv

\* The three parts together are what the property says.
LEMMA MembersHit ==
  ASSUME SyncAfterSplit = TRUE, TInv, HandlesAgree
  PROVE  PutsHitTheirObject
PROOF
  <1> SUFFICES ASSUME NEW o \in net
               PROVE  /\ o.to \in PE
                      /\ o.of \in DOMAIN heap[o.to] /\ heap[o.to][o.of].at = o.at
                      /\ o.of \in DOMAIN team[o.from]
                           => /\ o.to \in Members(team[o.from][o.of])
                              /\ o.of \in DOMAIN team[o.to]
                                   => team[o.to][o.of] = team[o.from][o.of]
    BY DEF PutsHitTheirObject
  <1>1. PICK H, B : Shape /\ Chain(H) /\ Images(H) /\ Count(B) /\ Counted(B) /\ Puts(H)
    BY DEF TInv, PInv
  <1>2. Underway(H, o) /\ o.to \in PE /\ o.from \in PE
    BY <1>1 DEF Puts, Underway
  <1>3. o.of \in DOMAIN heap[o.to] /\ heap[o.to][o.of].at = o.at
    BY <1>1, <1>2, PutLands
  <1>4. ASSUME o.of \in DOMAIN team[o.from]
        PROVE  /\ o.to \in Members(team[o.from][o.of])
               /\ o.of \in DOMAIN team[o.to] => team[o.to][o.of] = team[o.from][o.of]
    <2>1. o.to \in Members(team[o.from][o.of])
      BY <1>4 DEF TInv, PutsToMembers
    <2> QED
      BY <1>2, <1>4, <2>1 DEF HandlesAgree
  <1> QED
    BY <1>2, <1>3, <1>4

-----------------------------------------------------------------------------
(* Arithmetic of rows and columns.                                         *)

\* Products of numbers, which the prover does not multiply out on its own.
LEMMA Times ==
  ASSUME NEW b \in Nat, NEW d \in Nat
  PROVE  b * d \in Nat /\ (d >= 1 => b * d >= b) /\ b * (d + 1) = b * d + b
  OBVIOUS

\* Division with a remainder.
LEMMA Division ==
  ASSUME NEW a \in Nat, NEW b \in Nat \ {0}
  PROVE  a \div b \in Nat /\ a % b \in 0 .. b - 1 /\ a = b * (a \div b) + (a % b)
  OBVIOUS

\* There is only one way to divide.
LEMMA Quotient ==
  ASSUME NEW b \in Nat \ {0}, NEW q \in Nat, NEW r \in 0 .. b - 1, NEW a \in Nat, a = b * q + r
  PROVE  a \div b = q /\ a % b = r
<1>1. PICK d \in Nat, s \in 0 .. b - 1 : d = a \div b /\ s = a % b /\ a = b * d + s
  BY Division
<1>2. ~ (d < q)
  <2>1. SUFFICES ASSUME d < q PROVE FALSE
    OBVIOUS
  <2>2. PICK e \in Nat : q = d + 1 + e
    <3>1. q - d - 1 \in Nat /\ q = d + 1 + (q - d - 1)
      BY <2>1
    <3> QED
      BY <3>1
  <2>3. b * q = b * d + b + b * e /\ b * e >= 0
    BY <2>2
  <2> QED
    BY <1>1, <2>3
<1>3. ~ (q < d)
  <2>1. SUFFICES ASSUME q < d PROVE FALSE
    OBVIOUS
  <2>2. PICK e \in Nat : d = q + 1 + e
    <3>1. d - q - 1 \in Nat /\ d = q + 1 + (d - q - 1)
      BY <2>1
    <3> QED
      BY <3>1
  <2>3. b * d = b * q + b + b * e /\ b * e >= 0
    BY <2>2
  <2> QED
    BY <1>1, <2>3
<1>4. d = q
  BY <1>2, <1>3
<1> QED
  BY <1>1, <1>4

-----------------------------------------------------------------------------
(* Ranks.                                                                  *)

\* The sets of PEs are finite; a smaller one has fewer.
LEMMA Subsets ==
  ASSUME NEW R \in SUBSET PE
  PROVE  /\ IsFiniteSet(R) /\ Cardinality(R) \in Nat
         /\ \A A \in SUBSET R : Cardinality(A) \in Nat /\ Cardinality(A) <= Cardinality(R)
                                /\ (A # R => Cardinality(A) < Cardinality(R))
<1>1. IsFiniteSet(0 .. Size - 1)
  <2>1. Size - 1 \in Int
    BY HeapAssumption
  <2> QED
    BY <2>1, FS_Interval
<1>2. IsFiniteSet(R)
  BY <1>1, FS_Subset DEF PE
<1>3. Cardinality(R) \in Nat
  BY <1>2, FS_CardinalityType
<1>4. ASSUME NEW A \in SUBSET R
      PROVE  Cardinality(A) \in Nat /\ Cardinality(A) <= Cardinality(R)
             /\ (A # R => Cardinality(A) < Cardinality(R))
  <2>1. IsFiniteSet(A) /\ Cardinality(A) <= Cardinality(R) /\ (Cardinality(R) = Cardinality(A) => R = A)
    BY <1>2, FS_Subset
  <2>2. Cardinality(A) \in Nat
    BY <2>1, FS_CardinalityType
  <2> QED
    BY <1>3, <2>1, <2>2
<1> QED
  BY <1>2, <1>3, <1>4

\* Renumber counts through the set without a gap.
LEMMA Renumbered ==
  ASSUME NEW R \in SUBSET PE, NEW F, F = Renumber(WorldTeam(Size), R),
         NEW N, N = Cardinality(R)
  PROVE  /\ DOMAIN F = 0 .. N - 1 /\ {F[i] : i \in 0 .. N - 1} = R
         /\ \A i \in 0 .. N - 1 : F[i] \in R /\ Cardinality({s \in R : s < F[i]}) = i
<1>0. IsFiniteSet(R) /\ Cardinality(R) \in Nat /\ \A r \in R : r \in Nat /\ r \in 0 .. Size - 1
  BY Subsets, HeapAssumption DEF PE
<1>1. N = Cardinality(R)
  OBVIOUS
<1>2. PICK rank : rank = [r \in R |-> Cardinality({s \in R : s < r})]
  OBVIOUS
<1>3. ASSUME NEW r \in R PROVE rank[r] \in 0 .. N - 1
  <2>1. {s \in R : s < r} \in SUBSET R /\ {s \in R : s < r} # R
    BY <1>0
  <2>2. Cardinality({s \in R : s < r}) \in Nat /\ Cardinality({s \in R : s < r}) < Cardinality(R)
    BY <2>1, Subsets
  <2> QED
    BY <1>0, <1>1, <1>2, <2>2
<1>4. ASSUME NEW a \in R, NEW b \in R, a < b PROVE rank[a] < rank[b]
  <2>1. PICK A, B : A = {s \in R : s < a} /\ B = {s \in R : s < b}
    OBVIOUS
  <2>2. B \in SUBSET PE /\ A \in SUBSET B /\ A # B
    BY <1>0, <1>4, <2>1
  <2>3. Cardinality(A) < Cardinality(B)
    BY <2>2, Subsets
  <2> QED
    BY <1>2, <2>1, <2>3
<1>5. rank \in Injection(R, 0 .. N - 1)
  <2>1. rank \in [R -> 0 .. N - 1]
    BY <1>2, <1>3
  <2>2. \A a, b \in R : rank[a] = rank[b] => a = b
    <3> SUFFICES ASSUME NEW a \in R, NEW b \in R, rank[a] = rank[b], a # b PROVE FALSE
      OBVIOUS
    <3>1. a < b \/ b < a
      BY <1>0
    <3>2. rank[a] \in Nat /\ rank[b] \in Nat
      BY <1>3
    <3>3. ~ (rank[a] < rank[b]) /\ ~ (rank[b] < rank[a])
      BY <3>2
    <3> QED
      BY <1>4, <3>1, <3>3
  <2> QED
    BY <2>1, <2>2 DEF Injection, IsInjective
<1>6. rank \in Surjection(R, 0 .. N - 1)
  <2>1. IsFiniteSet(0 .. N - 1) /\ Cardinality(0 .. N - 1) = N
    BY <1>0, <1>1, FS_Interval
  <2> QED
    BY <1>1, <1>5, <2>1, FS_Injection
<1>7. F = Renumber(WorldTeam(Size), R)
  OBVIOUS
<1>8. PICK nth : nth = [i \in 0 .. N - 1 |-> CHOOSE r \in R : Cardinality({s \in R : s < r}) = i]
  OBVIOUS
<1>9. ASSUME NEW i \in 0 .. N - 1 PROVE nth[i] \in R /\ rank[nth[i]] = i
  <2>1. PICK r \in R : rank[r] = i
    BY <1>6 DEF Surjection
  <2>2. Cardinality({s \in R : s < r}) = i
    BY <1>2, <2>1
  <2>3. nth[i] \in R /\ Cardinality({s \in R : s < nth[i]}) = i
    <3>1. nth[i] = CHOOSE x \in R : Cardinality({s \in R : s < x}) = i
      BY <1>8
    <3> QED
      BY <2>2, <3>1
  <2> QED
    BY <1>2, <2>3
<1>10. DOMAIN F = 0 .. N - 1 /\ \A i \in 0 .. N - 1 : F[i] = WorldTeam(Size).fwd[nth[i]]
  <2>1. Renumber(WorldTeam(Size), R)
          = [i \in 0..(Cardinality(R) - 1) |->
               WorldTeam(Size).fwd[CHOOSE r \in R : Cardinality({s \in R : s < r}) = i]]
    BY DEF Renumber
  <2>2. F = [i \in 0 .. N - 1 |->
               WorldTeam(Size).fwd[CHOOSE r \in R : Cardinality({s \in R : s < r}) = i]]
    BY <1>1, <1>7, <2>1, Zenon
  <2>3. ASSUME NEW i \in 0 .. N - 1 PROVE F[i] = WorldTeam(Size).fwd[nth[i]]
    <3>1. F[i] = WorldTeam(Size).fwd[CHOOSE r \in R : Cardinality({s \in R : s < r}) = i]
      BY <2>2, Zenon
    <3>2. nth[i] = CHOOSE r \in R : Cardinality({s \in R : s < r}) = i
      BY <1>8, Zenon
    <3> QED
      BY <3>1, <3>2, Zenon
  <2>4. DOMAIN F = 0 .. N - 1
    BY <2>2, Zenon
  <2> QED
    BY <2>3, <2>4
<1>11. DOMAIN F = 0 .. N - 1 /\ \A i \in 0 .. N - 1 : F[i] = nth[i]
  <2>1. \A r \in R : WorldTeam(Size).fwd[r] = r
    BY <1>0 DEF WorldTeam, Handle
  <2> QED
    BY <1>9, <1>10, <2>1
<1>12. ASSUME NEW r \in R PROVE \E i \in 0 .. N - 1 : F[i] = r
  <2>1. rank[r] \in 0 .. N - 1
    BY <1>3
  <2>2. PICK i \in 0 .. N - 1 : i = rank[r]
    BY <2>1
  <2>3. nth[i] \in R /\ rank[nth[i]] = rank[r]
    BY <1>9, <2>2
  <2>4. nth[i] = r
    BY <1>5, <2>3 DEF Injection, IsInjective
  <2> QED
    BY <1>11, <2>4
<1>13. {F[i] : i \in 0 .. N - 1} = R
  BY <1>9, <1>11, <1>12
<1>14. \A i \in 0 .. N - 1 : F[i] \in R /\ Cardinality({s \in R : s < F[i]}) = i
  BY <1>2, <1>9, <1>11
<1> QED
  BY <1>11, <1>13, <1>14

\* A progression of n different numbers has n of them.
LEMMA Progression ==
  ASSUME NEW a \in Int, NEW b \in Nat \ {0}, NEW n \in Nat
  PROVE  Cardinality({a + i * b : i \in 0 .. n - 1}) = n
<1>1. PICK T : T = {a + i * b : i \in 0 .. n - 1}
  OBVIOUS
<1>2. PICK f : f = [i \in 0 .. n - 1 |-> a + i * b]
  OBVIOUS
<1>3. ASSUME NEW i \in 0 .. n - 1, NEW j \in 0 .. n - 1, i < j PROVE f[i] # f[j]
  <2>1. PICK d \in Nat : j = i + d /\ d >= 1
    <3>1. j - i \in Nat /\ j = i + (j - i) /\ j - i >= 1
      BY <1>3
    <3> QED
      BY <3>1
  <2>2. j * b = i * b + d * b /\ d * b >= b /\ i * b \in Int
    <3>1. b * d >= b /\ b * d = d * b
      BY <2>1, Times
    <3> QED
      BY <2>1, <3>1
  <2> QED
    BY <1>2, <2>2
<1>4. f \in Bijection(0 .. n - 1, T)
  <2>1. f \in [0 .. n - 1 -> T] /\ \A t \in T : \E i \in 0 .. n - 1 : f[i] = t
    BY <1>1, <1>2
  <2>2. \A i, j \in 0 .. n - 1 : f[i] = f[j] => i = j
    <3> SUFFICES ASSUME NEW i \in 0 .. n - 1, NEW j \in 0 .. n - 1, f[i] = f[j], i # j PROVE FALSE
      OBVIOUS
    <3>1. i < j \/ j < i
      OBVIOUS
    <3> QED
      BY <1>3, <3>1
  <2> QED
    BY <2>1, <2>2 DEF Bijection, Injection, Surjection, IsInjective
<1>5. IsFiniteSet(0 .. n - 1) /\ Cardinality(0 .. n - 1) = n
  BY FS_Interval
<1>6. ExistsBijection(0 .. n - 1, T)
  BY <1>4 DEF ExistsBijection
<1> QED
  BY <1>1, <1>5, <1>6, FS_Bijection


-----------------------------------------------------------------------------
(* The handles of the teams that there are.                                *)

\* What a handle has to be for the collectives over its team.
Sound(t) ==
  /\ DOMAIN t.fwd = 0..(t.nranks - 1)
  /\ Cardinality(Members(t)) = t.nranks
  /\ ActiveSet(t) = Members(t)
  /\ Members(t) \subseteq PE

\* In the world the rank of a PE is its number.
LEMMA WorldIs ==
  /\ WorldTeam(Size).nranks = Size /\ DOMAIN WorldTeam(Size).fwd = PE
  /\ \A p \in PE : WorldTeam(Size).fwd[p] = p /\ RankIn(WorldTeam(Size), p) = p
<1>1. /\ WorldTeam(Size).nranks = Size /\ DOMAIN WorldTeam(Size).fwd = PE
      /\ \A p \in PE : WorldTeam(Size).fwd[p] = p
  BY DEF WorldTeam, Handle, PE
<1>2. ASSUME NEW p \in PE PROVE RankIn(WorldTeam(Size), p) = p
  <2>1. RankIn(WorldTeam(Size), p)
          = CHOOSE i \in DOMAIN WorldTeam(Size).fwd : WorldTeam(Size).fwd[i] = p
    BY WorldHasAll DEF RankIn
  <2>2. \A i \in DOMAIN WorldTeam(Size).fwd : WorldTeam(Size).fwd[i] = p <=> i = p
    BY <1>1
  <2>3. p \in DOMAIN WorldTeam(Size).fwd
    BY <1>1
  <2> QED
    BY <2>1, <2>2, <2>3
<1> QED
  BY <1>1, <1>2

\* The ranks that f numbers are those of R, n of them; they are n in even steps.
Counts(f, R, n) == DOMAIN f = 0..(n - 1) /\ {f[i] : i \in 0..(n - 1)} = R
Evenly(R, s, d, n) == \A r : r \in R <=> \E i \in 0..(n - 1) : r = s + i * d

\* A team whose ranks count through a progression with the stride of the handle.
LEMMA ProgressionIsSound ==
  ASSUME NEW s \in Int, NEW d \in Nat \ {0}, NEW n \in Nat, KeptByLog(d),
         NEW f, NEW R \in SUBSET PE, Counts(f, R, n), Evenly(R, s, d, n)
  PROVE  Sound(Handle(f, n, s, d)) /\ Members(Handle(f, n, s, d)) = R
<1>1. PICK t : t = Handle(f, n, s, d)
  OBVIOUS
<1>2. t.fwd = f /\ t.nranks = n /\ t.start = s /\ t.stride = d
  BY <1>1 DEF Handle
<1>3. Members(t) = R /\ DOMAIN f = 0..(n - 1)
  BY <1>2 DEF Members, Counts
<1>4. R = {s + i * d : i \in 0..(n - 1)}
  BY DEF Evenly
<1>5. ActiveSet(t) = R
  <2>1. PICK e : e = 2^LogStride(t.stride)
    OBVIOUS
  <2>2. e = d
    BY <1>2, <2>1 DEF KeptByLog
  <2>3. ActiveSet(t) = {t.start + i * e : i \in 0..(t.nranks - 1)}
    BY <2>1 DEF ActiveSet
  <2>4. ActiveSet(t) = {s + i * d : i \in 0..(n - 1)}
    BY <1>2, <2>2, <2>3, Zenon
  <2> QED
    BY <1>4, <2>4
<1>6. Cardinality(R) = n
  <2>1. Cardinality({s + i * d : i \in 0..(n - 1)}) = n
    BY Progression
  <2> QED
    BY <1>4, <2>1
<1>7. Sound(t)
  BY <1>2, <1>3, <1>5, <1>6 DEF Sound
<1> QED
  BY <1>1, <1>3, <1>7

\* The same for a team whose ranks are numbered anew.
LEMMA RenumberedIsSound ==
  ASSUME NEW s \in Int, NEW d \in Nat \ {0}, NEW n \in Nat, KeptByLog(d),
         NEW R \in SUBSET PE, Evenly(R, s, d, n)
  PROVE  LET t == Handle(Renumber(WorldTeam(Size), R), n, s, d)
         IN  Sound(t) /\ Members(t) = R
<1>1. PICK f : f = Renumber(WorldTeam(Size), R)
  OBVIOUS
<1>2. n = Cardinality(R)
  <2>1. Cardinality({s + i * d : i \in 0..(n - 1)}) = n
    BY Progression
  <2>2. R = {s + i * d : i \in 0..(n - 1)}
    BY DEF Evenly
  <2> QED
    BY <2>1, <2>2
<1>3. Counts(f, R, n)
  BY <1>1, <1>2, Renumbered DEF Counts
<1> QED
  BY <1>1, <1>3, ProgressionIsSound

\* The handle of the world.
LEMMA WorldIsSound ==
  ASSUME KeptByLog(1)
  PROVE  Sound(WorldTeam(Size))
<1>1. PICK f : f = [i \in 0..(Size - 1) |-> i]
  OBVIOUS
<1>2. PICK s \in Int, d \in Nat \ {0}, n \in Nat : s = 0 /\ d = 1 /\ n = Size
  BY HeapAssumption
<1>3. DOMAIN f = 0..(n - 1) /\ \A i \in 0..(n - 1) : f[i] = i /\ f[i] = s + i * d
  BY <1>1, <1>2
<1>4. PICK R \in SUBSET PE : R = {f[i] : i \in 0..(n - 1)}
  BY <1>1, <1>2 DEF PE
<1>5. Counts(f, R, n) /\ Evenly(R, s, d, n)
  BY <1>3, <1>4 DEF Counts, Evenly
<1>6. KeptByLog(d)
  BY <1>2
<1>7. Sound(Handle(f, n, s, d))
  BY <1>5, <1>6, ProgressionIsSound
<1> QED
  BY <1>1, <1>2, <1>7 DEF WorldTeam

\* PEs that are numbered in a row are counted from the least.
LEMMA RowOfPEs ==
  ASSUME NEW R \in SUBSET PE, R # {},
         \A a, c \in R : \A b \in PE : a <= b /\ b <= c => b \in R
  PROVE  LET s == Renumber(WorldTeam(Size), R)[0]
         IN  s \in PE /\ Evenly(R, s, 1, Cardinality(R))
<1>0. IsFiniteSet(R) /\ Cardinality(R) \in Nat /\ \A r \in R : r \in Int /\ r \in PE
  BY Subsets, HeapAssumption DEF PE
<1>1. PICK n, f, s : n = Cardinality(R) /\ f = Renumber(WorldTeam(Size), R) /\ s = f[0]
  OBVIOUS
<1>2. n \in Nat /\ n # 0
  BY <1>0, <1>1, FS_EmptySet
<1>3. /\ {f[i] : i \in 0..(n - 1)} = R
      /\ \A i \in 0..(n - 1) : f[i] \in R /\ Cardinality({x \in R : x < f[i]}) = i
  BY <1>1, Renumbered
<1>4. s \in R /\ s \in PE /\ s \in Int /\ Cardinality({x \in R : x < s}) = 0
  BY <1>0, <1>1, <1>2, <1>3
<1>5. \A x \in R : s <= x
  <2>1. {x \in R : x < s} \in SUBSET R
    OBVIOUS
  <2>2. {x \in R : x < s} = {}
    <3>1. IsFiniteSet({x \in R : x < s})
      BY <1>0, <2>1, FS_Subset
    <3> QED
      BY <1>4, <3>1, FS_EmptySet
  <2> QED
    BY <1>0, <1>4, <2>2
<1>6. ASSUME NEW r \in R PROVE Cardinality({x \in R : x < r}) = r - s
  <2>1. {x \in R : x < r} = s..(r - 1)
    <3>1. ASSUME NEW x \in s..(r - 1) PROVE x \in R /\ x < r
      <4>1. x \in PE /\ s <= x /\ x <= r
        BY <1>0, <1>4, <3>1, HeapAssumption DEF PE
      <4> QED
        BY <1>0, <1>4, <4>1, <3>1
    <3>2. ASSUME NEW x \in R, x < r PROVE x \in s..(r - 1)
      BY <1>0, <1>4, <1>5, <3>2
    <3> QED
      BY <3>1, <3>2
  <2>2. r - 1 \in Int /\ s \in Int /\ s <= r
    BY <1>0, <1>4, <1>5
  <2>3. Cardinality(s..(r - 1)) = r - s
    <3>1. PICK b \in Int : b = r - 1
      BY <2>2
    <3>2. Cardinality(s..b) = IF s > b THEN 0 ELSE b - s + 1
      BY <1>4, <3>1, FS_Interval
    <3> QED
      BY <1>0, <1>4, <2>2, <3>1, <3>2
  <2> QED
    BY <2>1, <2>3
<1>7. \A i \in 0..(n - 1) : f[i] = s + i * 1
  <2> SUFFICES ASSUME NEW i \in 0..(n - 1) PROVE f[i] = s + i * 1
    OBVIOUS
  <2>1. PICK r \in R : r = f[i] /\ Cardinality({x \in R : x < r}) = i
    BY <1>3
  <2>2. i = r - s
    BY <1>6, <2>1
  <2> QED
    BY <1>0, <1>4, <2>1, <2>2
<1>8. Evenly(R, s, 1, n)
  BY <1>3, <1>7 DEF Evenly
<1> QED
  BY <1>1, <1>4, <1>8

\* The PEs of a machine.
Peers(p) == {q \in PE : NodeOf[q] = NodeOf[p]}

\* The handle of the PEs of a machine: the same for all of them.
LEMMA SharedIsSound ==
  ASSUME RegularTeams, NEW p \in PE
  PROVE  /\ Sound(SharedTeam(p)) /\ Members(SharedTeam(p)) = Peers(p)
         /\ \A q \in Peers(p) : SharedTeam(q) = SharedTeam(p)
<1>1. PICK R : R = Peers(p)
  OBVIOUS
<1>2. R \in SUBSET PE /\ p \in R
  BY <1>1 DEF Peers
<1>3. \A a, c \in R : \A b \in PE : a <= b /\ b <= c => b \in R
  <2> SUFFICES ASSUME NEW a \in R, NEW c \in R, NEW b \in PE, a <= b, b <= c PROVE b \in R
    OBVIOUS
  <2>1. a \in PE /\ c \in PE /\ NodeOf[a] = NodeOf[p] /\ NodeOf[c] = NodeOf[p]
    BY <1>1 DEF Peers
  <2>2. NodeOf[b] = NodeOf[a]
    BY <2>1 DEF RegularTeams
  <2> QED
    BY <1>1, <2>1, <2>2 DEF Peers
<1>4. PICK s : s = Renumber(WorldTeam(Size), R)[0]
  OBVIOUS
<1>5. s \in PE /\ Evenly(R, s, 1, Cardinality(R))
  BY <1>2, <1>3, <1>4, RowOfPEs
<1>6. s \in Int /\ Cardinality(R) \in Nat
  BY <1>2, <1>5, Subsets, HeapAssumption DEF PE
<1>7. SharedTeam(p) = Handle(Renumber(WorldTeam(Size), R), Cardinality(R), s, 1)
  BY <1>1, <1>4 DEF SharedTeam, Peers
<1>8. Sound(SharedTeam(p)) /\ Members(SharedTeam(p)) = R
  <2>1. PICK d \in Nat \ {0}, n \in Nat : d = 1 /\ n = Cardinality(R)
    BY <1>6
  <2>2. KeptByLog(d)
    BY <2>1 DEF RegularTeams
  <2>3. Evenly(R, s, d, n)
    BY <1>5, <2>1
  <2>4. LET t == Handle(Renumber(WorldTeam(Size), R), n, s, d)
        IN  Sound(t) /\ Members(t) = R
    BY <1>2, <1>6, <2>2, <2>3, RenumberedIsSound
  <2> QED
    BY <1>7, <2>1, <2>4
<1>9. \A q \in Peers(p) : SharedTeam(q) = SharedTeam(p)
  BY DEF SharedTeam, Peers
<1> QED
  BY <1>1, <1>8, <1>9

\* shmemc_team_split_strided on the world.
LEMMA StridedIsSound ==
  ASSUME NEW s \in Int, NEW d \in Nat \ {0}, NEW n \in Nat, KeptByLog(d),
         StridedIsValid(WorldTeam(Size), s, d, n)
  PROVE  Sound(SplitStrided(WorldTeam(Size), s, d, n))
<1>1. PICK f : f = [i \in 0..(n - 1) |-> WorldTeam(Size).fwd[s + i * d]]
  OBVIOUS
<1>2. DOMAIN f = 0..(n - 1) /\ \A i \in 0..(n - 1) : f[i] = s + i * d
  BY <1>1, WorldIs DEF StridedIsValid
<1>3. PICK R \in SUBSET PE : R = {f[i] : i \in 0..(n - 1)}
  <2>1. \A i \in 0..(n - 1) : f[i] \in PE
    BY <1>2, WorldIs DEF StridedIsValid
  <2> QED
    BY <2>1
<1>4. Counts(f, R, n) /\ Evenly(R, s, d, n)
  BY <1>2, <1>3 DEF Counts, Evenly
<1>5. Sound(Handle(f, n, s, d))
  BY <1>4, ProgressionIsSound
<1> QED
  BY <1>1, <1>5 DEF SplitStrided

\* One axis of a grid, when the size that the handle gets is the number of its PEs.
LEMMA AxisIsSound ==
  ASSUME NEW R \in SUBSET PE, NEW s \in PE, NEW second \in Int, NEW n \in Nat,
         NEW d \in Nat \ {0}, KeptByLog(d), Evenly(R, s, d, n),
         d = IF n > 1 /\ second \in PE THEN second - s ELSE 1
  PROVE  LET t == AxisHandle(WorldTeam(Size), R, n, s, second)
         IN  Sound(t) /\ Members(t) = R
<1>1. WorldTeam(Size).fwd[s] = s /\ DOMAIN WorldTeam(Size).fwd = PE
      /\ (second \in PE => WorldTeam(Size).fwd[second] = second)
  BY WorldIs
<1>2. AxisHandle(WorldTeam(Size), R, n, s, second) = Handle(Renumber(WorldTeam(Size), R), n, s, d)
  BY <1>1 DEF AxisHandle
<1>3. s \in Int
  BY HeapAssumption DEF PE
<1> QED
  BY <1>2, <1>3, RenumberedIsSound

\* Products of numbers that are in order.
LEMMA Scaled ==
  ASSUME NEW b \in Nat \ {0}, NEW c \in Nat, NEW d \in Nat
  PROVE  /\ b * c \in Nat /\ b * d \in Nat /\ c * b = b * c
         /\ c < d => b * c + b <= b * d
         /\ c <= d => b * c <= b * d
<1>1. ASSUME c < d PROVE b * c + b <= b * d
  <2>1. PICK e \in Nat : d = c + 1 + e
    <3>1. d - c - 1 \in Nat /\ d = c + 1 + (d - c - 1)
      BY <1>1
    <3> QED
      BY <3>1
  <2>2. b * d = b * c + b + b * e /\ b * e >= 0 /\ b * c \in Nat /\ b * e \in Nat
    BY <2>1
  <2> QED
    BY <2>2
<1>2. b * c \in Nat /\ b * d \in Nat /\ c * b = b * c
  OBVIOUS
<1>3. ASSUME c <= d PROVE b * c <= b * d
  <2>1. c = d \/ c < d
    BY <1>3
  <2> QED
    BY <1>1, <1>2, <2>1
<1> QED
  BY <1>1, <1>2, <1>3

\* A grid of Size PEs in rows of x: q of these are full, and r PEs are left.
LEMMA GridIs ==
  ASSUME NEW x \in Nat \ {0}, NEW q \in Nat, NEW r \in 0 .. x - 1, Size = x * q + r
  PROVE  /\ Size \div x = q /\ Size % x = r
         /\ (Size + x - 1) \div x = IF r = 0 THEN q ELSE q + 1
         /\ \A p \in PE : /\ p \div x \in Nat /\ p % x \in 0 .. x - 1 /\ p = x * (p \div x) + (p % x)
                          /\ p \div x < q \/ (p \div x = q /\ p % x < r)
         /\ \A y \in Nat, z \in 0 .. x - 1 : y < q \/ (y = q /\ z < r) =>
              /\ x * y + z \in PE /\ (x * y + z) \div x = y /\ (x * y + z) % x = z
<1>0. Size \in Nat
  BY HeapAssumption
<1>1. Size \div x = q /\ Size % x = r
  BY <1>0, Quotient
<1>2. (Size + x - 1) \div x = IF r = 0 THEN q ELSE q + 1
  <2>1. PICK a \in Nat : a = Size + x - 1
    BY <1>0
  <2>2. CASE r = 0
    <3>1. PICK z \in 0 .. x - 1 : z = x - 1
      OBVIOUS
    <3>2. a = x * q + z
      BY <2>1, <2>2, <3>1
    <3>3. a \div x = q
      BY <3>2, Quotient
    <3> QED
      BY <2>1, <2>2, <3>3
  <2>3. CASE r # 0
    <3>1. PICK z \in 0 .. x - 1, k \in Nat : z = r - 1 /\ k = q + 1
      BY <2>3
    <3>2. x * k = x * q + x
      BY <3>1, Times
    <3>3. a = x * k + z
      BY <2>1, <3>1, <3>2
    <3>4. a \div x = k
      BY <3>3, Quotient
    <3> QED
      BY <2>1, <2>3, <3>1, <3>4
  <2> QED
    BY <2>2, <2>3
<1>3. ASSUME NEW p \in PE
      PROVE  /\ p \div x \in Nat /\ p % x \in 0 .. x - 1 /\ p = x * (p \div x) + (p % x)
             /\ p \div x < q \/ (p \div x = q /\ p % x < r)
  <2>1. p \in Nat /\ p < Size
    BY <1>0 DEF PE
  <2>2. PICK y \in Nat, z \in 0 .. x - 1 : y = p \div x /\ z = p % x /\ p = x * y + z
    <3>1. p \div x \in Nat /\ p % x \in 0 .. x - 1 /\ p = x * (p \div x) + (p % x)
      BY <2>1, Division
    <3> QED
      BY <3>1
  <2>3. x * y \in Nat /\ x * q \in Nat /\ (q < y => x * q + x <= x * y)
    BY Scaled
  <2>4. y < q \/ (y = q /\ z < r)
    BY <2>1, <2>2, <2>3
  <2> QED
    BY <2>2, <2>4
<1>4. ASSUME NEW y \in Nat, NEW z \in 0 .. x - 1, y < q \/ (y = q /\ z < r)
      PROVE  x * y + z \in PE /\ (x * y + z) \div x = y /\ (x * y + z) % x = z
  <2>1. x * y \in Nat /\ x * q \in Nat /\ (y < q => x * y + x <= x * q)
    BY Scaled
  <2>2. PICK a \in Nat : a = x * y + z
    BY <2>1
  <2>3. a < Size
    BY <1>4, <2>1, <2>2
  <2>4. a \div x = y /\ a % x = z
    BY <2>2, Quotient
  <2> QED
    BY <1>0, <2>2, <2>3, <2>4 DEF PE
<1> QED
  BY <1>1, <1>2, <1>3, <1>4

\* A grid of rows of x PEs without its arithmetic: row and col say where a PE is, and
\* at[a] is the first PE of row a.
GridFacts(x, q, r, row, col, at) ==
  /\ x \in Nat \ {0} /\ q \in Nat /\ r \in 0 .. x - 1
  /\ row \in [PE -> Nat] /\ col \in [PE -> 0 .. x - 1] /\ at \in [Nat -> Nat]
  /\ at[0] = 0 /\ at[1] = x
  /\ \A i \in PE : i = at[row[i]] + col[i] /\ (row[i] < q \/ (row[i] = q /\ col[i] < r))
  /\ \A a \in Nat, b \in 0 .. x - 1 : a < q \/ (a = q /\ b < r) =>
       at[a] + b \in PE /\ row[at[a] + b] = a /\ col[at[a] + b] = b

Multiples(at, x) == \A a \in Nat : a * x = at[a]

GridNames(x, q, r, row, col, at, xrange) ==
  /\ x = Columns(WorldTeam(Size), xrange) /\ x <= Size /\ (x < Size => x = xrange)
  /\ \A i \in PE : i \div x = row[i] /\ i % x = col[i]
  /\ Multiples(at, x)
  /\ Size % x = r /\ (Size + x - 1) \div x = IF r = 0 THEN q ELSE q + 1

\* Every 2D split lays a grid.
LEMMA GridIsLaid ==
  ASSUME NEW xrange \in Nat \ {0}
  PROVE  \E x, q, r, row, col, at :
           GridFacts(x, q, r, row, col, at) /\ GridNames(x, q, r, row, col, at, xrange)
<1>0. Size \in Nat \ {0}
  BY HeapAssumption
<1>1. PICK x \in Nat \ {0} : x = Columns(WorldTeam(Size), xrange)
  BY <1>0, WorldIs DEF Columns
<1>2. x <= Size /\ (x < Size => x = xrange)
  BY <1>0, <1>1, WorldIs DEF Columns
<1>3. PICK q \in Nat, r \in 0 .. x - 1 : Size = x * q + r
  <2>1. Size \div x \in Nat /\ Size % x \in 0 .. x - 1 /\ Size = x * (Size \div x) + (Size % x)
    BY <1>0, Division
  <2> QED
    BY <2>1
<1>4. PICK row, col, at : /\ row = [i \in PE |-> i \div x] /\ col = [i \in PE |-> i % x]
                          /\ at = [a \in Nat |-> x * a]
  OBVIOUS
<1>5. /\ Size \div x = q /\ Size % x = r
      /\ (Size + x - 1) \div x = IF r = 0 THEN q ELSE q + 1
      /\ \A p \in PE : /\ p \div x \in Nat /\ p % x \in 0 .. x - 1 /\ p = x * (p \div x) + (p % x)
                       /\ p \div x < q \/ (p \div x = q /\ p % x < r)
      /\ \A y \in Nat, z \in 0 .. x - 1 : y < q \/ (y = q /\ z < r) =>
           /\ x * y + z \in PE /\ (x * y + z) \div x = y /\ (x * y + z) % x = z
  BY <1>3, GridIs
<1>6. row \in [PE -> Nat] /\ col \in [PE -> 0 .. x - 1]
  BY <1>4, <1>5
<1>7. at \in [Nat -> Nat] /\ at[0] = 0 /\ at[1] = x
  BY <1>4, Times
<1>8. ASSUME NEW i \in PE
      PROVE  i = at[row[i]] + col[i] /\ (row[i] < q \/ (row[i] = q /\ col[i] < r))
  BY <1>4, <1>5
<1>9. ASSUME NEW a \in Nat, NEW b \in 0 .. x - 1, a < q \/ (a = q /\ b < r)
      PROVE  at[a] + b \in PE /\ row[at[a] + b] = a /\ col[at[a] + b] = b
  <2>1. x * a + b \in PE /\ (x * a + b) \div x = a /\ (x * a + b) % x = b
    BY <1>5, <1>9
  <2>2. PICK i \in PE : i = x * a + b
    BY <2>1
  <2>3. at[a] + b = i /\ i \div x = a /\ i % x = b
    BY <1>4, <2>1, <2>2
  <2> QED
    BY <1>4, <2>3
<1>10. GridFacts(x, q, r, row, col, at)
  BY <1>6, <1>7, <1>8, <1>9 DEF GridFacts
<1>11. \A i \in PE : i \div x = row[i] /\ i % x = col[i]
  BY <1>4
<1>12. Multiples(at, x)
  BY <1>4, Scaled DEF Multiples
<1>13. GridNames(x, q, r, row, col, at, xrange)
  BY <1>1, <1>2, <1>5, <1>11, <1>12 DEF GridNames
<1> QED
  BY <1>10, <1>13

\* A row is evenly spaced.
LEMMA RowIsEven ==
  ASSUME NEW x, NEW q, NEW r, NEW row, NEW col, NEW at, GridFacts(x, q, r, row, col, at),
         NEW p \in PE
  PROVE  LET n == IF row[p] = q /\ r # 0 THEN r ELSE x
         IN  /\ n \in Nat /\ at[row[p]] \in PE
             /\ Evenly({i \in PE : row[i] = row[p]}, at[row[p]], 1, n)
<1>0. /\ x \in Nat \ {0} /\ q \in Nat /\ r \in 0 .. x - 1
      /\ row \in [PE -> Nat] /\ col \in [PE -> 0 .. x - 1] /\ at \in [Nat -> Nat]
      /\ \A i \in PE : i = at[row[i]] + col[i] /\ (row[i] < q \/ (row[i] = q /\ col[i] < r))
      /\ \A a \in Nat, b \in 0 .. x - 1 : a < q \/ (a = q /\ b < r) =>
           at[a] + b \in PE /\ row[at[a] + b] = a /\ col[at[a] + b] = b
  BY DEF GridFacts
<1>1. PICK y \in Nat, n \in Nat, s \in Nat, R \in SUBSET PE :
        y = row[p] /\ n = (IF y = q /\ r # 0 THEN r ELSE x) /\ s = at[y]
        /\ R = {i \in PE : row[i] = y}
  <2>1. row[p] \in Nat
    BY <1>0
  <2>2. at[row[p]] \in Nat
    BY <1>0, <2>1
  <2>3. (IF row[p] = q /\ r # 0 THEN r ELSE x) \in Nat
    BY <1>0
  <2> QED
    BY <2>1, <2>2, <2>3
<1>2. col[p] \in 0 .. x - 1 /\ (y < q \/ (y = q /\ col[p] < r))
  BY <1>0, <1>1
<1>3. \A b \in 0 .. x - 1 : b < n => y < q \/ (y = q /\ b < r)
  BY <1>0, <1>1, <1>2
<1>4. n <= x /\ n >= 1
  BY <1>0, <1>1
<1>5. \A b \in 0 .. n - 1 : s + b \in PE /\ row[s + b] = y
  BY <1>0, <1>1, <1>3, <1>4
<1>6. s \in PE
  BY <1>4, <1>5
<1>7. \A i \in R : i = s + col[i] /\ col[i] \in 0 .. n - 1
  <2> SUFFICES ASSUME NEW i \in R PROVE i = s + col[i] /\ col[i] \in 0 .. n - 1
    OBVIOUS
  <2>1. i \in PE /\ row[i] = y
    BY <1>1
  <2>2. i = s + col[i] /\ (y < q \/ (y = q /\ col[i] < r)) /\ col[i] \in 0 .. x - 1
    BY <1>0, <1>1, <2>1
  <2> QED
    BY <1>0, <1>1, <2>2
<1>8. Evenly(R, s, 1, n)
  <2>1. \A b \in 0 .. n - 1 : b * 1 = b
    OBVIOUS
  <2>2. \A i \in R : \E j \in 0 .. n - 1 : i = s + j * 1
    BY <1>7, <2>1
  <2>3. \A j \in 0 .. n - 1 : s + j * 1 \in R
    BY <1>1, <1>5, <2>1
  <2> QED
    BY <2>2, <2>3 DEF Evenly
<1> QED
  BY <1>1, <1>6, <1>8

\* A column is evenly spaced, too; its stride is one if it is a single PE.
LEMMA ColumnIsEven ==
  ASSUME NEW x, NEW q, NEW r, NEW row, NEW col, NEW at, GridFacts(x, q, r, row, col, at),
         Multiples(at, x), NEW p \in PE
  PROVE  LET n == IF col[p] < r THEN q + 1 ELSE q
         IN  /\ n \in Nat /\ col[p] \in PE /\ (n > 1 => x + col[p] \in PE)
             /\ Evenly({i \in PE : col[i] = col[p]}, col[p], IF n > 1 THEN x ELSE 1, n)
<1>0. /\ x \in Nat \ {0} /\ q \in Nat /\ r \in 0 .. x - 1
      /\ row \in [PE -> Nat] /\ col \in [PE -> 0 .. x - 1] /\ at \in [Nat -> Nat]
      /\ at[0] = 0 /\ at[1] = x
      /\ \A i \in PE : i = at[row[i]] + col[i] /\ (row[i] < q \/ (row[i] = q /\ col[i] < r))
      /\ \A a \in Nat, b \in 0 .. x - 1 : a < q \/ (a = q /\ b < r) =>
           at[a] + b \in PE /\ row[at[a] + b] = a /\ col[at[a] + b] = b
  BY DEF GridFacts
<1>1. PICK z \in 0 .. x - 1, n \in Nat, R \in SUBSET PE, d \in Nat \ {0} :
        z = col[p] /\ n = (IF z < r THEN q + 1 ELSE q) /\ R = {i \in PE : col[i] = z}
        /\ d = (IF n > 1 THEN x ELSE 1)
  <2>1. PICK z \in 0 .. x - 1 : z = col[p]
    BY <1>0
  <2>2. PICK n \in Nat : n = (IF z < r THEN q + 1 ELSE q)
    BY <1>0
  <2>3. PICK d \in Nat \ {0} : d = (IF n > 1 THEN x ELSE 1)
    BY <1>0
  <2> QED
    BY <2>1, <2>2, <2>3
<1>2. n >= 1
  <2>1. row[p] \in Nat /\ (row[p] < q \/ (row[p] = q /\ z < r))
    BY <1>0, <1>1
  <2> QED
    BY <1>0, <1>1, <2>1
<1>3. \A a \in 0 .. n - 1 : a < q \/ (a = q /\ z < r)
  BY <1>0, <1>1
<1>4. \A a \in 0 .. n - 1 : at[a] + z \in PE /\ col[at[a] + z] = z
  <2> SUFFICES ASSUME NEW a \in 0 .. n - 1 PROVE at[a] + z \in PE /\ col[at[a] + z] = z
    OBVIOUS
  <2>1. a \in Nat /\ z \in 0 .. x - 1 /\ (a < q \/ (a = q /\ z < r))
    BY <1>1, <1>3
  <2> QED
    BY <1>0, <2>1
<1>5. z \in PE /\ (n > 1 => x + z \in PE)
  <2>1. at[0] + z \in PE
    BY <1>2, <1>4
  <2>2. n > 1 => at[1] + z \in PE
    BY <1>4
  <2> QED
    BY <1>0, <2>1, <2>2
<1>6. \A i \in R : row[i] \in 0 .. n - 1 /\ i = at[row[i]] + z
  <2> SUFFICES ASSUME NEW i \in R PROVE row[i] \in 0 .. n - 1 /\ i = at[row[i]] + z
    OBVIOUS
  <2>1. i \in PE /\ col[i] = z
    BY <1>1
  <2>2. row[i] \in Nat /\ i = at[row[i]] + z /\ (row[i] < q \/ (row[i] = q /\ z < r))
    BY <1>0, <2>1
  <2> QED
    BY <1>0, <1>1, <2>2
<1>7. \A j \in 0 .. n - 1 : j * d = at[j]
  <2>1. CASE n > 1
    BY <1>1, <2>1 DEF Multiples
  <2>2. CASE ~ (n > 1)
    <3>1. n = 1 /\ d = 1
      BY <1>1, <1>2, <2>2
    <3>2. 0 * d = at[0]
      BY <1>0, <3>1
    <3> QED
      BY <3>1, <3>2
  <2> QED
    BY <2>1, <2>2
<1>8. \A j \in 0 .. n - 1 : at[j] \in Nat /\ at[j] + z = z + at[j]
  BY <1>0, <1>1
<1>9. Evenly(R, z, d, n)
  <2>1. \A i \in R : \E j \in 0 .. n - 1 : i = z + j * d
    <3> SUFFICES ASSUME NEW i \in R PROVE \E j \in 0 .. n - 1 : i = z + j * d
      OBVIOUS
    <3>1. PICK j \in 0 .. n - 1 : j = row[i] /\ i = at[j] + z
      BY <1>6
    <3>2. at[j] + z = z + at[j] /\ j * d = at[j]
      BY <1>7, <1>8
    <3> QED
      BY <3>1, <3>2
  <2>2. \A j \in 0 .. n - 1 : z + j * d \in R
    BY <1>1, <1>4, <1>7, <1>8
  <2> QED
    BY <2>1, <2>2 DEF Evenly
<1> QED
  BY <1>1, <1>5, <1>9

\* The rows of a grid.
LEMMA XAxisIsSound ==
  ASSUME NEW xrange \in Nat \ {0}, NEW p \in PE, KeptByLog(1)
  PROVE  LET t == XAxis(WorldTeam(Size), xrange, p)
         IN  Sound(t) /\ \A o \in Members(t) : XAxis(WorldTeam(Size), xrange, o) = t
<1>1. PICK x, q, r, row, col, at :
        GridFacts(x, q, r, row, col, at) /\ GridNames(x, q, r, row, col, at, xrange)
  BY GridIsLaid
<1>2. PICK n, s, R : /\ n = (IF row[p] = q /\ r # 0 THEN r ELSE x) /\ s = at[row[p]]
                     /\ R = {i \in PE : row[i] = row[p]}
  OBVIOUS
<1>3. n \in Nat /\ s \in PE /\ s \in Int /\ s + 1 \in Int /\ Evenly(R, s, 1, n)
  <2>1. n \in Nat /\ s \in PE /\ Evenly(R, s, 1, n)
    BY <1>1, <1>2, RowIsEven
  <2>2. s \in Int
    BY <2>1, HeapAssumption DEF PE
  <2> QED
    BY <2>1, <2>2
<1>4. PICK t : t = AxisHandle(WorldTeam(Size), R, n, s, s + 1)
  OBVIOUS
<1>5. Sound(t) /\ Members(t) = R
  <2>1. PICK second \in Int, d \in Nat \ {0} : second = s + 1 /\ d = 1
    BY <1>3
  <2>2. d = IF n > 1 /\ second \in PE THEN second - s ELSE 1
    BY <1>3, <2>1
  <2>3. R \in SUBSET PE /\ KeptByLog(d) /\ Evenly(R, s, d, n)
    BY <1>2, <1>3, <2>1
  <2>4. LET u == AxisHandle(WorldTeam(Size), R, n, s, second) IN Sound(u) /\ Members(u) = R
    BY <1>3, <2>2, <2>3, AxisIsSound
  <2> QED
    BY <1>4, <2>1, <2>4
<1>6. /\ x = Columns(WorldTeam(Size), xrange) /\ WorldTeam(Size).nranks = Size
      /\ \A i \in PE : i \div x = row[i]
      /\ Size % x = r /\ (Size + x - 1) \div x = IF r = 0 THEN q ELSE q + 1
      /\ row[p] \in Nat /\ q \in Nat /\ r \in Int /\ x \in Int
  <2>1. x \in Int /\ row[p] \in Nat /\ q \in Nat /\ r \in Int
    BY <1>1 DEF GridFacts
  <2> QED
    BY <1>1, <2>1, WorldIs DEF GridNames
<1>7. row[p] * x = s
  BY <1>1, <1>2, <1>6 DEF GridNames, Multiples
<1>8. XAxis(WorldTeam(Size), xrange, p) = t
  <2>1. PICK y, rows, l : y = p \div x /\ rows = (Size + x - 1) \div x /\ l = Size % x
    OBVIOUS
  <2>2. y = row[p] /\ rows = (IF r = 0 THEN q ELSE q + 1) /\ l = r
    BY <1>6, <2>1
  <2>3. (IF y = rows - 1 /\ l # 0 THEN l ELSE x) = n
    BY <1>2, <1>6, <2>2
  <2>4. {i \in 0..(Size - 1) : i \div x = y} = R
    BY <1>2, <1>6, <2>2 DEF PE
  <2>5. y * x = s
    BY <1>7, <2>2
  <2>6. XAxis(WorldTeam(Size), xrange, p)
          = AxisHandle(WorldTeam(Size), {i \in 0..(Size - 1) : i \div x = y},
                       IF y = rows - 1 /\ l # 0 THEN l ELSE x, y * x, y * x + 1)
    BY <1>6, <2>1, Zenon DEF XAxis
  <2> QED
    BY <1>4, <2>3, <2>4, <2>5, <2>6, Zenon
<1>9. ASSUME NEW o \in Members(t)
      PROVE  XAxis(WorldTeam(Size), xrange, o) = XAxis(WorldTeam(Size), xrange, p)
  <2>1. o \div x = p \div x
    BY <1>2, <1>5, <1>6
  <2> QED
    BY <1>6, <2>1, Zenon DEF XAxis
<1> QED
  BY <1>5, <1>8, <1>9

\* The columns of a grid.
LEMMA YAxisIsSound ==
  ASSUME NEW xrange \in Nat \ {0}, NEW p \in PE, KeptByLog(1),
         xrange < Size => KeptByLog(xrange)
  PROVE  LET t == YAxis(WorldTeam(Size), xrange, p)
         IN  Sound(t) /\ \A o \in Members(t) : YAxis(WorldTeam(Size), xrange, o) = t
<1>1. PICK x, q, r, row, col, at :
        GridFacts(x, q, r, row, col, at) /\ GridNames(x, q, r, row, col, at, xrange)
  BY GridIsLaid
<1>2. PICK n, z, R : /\ n = (IF col[p] < r THEN q + 1 ELSE q) /\ z = col[p]
                     /\ R = {i \in PE : col[i] = col[p]}
  OBVIOUS
<1>3. PICK d : d = IF n > 1 THEN x ELSE 1
  OBVIOUS
<1>4. n \in Nat /\ z \in PE /\ (n > 1 => x + z \in PE) /\ Evenly(R, z, d, n)
  BY <1>1, <1>2, <1>3, ColumnIsEven DEF GridNames
<1>5. z \in Int /\ x \in Nat \ {0} /\ x + z \in Int /\ d \in Nat \ {0} /\ z >= 0 /\ Size \in Nat
      /\ q \in Nat /\ r \in Int
  <2>1. z \in Int /\ z >= 0 /\ Size \in Nat
    BY <1>4, HeapAssumption DEF PE
  <2>2. x \in Nat \ {0} /\ q \in Nat /\ r \in Int
    BY <1>1 DEF GridFacts
  <2>3. d \in Nat \ {0}
    BY <1>3, <2>2
  <2> QED
    BY <2>1, <2>2, <2>3
<1>6. /\ x = Columns(WorldTeam(Size), xrange) /\ WorldTeam(Size).nranks = Size
      /\ \A i \in PE : i % x = col[i]
      /\ Size % x = r /\ (Size + x - 1) \div x = IF r = 0 THEN q ELSE q + 1
      /\ (x < Size => x = xrange)
  BY <1>1, WorldIs DEF GridNames
<1>7. PICK t : t = AxisHandle(WorldTeam(Size), R, n, z, x + z)
  OBVIOUS
<1>8. Sound(t) /\ Members(t) = R
  <2>1. PICK second \in Int : second = x + z
    BY <1>5
  <2>2. d = IF n > 1 /\ second \in PE THEN second - z ELSE 1
    BY <1>3, <1>4, <1>5, <2>1
  <2>3. KeptByLog(d)
    <3>1. CASE n > 1
      <4>1. x + z < Size
        BY <1>4, <1>5, <3>1 DEF PE
      <4>2. x < Size
        BY <1>5, <4>1
      <4> QED
        BY <1>3, <1>6, <3>1, <4>2
    <3>2. CASE ~ (n > 1)
      BY <1>3, <3>2
    <3> QED
      BY <3>1, <3>2
  <2>4. R \in SUBSET PE
    BY <1>2
  <2>5. LET u == AxisHandle(WorldTeam(Size), R, n, z, second) IN Sound(u) /\ Members(u) = R
    BY <1>4, <1>5, <2>2, <2>3, <2>4, AxisIsSound
  <2> QED
    BY <1>7, <2>1, <2>5
<1>9. YAxis(WorldTeam(Size), xrange, p) = t
  <2>1. PICK c, rows, l : c = p % x /\ rows = (Size + x - 1) \div x /\ l = Size % x
    OBVIOUS
  <2>2. c = z /\ rows = (IF r = 0 THEN q ELSE q + 1) /\ l = r
    BY <1>2, <1>6, <2>1
  <2>3. (IF l = 0 \/ c < l THEN rows ELSE rows - 1) = n
    BY <1>2, <1>5, <2>2
  <2>4. {i \in 0..(Size - 1) : i % x = c} = R
    BY <1>2, <1>6, <2>2 DEF PE
  <2>5. YAxis(WorldTeam(Size), xrange, p)
          = AxisHandle(WorldTeam(Size), {i \in 0..(Size - 1) : i % x = c},
                       IF l = 0 \/ c < l THEN rows ELSE rows - 1, c, x + c)
    BY <1>6, <2>1, Zenon DEF YAxis
  <2> QED
    BY <1>7, <2>2, <2>3, <2>4, <2>5, Zenon
<1>10. ASSUME NEW o \in Members(t)
      PROVE  YAxis(WorldTeam(Size), xrange, o) = YAxis(WorldTeam(Size), xrange, p)
  <2>1. o % x = p % x
    BY <1>2, <1>6, <1>8
  <2> QED
    BY <1>6, <2>1, Zenon DEF YAxis
<1> QED
  BY <1>8, <1>9, <1>10

-----------------------------------------------------------------------------
(* Handles and the calls that make them.                                   *)

\* What a call of PE p that splits the world makes: the i-th of its teams.
Made(p, c, i) ==
  IF c.kind = "strided" THEN SplitStrided(WorldTeam(Size), c.start, c.stride, c.size)
  ELSE IF i = 1 THEN XAxis(WorldTeam(Size), c.xrange, p)
  ELSE YAxis(WorldTeam(Size), c.xrange, p)

\* The call makes a team: a strided split of ranks the world does not have makes none.
Creates(c) ==
  /\ IsSplit(c)
  /\ c.kind = "strided" => StridedIsValid(WorldTeam(Size), c.start, c.stride, c.size)

\* The handle k that PE p has is the one it would compute again.
Issued(p, k) ==
  \/ k = World /\ team[p][k] = WorldTeam(Size)
  \/ k = Shared /\ team[p][k] = SharedTeam(p)
  \/ /\ k[1] \in 1..Len(calls) /\ k # World /\ k # Shared
     /\ Creates(calls[k[1]]) /\ team[p][k] = Made(p, calls[k[1]], k[2])

HandleInv == \A p \in PE : \A k \in DOMAIN team[p] : Issued(p, k)

\* The calls have the parameters of the menu.
LEMMA CallsAreRegular ==
  ASSUME RegularTeams, NEW c \in CallSet
  PROVE  /\ c.kind = "strided" => /\ c.start \in Int /\ c.stride \in Nat \ {0} /\ c.size \in Nat
                                  /\ KeptByLog(c.stride)
         /\ c.kind = "grid" => /\ c.xrange \in Nat \ {0}
                               /\ c.xrange < Size => KeptByLog(c.xrange)
<1>1. ASSUME NEW m \in Menu, NEW k, c = m \/ c = About(m, k)
      PROVE  /\ c.kind = m.kind
             /\ \A f \in {"start", "stride", "size", "xrange"} : f \in DOMAIN m => c[f] = m[f]
  <2>1. "kind" \in DOMAIN m
    BY MenuAssumption
  <2>2. c = About(m, k) =>
          /\ c.kind = m.kind
          /\ \A f \in {"start", "stride", "size", "xrange"} : f \in DOMAIN m => c[f] = m[f]
    BY <2>1 DEF About
  <2> QED
    BY <1>1, <2>2
<1>2. PICK m \in Menu, k \in Key : c = m \/ c = About(m, k)
  <2>1. World \in Key
    BY DEF World, Key
  <2> QED
    BY <2>1 DEF CallSet
<1>3. /\ c.kind = m.kind
      /\ "start" \in DOMAIN m => c.start = m.start
      /\ "stride" \in DOMAIN m => c.stride = m.stride
      /\ "size" \in DOMAIN m => c.size = m.size
      /\ "xrange" \in DOMAIN m => c.xrange = m.xrange
  BY <1>1, <1>2
<1> QED
  BY <1>3 DEF RegularTeams

\* The handles that a call makes are sound, and the same for all members.
LEMMA MadeIsSound ==
  ASSUME RegularTeams, NEW c \in CallSet, Creates(c), NEW p \in PE, NEW i
  PROVE  Sound(Made(p, c, i)) /\ \A o \in Members(Made(p, c, i)) : Made(o, c, i) = Made(p, c, i)
<1>0. KeptByLog(1)
  BY DEF RegularTeams
<1>1. CASE c.kind = "strided"
  <2>1. PICK s \in Int, d \in Nat \ {0}, n \in Nat : s = c.start /\ d = c.stride /\ n = c.size
    BY <1>1, CallsAreRegular
  <2>2. KeptByLog(d) /\ StridedIsValid(WorldTeam(Size), s, d, n)
    BY <1>1, <2>1, CallsAreRegular DEF Creates
  <2>3. Sound(SplitStrided(WorldTeam(Size), s, d, n))
    BY <2>2, StridedIsSound
  <2>4. \A o : Made(o, c, i) = SplitStrided(WorldTeam(Size), s, d, n)
    BY <1>1, <2>1 DEF Made
  <2> QED
    BY <2>3, <2>4
<1>2. CASE c.kind = "grid"
  <2>1. PICK x \in Nat \ {0} : x = c.xrange /\ (x < Size => KeptByLog(x))
    BY <1>2, CallsAreRegular
  <2>2. CASE i = 1
    <3>1. \A o : Made(o, c, i) = XAxis(WorldTeam(Size), x, o)
      BY <1>2, <2>1, <2>2 DEF Made
    <3>2. LET t == XAxis(WorldTeam(Size), x, p)
          IN  Sound(t) /\ \A o \in Members(t) : XAxis(WorldTeam(Size), x, o) = t
      BY <1>0, XAxisIsSound
    <3> QED
      BY <3>1, <3>2
  <2>3. CASE i # 1
    <3>1. \A o : Made(o, c, i) = YAxis(WorldTeam(Size), x, o)
      BY <1>2, <2>1, <2>3 DEF Made
    <3>2. LET t == YAxis(WorldTeam(Size), x, p)
          IN  Sound(t) /\ \A o \in Members(t) : YAxis(WorldTeam(Size), x, o) = t
      BY <1>0, <2>1, YAxisIsSound
    <3> QED
      BY <3>1, <3>2
  <2> QED
    BY <2>2, <2>3
<1> QED
  BY <1>1, <1>2 DEF Creates, IsSplit

\* Handles that are what their PEs computed agree.
LEMMA IssuedAgree ==
  ASSUME RegularTeams, Shape, HandleInv
  PROVE  HandlesAgree
<1>1. ASSUME NEW p \in PE, NEW k \in DOMAIN team[p], NEW t, t = team[p][k]
      PROVE  Sound(t) /\ \A q \in Members(t) : k \in DOMAIN team[q] => team[q][k] = t
  <2>1. Issued(p, k)
    BY <1>1 DEF HandleInv
  <2>2. World # Shared
    BY DEF World, Shared
  <2>3. CASE k = World
    <3>1. t = WorldTeam(Size)
      BY <1>1, <2>3 DEF Shape
    <3>2. Sound(t) /\ Members(t) = PE
      BY <3>1, WorldIsSound, WorldHasAll DEF RegularTeams
    <3>3. \A q \in PE : team[q][k] = WorldTeam(Size)
      BY <2>3 DEF Shape
    <3> QED
      BY <3>1, <3>2, <3>3
  <2>4. CASE k = Shared
    <3>1. t = SharedTeam(p)
      BY <1>1, <2>1, <2>2, <2>4 DEF Issued
    <3>2. Sound(t) /\ Members(t) \subseteq PE
          /\ \A q \in Members(t) : SharedTeam(q) = t
      BY <3>1, SharedIsSound DEF Peers
    <3>3. \A q \in PE : k \in DOMAIN team[q] => team[q][k] = SharedTeam(q)
      BY <2>2, <2>4 DEF Issued, HandleInv
    <3> QED
      BY <3>2, <3>3
  <2>5. CASE k # World /\ k # Shared
    <3>1. PICK c : c = calls[k[1]]
      OBVIOUS
    <3>2. k[1] \in 1..Len(calls) /\ Creates(c) /\ t = Made(p, c, k[2])
      BY <1>1, <2>1, <2>5, <3>1 DEF Issued
    <3>3. c \in CallSet
      BY <3>1, <3>2, ElementOfSeq DEF Shape
    <3>4. Sound(t) /\ \A o \in Members(t) : Made(o, c, k[2]) = t
      BY <3>2, <3>3, MadeIsSound
    <3>5. \A q \in PE : k \in DOMAIN team[q] => team[q][k] = Made(q, c, k[2])
      BY <2>5, <3>1 DEF HandleInv, Issued
    <3>6. Members(t) \subseteq PE
      BY <3>4 DEF Sound
    <3> QED
      BY <3>4, <3>5, <3>6
  <2> QED
    BY <2>3, <2>4, <2>5
<1>2. ASSUME NEW p \in PE, NEW k \in DOMAIN team[p]
      PROVE  LET t == team[p][k]
             IN  /\ DOMAIN t.fwd = 0..(t.nranks - 1)
                 /\ Cardinality(Members(t)) = t.nranks
                 /\ \A q \in Members(t) : k \in DOMAIN team[q] => team[q][k] = t
                 /\ ActiveSet(t) = Members(t)
  <2>1. PICK t : t = team[p][k]
    OBVIOUS
  <2>2. Sound(t) /\ \A q \in Members(t) : k \in DOMAIN team[q] => team[q][k] = t
    BY <1>1, <2>1
  <2> QED
    BY <2>1, <2>2 DEF Sound
<1> QED
  BY <1>2 DEF HandlesAgree

\* What becomes of the handles of a PE, and what the one is that a split makes.
LEMMA TeamsStep ==
  ASSUME Nested = FALSE, Shape, [Next]_vars, NEW p \in PE
  PROVE  \/ team'[p] = team[p]
         \/ \E k : team'[p] = Without(team[p], k)
         \/ /\ calls' = calls /\ pos[p] \in 1..Len(calls) /\ Creates(Call(p))
            /\ \E i \in {1, 2} : team'[p] = With(team[p], <<pos[p], i>>, Made(p, Call(p), i))
<1>1. DOMAIN team = PE
  BY DEF Shape
<1>2. \A q \in PE : team[q][World] = WorldTeam(Size) /\ RankIn(WorldTeam(Size), q) = q
  BY WorldIs DEF Shape
<1>3. ASSUME NEW q \in PE, Split(q)
      PROVE  \/ team'[p] = team[p]
             \/ /\ calls' = calls /\ pos[p] \in 1..Len(calls) /\ Creates(Call(p))
                /\ \E i \in {1, 2} : team'[p] = With(team[p], <<pos[p], i>>, Made(p, Call(p), i))
  <2>1. At(q, "split") /\ step[q] # 0
    BY <1>3 DEF Split, At
  <2>2. Call(q).kind = "strided" /\ Call(q).of = World /\ pos[q] \in 1..Len(calls)
    BY <2>1, WhereIs DEF IsCall, IsSplit
  <2>3. PICK c, t : c = Call(q) /\ t = SplitStrided(WorldTeam(Size), c.start, c.stride, c.size)
    OBVIOUS
  <2>4. CASE team' = team
    BY <2>4
  <2>5. CASE ~(team' = team)
    <3>1. /\ calls' = calls /\ StridedIsValid(WorldTeam(Size), c.start, c.stride, c.size)
          /\ team' = [team EXCEPT ![q] = With(@, <<pos[q], 1>>, t)]
      BY <1>2, <1>3, <2>2, <2>3, <2>5 DEF Split, Create, AllocateWorkArrays
    <3>2. Creates(c) /\ Made(q, c, 1) = t
      BY <2>2, <2>3, <3>1 DEF Creates, IsSplit, Made
    <3>3. CASE q = p
      BY <1>1, <2>2, <2>3, <3>1, <3>2, <3>3
    <3>4. CASE q # p
      BY <1>1, <3>1, <3>4
    <3> QED
      BY <3>3, <3>4
  <2> QED
    BY <2>4, <2>5
<1>4. ASSUME NEW q \in PE, SplitRows(q)
      PROVE  \/ team'[p] = team[p]
             \/ /\ calls' = calls /\ pos[p] \in 1..Len(calls) /\ Creates(Call(p))
                /\ \E i \in {1, 2} : team'[p] = With(team[p], <<pos[p], i>>, Made(p, Call(p), i))
  <2>1. At(q, "rows") /\ step[q] # 0
    BY <1>4 DEF SplitRows, At
  <2>2. Call(q).kind = "grid" /\ Call(q).of = World /\ pos[q] \in 1..Len(calls)
    BY <2>1, WhereIs DEF IsCall, IsSplit
  <2>3. PICK c, t : c = Call(q) /\ t = XAxis(WorldTeam(Size), c.xrange, q)
    OBVIOUS
  <2>4. calls' = calls /\ team' = [team EXCEPT ![q] = With(@, <<pos[q], 1>>, t)]
    BY <1>2, <1>4, <2>2, <2>3 DEF SplitRows, Create, AllocateWorkArrays
  <2>5. Creates(c) /\ Made(q, c, 1) = t
    BY <2>2, <2>3 DEF Creates, IsSplit, Made
  <2>6. CASE q = p
    BY <1>1, <2>2, <2>3, <2>4, <2>5, <2>6
  <2>7. CASE q # p
    BY <1>1, <2>4, <2>7
  <2> QED
    BY <2>6, <2>7
<1>5. ASSUME NEW q \in PE, SplitColumns(q)
      PROVE  \/ team'[p] = team[p]
             \/ /\ calls' = calls /\ pos[p] \in 1..Len(calls) /\ Creates(Call(p))
                /\ \E i \in {1, 2} : team'[p] = With(team[p], <<pos[p], i>>, Made(p, Call(p), i))
  <2>1. At(q, "columns") /\ step[q] # 0
    BY <1>5 DEF SplitColumns, At
  <2>2. Call(q).kind = "grid" /\ Call(q).of = World /\ pos[q] \in 1..Len(calls)
    BY <2>1, WhereIs DEF IsCall, IsSplit
  <2>3. PICK c, t : c = Call(q) /\ t = YAxis(WorldTeam(Size), c.xrange, q)
    OBVIOUS
  <2>4. calls' = calls /\ team' = [team EXCEPT ![q] = With(@, <<pos[q], 2>>, t)]
    BY <1>2, <1>5, <2>2, <2>3 DEF SplitColumns, Create, AllocateWorkArrays
  <2>5. Creates(c) /\ Made(q, c, 2) = t
    BY <2>2, <2>3 DEF Creates, IsSplit, Made
  <2>6. CASE q = p
    BY <1>1, <2>2, <2>3, <2>4, <2>5, <2>6
  <2>7. CASE q # p
    BY <1>1, <2>4, <2>7
  <2> QED
    BY <2>6, <2>7
<1>6. ASSUME NEW q \in PE, Destroy(q)
      PROVE  team'[p] = team[p] \/ \E k : team'[p] = Without(team[p], k)
  BY <1>1, <1>6 DEF Destroy
<1>7. ASSUME NEW q \in PE,
             \/ Lead(q) \/ Follow(q) \/ Allocate(q) \/ Release(q) \/ Resize(q)
             \/ Arrive(q) \/ Leave(q)
      PROVE  team' = team
  BY <1>7 DEF Lead, Follow, Enter, Allocate, Release, Resize, Arrive, Leave
<1>8. ASSUME \/ \E q, r \in PE : \E k \in DOMAIN heap[q] : Put(q, r, k)
             \/ \E o \in net : Land(o)
             \/ UNCHANGED vars
      PROVE  team' = team
  BY <1>8 DEF Put, Land, vars
<1> QED
  BY <1>3, <1>4, <1>5, <1>6, <1>7, <1>8 DEF Next, Done

\* The handles of the start are those of the world and of the machines.
LEMMA IssuedInit == Init => HandleInv
<1> SUFFICES ASSUME Init, NEW p \in PE, NEW k \in DOMAIN team[p] PROVE Issued(p, k)
  BY DEF HandleInv
<1>1. k \in {World, Shared} /\ team[p][k] = IF k = World THEN WorldTeam(Size) ELSE SharedTeam(p)
  BY DEF Init
<1> QED
  BY <1>1 DEF Issued

\* A handle that a split makes is the one its call says; the calls there were stay.
LEMMA IssuedNext ==
  ASSUME Nested = FALSE, HInv, HandleInv, [Next]_vars
  PROVE  HandleInv'
<1>1. PICK H : Shape /\ Chain(H) /\ Images(H)
  BY DEF HInv
<1>2. calls \in Seq(CallSet) /\ Len(calls) \in Nat
  BY <1>1, LenProperties DEF Shape
<1>3. \A i \in 1..Len(calls) : i \in 1..Len(calls') /\ calls'[i] = calls[i]
  <2>1. ASSUME NEW c \in CallSet, calls' = Append(calls, c)
        PROVE  \A i \in 1..Len(calls) : i \in 1..Len(calls') /\ calls'[i] = calls[i]
    BY <1>2, <2>1, AppendProperties
  <2> QED
    BY <1>1, <2>1, CallsStay
<1>4. ASSUME NEW p \in PE, NEW k \in DOMAIN team[p], team'[p][k] = team[p][k]
      PROVE  Issued(p, k)'
  <2>1. Issued(p, k)
    BY DEF HandleInv
  <2> QED
    BY <1>3, <1>4, <2>1 DEF Issued
<1>5. ASSUME NEW p \in PE, NEW i \in {1, 2}, calls' = calls, pos[p] \in 1..Len(calls),
             Creates(Call(p)), NEW k, k = <<pos[p], i>>, team'[p][k] = Made(p, Call(p), i)
      PROVE  Issued(p, k)'
  <2>1. PICK n : n = pos[p] /\ k = <<n, i>>
    BY <1>5
  <2>2. n # 0 /\ n \in 1..Len(calls')
    BY <1>2, <1>5, <2>1
  <2>3. k # World /\ k # Shared /\ k[1] = n /\ k[2] = i
    BY <2>1, <2>2 DEF World, Shared
  <2>4. Creates(calls'[n]) /\ team'[p][k] = Made(p, calls'[n], i)
    BY <1>5, <2>1 DEF Call
  <2> QED
    BY <2>2, <2>3, <2>4 DEF Issued
<1>6. ASSUME NEW p \in PE, NEW k \in DOMAIN team'[p] PROVE Issued(p, k)'
  <2>1. CASE team'[p] = team[p]
    BY <1>4, <1>6, <2>1
  <2>2. ASSUME NEW x, team'[p] = Without(team[p], x) PROVE Issued(p, k)'
    <3>1. k \in DOMAIN team[p] /\ team'[p][k] = team[p][k]
      BY <1>6, <2>2 DEF Without
    <3> QED
      BY <1>4, <3>1
  <2>3. ASSUME calls' = calls, pos[p] \in 1..Len(calls), Creates(Call(p)), NEW i \in {1, 2},
               team'[p] = With(team[p], <<pos[p], i>>, Made(p, Call(p), i))
        PROVE  Issued(p, k)'
    <3>1. CASE k = <<pos[p], i>>
      <4>1. team'[p][k] = Made(p, Call(p), i)
        BY <2>3, <3>1 DEF With
      <4> QED
        BY <1>5, <2>3, <3>1, <4>1
    <3>2. CASE k # <<pos[p], i>>
      <4>1. k \in DOMAIN team[p] /\ team'[p][k] = team[p][k]
        BY <1>6, <2>3, <3>2 DEF With
      <4> QED
        BY <1>4, <4>1
    <3> QED
      BY <3>1, <3>2
  <2> QED
    BY <1>1, <2>1, <2>2, <2>3, TeamsStep
<1> QED
  BY <1>6 DEF HandleInv

\* Every PE builds its handles on its own (teams.c:207-230, :463-513 and :536-622), and
\* still the members of a team have the same one: its size is the number of its members,
\* its ranks count through them without a gap, and the collectives over the team address
\* its members and no others.  It holds for every number of PEs, every arrangement of
\* machines and every sequence of splits of the world, as far as these are regular.
THEOREM HandlesOfMembersAgree ==
  ASSUME Nested = FALSE, RegularTeams
  PROVE  Spec => []HandlesAgree
<1>1. HInv /\ HandleInv => HandlesAgree
  BY IssuedAgree DEF HInv
<1>2. Init => HInv /\ HandleInv
  BY HInvInit, IssuedInit
<1>3. HInv /\ HandleInv /\ [Next]_vars => HInv' /\ HandleInv'
  BY HInvNext, IssuedNext
<1> QED
  BY <1>1, <1>2, <1>3, PTL DEF Spec

\* With a barrier after each split, as the program has to make, what is said of
\* the objects of the program holds of the work arrays of teams, too: a collective
\* writes to the work arrays of members only, and these have them.
THEOREM PutsHit ==
  ASSUME Nested = FALSE, SyncAfterSplit = TRUE, RegularTeams
  PROVE  Spec => []PutsHitTheirObject
  BY MembersInit, MembersNext, MembersHit, HandlesOfMembersAgree, PTL DEF Spec
=============================================================================
