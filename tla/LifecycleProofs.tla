-------------------------- MODULE LifecycleProofs --------------------------
(***************************************************************************)
(* The safety of start-up, contexts, the progress thread and shutdown, for *)
(* any number of PEs, with and without threads, and with a global exit at  *)
(* any time.                                                               *)
(*                                                                         *)
(* Every PE runs the same program of 37 steps, so that what is left of it  *)
(* says where the PE is: pc[p] is the number of the step it takes next and *)
(* 38 once it has ended.  The other parts of the invariant LInv are stated *)
(* by pc: which workers and memory a PE has at which step, how many fences *)
(* it has come to, and which keys are committed once it has passed one.    *)
(* The exchange finds its keys because nobody passes a fence before        *)
(* everybody has come to it, and everybody commits before coming to it.    *)
(***************************************************************************)
EXTENDS Lifecycle, SequenceTheorems, FiniteSetTheorems, WellFoundedInduction, TLAPS

\* What a PE runs from start to end; the calls of the program are one step.
Program == Startup \o <<<<"work">>>> \o Shutdown

\* The steps there are.
Item ==
  {<<"register">>, <<"map">>, <<"make_worker">>, <<"publish", "worker">>, <<"publish", "rkey">>,
   <<"commit">>, <<"fence">>, <<"fenced">>, <<"fetch", "worker">>, <<"fetch", "rkey">>,
   <<"connect">>, <<"start_thread">>, <<"work">>, <<"stop">>, <<"join">>,
   <<"close_contexts">>, <<"close_default">>, <<"unmap">>}
  \cup {<<"quiet", b>> : b \in {1, 2}} \cup {<<"gather", b>> : b \in {1, 2}}
  \cup {<<"notify", b>> : b \in {1, 2}} \cup {<<"await", b>> : b \in {1, 2}}
  \cup {<<"release", b>> : b \in {1, 2}}

\* The parts that the program is put together from.
LEMMA Parts ==
  /\ Fence \in Seq(Item) /\ Len(Fence) = 3
  /\ Fence[1] = <<"commit">> /\ Fence[2] = <<"fence">> /\ Fence[3] = <<"fenced">>
  /\ \A b \in {1, 2} :
       /\ Barrier(b) \in Seq(Item) /\ Len(Barrier(b)) = 5
       /\ Barrier(b)[1] = <<"quiet", b>> /\ Barrier(b)[2] = <<"gather", b>>
       /\ Barrier(b)[3] = <<"notify", b>> /\ Barrier(b)[4] = <<"await", b>>
       /\ Barrier(b)[5] = <<"release", b>>
PROOF
  <1>1. /\ Fence \in Seq(Item) /\ Len(Fence) = 3
        /\ Fence[1] = <<"commit">> /\ Fence[2] = <<"fence">> /\ Fence[3] = <<"fenced">>
    <2>1. <<"commit">> \in Item /\ <<"fence">> \in Item /\ <<"fenced">> \in Item
      BY DEF Item
    <2> QED
      BY <2>1 DEF Fence
  <1>2. ASSUME NEW b \in {1, 2}
        PROVE  /\ Barrier(b) \in Seq(Item) /\ Len(Barrier(b)) = 5
               /\ Barrier(b)[1] = <<"quiet", b>> /\ Barrier(b)[2] = <<"gather", b>>
               /\ Barrier(b)[3] = <<"notify", b>> /\ Barrier(b)[4] = <<"await", b>>
               /\ Barrier(b)[5] = <<"release", b>>
    <2>1. /\ <<"quiet", b>> \in Item /\ <<"gather", b>> \in Item /\ <<"notify", b>> \in Item
          /\ <<"await", b>> \in Item /\ <<"release", b>> \in Item
      BY DEF Item
    <2> QED
      BY <2>1 DEF Barrier
  <1> QED
    BY <1>1, <1>2

\* One sequence after another.
LEMMA Joined ==
  ASSUME NEW s \in Seq(Item), NEW t \in Seq(Item)
  PROVE  /\ s \o t \in Seq(Item) /\ Len(s \o t) = Len(s) + Len(t)
         /\ \A i \in 1..Len(s) : (s \o t)[i] = s[i]
         /\ \A i \in 1..Len(t) : (s \o t)[Len(s) + i] = t[i]
PROOF
  <1>1. Len(s) \in Nat /\ Len(t) \in Nat
    BY LenProperties
  <1>2. /\ s \o t \in Seq(Item) /\ Len(s \o t) = Len(s) + Len(t)
        /\ \A i \in 1..(Len(s) + Len(t)) :
             (s \o t)[i] = IF i <= Len(s) THEN s[i] ELSE t[i - Len(s)]
    BY ConcatProperties
  <1>3. ASSUME NEW i \in 1..Len(s) PROVE (s \o t)[i] = s[i]
    BY <1>1, <1>2
  <1>4. ASSUME NEW i \in 1..Len(t) PROVE (s \o t)[Len(s) + i] = t[i]
    <2>1. /\ Len(s) + i \in 1..(Len(s) + Len(t)) /\ ~(Len(s) + i <= Len(s))
          /\ (Len(s) + i) - Len(s) = i
      BY <1>1
    <2> QED
      BY <1>2, <2>1
  <1> QED
    BY <1>2, <1>3, <1>4

\* Start-up, step by step,
LEMMA StartupIs ==
  /\ Startup \in Seq(Item) /\ Len(Startup) = 23
  /\ Startup[1] = <<"register">> /\ Startup[2] = <<"map">>
  /\ Startup[3] = <<"make_worker">> /\ Startup[4] = <<"publish", "worker">>
  /\ Startup[5] = <<"commit">> /\ Startup[6] = <<"fence">>
  /\ Startup[7] = <<"fenced">> /\ Startup[8] = <<"fetch", "worker">>
  /\ Startup[9] = <<"publish", "rkey">> /\ Startup[10] = <<"commit">>
  /\ Startup[11] = <<"fence">> /\ Startup[12] = <<"fenced">>
  /\ Startup[13] = <<"fetch", "rkey">> /\ Startup[14] = <<"connect">>
  /\ Startup[15] = <<"commit">> /\ Startup[16] = <<"fence">>
  /\ Startup[17] = <<"fenced">> /\ Startup[18] = <<"start_thread">>
  /\ Startup[19] = <<"quiet", 1>> /\ Startup[20] = <<"gather", 1>>
  /\ Startup[21] = <<"notify", 1>> /\ Startup[22] = <<"await", 1>>
  /\ Startup[23] = <<"release", 1>>
PROOF
  <1> DEFINE s1 == <<<<"register">>, <<"map">>, <<"make_worker">>, <<"publish", "worker">>>>
             s2 == Fence
             s3 == <<<<"fetch", "worker">>, <<"publish", "rkey">>>>
             s4 == Fence
             s5 == <<<<"fetch", "rkey">>, <<"connect">>>>
             s6 == Fence
             s7 == <<<<"start_thread">>>>
             s8 == Barrier(1)
             t2 == s1 \o s2
             t3 == t2 \o s3
             t4 == t3 \o s4
             t5 == t4 \o s5
             t6 == t5 \o s6
             t7 == t6 \o s7
             t8 == t7 \o s8
  <1>1. Startup = t8
    BY DEF Startup
  <1>s1. /\ s1 \in Seq(Item) /\ Len(s1) = 4
         /\ s1[1] = <<"register">> /\ s1[2] = <<"map">> /\ s1[3] = <<"make_worker">>
         /\ s1[4] = <<"publish", "worker">>
    <2>1. /\ <<"register">> \in Item
          /\ <<"map">> \in Item
          /\ <<"make_worker">> \in Item
          /\ <<"publish", "worker">> \in Item
      BY DEF Item
    <2> QED
      BY <2>1
  <1>s2. /\ s2 \in Seq(Item) /\ Len(s2) = 3
         /\ s2[1] = <<"commit">> /\ s2[2] = <<"fence">> /\ s2[3] = <<"fenced">>
    BY Parts
  <1>s3. /\ s3 \in Seq(Item) /\ Len(s3) = 2
         /\ s3[1] = <<"fetch", "worker">> /\ s3[2] = <<"publish", "rkey">>
    <2>1. /\ <<"fetch", "worker">> \in Item
          /\ <<"publish", "rkey">> \in Item
      BY DEF Item
    <2> QED
      BY <2>1
  <1>s4. /\ s4 \in Seq(Item) /\ Len(s4) = 3
         /\ s4[1] = <<"commit">> /\ s4[2] = <<"fence">> /\ s4[3] = <<"fenced">>
    BY Parts
  <1>s5. /\ s5 \in Seq(Item) /\ Len(s5) = 2
         /\ s5[1] = <<"fetch", "rkey">> /\ s5[2] = <<"connect">>
    <2>1. /\ <<"fetch", "rkey">> \in Item
          /\ <<"connect">> \in Item
      BY DEF Item
    <2> QED
      BY <2>1
  <1>s6. /\ s6 \in Seq(Item) /\ Len(s6) = 3
         /\ s6[1] = <<"commit">> /\ s6[2] = <<"fence">> /\ s6[3] = <<"fenced">>
    BY Parts
  <1>s7. /\ s7 \in Seq(Item) /\ Len(s7) = 1
         /\ s7[1] = <<"start_thread">>
    <2>1. /\ <<"start_thread">> \in Item
      BY DEF Item
    <2> QED
      BY <2>1
  <1>s8. /\ s8 \in Seq(Item) /\ Len(s8) = 5
         /\ s8[1] = <<"quiet", 1>> /\ s8[2] = <<"gather", 1>> /\ s8[3] = <<"notify", 1>>
         /\ s8[4] = <<"await", 1>> /\ s8[5] = <<"release", 1>>
    BY Parts
  <1> HIDE DEF s1, s2, s3, s4, s5, s6, s7, s8
  <1>t2. /\ t2 \in Seq(Item) /\ Len(t2) = 7
         /\ \A i \in 1..4 : t2[i] = s1[i]
         /\ t2[5] = <<"commit">> /\ t2[6] = <<"fence">> /\ t2[7] = <<"fenced">>
    <2>1. /\ s1 \in Seq(Item) /\ Len(s1) = 4 /\ s2 \in Seq(Item) /\ Len(s2) = 3
      BY <1>s1, <1>s2
    <2>2. /\ t2 \in Seq(Item) /\ Len(t2) = Len(s1) + Len(s2)
          /\ \A i \in 1..Len(s1) : t2[i] = s1[i]
          /\ \A i \in 1..Len(s2) : t2[Len(s1) + i] = s2[i]
      BY <2>1, Joined
    <2> HIDE DEF t2
    <2>3. /\ Len(t2) = 7 /\ \A i \in 1..4 : t2[i] = s1[i]
          /\ t2[5] = s2[1] /\ t2[6] = s2[2] /\ t2[7] = s2[3]
      BY <2>1, <2>2
    <2> QED
      BY <2>2, <2>3, <1>s2
  <1> HIDE DEF t2
  <1>t3. /\ t3 \in Seq(Item) /\ Len(t3) = 9
         /\ \A i \in 1..7 : t3[i] = t2[i]
         /\ t3[8] = <<"fetch", "worker">> /\ t3[9] = <<"publish", "rkey">>
    <2>1. /\ t2 \in Seq(Item) /\ Len(t2) = 7 /\ s3 \in Seq(Item) /\ Len(s3) = 2
      BY <1>t2, <1>s3
    <2>2. /\ t3 \in Seq(Item) /\ Len(t3) = Len(t2) + Len(s3)
          /\ \A i \in 1..Len(t2) : t3[i] = t2[i]
          /\ \A i \in 1..Len(s3) : t3[Len(t2) + i] = s3[i]
      BY <2>1, Joined
    <2> HIDE DEF t3
    <2>3. /\ Len(t3) = 9 /\ \A i \in 1..7 : t3[i] = t2[i]
          /\ t3[8] = s3[1] /\ t3[9] = s3[2]
      BY <2>1, <2>2
    <2> QED
      BY <2>2, <2>3, <1>s3
  <1> HIDE DEF t3
  <1>t4. /\ t4 \in Seq(Item) /\ Len(t4) = 12
         /\ \A i \in 1..9 : t4[i] = t3[i]
         /\ t4[10] = <<"commit">> /\ t4[11] = <<"fence">> /\ t4[12] = <<"fenced">>
    <2>1. /\ t3 \in Seq(Item) /\ Len(t3) = 9 /\ s4 \in Seq(Item) /\ Len(s4) = 3
      BY <1>t3, <1>s4
    <2>2. /\ t4 \in Seq(Item) /\ Len(t4) = Len(t3) + Len(s4)
          /\ \A i \in 1..Len(t3) : t4[i] = t3[i]
          /\ \A i \in 1..Len(s4) : t4[Len(t3) + i] = s4[i]
      BY <2>1, Joined
    <2> HIDE DEF t4
    <2>3. /\ Len(t4) = 12 /\ \A i \in 1..9 : t4[i] = t3[i]
          /\ t4[10] = s4[1] /\ t4[11] = s4[2] /\ t4[12] = s4[3]
      BY <2>1, <2>2
    <2> QED
      BY <2>2, <2>3, <1>s4
  <1> HIDE DEF t4
  <1>t5. /\ t5 \in Seq(Item) /\ Len(t5) = 14
         /\ \A i \in 1..12 : t5[i] = t4[i]
         /\ t5[13] = <<"fetch", "rkey">> /\ t5[14] = <<"connect">>
    <2>1. /\ t4 \in Seq(Item) /\ Len(t4) = 12 /\ s5 \in Seq(Item) /\ Len(s5) = 2
      BY <1>t4, <1>s5
    <2>2. /\ t5 \in Seq(Item) /\ Len(t5) = Len(t4) + Len(s5)
          /\ \A i \in 1..Len(t4) : t5[i] = t4[i]
          /\ \A i \in 1..Len(s5) : t5[Len(t4) + i] = s5[i]
      BY <2>1, Joined
    <2> HIDE DEF t5
    <2>3. /\ Len(t5) = 14 /\ \A i \in 1..12 : t5[i] = t4[i]
          /\ t5[13] = s5[1] /\ t5[14] = s5[2]
      BY <2>1, <2>2
    <2> QED
      BY <2>2, <2>3, <1>s5
  <1> HIDE DEF t5
  <1>t6. /\ t6 \in Seq(Item) /\ Len(t6) = 17
         /\ \A i \in 1..14 : t6[i] = t5[i]
         /\ t6[15] = <<"commit">> /\ t6[16] = <<"fence">> /\ t6[17] = <<"fenced">>
    <2>1. /\ t5 \in Seq(Item) /\ Len(t5) = 14 /\ s6 \in Seq(Item) /\ Len(s6) = 3
      BY <1>t5, <1>s6
    <2>2. /\ t6 \in Seq(Item) /\ Len(t6) = Len(t5) + Len(s6)
          /\ \A i \in 1..Len(t5) : t6[i] = t5[i]
          /\ \A i \in 1..Len(s6) : t6[Len(t5) + i] = s6[i]
      BY <2>1, Joined
    <2> HIDE DEF t6
    <2>3. /\ Len(t6) = 17 /\ \A i \in 1..14 : t6[i] = t5[i]
          /\ t6[15] = s6[1] /\ t6[16] = s6[2] /\ t6[17] = s6[3]
      BY <2>1, <2>2
    <2> QED
      BY <2>2, <2>3, <1>s6
  <1> HIDE DEF t6
  <1>t7. /\ t7 \in Seq(Item) /\ Len(t7) = 18
         /\ \A i \in 1..17 : t7[i] = t6[i]
         /\ t7[18] = <<"start_thread">>
    <2>1. /\ t6 \in Seq(Item) /\ Len(t6) = 17 /\ s7 \in Seq(Item) /\ Len(s7) = 1
      BY <1>t6, <1>s7
    <2>2. /\ t7 \in Seq(Item) /\ Len(t7) = Len(t6) + Len(s7)
          /\ \A i \in 1..Len(t6) : t7[i] = t6[i]
          /\ \A i \in 1..Len(s7) : t7[Len(t6) + i] = s7[i]
      BY <2>1, Joined
    <2> HIDE DEF t7
    <2>3. /\ Len(t7) = 18 /\ \A i \in 1..17 : t7[i] = t6[i]
          /\ t7[18] = s7[1]
      BY <2>1, <2>2
    <2> QED
      BY <2>2, <2>3, <1>s7
  <1> HIDE DEF t7
  <1>t8. /\ t8 \in Seq(Item) /\ Len(t8) = 23
         /\ \A i \in 1..18 : t8[i] = t7[i]
         /\ t8[19] = <<"quiet", 1>> /\ t8[20] = <<"gather", 1>>
         /\ t8[21] = <<"notify", 1>> /\ t8[22] = <<"await", 1>>
         /\ t8[23] = <<"release", 1>>
    <2>1. /\ t7 \in Seq(Item) /\ Len(t7) = 18 /\ s8 \in Seq(Item) /\ Len(s8) = 5
      BY <1>t7, <1>s8
    <2>2. /\ t8 \in Seq(Item) /\ Len(t8) = Len(t7) + Len(s8)
          /\ \A i \in 1..Len(t7) : t8[i] = t7[i]
          /\ \A i \in 1..Len(s8) : t8[Len(t7) + i] = s8[i]
      BY <2>1, Joined
    <2> HIDE DEF t8
    <2>3. /\ Len(t8) = 23 /\ \A i \in 1..18 : t8[i] = t7[i]
          /\ t8[19] = s8[1] /\ t8[20] = s8[2] /\ t8[21] = s8[3] /\ t8[22] = s8[4] /\ t8[23] = s8[5]
      BY <2>1, <2>2
    <2> QED
      BY <2>2, <2>3, <1>s8
  <1> HIDE DEF t8
  <1>e8. \A i \in 1..23 : Startup[i] = t8[i]
    BY <1>1
  <1>e7. \A i \in 1..18 : Startup[i] = t7[i]
    <2>1. \A i \in 1..18 : t8[i] = t7[i]
      BY <1>t8
    <2> QED
      BY <1>e8, <2>1
  <1>e6. \A i \in 1..17 : Startup[i] = t6[i]
    <2>1. \A i \in 1..17 : t7[i] = t6[i]
      BY <1>t7
    <2> QED
      BY <1>e7, <2>1
  <1>e5. \A i \in 1..14 : Startup[i] = t5[i]
    <2>1. \A i \in 1..14 : t6[i] = t5[i]
      BY <1>t6
    <2> QED
      BY <1>e6, <2>1
  <1>e4. \A i \in 1..12 : Startup[i] = t4[i]
    <2>1. \A i \in 1..12 : t5[i] = t4[i]
      BY <1>t5
    <2> QED
      BY <1>e5, <2>1
  <1>e3. \A i \in 1..9 : Startup[i] = t3[i]
    <2>1. \A i \in 1..9 : t4[i] = t3[i]
      BY <1>t4
    <2> QED
      BY <1>e4, <2>1
  <1>e2. \A i \in 1..7 : Startup[i] = t2[i]
    <2>1. \A i \in 1..7 : t3[i] = t2[i]
      BY <1>t3
    <2> QED
      BY <1>e3, <2>1
  <1>e1. \A i \in 1..4 : Startup[i] = s1[i]
    <2>1. \A i \in 1..4 : t2[i] = s1[i]
      BY <1>t2
    <2> QED
      BY <1>e2, <2>1
  <1>c1. /\ Startup[1] = <<"register">> /\ Startup[2] = <<"map">>
         /\ Startup[3] = <<"make_worker">> /\ Startup[4] = <<"publish", "worker">>
    BY <1>e1, <1>s1
  <1>c2. /\ Startup[5] = <<"commit">> /\ Startup[6] = <<"fence">>
         /\ Startup[7] = <<"fenced">>
    BY <1>e2, <1>t2
  <1>c3. /\ Startup[8] = <<"fetch", "worker">> /\ Startup[9] = <<"publish", "rkey">>
    BY <1>e3, <1>t3
  <1>c4. /\ Startup[10] = <<"commit">> /\ Startup[11] = <<"fence">>
         /\ Startup[12] = <<"fenced">>
    BY <1>e4, <1>t4
  <1>c5. /\ Startup[13] = <<"fetch", "rkey">> /\ Startup[14] = <<"connect">>
    BY <1>e5, <1>t5
  <1>c6. /\ Startup[15] = <<"commit">> /\ Startup[16] = <<"fence">>
         /\ Startup[17] = <<"fenced">>
    BY <1>e6, <1>t6
  <1>c7. /\ Startup[18] = <<"start_thread">>
    BY <1>e7, <1>t7
  <1>c8. /\ Startup[19] = <<"quiet", 1>> /\ Startup[20] = <<"gather", 1>>
         /\ Startup[21] = <<"notify", 1>> /\ Startup[22] = <<"await", 1>>
         /\ Startup[23] = <<"release", 1>>
    BY <1>1, <1>t8
  <1> QED
    BY <1>1, <1>t8, <1>c1, <1>c2, <1>c3, <1>c4, <1>c5, <1>c6, <1>c7, <1>c8

\* shutdown,
LEMMA ShutdownIs ==
  /\ Shutdown \in Seq(Item) /\ Len(Shutdown) = 13
  /\ Shutdown[1] = <<"quiet", 2>> /\ Shutdown[2] = <<"gather", 2>>
  /\ Shutdown[3] = <<"notify", 2>> /\ Shutdown[4] = <<"await", 2>>
  /\ Shutdown[5] = <<"release", 2>> /\ Shutdown[6] = <<"stop">>
  /\ Shutdown[7] = <<"join">> /\ Shutdown[8] = <<"close_contexts">>
  /\ Shutdown[9] = <<"close_default">> /\ Shutdown[10] = <<"commit">>
  /\ Shutdown[11] = <<"fence">> /\ Shutdown[12] = <<"fenced">>
  /\ Shutdown[13] = <<"unmap">>
PROOF
  <1> DEFINE s1 == Barrier(2)
             s2 == <<<<"stop">>, <<"join">>, <<"close_contexts">>, <<"close_default">>>>
             s3 == Fence
             s4 == <<<<"unmap">>>>
             t2 == s1 \o s2
             t3 == t2 \o s3
             t4 == t3 \o s4
  <1>1. Shutdown = t4
    BY DEF Shutdown
  <1>s1. /\ s1 \in Seq(Item) /\ Len(s1) = 5
         /\ s1[1] = <<"quiet", 2>> /\ s1[2] = <<"gather", 2>> /\ s1[3] = <<"notify", 2>>
         /\ s1[4] = <<"await", 2>> /\ s1[5] = <<"release", 2>>
    BY Parts
  <1>s2. /\ s2 \in Seq(Item) /\ Len(s2) = 4
         /\ s2[1] = <<"stop">> /\ s2[2] = <<"join">> /\ s2[3] = <<"close_contexts">>
         /\ s2[4] = <<"close_default">>
    <2>1. /\ <<"stop">> \in Item
          /\ <<"join">> \in Item
          /\ <<"close_contexts">> \in Item
          /\ <<"close_default">> \in Item
      BY DEF Item
    <2> QED
      BY <2>1
  <1>s3. /\ s3 \in Seq(Item) /\ Len(s3) = 3
         /\ s3[1] = <<"commit">> /\ s3[2] = <<"fence">> /\ s3[3] = <<"fenced">>
    BY Parts
  <1>s4. /\ s4 \in Seq(Item) /\ Len(s4) = 1
         /\ s4[1] = <<"unmap">>
    <2>1. /\ <<"unmap">> \in Item
      BY DEF Item
    <2> QED
      BY <2>1
  <1> HIDE DEF s1, s2, s3, s4
  <1>t2. /\ t2 \in Seq(Item) /\ Len(t2) = 9
         /\ \A i \in 1..5 : t2[i] = s1[i]
         /\ t2[6] = <<"stop">> /\ t2[7] = <<"join">> /\ t2[8] = <<"close_contexts">>
         /\ t2[9] = <<"close_default">>
    <2>1. /\ s1 \in Seq(Item) /\ Len(s1) = 5 /\ s2 \in Seq(Item) /\ Len(s2) = 4
      BY <1>s1, <1>s2
    <2>2. /\ t2 \in Seq(Item) /\ Len(t2) = Len(s1) + Len(s2)
          /\ \A i \in 1..Len(s1) : t2[i] = s1[i]
          /\ \A i \in 1..Len(s2) : t2[Len(s1) + i] = s2[i]
      BY <2>1, Joined
    <2> HIDE DEF t2
    <2>3. /\ Len(t2) = 9 /\ \A i \in 1..5 : t2[i] = s1[i]
          /\ t2[6] = s2[1] /\ t2[7] = s2[2] /\ t2[8] = s2[3] /\ t2[9] = s2[4]
      BY <2>1, <2>2
    <2> QED
      BY <2>2, <2>3, <1>s2
  <1> HIDE DEF t2
  <1>t3. /\ t3 \in Seq(Item) /\ Len(t3) = 12
         /\ \A i \in 1..9 : t3[i] = t2[i]
         /\ t3[10] = <<"commit">> /\ t3[11] = <<"fence">> /\ t3[12] = <<"fenced">>
    <2>1. /\ t2 \in Seq(Item) /\ Len(t2) = 9 /\ s3 \in Seq(Item) /\ Len(s3) = 3
      BY <1>t2, <1>s3
    <2>2. /\ t3 \in Seq(Item) /\ Len(t3) = Len(t2) + Len(s3)
          /\ \A i \in 1..Len(t2) : t3[i] = t2[i]
          /\ \A i \in 1..Len(s3) : t3[Len(t2) + i] = s3[i]
      BY <2>1, Joined
    <2> HIDE DEF t3
    <2>3. /\ Len(t3) = 12 /\ \A i \in 1..9 : t3[i] = t2[i]
          /\ t3[10] = s3[1] /\ t3[11] = s3[2] /\ t3[12] = s3[3]
      BY <2>1, <2>2
    <2> QED
      BY <2>2, <2>3, <1>s3
  <1> HIDE DEF t3
  <1>t4. /\ t4 \in Seq(Item) /\ Len(t4) = 13
         /\ \A i \in 1..12 : t4[i] = t3[i]
         /\ t4[13] = <<"unmap">>
    <2>1. /\ t3 \in Seq(Item) /\ Len(t3) = 12 /\ s4 \in Seq(Item) /\ Len(s4) = 1
      BY <1>t3, <1>s4
    <2>2. /\ t4 \in Seq(Item) /\ Len(t4) = Len(t3) + Len(s4)
          /\ \A i \in 1..Len(t3) : t4[i] = t3[i]
          /\ \A i \in 1..Len(s4) : t4[Len(t3) + i] = s4[i]
      BY <2>1, Joined
    <2> HIDE DEF t4
    <2>3. /\ Len(t4) = 13 /\ \A i \in 1..12 : t4[i] = t3[i]
          /\ t4[13] = s4[1]
      BY <2>1, <2>2
    <2> QED
      BY <2>2, <2>3, <1>s4
  <1> HIDE DEF t4
  <1>e4. \A i \in 1..13 : Shutdown[i] = t4[i]
    BY <1>1
  <1>e3. \A i \in 1..12 : Shutdown[i] = t3[i]
    <2>1. \A i \in 1..12 : t4[i] = t3[i]
      BY <1>t4
    <2> QED
      BY <1>e4, <2>1
  <1>e2. \A i \in 1..9 : Shutdown[i] = t2[i]
    <2>1. \A i \in 1..9 : t3[i] = t2[i]
      BY <1>t3
    <2> QED
      BY <1>e3, <2>1
  <1>e1. \A i \in 1..5 : Shutdown[i] = s1[i]
    <2>1. \A i \in 1..5 : t2[i] = s1[i]
      BY <1>t2
    <2> QED
      BY <1>e2, <2>1
  <1>c1. /\ Shutdown[1] = <<"quiet", 2>> /\ Shutdown[2] = <<"gather", 2>>
         /\ Shutdown[3] = <<"notify", 2>> /\ Shutdown[4] = <<"await", 2>>
         /\ Shutdown[5] = <<"release", 2>>
    BY <1>e1, <1>s1
  <1>c2. /\ Shutdown[6] = <<"stop">> /\ Shutdown[7] = <<"join">>
         /\ Shutdown[8] = <<"close_contexts">> /\ Shutdown[9] = <<"close_default">>
    BY <1>e2, <1>t2
  <1>c3. /\ Shutdown[10] = <<"commit">> /\ Shutdown[11] = <<"fence">>
         /\ Shutdown[12] = <<"fenced">>
    BY <1>e3, <1>t3
  <1>c4. /\ Shutdown[13] = <<"unmap">>
    BY <1>1, <1>t4
  <1> QED
    BY <1>1, <1>t4, <1>c1, <1>c2, <1>c3, <1>c4

\* and all that a PE does.
LEMMA ProgramIs ==
  /\ Program \in Seq(Item) /\ Len(Program) = 37
  /\ Program[1] = <<"register">> /\ Program[2] = <<"map">>
  /\ Program[3] = <<"make_worker">> /\ Program[4] = <<"publish", "worker">>
  /\ Program[5] = <<"commit">> /\ Program[6] = <<"fence">>
  /\ Program[7] = <<"fenced">> /\ Program[8] = <<"fetch", "worker">>
  /\ Program[9] = <<"publish", "rkey">> /\ Program[10] = <<"commit">>
  /\ Program[11] = <<"fence">> /\ Program[12] = <<"fenced">>
  /\ Program[13] = <<"fetch", "rkey">> /\ Program[14] = <<"connect">>
  /\ Program[15] = <<"commit">> /\ Program[16] = <<"fence">>
  /\ Program[17] = <<"fenced">> /\ Program[18] = <<"start_thread">>
  /\ Program[19] = <<"quiet", 1>> /\ Program[20] = <<"gather", 1>>
  /\ Program[21] = <<"notify", 1>> /\ Program[22] = <<"await", 1>>
  /\ Program[23] = <<"release", 1>> /\ Program[24] = <<"work">>
  /\ Program[25] = <<"quiet", 2>> /\ Program[26] = <<"gather", 2>>
  /\ Program[27] = <<"notify", 2>> /\ Program[28] = <<"await", 2>>
  /\ Program[29] = <<"release", 2>> /\ Program[30] = <<"stop">>
  /\ Program[31] = <<"join">> /\ Program[32] = <<"close_contexts">>
  /\ Program[33] = <<"close_default">> /\ Program[34] = <<"commit">>
  /\ Program[35] = <<"fence">> /\ Program[36] = <<"fenced">>
  /\ Program[37] = <<"unmap">>
PROOF
  <1> DEFINE s1 == Startup
             s2 == <<<<"work">>>>
             s3 == Shutdown
             t2 == s1 \o s2
             t3 == t2 \o s3
  <1>1. Program = t3
    BY DEF Program
  <1>s1. /\ s1 \in Seq(Item) /\ Len(s1) = 23
         /\ s1[1] = <<"register">> /\ s1[2] = <<"map">> /\ s1[3] = <<"make_worker">>
         /\ s1[4] = <<"publish", "worker">> /\ s1[5] = <<"commit">>
         /\ s1[6] = <<"fence">> /\ s1[7] = <<"fenced">> /\ s1[8] = <<"fetch", "worker">>
         /\ s1[9] = <<"publish", "rkey">> /\ s1[10] = <<"commit">>
         /\ s1[11] = <<"fence">> /\ s1[12] = <<"fenced">> /\ s1[13] = <<"fetch", "rkey">>
         /\ s1[14] = <<"connect">> /\ s1[15] = <<"commit">> /\ s1[16] = <<"fence">>
         /\ s1[17] = <<"fenced">> /\ s1[18] = <<"start_thread">>
         /\ s1[19] = <<"quiet", 1>> /\ s1[20] = <<"gather", 1>>
         /\ s1[21] = <<"notify", 1>> /\ s1[22] = <<"await", 1>>
         /\ s1[23] = <<"release", 1>>
    BY StartupIs
  <1>s2. /\ s2 \in Seq(Item) /\ Len(s2) = 1
         /\ s2[1] = <<"work">>
    <2>1. /\ <<"work">> \in Item
      BY DEF Item
    <2> QED
      BY <2>1
  <1>s3. /\ s3 \in Seq(Item) /\ Len(s3) = 13
         /\ s3[1] = <<"quiet", 2>> /\ s3[2] = <<"gather", 2>> /\ s3[3] = <<"notify", 2>>
         /\ s3[4] = <<"await", 2>> /\ s3[5] = <<"release", 2>> /\ s3[6] = <<"stop">>
         /\ s3[7] = <<"join">> /\ s3[8] = <<"close_contexts">>
         /\ s3[9] = <<"close_default">> /\ s3[10] = <<"commit">> /\ s3[11] = <<"fence">>
         /\ s3[12] = <<"fenced">> /\ s3[13] = <<"unmap">>
    BY ShutdownIs
  <1> HIDE DEF s1, s2, s3
  <1>t2. /\ t2 \in Seq(Item) /\ Len(t2) = 24
         /\ \A i \in 1..23 : t2[i] = s1[i]
         /\ t2[24] = <<"work">>
    <2>1. /\ s1 \in Seq(Item) /\ Len(s1) = 23 /\ s2 \in Seq(Item) /\ Len(s2) = 1
      BY <1>s1, <1>s2
    <2>2. /\ t2 \in Seq(Item) /\ Len(t2) = Len(s1) + Len(s2)
          /\ \A i \in 1..Len(s1) : t2[i] = s1[i]
          /\ \A i \in 1..Len(s2) : t2[Len(s1) + i] = s2[i]
      BY <2>1, Joined
    <2> HIDE DEF t2
    <2>3. /\ Len(t2) = 24 /\ \A i \in 1..23 : t2[i] = s1[i]
          /\ t2[24] = s2[1]
      BY <2>1, <2>2
    <2> QED
      BY <2>2, <2>3, <1>s2
  <1> HIDE DEF t2
  <1>t3. /\ t3 \in Seq(Item) /\ Len(t3) = 37
         /\ \A i \in 1..24 : t3[i] = t2[i]
         /\ t3[25] = <<"quiet", 2>> /\ t3[26] = <<"gather", 2>>
         /\ t3[27] = <<"notify", 2>> /\ t3[28] = <<"await", 2>>
         /\ t3[29] = <<"release", 2>> /\ t3[30] = <<"stop">> /\ t3[31] = <<"join">>
         /\ t3[32] = <<"close_contexts">> /\ t3[33] = <<"close_default">>
         /\ t3[34] = <<"commit">> /\ t3[35] = <<"fence">> /\ t3[36] = <<"fenced">>
         /\ t3[37] = <<"unmap">>
    <2>1. /\ t2 \in Seq(Item) /\ Len(t2) = 24 /\ s3 \in Seq(Item) /\ Len(s3) = 13
      BY <1>t2, <1>s3
    <2>2. /\ t3 \in Seq(Item) /\ Len(t3) = Len(t2) + Len(s3)
          /\ \A i \in 1..Len(t2) : t3[i] = t2[i]
          /\ \A i \in 1..Len(s3) : t3[Len(t2) + i] = s3[i]
      BY <2>1, Joined
    <2> HIDE DEF t3
    <2>3. /\ Len(t3) = 37 /\ \A i \in 1..24 : t3[i] = t2[i]
          /\ t3[25] = s3[1] /\ t3[26] = s3[2] /\ t3[27] = s3[3] /\ t3[28] = s3[4] /\ t3[29] = s3[5] /\ t3[30] = s3[6] /\ t3[31] = s3[7] /\ t3[32] = s3[8] /\ t3[33] = s3[9] /\ t3[34] = s3[10] /\ t3[35] = s3[11] /\ t3[36] = s3[12] /\ t3[37] = s3[13]
      BY <2>1, <2>2
    <2> QED
      BY <2>2, <2>3, <1>s3
  <1> HIDE DEF t3
  <1>e3. \A i \in 1..37 : Program[i] = t3[i]
    BY <1>1
  <1>e2. \A i \in 1..24 : Program[i] = t2[i]
    <2>1. \A i \in 1..24 : t3[i] = t2[i]
      BY <1>t3
    <2> QED
      BY <1>e3, <2>1
  <1>e1. \A i \in 1..23 : Program[i] = s1[i]
    <2>1. \A i \in 1..23 : t2[i] = s1[i]
      BY <1>t2
    <2> QED
      BY <1>e2, <2>1
  <1>c1. /\ Program[1] = <<"register">> /\ Program[2] = <<"map">>
         /\ Program[3] = <<"make_worker">> /\ Program[4] = <<"publish", "worker">>
         /\ Program[5] = <<"commit">> /\ Program[6] = <<"fence">>
         /\ Program[7] = <<"fenced">> /\ Program[8] = <<"fetch", "worker">>
         /\ Program[9] = <<"publish", "rkey">> /\ Program[10] = <<"commit">>
         /\ Program[11] = <<"fence">> /\ Program[12] = <<"fenced">>
         /\ Program[13] = <<"fetch", "rkey">> /\ Program[14] = <<"connect">>
         /\ Program[15] = <<"commit">> /\ Program[16] = <<"fence">>
         /\ Program[17] = <<"fenced">> /\ Program[18] = <<"start_thread">>
         /\ Program[19] = <<"quiet", 1>> /\ Program[20] = <<"gather", 1>>
         /\ Program[21] = <<"notify", 1>> /\ Program[22] = <<"await", 1>>
         /\ Program[23] = <<"release", 1>>
    BY <1>e1, <1>s1
  <1>c2. /\ Program[24] = <<"work">>
    BY <1>e2, <1>t2
  <1>c3. /\ Program[25] = <<"quiet", 2>> /\ Program[26] = <<"gather", 2>>
         /\ Program[27] = <<"notify", 2>> /\ Program[28] = <<"await", 2>>
         /\ Program[29] = <<"release", 2>> /\ Program[30] = <<"stop">>
         /\ Program[31] = <<"join">> /\ Program[32] = <<"close_contexts">>
         /\ Program[33] = <<"close_default">> /\ Program[34] = <<"commit">>
         /\ Program[35] = <<"fence">> /\ Program[36] = <<"fenced">>
         /\ Program[37] = <<"unmap">>
    BY <1>1, <1>t3
  <1> QED
    BY <1>1, <1>t3, <1>c1, <1>c2, <1>c3

\* Which step has which name.
LEMMA Positions ==
  ASSUME NEW i \in 1..37
  PROVE  LET s == Program[i][1] IN
         /\ s = "register" => i = 1
         /\ s = "map" => i = 2
         /\ s = "make_worker" => i = 3
         /\ s = "publish" => (i = 4 /\ Program[i][2] = "worker") \/ (i = 9 /\ Program[i][2] = "rkey")
         /\ s = "commit" => i \in {5, 10, 15, 34}
         /\ s = "fence" => i \in {6, 11, 16, 35}
         /\ s = "fenced" => i \in {7, 12, 17, 36}
         /\ s = "fetch" => (i = 8 /\ Program[i][2] = "worker") \/ (i = 13 /\ Program[i][2] = "rkey")
         /\ s = "connect" => i = 14
         /\ s = "start_thread" => i = 18
         /\ s = "quiet" => i \in {19, 25}
         /\ s = "gather" => i \in {20, 26}
         /\ s = "notify" => i \in {21, 27}
         /\ s = "await" => i \in {22, 28}
         /\ s = "release" => i \in {23, 29}
         /\ s = "work" => i = 24
         /\ s = "stop" => i = 30
         /\ s = "join" => i = 31
         /\ s = "close_contexts" => i = 32
         /\ s = "close_default" => i = 33
         /\ s = "unmap" => i = 37
PROOF
  <1>1. /\ Program[1][1] = "register" /\ Program[2][1] = "map" /\ Program[3][1] = "make_worker"
        /\ Program[4][1] = "publish" /\ Program[4][2] = "worker" /\ Program[5][1] = "commit"
        /\ Program[6][1] = "fence" /\ Program[7][1] = "fenced"
        /\ Program[8][1] = "fetch" /\ Program[8][2] = "worker"
        /\ Program[9][1] = "publish" /\ Program[9][2] = "rkey" /\ Program[10][1] = "commit"
        /\ Program[11][1] = "fence" /\ Program[12][1] = "fenced"
        /\ Program[13][1] = "fetch" /\ Program[13][2] = "rkey" /\ Program[14][1] = "connect"
        /\ Program[15][1] = "commit" /\ Program[16][1] = "fence" /\ Program[17][1] = "fenced"
        /\ Program[18][1] = "start_thread" /\ Program[19][1] = "quiet"
    BY ProgramIs
  <1>2. /\ Program[20][1] = "gather" /\ Program[21][1] = "notify" /\ Program[22][1] = "await"
        /\ Program[23][1] = "release" /\ Program[24][1] = "work" /\ Program[25][1] = "quiet"
        /\ Program[26][1] = "gather" /\ Program[27][1] = "notify" /\ Program[28][1] = "await"
        /\ Program[29][1] = "release" /\ Program[30][1] = "stop" /\ Program[31][1] = "join"
        /\ Program[32][1] = "close_contexts" /\ Program[33][1] = "close_default"
        /\ Program[34][1] = "commit" /\ Program[35][1] = "fence" /\ Program[36][1] = "fenced"
        /\ Program[37][1] = "unmap"
    BY ProgramIs
  <1>3. i \in 1..9 \/ i \in 10..19 \/ i \in 20..29 \/ i \in 30..37
    OBVIOUS
  <1>4. CASE i \in 1..9
    <2>1. i = 1 \/ i = 2 \/ i = 3 \/ i = 4 \/ i = 5 \/ i = 6 \/ i = 7 \/ i = 8 \/ i = 9
      BY <1>4
    <2> QED
      BY <1>1, <2>1
  <1>5. CASE i \in 10..19
    <2>1. \/ i = 10 \/ i = 11 \/ i = 12 \/ i = 13 \/ i = 14
          \/ i = 15 \/ i = 16 \/ i = 17 \/ i = 18 \/ i = 19
      BY <1>5
    <2> QED
      BY <1>1, <2>1
  <1>6. CASE i \in 20..29
    <2>1. \/ i = 20 \/ i = 21 \/ i = 22 \/ i = 23 \/ i = 24
          \/ i = 25 \/ i = 26 \/ i = 27 \/ i = 28 \/ i = 29
      BY <1>6
    <2> QED
      BY <1>2, <2>1
  <1>7. CASE i \in 30..37
    <2>1. \/ i = 30 \/ i = 31 \/ i = 32 \/ i = 33
          \/ i = 34 \/ i = 35 \/ i = 36 \/ i = 37
      BY <1>7
    <2> QED
      BY <1>2, <2>1
  <1> QED
    BY <1>3, <1>4, <1>5, <1>6, <1>7

-----------------------------------------------------------------------------
(* Where a PE is in its program.                                           *)

\* The number of the step that each PE takes next.
pc == [p \in PE |-> 38 - Len(todo[p])]

\* Every PE has the rest of the program before it, or has been ended.
Walk ==
  /\ todo = [p \in PE |-> todo[p]]
  /\ gone \subseteq PE
  /\ \A p \in PE : pc[p] \in 1..38 /\ todo[p] = SubSeq(Program, pc[p], 37)
  /\ \A p \in gone : pc[p] = 38

\* The rest of the program.
LEMMA RestIs ==
  ASSUME NEW i \in 1..38
  PROVE  /\ Len(SubSeq(Program, i, 37)) = 38 - i
         /\ SubSeq(Program, i, 37) = <<>> <=> i = 38
         /\ i # 38 => /\ Head(SubSeq(Program, i, 37)) = Program[i]
                      /\ Tail(SubSeq(Program, i, 37)) = SubSeq(Program, i + 1, 37)
PROOF
  <1>1. Program \in Seq(Item) /\ Len(Program) = 37
    BY ProgramIs
  <1>2. ASSUME NEW j \in i..37 PROVE Program[j] \in Item
    <2>1. j \in 1..Len(Program)
      BY <1>1
    <2> QED
      BY <1>1, <2>1, ElementOfSeq
  <1>3. Len(SubSeq(Program, i, 37)) = 38 - i
    BY <1>2, SubSeqProperties
  <1>4. CASE i = 38
    BY <1>3, <1>4, SubSeqEmpty
  <1>5. CASE i # 38
    <2>1. i \in 1..Len(Program) /\ 37 \in i..Len(Program)
      BY <1>1, <1>5
    <2>2. /\ Head(SubSeq(Program, i, 37)) = Program[i]
          /\ Tail(SubSeq(Program, i, 37)) = SubSeq(Program, i + 1, 37)
      BY <1>1, <2>1, HeadTailOfSubSeq
    <2>3. SubSeq(Program, i, 37) # <<>>
      <3>1. Len(<<>>) = 0
        BY EmptySeq
      <3>2. 38 - i # 0
        BY <1>5
      <3> QED
        BY <1>3, <3>1, <3>2
    <2> QED
      BY <1>3, <1>5, <2>2, <2>3
  <1> QED
    BY <1>4, <1>5

\* What a PE that is at a step is about to do.
LEMMA Acts ==
  ASSUME Walk, NEW p \in PE
  PROVE  /\ At(p, "register") => pc[p] = 1
         /\ At(p, "map") => pc[p] = 2
         /\ At(p, "make_worker") => pc[p] = 3
         /\ At(p, "publish") => \/ pc[p] = 4 /\ Argument(p) = "worker"
                                \/ pc[p] = 9 /\ Argument(p) = "rkey"
         /\ At(p, "commit") => pc[p] \in {5, 10, 15, 34}
         /\ At(p, "fence") => pc[p] \in {6, 11, 16, 35}
         /\ At(p, "fenced") => pc[p] \in {7, 12, 17, 36}
         /\ At(p, "fetch") => \/ pc[p] = 8 /\ Argument(p) = "worker"
                              \/ pc[p] = 13 /\ Argument(p) = "rkey"
         /\ At(p, "connect") => pc[p] = 14
         /\ At(p, "start_thread") => pc[p] = 18
         /\ At(p, "quiet") => pc[p] \in {19, 25}
         /\ At(p, "gather") => pc[p] \in {20, 26}
         /\ At(p, "notify") => pc[p] \in {21, 27}
         /\ At(p, "await") => pc[p] \in {22, 28}
         /\ At(p, "release") => pc[p] \in {23, 29}
         /\ At(p, "work") => pc[p] = 24
         /\ At(p, "stop") => pc[p] = 30
         /\ At(p, "join") => pc[p] = 31
         /\ At(p, "close_contexts") => pc[p] = 32
         /\ At(p, "close_default") => pc[p] = 33
         /\ At(p, "unmap") => pc[p] = 37
         /\ \A s : At(p, s) => pc[p] # 38 /\ p \notin gone
PROOF
  <1>1. PICK i : i = pc[p]
    OBVIOUS
  <1>2. i \in 1..38 /\ todo[p] = SubSeq(Program, i, 37)
    BY <1>1 DEF Walk
  <1>3. ASSUME NEW s, At(p, s)
        PROVE  /\ i \in 1..37 /\ Program[i][1] = s /\ Argument(p) = Program[i][2]
               /\ p \notin gone
    <2>1. todo[p] # <<>> /\ Head(todo[p])[1] = s
      BY <1>3 DEF At
    <2>2. i # 38
      BY <1>2, <2>1, RestIs
    <2>3. Head(todo[p]) = Program[i]
      BY <1>2, <2>2, RestIs
    <2>4. p \notin gone
      BY <1>1, <2>2 DEF Walk
    <2> QED
      BY <1>2, <2>1, <2>2, <2>3, <2>4 DEF Argument
  <1> QED
    BY <1>1, <1>3, Positions

\* One PE takes a step, or nobody does.
Moves(p) == pc[p]' = pc[p] + 1 /\ \A q \in PE \ {p} : pc[q]' = pc[q]
Stays == \A q \in PE : pc[q]' = pc[q]

\* A step that Advance takes.
LEMMA Advances ==
  ASSUME Walk, NEW p \in PE, NEW s, At(p, s), Advance(p), gone' = gone
  PROVE  Walk' /\ Moves(p)
PROOF
  <1>1. PICK i : i = pc[p]
    OBVIOUS
  <1>2. i \in 1..38 /\ todo[p] = SubSeq(Program, i, 37) /\ i # 38 /\ p \notin gone
    BY <1>1, Acts DEF Walk
  <1>j. PICK j \in 1..38 : j = i + 1
    <2>1. i + 1 \in 1..38
      BY <1>2
    <2> QED
      BY <2>1
  <1>3. /\ todo' = [q \in PE |-> todo'[q]]
        /\ todo'[p] = SubSeq(Program, j, 37)
        /\ \A q \in PE \ {p} : todo'[q] = todo[q]
    BY <1>2, <1>j, RestIs DEF Advance, Walk
  <1>4. Len(todo'[p]) = 38 - j
    <2>1. Len(SubSeq(Program, j, 37)) = 38 - j
      BY <1>j, RestIs
    <2> QED
      BY <1>3, <2>1
  <1>5. pc[p]' = j /\ \A q \in PE \ {p} : pc[q]' = pc[q]
    <2>1. pc[p]' = 38 - Len(todo'[p])
      BY DEF pc
    <2>2. 38 - (38 - j) = j
      BY <1>j
    <2> QED
      BY <1>3, <1>4, <2>1, <2>2 DEF pc
  <1>6. ASSUME NEW q \in PE
        PROVE  pc[q]' \in 1..38 /\ todo'[q] = SubSeq(Program, pc[q]', 37)
    BY <1>3, <1>5, <1>j DEF Walk
  <1>7. ASSUME NEW q \in gone
        PROVE  pc[q]' = 38
    BY <1>2, <1>5 DEF Walk
  <1> QED
    BY <1>1, <1>3, <1>5, <1>6, <1>7, <1>j DEF Walk, Moves

\* One that leaves the programs alone.
LEMMA StandsStill ==
  ASSUME Walk, todo' = todo, gone' = gone
  PROVE  Walk' /\ Stays
  BY DEF Walk, Stays, pc

\* Where the actor of each action is, and where it goes.
LEMMA Goes ==
  ASSUME Walk, NEW p \in PE
  PROVE  /\ Register(p) => pc[p] = 1 /\ Moves(p)
         /\ Map(p) => pc[p] = 2 /\ Moves(p)
         /\ MakeWorker(p) => pc[p] = 3 /\ Moves(p)
         /\ Publish(p) => Moves(p) /\ \/ pc[p] = 4 /\ Argument(p) = "worker"
                                      \/ pc[p] = 9 /\ Argument(p) = "rkey"
         /\ Commit(p) => pc[p] \in {5, 10, 15, 34} /\ Moves(p)
         /\ EnterFence(p) => pc[p] \in {6, 11, 16, 35} /\ Moves(p)
         /\ LeaveFence(p) => pc[p] \in {7, 12, 17, 36} /\ Moves(p)
         /\ Connect(p) => pc[p] = 14 /\ Moves(p)
         /\ StartThread(p) => pc[p] = 18 /\ Moves(p)
         /\ Quiet(p) => pc[p] \in {19, 25} /\ Moves(p)
         /\ Gather(p) => pc[p] \in {20, 26} /\ Moves(p)
         /\ Notify(p) => pc[p] \in {21, 27} /\ Moves(p)
         /\ Await(p) => pc[p] \in {22, 28} /\ Moves(p)
         /\ Release(p) => pc[p] \in {23, 29} /\ Moves(p)
         /\ Finalize(p) => pc[p] = 24 /\ Moves(p)
         /\ StopThread(p) => pc[p] = 30 /\ Moves(p)
         /\ Join(p) => pc[p] = 31 /\ Moves(p)
         /\ CloseContexts(p) => pc[p] = 32 /\ Moves(p)
         /\ CloseDefault(p) => pc[p] = 33 /\ Moves(p)
         /\ Unmap(p) => pc[p] = 37 /\ Moves(p)
         /\ Step(p) => Walk' /\ p \notin gone
PROOF
  <1>1. Register(p) => At(p, "register") /\ Walk' /\ Moves(p)
    <2>1. Register(p) => At(p, "register") /\ Advance(p) /\ gone' = gone
      BY DEF Register, exitVars
    <2> QED
      BY <2>1, Advances
  <1>2. Map(p) => At(p, "map") /\ Walk' /\ Moves(p)
    <2>1. Map(p) => At(p, "map") /\ Advance(p) /\ gone' = gone
      BY DEF Map, exitVars
    <2> QED
      BY <2>1, Advances
  <1>3. MakeWorker(p) => At(p, "make_worker") /\ Walk' /\ Moves(p)
    <2>1. MakeWorker(p) => At(p, "make_worker") /\ Advance(p) /\ gone' = gone
      BY DEF MakeWorker, exitVars
    <2> QED
      BY <2>1, Advances
  <1>4. Publish(p) => At(p, "publish") /\ Walk' /\ Moves(p)
    <2>1. Publish(p) => At(p, "publish") /\ Advance(p) /\ gone' = gone
      BY DEF Publish, exitVars
    <2> QED
      BY <2>1, Advances
  <1>5. Commit(p) => At(p, "commit") /\ Walk' /\ Moves(p)
    <2>1. Commit(p) => At(p, "commit") /\ Advance(p) /\ gone' = gone
      BY DEF Commit, exitVars
    <2> QED
      BY <2>1, Advances
  <1>6. EnterFence(p) => At(p, "fence") /\ Walk' /\ Moves(p)
    <2>1. EnterFence(p) => At(p, "fence") /\ Advance(p) /\ gone' = gone
      BY DEF EnterFence, exitVars
    <2> QED
      BY <2>1, Advances
  <1>7. LeaveFence(p) => At(p, "fenced") /\ Walk' /\ Moves(p)
    <2>1. LeaveFence(p) => At(p, "fenced") /\ Advance(p) /\ gone' = gone
      BY DEF LeaveFence, exitVars
    <2> QED
      BY <2>1, Advances
  <1>8. Connect(p) => At(p, "connect") /\ Walk' /\ Moves(p)
    <2>1. Connect(p) => At(p, "connect") /\ Advance(p) /\ gone' = gone
      BY DEF Connect, exitVars
    <2> QED
      BY <2>1, Advances
  <1>9. StartThread(p) => At(p, "start_thread") /\ Walk' /\ Moves(p)
    <2>1. StartThread(p) => At(p, "start_thread") /\ Advance(p) /\ gone' = gone
      BY DEF StartThread, exitVars
    <2> QED
      BY <2>1, Advances
  <1>10. Quiet(p) => At(p, "quiet") /\ Walk' /\ Moves(p)
    <2>1. Quiet(p) => At(p, "quiet") /\ Advance(p) /\ gone' = gone
      BY DEF Quiet, exitVars
    <2> QED
      BY <2>1, Advances
  <1>11. Gather(p) => At(p, "gather") /\ Walk' /\ Moves(p)
    <2>1. Gather(p) => At(p, "gather") /\ Advance(p) /\ gone' = gone
      BY DEF Gather, exitVars
    <2> QED
      BY <2>1, Advances
  <1>12. Notify(p) => At(p, "notify") /\ Walk' /\ Moves(p)
    <2>1. Notify(p) => At(p, "notify") /\ Advance(p) /\ gone' = gone
      BY DEF Notify, exitVars
    <2> QED
      BY <2>1, Advances
  <1>13. Await(p) => At(p, "await") /\ Walk' /\ Moves(p)
    <2>1. Await(p) => At(p, "await") /\ Advance(p) /\ gone' = gone
      BY DEF Await, exitVars
    <2> QED
      BY <2>1, Advances
  <1>14. Release(p) => At(p, "release") /\ Walk' /\ Moves(p)
    <2>1. Release(p) => At(p, "release") /\ Advance(p) /\ gone' = gone
      BY DEF Release, exitVars
    <2> QED
      BY <2>1, Advances
  <1>15. Finalize(p) => At(p, "work") /\ Walk' /\ Moves(p)
    <2>1. Finalize(p) => At(p, "work") /\ Advance(p) /\ gone' = gone
      BY DEF Finalize, exitVars
    <2> QED
      BY <2>1, Advances
  <1>16. StopThread(p) => At(p, "stop") /\ Walk' /\ Moves(p)
    <2>1. StopThread(p) => At(p, "stop") /\ Advance(p) /\ gone' = gone
      BY DEF StopThread, exitVars
    <2> QED
      BY <2>1, Advances
  <1>17. Join(p) => At(p, "join") /\ Walk' /\ Moves(p)
    <2>1. Join(p) => At(p, "join") /\ Advance(p) /\ gone' = gone
      BY DEF Join, exitVars
    <2> QED
      BY <2>1, Advances
  <1>18. CloseContexts(p) => At(p, "close_contexts") /\ Walk' /\ Moves(p)
    <2>1. CloseContexts(p) => At(p, "close_contexts") /\ Advance(p) /\ gone' = gone
      BY DEF CloseContexts, exitVars
    <2> QED
      BY <2>1, Advances
  <1>19. CloseDefault(p) => At(p, "close_default") /\ Walk' /\ Moves(p)
    <2>1. CloseDefault(p) => At(p, "close_default") /\ Advance(p) /\ gone' = gone
      BY DEF CloseDefault, exitVars
    <2> QED
      BY <2>1, Advances
  <1>20. Unmap(p) => At(p, "unmap") /\ Walk' /\ Moves(p)
    <2>1. Unmap(p) => At(p, "unmap") /\ Advance(p) /\ gone' = gone
      BY DEF Unmap, exitVars
    <2> QED
      BY <2>1, Advances
  <1>21. Fetch(p) => At(p, "fetch") /\ Walk'
    <2>1. Fetch(p) => At(p, "fetch") /\ (Advance(p) \/ todo' = todo) /\ gone' = gone
      BY DEF Fetch, exitVars
    <2> QED
      BY <2>1, Advances, StandsStill
  <1>22. Step(p) => Walk' /\ p \notin gone
    BY <1>1, <1>2, <1>3, <1>4, <1>5, <1>6, <1>7, <1>8, <1>9, <1>10, <1>11, <1>12, <1>13, <1>14, <1>15, <1>16, <1>17, <1>18, <1>19, <1>20, <1>21, Acts DEF Step
  <1> QED
    BY <1>1, <1>2, <1>3, <1>4, <1>5, <1>6, <1>7, <1>8, <1>9, <1>10, <1>11, <1>12, <1>13, <1>14, <1>15, <1>16, <1>17, <1>18, <1>19, <1>20, <1>21, <1>22, Acts

-----------------------------------------------------------------------------
(* The table of contexts of one PE.                                        *)

\* What slots has of a PE.
SlotTable == [free : Seq(Nat), spill : Nat, used : Nat, live : SUBSET [slot : Nat, no : Nat]]

\* No slot is used twice, be it live or free.
Sound(s) ==
  /\ s \in SlotTable
  /\ \A c, d \in s.live : c.slot = d.slot => c = d
  /\ \A i, j \in 1..Len(s.free) : s.free[i] = s.free[j] => i = j
  /\ \A i \in 1..Len(s.free) : s.free[i] < s.used
  /\ \A c \in s.live : c.slot < s.used /\ \A i \in 1..Len(s.free) : s.free[i] # c.slot
  /\ s.used <= s.spill /\ s.spill <= s.used + Block

\* Every slot that was used is one or the other.
Accounted(s) ==
  \A n \in 0..(s.used - 1) :
    (\E c \in s.live : c.slot = n) \/ (\E i \in 1..Len(s.free) : s.free[i] = n)

\* The empty table is sound.
LEMMA NoSlotsAreSound == Sound(NoSlots) /\ Accounted(NoSlots)
PROOF
  <1>1. /\ NoSlots.free = <<>> /\ NoSlots.spill = 0 /\ NoSlots.used = 0 /\ NoSlots.live = {}
    BY DEF NoSlots
  <1>2. <<>> \in Seq(Nat) /\ Len(<<>>) = 0
    BY EmptySeq
  <1>3. NoSlots \in SlotTable
    BY <1>2 DEF NoSlots, SlotTable
  <1>4. Block \in Nat \ {0}
    BY LifecycleAssumption
  <1> QED
    BY <1>1, <1>2, <1>3, <1>4 DEF Sound, Accounted

\* get_usable_context_run keeps this.
Granted(s, no) == [Take(s).rest EXCEPT !.live = @ \cup {[slot |-> Take(s).slot, no |-> no]}]

LEMMA TakeIsSound ==
  ASSUME NEW s, Sound(s), NEW no \in Nat, NEW t, t = Granted(s, no)
  PROVE  /\ Sound(t) /\ (Accounted(s) => Accounted(t))
         /\ t.used \in {s.used, s.used + 1}
         /\ Take(s).slot \in 0..(t.used - 1)
         /\ t.used = s.used + 1 => Take(s).slot = s.used
PROOF
  <1>g. t = [Take(s).rest EXCEPT !.live = @ \cup {[slot |-> Take(s).slot, no |-> no]}]
    BY DEF Granted
  <1>0. /\ s \in SlotTable /\ s.free \in Seq(Nat) /\ Len(s.free) \in Nat /\ s.spill \in Nat
        /\ s.used \in Nat /\ s.live \in SUBSET [slot : Nat, no : Nat]
        /\ Block \in Nat \ {0}
    <2>1. s \in SlotTable
      BY DEF Sound
    <2>2. /\ s.free \in Seq(Nat) /\ s.spill \in Nat
          /\ s.used \in Nat /\ s.live \in SUBSET [slot : Nat, no : Nat]
      BY <2>1 DEF SlotTable
    <2> QED
      BY <2>1, <2>2, LenProperties, LifecycleAssumption
  <1>1. CASE s.free # <<>>
    <2> DEFINE n == Head(s.free)
               rest == Tail(s.free)
               one == [slot |-> n, no |-> no]
    <2>1. /\ n \in Nat /\ rest \in Seq(Nat) /\ Len(rest) = Len(s.free) - 1 /\ n = s.free[1]
          /\ \A i \in 1..Len(rest) : rest[i] = s.free[i + 1]
          /\ Len(s.free) >= 1
      <3>1. Len(s.free) \in Nat \ {0}
        BY <1>0, <1>1, EmptySeq
      <3>2. /\ n \in Nat /\ rest \in Seq(Nat) /\ Len(rest) = Len(s.free) - 1
            /\ \A i \in 1..Len(rest) : rest[i] = s.free[i + 1]
        BY <1>0, <1>1, HeadTailProperties
      <3> QED
        BY <3>1, <3>2
    <2>2. Take(s).slot = n /\ Take(s).rest = [s EXCEPT !.free = rest]
      BY <1>1 DEF Take
    <2>3. one \in [slot : Nat, no : Nat] /\ one.slot = n
      BY <2>1
    <2> HIDE DEF n, rest, one
    <2>4. /\ t \in SlotTable /\ t.free = rest /\ t.used = s.used /\ t.spill = s.spill
          /\ t.live = s.live \cup {one}
      <3>1. t = [s EXCEPT !.free = rest, !.live = s.live \cup {one}]
        BY <1>0, <1>g, <2>2 DEF SlotTable, one
      <3>2. t = [free |-> rest, spill |-> s.spill, used |-> s.used, live |-> s.live \cup {one}]
        BY <1>0, <3>1 DEF SlotTable
      <3>3. s.live \cup {one} \in SUBSET [slot : Nat, no : Nat] /\ rest \in Seq(Nat)
        BY <1>0, <2>1, <2>3
      <3>4. t \in SlotTable
        BY <1>0, <3>2, <3>3 DEF SlotTable
      <3> QED
        BY <3>2, <3>4
    <2>l. /\ Len(rest) \in Nat /\ Len(s.free) \in Nat
          /\ Len(rest) = Len(s.free) - 1 /\ Len(s.free) >= 1
      BY <1>0, <2>1, LenProperties
    <2>5. \A i \in 1..Len(rest) : i + 1 \in 1..Len(s.free) /\ i + 1 # 1
      BY <2>l
    <2>6. 1 \in 1..Len(s.free) /\ n < s.used
      <3>1. 1 \in 1..Len(s.free)
        BY <2>l
      <3> QED
        BY <2>1, <3>1 DEF Sound
    <2>7. \A i \in 1..Len(rest) : rest[i] # n /\ rest[i] < s.used
      BY <2>1, <2>5, <2>6 DEF Sound
    <2>8. \A i, j \in 1..Len(rest) : rest[i] = rest[j] => i = j
      <3> SUFFICES ASSUME NEW i \in 1..Len(rest), NEW j \in 1..Len(rest), rest[i] = rest[j]
                   PROVE  i = j
        OBVIOUS
      <3>1. s.free[i + 1] = s.free[j + 1]
        BY <2>1
      <3>2. i + 1 = j + 1
        BY <2>5, <3>1 DEF Sound
      <3> QED
        BY <3>2
    <2>9. \A c \in s.live : c.slot # n /\ c.slot < s.used /\ \A i \in 1..Len(rest) : rest[i] # c.slot
      BY <2>1, <2>5, <2>6 DEF Sound
    <2>10. Sound(t)
      <3>1. \A c, d \in t.live : c.slot = d.slot => c = d
        BY <2>3, <2>4, <2>9 DEF Sound
      <3>2. \A c \in t.live : c.slot < t.used /\ \A i \in 1..Len(t.free) : t.free[i] # c.slot
        BY <2>3, <2>4, <2>6, <2>7, <2>9
      <3>3. t.used <= t.spill /\ t.spill <= t.used + Block
        BY <2>4 DEF Sound
      <3> QED
        BY <2>4, <2>7, <2>8, <3>1, <3>2, <3>3 DEF Sound
    <2>11. ASSUME Accounted(s) PROVE Accounted(t)
      <3> SUFFICES ASSUME NEW m \in 0..(s.used - 1)
                   PROVE  (\E c \in t.live : c.slot = m) \/ (\E i \in 1..Len(rest) : rest[i] = m)
        BY <2>4 DEF Accounted
      <3>1. CASE m = n
        BY <2>3, <2>4, <3>1
      <3>2. CASE \E c \in s.live : c.slot = m
        BY <2>4, <3>2
      <3>3. CASE m # n /\ \E i \in 1..Len(s.free) : s.free[i] = m
        <4>1. PICK i \in 1..Len(s.free) : s.free[i] = m
          BY <3>3
        <4>2. i # 1
          BY <2>1, <3>3, <4>1
        <4>3. i - 1 \in 1..Len(rest) /\ (i - 1) + 1 = i
          BY <2>l, <4>2
        <4> QED
          BY <2>1, <4>1, <4>3
      <3> QED
        BY <2>11, <3>1, <3>2, <3>3 DEF Accounted
    <2> QED
      BY <1>0, <2>1, <2>2, <2>4, <2>6, <2>10, <2>11
  <1>2. CASE s.free = <<>>
    <2> DEFINE one == [slot |-> s.used, no |-> no]
               spill == IF s.used = s.spill THEN s.spill + Block ELSE s.spill
    <2>1. Take(s).slot = s.used /\ Take(s).rest = [s EXCEPT !.used = @ + 1, !.spill = spill]
      BY <1>2 DEF Take
    <2>2. one \in [slot : Nat, no : Nat] /\ one.slot = s.used
      BY <1>0
    <2>3. spill \in Nat /\ s.used + 1 <= spill /\ spill <= (s.used + 1) + Block
      BY <1>0 DEF Sound
    <2> HIDE DEF one, spill
    <2>4. /\ t \in SlotTable /\ t.free = <<>> /\ t.used = s.used + 1 /\ t.spill = spill
          /\ t.live = s.live \cup {one}
      <3>1. t = [s EXCEPT !.used = s.used + 1, !.spill = spill, !.live = s.live \cup {one}]
        BY <1>0, <1>g, <2>1 DEF SlotTable, one
      <3>2. t = [free |-> s.free, spill |-> spill, used |-> s.used + 1, live |-> s.live \cup {one}]
        BY <1>0, <3>1 DEF SlotTable
      <3>3. /\ s.live \cup {one} \in SUBSET [slot : Nat, no : Nat]
            /\ s.used + 1 \in Nat /\ spill \in Nat
        BY <1>0, <2>2, <2>3
      <3>4. t \in SlotTable
        BY <1>0, <3>2, <3>3 DEF SlotTable
      <3> QED
        BY <1>2, <3>2, <3>4
    <2>5. Len(t.free) = 0
      BY <2>4, EmptySeq
    <2>6. \A c \in s.live : c.slot \in Nat /\ c.slot < s.used
      BY <1>0 DEF Sound
    <2>7. Sound(t)
      <3>1. \A c, d \in t.live : c.slot = d.slot => c = d
        BY <1>0, <2>2, <2>4, <2>6 DEF Sound
      <3>2. \A c \in t.live : c.slot < t.used
        BY <1>0, <2>2, <2>4, <2>6
      <3> QED
        BY <2>3, <2>4, <2>5, <3>1, <3>2 DEF Sound
    <2>8. ASSUME Accounted(s) PROVE Accounted(t)
      <3> SUFFICES ASSUME NEW m \in 0..s.used
                   PROVE  \E c \in t.live : c.slot = m
        BY <1>0, <2>4 DEF Accounted
      <3>1. Len(s.free) = 0
        BY <1>2, EmptySeq
      <3>2. CASE m = s.used
        BY <2>2, <2>4, <3>2
      <3>3. CASE m # s.used
        <4>1. m \in 0..(s.used - 1)
          BY <1>0, <3>3
        <4> QED
          BY <2>4, <2>8, <3>1, <4>1 DEF Accounted
      <3> QED
        BY <3>2, <3>3
    <2> QED
      BY <1>0, <2>1, <2>4, <2>7, <2>8
  <1> QED
    BY <1>1, <1>2

\* So does the end of a context.
Returned(s, c) == [s EXCEPT !.live = @ \ {c}, !.free = Append(@, c.slot)]

LEMMA GiveBackIsSound ==
  ASSUME NEW s, Sound(s), NEW c \in s.live, NEW t, t = Returned(s, c)
  PROVE  Sound(t) /\ (Accounted(s) => Accounted(t)) /\ t.used = s.used
PROOF
  <1>0. /\ s \in SlotTable /\ s.free \in Seq(Nat) /\ Len(s.free) \in Nat /\ s.spill \in Nat
        /\ s.used \in Nat /\ s.live \in SUBSET [slot : Nat, no : Nat]
        /\ c \in [slot : Nat, no : Nat] /\ c.slot \in Nat
    <2>1. s \in SlotTable
      BY DEF Sound
    <2>2. /\ s.free \in Seq(Nat) /\ s.spill \in Nat
          /\ s.used \in Nat /\ s.live \in SUBSET [slot : Nat, no : Nat]
      BY <2>1 DEF SlotTable
    <2> QED
      BY <2>1, <2>2, LenProperties
  <1> DEFINE m == Len(s.free)
             free == Append(s.free, c.slot)
  <1>1. /\ free \in Seq(Nat) /\ Len(free) = m + 1 /\ free[m + 1] = c.slot
        /\ \A i \in 1..m : free[i] = s.free[i]
    BY <1>0, AppendProperties
  <1>2. /\ t \in SlotTable /\ t.free = free /\ t.used = s.used /\ t.spill = s.spill
        /\ t.live = s.live \ {c}
    BY <1>0, <1>1 DEF SlotTable, Returned
  <1> HIDE DEF free
  <1>3. \A i \in 1..(m + 1) : i \in 1..m \/ i = m + 1
    BY <1>0
  <1>4. c.slot < s.used /\ \A i \in 1..m : free[i] # c.slot
    BY <1>1 DEF Sound
  <1>5. \A i, j \in 1..(m + 1) : free[i] = free[j] => i = j
    BY <1>1, <1>3, <1>4 DEF Sound
  <1>6. \A i \in 1..(m + 1) : free[i] < s.used
    BY <1>1, <1>3, <1>4 DEF Sound
  <1>7. \A d \in t.live : d.slot # c.slot /\ d.slot < s.used
    BY <1>2 DEF Sound
  <1>8. \A d \in t.live : \A i \in 1..(m + 1) : free[i] # d.slot
    <2> SUFFICES ASSUME NEW d \in t.live, NEW i \in 1..(m + 1) PROVE free[i] # d.slot
      OBVIOUS
    <2>1. CASE i \in 1..m
      BY <1>1, <1>2, <2>1 DEF Sound
    <2>2. CASE i = m + 1
      BY <1>1, <1>7, <2>2
    <2> QED
      BY <1>3, <2>1, <2>2
  <1>9. Sound(t)
    <2>1. \A d, e \in t.live : d.slot = e.slot => d = e
      BY <1>2 DEF Sound
    <2>2. t.used <= t.spill /\ t.spill <= t.used + Block
      BY <1>2 DEF Sound
    <2> QED
      BY <1>1, <1>2, <1>5, <1>6, <1>7, <1>8, <2>1, <2>2 DEF Sound
  <1>10. ASSUME Accounted(s) PROVE Accounted(t)
    <2> SUFFICES ASSUME NEW n \in 0..(s.used - 1)
                 PROVE  (\E d \in t.live : d.slot = n) \/ (\E i \in 1..(m + 1) : free[i] = n)
      BY <1>1, <1>2 DEF Accounted
    <2>1. CASE n = c.slot
      <3>1. m + 1 \in 1..(m + 1)
        BY <1>0
      <3> QED
        BY <1>1, <2>1, <3>1
    <2>2. CASE n # c.slot /\ \E d \in s.live : d.slot = n
      BY <1>2, <2>2
    <2>3. CASE \E i \in 1..m : s.free[i] = n
      <3>1. PICK i \in 1..m : s.free[i] = n
        BY <2>3
      <3>2. i \in 1..(m + 1)
        BY <1>0
      <3> QED
        BY <1>1, <3>1, <3>2
    <2> QED
      BY <1>10, <2>1, <2>2, <2>3 DEF Accounted
  <1> QED
    BY <1>2, <1>9, <1>10

-----------------------------------------------------------------------------
(* The parts of the invariant.                                             *)

\* One entry for each PE.
Table(f) == f = [p \in PE |-> f[p]]

\* Each PE's table is sound, has no more slots than contexts were made, and has
\* none before the program runs.  Shutdown forgets the contexts it closes.
Contexts ==
  /\ Table(slots)
  /\ made \in [PE -> Nat]
  /\ \A p \in PE :
       /\ Sound(slots[p])
       /\ slots[p].used <= made[p] /\ made[p] <= MaxContexts[p]
       /\ pc[p] <= 32 => Accounted(slots[p])
       /\ pc[p] <= 23 => slots[p].used = 0

\* The default worker is there from when it is made until it is closed, and
\* that of a slot from when it is first used; the progress thread runs in
\* between.
Workers ==
  /\ Table(workers) /\ Table(thread)
  /\ \A p \in PE :
       /\ workers[p] \subseteq {Default} \cup (0..(slots[p].used - 1))
       /\ 4 <= pc[p] /\ pc[p] <= 33 => Default \in workers[p]
       /\ 4 <= pc[p] /\ pc[p] <= 32 => 0..(slots[p].used - 1) \subseteq workers[p]
       /\ thread[p] \in {"none", "polling", "asleep", "ended"}
       /\ thread[p] \in {"polling", "asleep"} => p \in Threaded /\ pc[p] \in 19..31

\* The steps that neither make nor close a worker.
WorkersAside(p) == p \in PE /\ pc[p] \notin {3, 18, 31, 32, 33}

\* No change to the slots.
LEMMA ContextsStay ==
  ASSUME Walk, Walk', Contexts, UNCHANGED <<slots, made>>, \A q \in PE : pc[q] <= pc[q]'
  PROVE  Contexts'
PROOF
  <1>1. \A q \in PE : pc[q] \in 1..38 /\ pc[q]' \in 1..38
    BY DEF Walk
  <1>2. ASSUME NEW q \in PE
        PROVE  /\ Sound(slots'[q]) /\ slots'[q].used <= made'[q] /\ made'[q] <= MaxContexts[q]
               /\ pc[q]' <= 32 => Accounted(slots'[q])
               /\ pc[q]' <= 23 => slots'[q].used = 0
    BY <1>1, <1>2 DEF Contexts
  <1> QED
    BY <1>2 DEF Contexts

\* The slots of one PE change.
LEMMA ContextsOfOne ==
  ASSUME Walk, Contexts, NEW p \in PE, Table(slots'), made' \in [PE -> Nat],
         Sound(slots'[p]), slots'[p].used <= made'[p], made'[p] <= MaxContexts[p],
         pc'[p] <= 32 => Accounted(slots'[p]), pc'[p] <= 23 => slots'[p].used = 0,
         \A q \in PE \ {p} : slots'[q] = slots[q] /\ made'[q] = made[q] /\ pc'[q] = pc[q]
  PROVE  Contexts'
PROOF
  <1>1. ASSUME NEW q \in PE
        PROVE  /\ Sound(slots'[q]) /\ slots'[q].used <= made'[q] /\ made'[q] <= MaxContexts[q]
               /\ pc'[q] <= 32 => Accounted(slots'[q])
               /\ pc'[q] <= 23 => slots'[q].used = 0
    <2>1. CASE q = p
      BY <2>1
    <2>2. CASE q # p
      BY <2>2 DEF Contexts
    <2> QED
      BY <2>1, <2>2
  <1> QED
    BY <1>1 DEF Contexts

\* No change to the workers, at a step or at none.
LEMMA WorkersStay ==
  ASSUME Walk, Walk', Workers, UNCHANGED <<workers, thread>>,
         \A q \in PE : slots'[q].used = slots[q].used,
         NEW p, WorkersAside(p), Moves(p)
  PROVE  Workers'
PROOF
  <1>1. \A q \in PE : pc[q] \in 1..38 /\ pc[q]' \in 1..38
    BY DEF Walk
  <1>2. ASSUME NEW q \in PE
        PROVE  /\ 4 <= pc[q]' /\ pc[q]' <= 33 => 4 <= pc[q] /\ pc[q] <= 33
               /\ 4 <= pc[q]' /\ pc[q]' <= 32 => 4 <= pc[q] /\ pc[q] <= 32
               /\ pc[q] \in 19..31 => pc[q]' \in 19..31
    <2>1. CASE q = p
      BY <1>1, <2>1 DEF WorkersAside, Moves
    <2>2. CASE q # p
      BY <2>2 DEF WorkersAside, Moves
    <2> QED
      BY <2>1, <2>2
  <1> QED
    BY <1>2 DEF Workers

LEMMA WorkersStand ==
  ASSUME Workers, UNCHANGED <<workers, thread>>,
         \A q \in PE : slots'[q].used = slots[q].used, Stays
  PROVE  Workers'
  BY DEF Workers, Stays

\* The workers of one PE change, or its progress thread does.
LEMMA WorkersOfOne ==
  ASSUME Workers, NEW p \in PE, Table(workers'), Table(thread'),
         workers'[p] \subseteq {Default} \cup (0..(slots'[p].used - 1)),
         4 <= pc'[p] /\ pc'[p] <= 33 => Default \in workers'[p],
         4 <= pc'[p] /\ pc'[p] <= 32 => 0..(slots'[p].used - 1) \subseteq workers'[p],
         thread'[p] \in {"none", "polling", "asleep", "ended"},
         thread'[p] \in {"polling", "asleep"} => p \in Threaded /\ pc'[p] \in 19..31,
         \A q \in PE \ {p} : /\ workers'[q] = workers[q] /\ thread'[q] = thread[q]
                             /\ pc'[q] = pc[q] /\ slots'[q].used = slots[q].used
  PROVE  Workers'
PROOF
  <1>1. ASSUME NEW q \in PE
        PROVE  /\ workers'[q] \subseteq {Default} \cup (0..(slots'[q].used - 1))
               /\ 4 <= pc'[q] /\ pc'[q] <= 33 => Default \in workers'[q]
               /\ 4 <= pc'[q] /\ pc'[q] <= 32 => 0..(slots'[q].used - 1) \subseteq workers'[q]
               /\ thread'[q] \in {"none", "polling", "asleep", "ended"}
               /\ thread'[q] \in {"polling", "asleep"} => q \in Threaded /\ pc'[q] \in 19..31
    <2>1. CASE q = p
      BY <2>1
    <2>2. CASE q # p
      BY <2>2 DEF Workers
    <2> QED
      BY <2>1, <2>2
  <1> QED
    BY <1>1 DEF Workers

-----------------------------------------------------------------------------
(* Every step keeps the place of every PE.                                 *)

\* A fetch is at one of the two loops, and goes round or on.
LEMMA FetchGoes ==
  ASSUME Walk, NEW p \in PE, Fetch(p)
  PROVE  /\ \/ pc[p] = 8 /\ Argument(p) = "worker"
            \/ pc[p] = 13 /\ Argument(p) = "rkey"
         /\ IF NextFetch(p)[2] = Size - 1 THEN Moves(p) ELSE Stays
PROOF
  <1>1. /\ At(p, "fetch") /\ gone' = gone
        /\ IF NextFetch(p)[2] = Size - 1 THEN Advance(p) ELSE todo' = todo
    BY DEF Fetch, exitVars
  <1>2. CASE NextFetch(p)[2] = Size - 1
    BY <1>1, <1>2, Acts, Advances
  <1>3. CASE NextFetch(p)[2] # Size - 1
    BY <1>1, <1>3, Acts, StandsStill
  <1> QED
    BY <1>2, <1>3

\* A PE that its event handler ends.
Ends(p) == pc'[p] = 38 /\ \A q \in PE \ {p} : pc'[q] = pc[q]

\* The handler ends a PE that has not ended.
LEMMA EventGoes ==
  ASSUME Walk, NEW p \in PE, EventEnds(p)
  PROVE  Walk' /\ Ends(p) /\ pc[p] # 38
PROOF
  <1>1. todo' = [todo EXCEPT ![p] = <<>>] /\ gone' = gone \cup {p} /\ todo[p] # <<>>
    BY DEF EventEnds
  <1>2. /\ todo' = [q \in PE |-> todo'[q]] /\ todo'[p] = <<>>
        /\ \A q \in PE \ {p} : todo'[q] = todo[q]
    BY <1>1 DEF Walk
  <1>3. Len(<<>>) = 0 /\ SubSeq(Program, 38, 37) = <<>>
    BY EmptySeq, RestIs
  <1>4. pc'[p] = 38 /\ \A q \in PE \ {p} : pc'[q] = pc[q]
    BY <1>2, <1>3 DEF pc
  <1>5. ASSUME NEW q \in PE PROVE pc'[q] \in 1..38 /\ todo'[q] = SubSeq(Program, pc'[q], 37)
    <2>1. CASE q = p
      BY <1>2, <1>3, <1>4, <2>1
    <2>2. CASE q # p
      BY <1>2, <1>4, <2>2 DEF Walk
    <2> QED
      BY <2>1, <2>2
  <1>6. ASSUME NEW q \in gone' PROVE pc'[q] = 38
    BY <1>1, <1>4 DEF Walk
  <1>7. gone' \subseteq PE
    BY <1>1 DEF Walk
  <1>8. pc[p] # 38
    BY <1>1, RestIs DEF Walk
  <1> QED
    BY <1>2, <1>4, <1>5, <1>6, <1>7, <1>8 DEF Walk, Ends

\* The actions of a PE that is in the middle of a step.
LEMMA OthersGo ==
  ASSUME Walk, NEW p \in PE
  PROVE  /\ Sleep(p) => Walk' /\ Stays
         /\ Wake(p) => Walk' /\ Stays
         /\ CreateContext(p) => Walk' /\ Stays /\ pc[p] = 24 /\ p \notin gone
         /\ GlobalExit(p) => Walk' /\ Stays
         /\ \A c : DestroyContext(p, c) => Walk' /\ Stays /\ pc[p] = 24 /\ p \notin gone
         /\ \A q, on : Put(p, q, on) => Walk' /\ Stays /\ pc[p] = 24 /\ p \notin gone
PROOF
  <1>1. Sleep(p) => todo' = todo /\ gone' = gone
    BY DEF Sleep, exitVars
  <1>2. Wake(p) => todo' = todo /\ gone' = gone
    BY DEF Wake, exitVars
  <1>3. CreateContext(p) => todo' = todo /\ gone' = gone /\ At(p, "work")
    BY DEF CreateContext, exitVars
  <1>4. GlobalExit(p) => todo' = todo /\ gone' = gone
    BY DEF GlobalExit
  <1>5. \A c : DestroyContext(p, c) => todo' = todo /\ gone' = gone /\ At(p, "work")
    BY DEF DestroyContext, exitVars
  <1>6. \A q, on : Put(p, q, on) => todo' = todo /\ gone' = gone /\ At(p, "work")
    BY DEF Put, exitVars
  <1> QED
    BY <1>1, <1>2, <1>3, <1>4, <1>5, <1>6, StandsStill, Acts

\* Nothing else moves a PE.
LEMMA LandGoes ==
  ASSUME Walk, NEW o, Land(o)
  PROVE  Walk' /\ Stays
PROOF
  <1>1. todo' = todo /\ gone' = gone
    BY DEF Land, exitVars
  <1> QED
    BY <1>1, StandsStill

LEMMA IdleGoes ==
  ASSUME Walk, UNCHANGED vars
  PROVE  Walk' /\ Stays
PROOF
  <1>1. todo' = todo /\ gone' = gone
    BY DEF vars
  <1> QED
    BY <1>1, StandsStill

\* What the steps leave alone.
LEMMA Frames ==
  ASSUME NEW p, Step(p)
  PROVE  /\ CloseContexts(p) \/ UNCHANGED <<slots, made>>
         /\ MakeWorker(p) \/ CloseContexts(p) \/ CloseDefault(p) \/ workers' = workers
         /\ StartThread(p) \/ thread' = thread
         /\ Notify(p) \/ Release(p) \/ net' = net
         /\ Map(p) \/ Unmap(p) \/ mapped' = mapped
         /\ Publish(p) \/ Commit(p) \/ pending' = pending
         /\ Commit(p) \/ store' = store
         /\ EnterFence(p) \/ fences' = fences
         /\ Fetch(p) \/ fetched' = fetched
         /\ gone' = gone
PROOF
  <1>1. Register(p) => UNCHANGED <<slots, made, workers, thread, net, mapped, pending, store, fences, fetched, gone>>
    BY DEF Register, pmixVars, threadVars, contextVars, commVars
  <1>2. Map(p) => UNCHANGED <<slots, made, workers, thread, net, pending, store, fences, fetched, gone>>
    BY DEF Map, pmixVars, threadVars, contextVars, commVars, exitVars
  <1>3. MakeWorker(p) => UNCHANGED <<slots, made, thread, net, mapped, pending, store, fences, fetched, gone>>
    BY DEF MakeWorker, pmixVars, threadVars, contextVars, commVars, exitVars
  <1>4. Publish(p) => UNCHANGED <<slots, made, workers, thread, net, mapped, store, fences, fetched, gone>>
    BY DEF Publish, threadVars, contextVars, commVars, exitVars
  <1>5. Commit(p) => UNCHANGED <<slots, made, workers, thread, net, mapped, fences, fetched, gone>>
    BY DEF Commit, threadVars, contextVars, commVars, exitVars
  <1>6. EnterFence(p) => UNCHANGED <<slots, made, workers, thread, net, mapped, pending, store, fetched, gone>>
    BY DEF EnterFence, threadVars, contextVars, commVars, exitVars
  <1>7. Fetch(p) => UNCHANGED <<slots, made, workers, thread, net, mapped, pending, store, fences, gone>>
    BY DEF Fetch, threadVars, contextVars, commVars, exitVars
  <1>8. StartThread(p) => UNCHANGED <<slots, made, workers, net, mapped, pending, store, fences, fetched, gone>>
    BY DEF StartThread, pmixVars, contextVars, commVars, exitVars
  <1>9. StopThread(p) => UNCHANGED <<slots, made, workers, thread, net, mapped, pending, store, fences, fetched, gone>>
    BY DEF StopThread, pmixVars, contextVars, commVars, exitVars
  <1>10. Notify(p) \/ Release(p) => UNCHANGED <<slots, made, workers, thread, mapped, pending, store, fences, fetched, gone>>
    BY DEF Notify, Release, pmixVars, threadVars, contextVars, exitVars
  <1>11. CloseContexts(p) => UNCHANGED <<thread, net, mapped, pending, store, fences, fetched, gone>>
    BY DEF CloseContexts, pmixVars, threadVars, commVars, exitVars
  <1>12. CloseDefault(p) => UNCHANGED <<slots, made, thread, net, mapped, pending, store, fences, fetched, gone>>
    BY DEF CloseDefault, pmixVars, threadVars, contextVars, commVars, exitVars
  <1>13. Unmap(p) => UNCHANGED <<slots, made, workers, thread, net, pending, store, fences, fetched, gone>>
    BY DEF Unmap, pmixVars, threadVars, contextVars, commVars, exitVars
  <1>14. LeaveFence(p) \/ Connect(p) \/ Join(p) \/ Quiet(p) \/ Gather(p) \/ Await(p) \/ Finalize(p)
         => UNCHANGED <<slots, made, workers, thread, net, mapped, pending, store, fences, fetched, gone>>
    BY DEF LeaveFence, Connect, Join, Quiet, Gather, Await, Finalize,
           pmixVars, threadVars, contextVars, commVars, exitVars
  <1> QED
    BY <1>1, <1>2, <1>3, <1>4, <1>5, <1>6, <1>7, <1>8, <1>9, <1>10, <1>11, <1>12, <1>13, <1>14 DEF Step

\* Nobody goes back.
LEMMA Onward ==
  ASSUME Walk, Walk', NEW p \in PE, Moves(p) \/ Stays \/ Ends(p)
  PROVE  \A q \in PE : pc[q] <= pc'[q]
PROOF
  <1>1. \A q \in PE : pc[q] \in 1..38 /\ pc'[q] \in 1..38
    BY DEF Walk
  <1> SUFFICES ASSUME NEW q \in PE PROVE pc[q] <= pc'[q]
    OBVIOUS
  <1>2. CASE q = p
    BY <1>1, <1>2 DEF Moves, Stays, Ends
  <1>3. CASE q # p
    BY <1>1, <1>3 DEF Moves, Stays, Ends
  <1> QED
    BY <1>2, <1>3

\* One step of the program.
LEMMA StepGoes ==
  ASSUME Walk, NEW p \in PE, Step(p)
  PROVE  Walk' /\ (Moves(p) \/ Stays) /\ p \notin gone
PROOF
  <1>1. Fetch(p) => Moves(p) \/ Stays
    BY FetchGoes
  <1> QED
    BY <1>1, Goes DEF Step

\* Walk is inductive.
LEMMA WalkNext ==
  ASSUME Walk, [Next]_vars
  PROVE  Walk'
PROOF
  <1>1. ASSUME NEW p \in PE, Step(p) PROVE Walk'
    BY <1>1, StepGoes
  <1>2. ASSUME NEW p \in PE, Sleep(p) \/ Wake(p) \/ CreateContext(p) \/ GlobalExit(p)
        PROVE  Walk'
    BY <1>2, OthersGo
  <1>3. ASSUME NEW p \in PE, EventEnds(p) PROVE Walk'
    BY <1>3, EventGoes
  <1>4. ASSUME NEW p \in PE, NEW c, DestroyContext(p, c) PROVE Walk'
    BY <1>4, OthersGo
  <1>5. ASSUME NEW p \in PE, NEW q, NEW on, Put(p, q, on) PROVE Walk'
    BY <1>5, OthersGo
  <1>6. ASSUME NEW o, Land(o) PROVE Walk'
    BY <1>6, LandGoes
  <1>7. CASE Done
    BY <1>7, IdleGoes DEF Done
  <1>8. CASE UNCHANGED vars
    BY <1>8, IdleGoes
  <1> QED
    BY <1>1, <1>2, <1>3, <1>4, <1>5, <1>6, <1>7, <1>8 DEF Next

\* Contexts is inductive: first each kind of step by itself.
LEMMA ContextsStep ==
  ASSUME Walk, Contexts, NEW p \in PE, Step(p)
  PROVE  Contexts'
PROOF
  <1>0. Walk' /\ \A q \in PE : pc[q] <= pc'[q]
    BY StepGoes, Onward
  <1>1. CASE UNCHANGED <<slots, made>>
    BY <1>0, <1>1, ContextsStay
  <1>2. CASE CloseContexts(p)
    <2>1. /\ slots' = [slots EXCEPT ![p].live = {}] /\ made' = made
          /\ pc[p] = 32 /\ Moves(p)
      BY <1>2, Goes DEF CloseContexts
    <2>2. /\ Table(slots') /\ slots'[p] = [slots[p] EXCEPT !.live = {}]
          /\ \A q \in PE \ {p} : slots'[q] = slots[q]
      BY <2>1 DEF Contexts, Table
    <2>3. Sound(slots'[p]) /\ slots'[p].used = slots[p].used
      <3>1. Sound(slots[p])
        BY DEF Contexts
      <3>2. slots[p] \in SlotTable
        BY <3>1 DEF Sound
      <3>3. /\ slots'[p] \in SlotTable /\ slots'[p].free = slots[p].free
            /\ slots'[p].used = slots[p].used
            /\ slots'[p].spill = slots[p].spill /\ slots'[p].live = {}
        BY <2>2, <3>2 DEF SlotTable
      <3> QED
        BY <3>1, <3>3 DEF Sound
    <2>4. slots'[p].used <= made'[p] /\ made'[p] <= MaxContexts[p] /\ made' \in [PE -> Nat]
      BY <2>1, <2>3 DEF Contexts
    <2>5. pc'[p] = 33 /\ \A q \in PE \ {p} : pc'[q] = pc[q]
      BY <2>1 DEF Moves
    <2>6. \A q \in PE \ {p} : slots'[q] = slots[q] /\ made'[q] = made[q] /\ pc'[q] = pc[q]
      BY <2>1, <2>2, <2>5
    <2>7. ~(pc'[p] <= 32) /\ ~(pc'[p] <= 23)
      BY <2>5
    <2> QED
      BY <2>2, <2>3, <2>4, <2>6, <2>7, ContextsOfOne
  <1> QED
    BY <1>1, <1>2, Frames

LEMMA ContextsCreate ==
  ASSUME Walk, Contexts, NEW p \in PE, CreateContext(p)
  PROVE  /\ Contexts'
         /\ slots'[p].used \in {slots[p].used, slots[p].used + 1}
         /\ Take(slots[p]).slot \in 0..(slots'[p].used - 1)
         /\ slots'[p].used = slots[p].used + 1 => Take(slots[p]).slot = slots[p].used
         /\ \A q \in PE \ {p} : slots'[q] = slots[q]
PROOF
  <1>1. Stays /\ pc[p] = 24 /\ pc'[p] = 24
    BY OthersGo DEF Stays
  <1>s. PICK s : s = slots[p]
    OBVIOUS
  <1>n. PICK n : n = made[p]
    OBVIOUS
  <1>2. /\ slots' = [slots EXCEPT ![p] = Granted(s, n)] /\ made' = [made EXCEPT ![p] = n + 1]
        /\ n < MaxContexts[p]
    BY <1>s, <1>n DEF CreateContext, Granted
  <1>3. Sound(s) /\ n \in Nat /\ s.used <= n /\ Accounted(s) /\ s.used \in Nat
    <2>1. Sound(s) /\ n \in Nat /\ s.used <= n /\ Accounted(s)
      BY <1>1, <1>s, <1>n DEF Contexts
    <2>2. s \in SlotTable
      BY <2>1 DEF Sound
    <2> QED
      BY <2>1, <2>2 DEF SlotTable
  <1>t. PICK t : t = Granted(s, n)
    OBVIOUS
  <1>4. /\ Sound(t) /\ Accounted(t) /\ t.used \in {s.used, s.used + 1}
        /\ Take(s).slot \in 0..(t.used - 1)
        /\ t.used = s.used + 1 => Take(s).slot = s.used
    BY <1>3, <1>t, TakeIsSound
  <1>5. /\ Table(slots') /\ slots'[p] = t /\ \A q \in PE \ {p} : slots'[q] = slots[q]
        /\ made' \in [PE -> Nat] /\ made'[p] = n + 1 /\ \A q \in PE \ {p} : made'[q] = made[q]
    BY <1>2, <1>3, <1>t DEF Contexts, Table
  <1>6. MaxContexts[p] \in Nat
    BY LifecycleAssumption
  <1>7. t.used <= n + 1 /\ n + 1 <= MaxContexts[p]
    BY <1>2, <1>3, <1>4, <1>6
  <1>8. Contexts'
    BY <1>1, <1>4, <1>5, <1>7, ContextsOfOne DEF Stays
  <1> QED
    BY <1>4, <1>5, <1>8, <1>s

LEMMA ContextsDestroy ==
  ASSUME Walk, Contexts, NEW p \in PE, NEW c \in slots[p].live, DestroyContext(p, c)
  PROVE  Contexts' /\ \A q \in PE : slots'[q].used = slots[q].used
PROOF
  <1>1. Stays /\ pc[p] = 24 /\ pc'[p] = 24
    BY OthersGo DEF Stays
  <1>s. PICK s : s = slots[p]
    OBVIOUS
  <1>t. PICK t : t = Returned(s, c)
    OBVIOUS
  <1>2. /\ slots' = [slots EXCEPT ![p].live = @ \ {c}, ![p].free = Append(@, c.slot)]
        /\ made' = made
    BY DEF DestroyContext
  <1>3. Sound(s) /\ Accounted(s) /\ made[p] \in Nat /\ s.used <= made[p] /\ made[p] <= MaxContexts[p]
    BY <1>1, <1>s DEF Contexts
  <1>4. Sound(t) /\ Accounted(t) /\ t.used = s.used
    BY <1>3, <1>s, <1>t, GiveBackIsSound
  <1>6. Table(slots') /\ slots'[p] = t /\ \A q \in PE \ {p} : slots'[q] = slots[q]
    BY <1>2, <1>s, <1>t DEF Contexts, Table, Returned
  <1>8. made' \in [PE -> Nat]
    BY <1>2 DEF Contexts
  <1>9. \A q \in PE \ {p} : slots'[q] = slots[q] /\ made'[q] = made[q] /\ pc'[q] = pc[q]
    BY <1>1, <1>2, <1>6 DEF Stays
  <1>10. made'[p] = made[p] /\ ~(pc'[p] <= 23)
    BY <1>1, <1>2
  <1>5. Contexts'
    BY <1>3, <1>4, <1>6, <1>8, <1>9, <1>10, ContextsOfOne
  <1>7. ASSUME NEW q \in PE PROVE slots'[q].used = slots[q].used
    <2>1. CASE q = p
      BY <1>4, <1>6, <1>s, <2>1
    <2>2. CASE q # p
      BY <1>6, <2>2
    <2> QED
      BY <2>1, <2>2
  <1> QED
    BY <1>5, <1>7

LEMMA ContextsEnd ==
  ASSUME Walk, Contexts, NEW p \in PE, EventEnds(p)
  PROVE  Contexts' /\ slots'[p] = NoSlots /\ \A q \in PE \ {p} : slots'[q] = slots[q]
PROOF
  <1>1. Ends(p) /\ pc'[p] = 38
    BY EventGoes DEF Ends
  <1>2. slots' = [slots EXCEPT ![p] = NoSlots] /\ made' = [made EXCEPT ![p] = 0]
    BY DEF EventEnds
  <1>3. Sound(NoSlots) /\ NoSlots.used = 0 /\ MaxContexts[p] \in Nat
    BY NoSlotsAreSound, LifecycleAssumption DEF NoSlots
  <1>4. /\ Table(slots') /\ slots'[p] = NoSlots /\ made' \in [PE -> Nat] /\ made'[p] = 0
        /\ \A q \in PE \ {p} : slots'[q] = slots[q] /\ made'[q] = made[q]
    BY <1>2 DEF Contexts, Table
  <1>5. Contexts'
    BY <1>1, <1>3, <1>4, ContextsOfOne DEF Ends
  <1> QED
    BY <1>4, <1>5

\* What the other actions leave alone.
LEMMA OtherFrames ==
  /\ \A p : Sleep(p) \/ Wake(p)
       => UNCHANGED <<slots, made, workers, net, mapped, pending, store, fences, fetched, gone>>
  /\ \A p : CreateContext(p)
       => UNCHANGED <<thread, net, mapped, pending, store, fences, fetched, gone>>
  /\ \A p, c : DestroyContext(p, c)
       => UNCHANGED <<workers, thread, net, mapped, pending, store, fences, fetched, gone>>
  /\ \A p, q, on : Put(p, q, on)
       => UNCHANGED <<slots, made, workers, thread, mapped, pending, store, fences, fetched, gone>>
  /\ \A p : GlobalExit(p)
       => UNCHANGED <<slots, made, workers, thread, net, mapped, pending, store, fences, fetched, gone>>
  /\ \A o : Land(o)
       => UNCHANGED <<slots, made, workers, thread, mapped, pending, store, fences, fetched, gone>>
  /\ UNCHANGED vars
       => UNCHANGED <<slots, made, workers, thread, net, mapped, pending, store, fences, fetched, gone>>
PROOF
  <1>1. \A p : Sleep(p) \/ Wake(p)
          => UNCHANGED <<slots, made, workers, net, mapped, pending, store, fences, fetched, gone>>
    BY DEF Sleep, Wake, pmixVars, contextVars, commVars, exitVars
  <1>2. \A p : CreateContext(p)
          => UNCHANGED <<thread, net, mapped, pending, store, fences, fetched, gone>>
    BY DEF CreateContext, pmixVars, threadVars, commVars, exitVars
  <1>3. \A p, c : DestroyContext(p, c)
          => UNCHANGED <<workers, thread, net, mapped, pending, store, fences, fetched, gone>>
    BY DEF DestroyContext, pmixVars, threadVars, commVars, exitVars
  <1>4. \A p, q, on : Put(p, q, on)
          => UNCHANGED <<slots, made, workers, thread, mapped, pending, store, fences, fetched, gone>>
    BY DEF Put, pmixVars, threadVars, contextVars, exitVars
  <1>5. \A p : GlobalExit(p)
          => UNCHANGED <<slots, made, workers, thread, net, mapped, pending, store, fences, fetched, gone>>
    BY DEF GlobalExit, pmixVars, threadVars, contextVars, commVars
  <1>6. \A o : Land(o)
          => UNCHANGED <<slots, made, workers, thread, mapped, pending, store, fences, fetched, gone>>
    BY DEF Land, pmixVars, threadVars, contextVars, exitVars
  <1>7. UNCHANGED vars
          => UNCHANGED <<slots, made, workers, thread, net, mapped, pending, store, fences, fetched, gone>>
    BY DEF vars
  <1> QED
    BY <1>1, <1>2, <1>3, <1>4, <1>5, <1>6, <1>7

LEMMA ContextsNext ==
  ASSUME Walk, Contexts, [Next]_vars
  PROVE  Contexts'
PROOF
  <1>1. ASSUME NEW p \in PE, Step(p) PROVE Contexts'
    BY <1>1, ContextsStep
  <1>2. ASSUME NEW p \in PE, CreateContext(p) PROVE Contexts'
    BY <1>2, ContextsCreate
  <1>3. ASSUME NEW p \in PE, NEW c \in slots[p].live, DestroyContext(p, c) PROVE Contexts'
    BY <1>3, ContextsDestroy
  <1>4. ASSUME NEW p \in PE, EventEnds(p) PROVE Contexts'
    BY <1>4, ContextsEnd
  <1>5. ASSUME UNCHANGED <<slots, made>>, Walk', Stays PROVE Contexts'
    <2>1. \A q \in PE : pc[q] <= pc'[q]
      <3>1. \A q \in PE : pc[q] \in 1..38 /\ pc'[q] = pc[q]
        BY <1>5 DEF Stays, Walk
      <3> QED
        BY <3>1
    <2> QED
      BY <1>5, <2>1, ContextsStay
  <1>6. ASSUME NEW p \in PE, Sleep(p) \/ Wake(p) \/ GlobalExit(p) PROVE Contexts'
    BY <1>5, <1>6, OthersGo, OtherFrames
  <1>7. ASSUME NEW p \in PE, NEW q, NEW on, Put(p, q, on) PROVE Contexts'
    BY <1>5, <1>7, OthersGo, OtherFrames
  <1>8. ASSUME NEW o, Land(o) PROVE Contexts'
    BY <1>5, <1>8, LandGoes, OtherFrames
  <1>9. CASE UNCHANGED vars
    BY <1>5, <1>9, IdleGoes, OtherFrames
  <1> QED
    BY <1>1, <1>2, <1>3, <1>4, <1>6, <1>7, <1>8, <1>9 DEF Next, Done

\* The slots used, as numbers, and what leaves them alone.
LEMMA UsedIsNat ==
  ASSUME Contexts
  PROVE  \A q \in PE : slots[q].used \in Nat
  BY DEF Contexts, Sound, SlotTable

LEMMA UsedStays ==
  ASSUME Contexts, NEW p \in PE, Step(p)
  PROVE  \A q \in PE : slots'[q].used = slots[q].used
PROOF
  <1>1. CASE UNCHANGED <<slots, made>>
    BY <1>1
  <1>2. CASE CloseContexts(p)
    <2>1. slots' = [slots EXCEPT ![p].live = {}]
      BY <1>2 DEF CloseContexts
    <2>2. \A q \in PE : slots[q] \in SlotTable
      BY DEF Contexts, Sound
    <2>3. ASSUME NEW q \in PE PROVE slots'[q].used = slots[q].used
      <3>1. CASE q = p
        <4>1. slots'[p] = [slots[p] EXCEPT !.live = {}]
          BY <2>1 DEF Contexts, Table
        <4> QED
          BY <2>2, <3>1, <4>1 DEF SlotTable
      <3>2. CASE q # p
        BY <2>1, <3>2 DEF Contexts, Table
      <3> QED
        BY <3>1, <3>2
    <2> QED
      BY <2>3
  <1> QED
    BY <1>1, <1>2, Frames

\* Workers is inductive, given Contexts.
LEMMA WorkersStep ==
  ASSUME Walk, Contexts, Workers, NEW p \in PE, Step(p)
  PROVE  Workers'
PROOF
  <1>0. /\ Walk' /\ Contexts' /\ pc[p] \in 1..38
        /\ \A q \in PE : slots[q].used \in Nat
    BY StepGoes, ContextsStep, UsedIsNat DEF Walk
  <1>1. /\ \A q \in PE : slots'[q].used = slots[q].used
        /\ \A q \in PE \ {p} : slots'[q].used = slots[q].used
    BY UsedStays
  <1>2. CASE MakeWorker(p)
    <2>1. pc[p] = 3 /\ pc'[p] = 4 /\ \A q \in PE \ {p} : pc'[q] = pc[q]
      BY <1>2, Goes DEF Moves
    <2>2. workers' = [workers EXCEPT ![p] = {Default}] /\ thread' = thread
      BY <1>2 DEF MakeWorker, threadVars
    <2>3. /\ Table(workers') /\ Table(thread') /\ workers'[p] = {Default}
          /\ \A q \in PE \ {p} : workers'[q] = workers[q] /\ thread'[q] = thread[q]
      BY <2>2 DEF Workers, Table
    <2>4. slots'[p].used = 0
      BY <1>1, <2>1 DEF Contexts
    <2>5. thread'[p] \in {"none", "polling", "asleep", "ended"} /\ ~(thread'[p] \in {"polling", "asleep"})
      BY <2>1, <2>2 DEF Workers
    <2>6. /\ workers'[p] \subseteq {Default} \cup (0..(slots'[p].used - 1))
          /\ Default \in workers'[p] /\ 0..(slots'[p].used - 1) \subseteq workers'[p]
      BY <2>3, <2>4
    <2> QED
      BY <1>1, <2>1, <2>3, <2>5, <2>6, WorkersOfOne
  <1>3. CASE StartThread(p)
    <2>1. pc[p] = 18 /\ pc'[p] = 19 /\ \A q \in PE \ {p} : pc'[q] = pc[q]
      BY <1>3, Goes DEF Moves
    <2>2. /\ workers' = workers
          /\ thread' = [thread EXCEPT ![p] = IF p \in Threaded THEN "polling" ELSE @]
      BY <1>3 DEF StartThread
    <2>3. /\ Table(workers') /\ Table(thread')
          /\ thread'[p] = IF p \in Threaded THEN "polling" ELSE thread[p]
          /\ \A q \in PE \ {p} : workers'[q] = workers[q] /\ thread'[q] = thread[q]
      BY <2>2 DEF Workers, Table
    <2>4. /\ thread[p] \in {"none", "polling", "asleep", "ended"}
          /\ ~(thread[p] \in {"polling", "asleep"})
      BY <2>1 DEF Workers
    <2>5. /\ thread'[p] \in {"none", "polling", "asleep", "ended"}
          /\ thread'[p] \in {"polling", "asleep"} => p \in Threaded /\ pc'[p] \in 19..31
      BY <2>1, <2>3, <2>4
    <2>6. /\ workers'[p] \subseteq {Default} \cup (0..(slots'[p].used - 1))
          /\ Default \in workers'[p] /\ 0..(slots'[p].used - 1) \subseteq workers'[p]
      BY <1>1, <2>1, <2>2 DEF Workers
    <2> QED
      BY <1>1, <2>1, <2>3, <2>5, <2>6, WorkersOfOne
  <1>4. CASE Join(p)
    <2>1. pc[p] = 31 /\ pc'[p] = 32 /\ \A q \in PE \ {p} : pc'[q] = pc[q]
      BY <1>4, Goes DEF Moves
    <2>2. workers' = workers /\ thread' = thread /\ (p \in Threaded => thread[p] = "ended")
      BY <1>4 DEF Join, threadVars
    <2>3. /\ Table(workers') /\ Table(thread')
          /\ \A q \in PE \ {p} : workers'[q] = workers[q] /\ thread'[q] = thread[q]
      BY <2>2 DEF Workers
    <2>5. thread'[p] \in {"none", "polling", "asleep", "ended"} /\ ~(thread'[p] \in {"polling", "asleep"})
      BY <2>2 DEF Workers
    <2>6. /\ workers'[p] \subseteq {Default} \cup (0..(slots'[p].used - 1))
          /\ Default \in workers'[p] /\ 0..(slots'[p].used - 1) \subseteq workers'[p]
      BY <1>1, <2>1, <2>2 DEF Workers
    <2> QED
      BY <1>1, <2>1, <2>3, <2>5, <2>6, WorkersOfOne
  <1>5. CASE CloseContexts(p)
    <2>1. pc[p] = 32 /\ pc'[p] = 33 /\ \A q \in PE \ {p} : pc'[q] = pc[q]
      BY <1>5, Goes DEF Moves
    <2>2. /\ workers' = [workers EXCEPT ![p] = @ \ (0..(slots[p].used - 1))]
          /\ thread' = thread
      BY <1>5 DEF CloseContexts, threadVars
    <2>3. /\ Table(workers') /\ Table(thread') /\ workers'[p] = workers[p] \ (0..(slots[p].used - 1))
          /\ \A q \in PE \ {p} : workers'[q] = workers[q] /\ thread'[q] = thread[q]
      BY <2>2 DEF Workers, Table
    <2>5. thread'[p] \in {"none", "polling", "asleep", "ended"} /\ ~(thread'[p] \in {"polling", "asleep"})
      BY <2>1, <2>2 DEF Workers
    <2>6. workers'[p] \subseteq {Default} \cup (0..(slots'[p].used - 1)) /\ Default \in workers'[p]
      <3>1. workers[p] \subseteq {Default} \cup (0..(slots[p].used - 1)) /\ Default \in workers[p]
        BY <2>1 DEF Workers
      <3>2. Default \notin 0..(slots[p].used - 1)
        BY <1>0 DEF Default
      <3> QED
        BY <1>1, <2>3, <3>1, <3>2
    <2>7. ~(pc'[p] <= 32)
      BY <2>1
    <2> QED
      BY <1>1, <2>1, <2>3, <2>5, <2>6, <2>7, WorkersOfOne
  <1>6. CASE CloseDefault(p)
    <2>1. pc[p] = 33 /\ pc'[p] = 34 /\ \A q \in PE \ {p} : pc'[q] = pc[q]
      BY <1>6, Goes DEF Moves
    <2>2. workers' = [workers EXCEPT ![p] = @ \ {Default}] /\ thread' = thread
      BY <1>6 DEF CloseDefault, threadVars
    <2>3. /\ Table(workers') /\ Table(thread') /\ workers'[p] = workers[p] \ {Default}
          /\ \A q \in PE \ {p} : workers'[q] = workers[q] /\ thread'[q] = thread[q]
      BY <2>2 DEF Workers, Table
    <2>5. thread'[p] \in {"none", "polling", "asleep", "ended"} /\ ~(thread'[p] \in {"polling", "asleep"})
      BY <2>1, <2>2 DEF Workers
    <2>6. workers'[p] \subseteq {Default} \cup (0..(slots'[p].used - 1))
      BY <1>1, <2>3 DEF Workers
    <2>7. ~(pc'[p] <= 32) /\ ~(pc'[p] <= 33)
      BY <2>1
    <2> QED
      BY <1>1, <2>1, <2>3, <2>5, <2>6, <2>7, WorkersOfOne
  <1>7. CASE ~(MakeWorker(p) \/ StartThread(p) \/ Join(p) \/ CloseContexts(p) \/ CloseDefault(p))
    <2>1. UNCHANGED <<workers, thread>>
      BY <1>7, Frames
    <2>2. CASE Stays
      BY <1>1, <2>1, <2>2, WorkersStand
    <2>3. CASE Moves(p)
      <3>1. pc[p] \notin {3, 18, 31, 32, 33}
        <4>1. Fetch(p) => pc[p] \in {8, 13}
          BY FetchGoes
        <4> QED
          BY <1>0, <1>7, <4>1, Goes DEF Step
      <3> QED
        BY <1>0, <1>1, <2>1, <2>3, <3>1, WorkersStay DEF WorkersAside
    <2> QED
      BY <2>2, <2>3, StepGoes
  <1> QED
    BY <1>2, <1>3, <1>4, <1>5, <1>6, <1>7

LEMMA WorkersNext ==
  ASSUME Walk, Contexts, Workers, [Next]_vars
  PROVE  Workers'
PROOF
  <1>0. \A q \in PE : slots[q].used \in Nat
    BY UsedIsNat
  <1>1. ASSUME NEW p \in PE, Step(p) PROVE Workers'
    BY <1>1, WorkersStep
  <1>2. ASSUME NEW p \in PE, Sleep(p) \/ Wake(p) PROVE Workers'
    <2>1. Stays /\ UNCHANGED <<slots, workers>>
      BY <1>2, OthersGo, OtherFrames
    <2>2. PICK h \in {"polling", "asleep", "ended"} :
            thread' = [thread EXCEPT ![p] = h] /\ thread[p] \in {"polling", "asleep"}
      BY <1>2 DEF Sleep, Wake
    <2>3. /\ Table(thread') /\ Table(workers') /\ thread'[p] = h
          /\ \A q \in PE \ {p} : thread'[q] = thread[q]
      BY <2>1, <2>2 DEF Workers, Table
    <2>4. /\ thread'[p] \in {"none", "polling", "asleep", "ended"}
          /\ p \in Threaded /\ pc'[p] \in 19..31
      BY <2>1, <2>2, <2>3 DEF Workers, Stays
    <2>5. /\ workers'[p] \subseteq {Default} \cup (0..(slots'[p].used - 1))
          /\ Default \in workers'[p] /\ 0..(slots'[p].used - 1) \subseteq workers'[p]
      BY <2>1, <2>4 DEF Workers, Stays
    <2> QED
      BY <2>1, <2>3, <2>4, <2>5, WorkersOfOne DEF Stays
  <1>3. ASSUME NEW p \in PE, CreateContext(p) PROVE Workers'
    <2>1. pc[p] = 24 /\ Stays /\ thread' = thread
      BY <1>3, OthersGo, OtherFrames
    <2>2. /\ slots'[p].used \in {slots[p].used, slots[p].used + 1}
          /\ Take(slots[p]).slot \in 0..(slots'[p].used - 1)
          /\ slots'[p].used = slots[p].used + 1 => Take(slots[p]).slot = slots[p].used
          /\ \A q \in PE \ {p} : slots'[q] = slots[q]
      BY <1>3, ContextsCreate
    <2>3. workers' = [workers EXCEPT ![p] = @ \cup {Take(slots[p]).slot}]
      BY <1>3 DEF CreateContext
    <2>4. /\ Table(workers') /\ Table(thread') /\ workers'[p] = workers[p] \cup {Take(slots[p]).slot}
          /\ \A q \in PE \ {p} : workers'[q] = workers[q] /\ thread'[q] = thread[q]
      BY <2>1, <2>3 DEF Workers, Table
    <2>5. /\ workers[p] \subseteq {Default} \cup (0..(slots[p].used - 1))
          /\ Default \in workers[p] /\ 0..(slots[p].used - 1) \subseteq workers[p]
      BY <2>1 DEF Workers
    <2>6. /\ workers'[p] \subseteq {Default} \cup (0..(slots'[p].used - 1))
          /\ Default \in workers'[p] /\ 0..(slots'[p].used - 1) \subseteq workers'[p]
      BY <1>0, <2>2, <2>4, <2>5
    <2>7. /\ thread'[p] \in {"none", "polling", "asleep", "ended"}
          /\ thread'[p] \in {"polling", "asleep"} => p \in Threaded /\ pc'[p] \in 19..31
      BY <2>1 DEF Workers, Stays
    <2> QED
      BY <2>1, <2>2, <2>4, <2>6, <2>7, WorkersOfOne DEF Stays
  <1>4. ASSUME NEW p \in PE, NEW c \in slots[p].live, DestroyContext(p, c) PROVE Workers'
    BY <1>4, OthersGo, OtherFrames, ContextsDestroy, WorkersStand
  <1>5. ASSUME NEW p \in PE, EventEnds(p) PROVE Workers'
    <2>1. /\ pc'[p] = 38 /\ \A q \in PE \ {p} : pc'[q] = pc[q] /\ slots'[q].used = slots[q].used
      BY <1>5, EventGoes, ContextsEnd DEF Ends
    <2>2. workers' = [workers EXCEPT ![p] = {}] /\ thread' = [thread EXCEPT ![p] = "ended"]
      BY <1>5 DEF EventEnds
    <2>3. /\ Table(workers') /\ Table(thread') /\ workers'[p] = {} /\ thread'[p] = "ended"
          /\ \A q \in PE \ {p} : workers'[q] = workers[q] /\ thread'[q] = thread[q]
      BY <2>2 DEF Workers, Table
    <2>4. ~(pc'[p] <= 32) /\ ~(pc'[p] <= 33)
      BY <2>1
    <2> QED
      BY <2>1, <2>3, <2>4, WorkersOfOne
  <1>6. ASSUME UNCHANGED <<slots, made, workers, thread>>, Stays PROVE Workers'
    BY <1>6, WorkersStand
  <1>7. ASSUME NEW p \in PE, GlobalExit(p) PROVE Workers'
    BY <1>6, <1>7, OthersGo, OtherFrames
  <1>8. ASSUME NEW p \in PE, NEW q, NEW on, Put(p, q, on) PROVE Workers'
    BY <1>6, <1>8, OthersGo, OtherFrames
  <1>9. ASSUME NEW o, Land(o) PROVE Workers'
    BY <1>6, <1>9, LandGoes, OtherFrames
  <1>10. CASE UNCHANGED vars
    BY <1>6, <1>10, IdleGoes, OtherFrames
  <1> QED
    BY <1>1, <1>2, <1>3, <1>4, <1>5, <1>7, <1>8, <1>9, <1>10 DEF Next, Done

-----------------------------------------------------------------------------
(* The exchange: what has been committed, by the fences that were passed.  *)

\* The fences that a PE at step i has come to.
FencesBy(i) ==
  IF i <= 6 THEN 0 ELSE IF i <= 11 THEN 1 ELSE IF i <= 16 THEN 2 ELSE IF i <= 35 THEN 3 ELSE 4

\* The count of fences follows from where a PE is.
Counted ==
  /\ Table(fences)
  /\ \A p \in PE : fences[p] \in 0..4 /\ (p \in gone \/ fences[p] = FencesBy(pc[p]))

\* A key is pending between its publication and the commit.
Published ==
  /\ Table(pending)
  /\ \A p \in PE \ gone : /\ pc[p] = 5 => <<"worker", p>> \in pending[p]
                          /\ pc[p] = 10 => <<"rkey", p>> \in pending[p]

\* What a PE has published is committed before it comes to the fence, and stays
\* so when the PE is ended.
Committed ==
  \A p \in PE : /\ (p \notin gone /\ pc[p] >= 6) \/ fences[p] >= 1 => <<"worker", p>> \in store
                /\ (p \notin gone /\ pc[p] >= 11) \/ fences[p] >= 2 => <<"rkey", p>> \in store

\* Nobody is past a fence that somebody has not come to.
Passed ==
  \A p \in PE \ gone, q \in PE : /\ pc[p] >= 8 => fences[q] >= 1
                                 /\ pc[p] >= 13 => fences[q] >= 2
                                 /\ pc[p] >= 18 => fences[q] >= 3
                                 /\ pc[p] >= 37 => fences[q] >= 4

\* The last key that a loop over the PEs fetches is not there before it ends.
Sought ==
  /\ Table(fetched)
  /\ \A p \in PE \ gone : /\ pc[p] <= 8 => <<"worker", Size - 1>> \notin fetched[p]
                          /\ pc[p] <= 13 => <<"rkey", Size - 1>> \notin fetched[p]

Exchange == Counted /\ Published /\ Committed /\ Passed /\ Sought

\* Nobody takes a step of the program, though some may be ended.
Rests == gone \subseteq gone' /\ \A q \in PE : q \in gone' \/ pc'[q] = pc[q]

LEMMA NoStep ==
  ASSUME Walk, Table(fetched), [Next]_vars
  PROVE  \/ \E p \in PE : Step(p)
         \/ /\ Rests /\ UNCHANGED <<pending, store, fences>> /\ Table(fetched')
            /\ \A q \in PE \ gone' : fetched'[q] = fetched[q]
PROOF
  <1> DEFINE Goal == /\ Rests /\ UNCHANGED <<pending, store, fences>> /\ Table(fetched')
                     /\ \A q \in PE \ gone' : fetched'[q] = fetched[q]
  <1>1. ASSUME Stays, UNCHANGED <<pending, store, fences, fetched, gone>> PROVE Goal
    BY <1>1 DEF Stays, Rests
  <1>2. ASSUME NEW p \in PE, EventEnds(p) PROVE Goal
    <2>1. /\ gone' = gone \cup {p} /\ fetched' = [fetched EXCEPT ![p] = {}]
          /\ UNCHANGED <<pending, store, fences>>
      BY <1>2 DEF EventEnds
    <2>2. \A q \in PE \ {p} : pc'[q] = pc[q]
      BY <1>2, EventGoes DEF Ends
    <2>3. Table(fetched') /\ \A q \in PE \ {p} : fetched'[q] = fetched[q]
      BY <2>1 DEF Table
    <2> QED
      BY <2>1, <2>2, <2>3 DEF Rests
  <1> HIDE DEF Goal
  <1>3. ASSUME NEW p \in PE, Sleep(p) \/ Wake(p) \/ CreateContext(p) \/ GlobalExit(p) PROVE Goal
    BY <1>1, <1>3, OthersGo, OtherFrames
  <1>4. ASSUME NEW p \in PE, NEW c, DestroyContext(p, c) PROVE Goal
    BY <1>1, <1>4, OthersGo, OtherFrames
  <1>5. ASSUME NEW p \in PE, NEW q, NEW on, Put(p, q, on) PROVE Goal
    BY <1>1, <1>5, OthersGo, OtherFrames
  <1>6. ASSUME NEW o, Land(o) PROVE Goal
    BY <1>1, <1>6, LandGoes, OtherFrames
  <1>7. ASSUME UNCHANGED vars PROVE Goal
    <2>1. Stays
      BY <1>7, IdleGoes
    <2>2. UNCHANGED <<pending, store, fences, fetched, gone>>
      BY <1>7 DEF vars
    <2> QED
      BY <1>1, <2>1, <2>2
  <1>8. (\E p \in PE : Step(p)) \/ Goal
    BY <1>2, <1>3, <1>4, <1>5, <1>6, <1>7 DEF Next, Done
  <1> QED
    BY <1>8 DEF Goal

\* A step of a PE is one step forward, or it goes on fetching.
LEMMA OneForward ==
  ASSUME Walk, NEW p \in PE, Step(p)
  PROVE  /\ gone' = gone /\ p \notin gone
         /\ \A q \in PE \ {p} : pc'[q] = pc[q]
         /\ pc[p] \in 1..38 /\ pc'[p] \in {pc[p], pc[p] + 1}
         /\ pc'[p] = pc[p] => Fetch(p)
PROOF
  <1>1. Fetch(p) \/ Moves(p)
    BY Goes DEF Step
  <1>2. Moves(p) => pc'[p] # pc[p]
    BY DEF Moves, Walk
  <1> QED
    BY <1>1, <1>2, StepGoes, Frames DEF Moves, Stays, Walk

\* The count by step, and the steps that change it.
LEMMA FencesByIs ==
  ASSUME NEW i \in 1..38
  PROVE  /\ FencesBy(i) \in 0..4
         /\ i + 1 <= 38 => FencesBy(i + 1) = IF i \in {6, 11, 16, 35} THEN FencesBy(i) + 1 ELSE FencesBy(i)
         /\ FencesBy(i) >= 1 <=> i >= 7
         /\ FencesBy(i) >= 2 <=> i >= 12
         /\ FencesBy(i) >= 3 <=> i >= 17
         /\ FencesBy(i) >= 4 <=> i >= 36
         /\ i = 7 => FencesBy(i) = 1
         /\ i = 12 => FencesBy(i) = 2
         /\ i = 17 => FencesBy(i) = 3
         /\ i = 36 => FencesBy(i) = 4
  BY DEF FencesBy

\* Each part of the exchange is kept by a step.
LEMMA CountedStep ==
  ASSUME Walk, Walk', Counted, NEW p \in PE, Step(p)
  PROVE  /\ Counted' /\ \A q \in PE : fences[q] <= fences'[q]
PROOF
  <1>0. /\ gone' = gone /\ p \notin gone /\ \A q \in PE \ {p} : pc'[q] = pc[q]
        /\ pc[p] \in 1..38 /\ pc'[p] \in 1..38 /\ pc'[p] \in {pc[p], pc[p] + 1}
        /\ pc'[p] = pc[p] => Fetch(p)
    BY OneForward DEF Walk
  <1>1. CASE EnterFence(p)
    <2>1. pc[p] \in {6, 11, 16, 35} /\ pc'[p] = pc[p] + 1
      BY <1>1, Goes DEF Moves
    <2>2. fences' = [fences EXCEPT ![p] = @ + 1]
      BY <1>1 DEF EnterFence
    <2>3. /\ Table(fences') /\ fences'[p] = fences[p] + 1
          /\ \A q \in PE \ {p} : fences'[q] = fences[q]
      BY <2>2 DEF Counted, Table
    <2>4. fences[p] = FencesBy(pc[p]) /\ fences[p] \in 0..4
      BY <1>0 DEF Counted
    <2>5. fences'[p] = FencesBy(pc'[p]) /\ fences'[p] \in 0..4 /\ fences[p] <= fences'[p]
      <3>1. FencesBy(pc[p] + 1) = FencesBy(pc[p]) + 1
        BY <1>0, <2>1, FencesByIs
      <3>2. FencesBy(pc'[p]) \in 0..4
        BY <1>0, FencesByIs
      <3> QED
        BY <2>1, <2>3, <2>4, <3>1, <3>2
    <2>6. ASSUME NEW q \in PE
          PROVE  /\ fences'[q] \in 0..4 /\ (q \in gone' \/ fences'[q] = FencesBy(pc'[q]))
                 /\ fences[q] <= fences'[q]
      <3>1. CASE q = p
        BY <2>5, <3>1
      <3>2. CASE q # p
        BY <1>0, <2>3, <3>2 DEF Counted
      <3> QED
        BY <3>1, <3>2
    <2> QED
      BY <2>3, <2>6 DEF Counted
  <1>2. CASE ~EnterFence(p)
    <2>1. fences' = fences
      BY <1>2, Frames
    <2>2. pc'[p] = pc[p] \/ pc[p] \notin {6, 11, 16, 35}
      <3>1. Fetch(p) => pc[p] \in {8, 13}
        BY FetchGoes
      <3> QED
        BY <1>0, <1>2, <3>1, Goes DEF Step
    <2>3. FencesBy(pc'[p]) = FencesBy(pc[p])
      BY <1>0, <2>2, FencesByIs
    <2>4. ASSUME NEW q \in PE
          PROVE  /\ fences'[q] \in 0..4 /\ (q \in gone' \/ fences'[q] = FencesBy(pc'[q]))
                 /\ fences[q] <= fences'[q]
      <3>0. fences[q] \in 0..4 /\ (q \in gone \/ fences[q] = FencesBy(pc[q]))
        BY DEF Counted
      <3>1. CASE q = p
        BY <1>0, <2>1, <2>3, <3>0, <3>1
      <3>2. CASE q # p
        BY <1>0, <2>1, <3>0, <3>2
      <3> QED
        BY <3>1, <3>2
    <2> QED
      BY <2>1, <2>4 DEF Counted
  <1> QED
    BY <1>1, <1>2

LEMMA PublishedStep ==
  ASSUME Walk, Published, NEW p \in PE, Step(p)
  PROVE  Published'
PROOF
  <1>0. /\ gone' = gone /\ p \notin gone /\ \A q \in PE \ {p} : pc'[q] = pc[q]
        /\ pc[p] \in 1..38 /\ pc'[p] \in {pc[p], pc[p] + 1}
        /\ pc'[p] = pc[p] => Fetch(p)
    BY OneForward
  <1>p. Publish(p) => /\ pc'[p] = pc[p] + 1
                      /\ \/ pc[p] = 4 /\ Argument(p) = "worker"
                         \/ pc[p] = 9 /\ Argument(p) = "rkey"
    BY Goes DEF Moves
  <1>c. Commit(p) => pc[p] \in {5, 10, 15, 34} /\ pc'[p] = pc[p] + 1
    BY Goes DEF Moves
  <1>f. Fetch(p) => pc[p] \in {8, 13}
    BY FetchGoes
  <1>1. /\ Table(pending') /\ \A q \in PE \ {p} : pending'[q] = pending[q]
        /\ Publish(p) => pending'[p] = pending[p] \cup {<<Argument(p), p>>}
    <2>1. CASE Publish(p)
      <3>1. pending' = [pending EXCEPT ![p] = @ \cup {<<Argument(p), p>>}]
        BY <2>1 DEF Publish
      <3> QED
        BY <3>1 DEF Published, Table
    <2>2. CASE Commit(p)
      <3>1. pending' = [pending EXCEPT ![p] = {}]
        BY <2>2 DEF Commit
      <3>2. ~Publish(p)
        BY <1>p, <1>c, <2>2
      <3> QED
        BY <3>1, <3>2 DEF Published, Table
    <2>3. CASE ~Publish(p) /\ ~Commit(p)
      BY <2>3, Frames DEF Published
    <2> QED
      BY <2>1, <2>2, <2>3
  <1>2. /\ pc'[p] = 5 => <<"worker", p>> \in pending'[p]
        /\ pc'[p] = 10 => <<"rkey", p>> \in pending'[p]
    <2>1. CASE Publish(p)
      BY <1>1, <1>p, <2>1
    <2>2. CASE ~Publish(p)
      <3>1. Moves(p) => pc[p] \notin {4, 9}
        BY <1>f, <2>2, Goes DEF Step
      <3>2. pc'[p] # 5 /\ pc'[p] # 10
        BY <1>0, <1>f, <2>2, <3>1, StepGoes DEF Moves, Stays
      <3> QED
        BY <3>2
    <2> QED
      BY <2>1, <2>2
  <1>3. ASSUME NEW q \in PE \ gone'
        PROVE  /\ pc'[q] = 5 => <<"worker", q>> \in pending'[q]
               /\ pc'[q] = 10 => <<"rkey", q>> \in pending'[q]
    <2>1. CASE q = p
      BY <1>2, <2>1
    <2>2. CASE q # p
      BY <1>0, <1>1, <2>2 DEF Published
    <2> QED
      BY <2>1, <2>2
  <1> QED
    BY <1>1, <1>3 DEF Published

LEMMA CommittedStep ==
  ASSUME Walk, Counted, Counted', Published, Committed, NEW p \in PE, Step(p)
  PROVE  Committed'
PROOF
  <1>0. /\ gone' = gone /\ p \notin gone /\ \A q \in PE \ {p} : pc'[q] = pc[q]
        /\ pc[p] \in 1..38 /\ pc'[p] \in {pc[p], pc[p] + 1}
        /\ pc'[p] = pc[p] => Fetch(p)
    BY OneForward
  <1>1. store \subseteq store'
    <2>1. Commit(p) => store' = store \cup pending[p]
      BY DEF Commit
    <2> QED
      BY <2>1, Frames
  <1>2. pc'[p] = 6 => <<"worker", p>> \in store'
    <2>1. CASE Commit(p)
      <3>1. store' = store \cup pending[p]
        BY <2>1 DEF Commit
      <3>2. Moves(p)
        BY <2>1, Goes
      <3>3. pc'[p] = 6 => pc[p] = 5
        BY <1>0, <3>2 DEF Moves
      <3> QED
        BY <1>0, <3>1, <3>3 DEF Published
    <2>2. CASE ~Commit(p)
      <3>1. pc[p] # 5
        <4>1. Fetch(p) => pc[p] \in {8, 13}
          BY FetchGoes
        <4> QED
          BY <2>2, <4>1, Goes DEF Step
      <3>2. pc'[p] = 6 => pc[p] >= 6
        BY <1>0, <3>1
      <3> QED
        BY <1>0, <1>1, <3>2 DEF Committed
    <2> QED
      BY <2>1, <2>2
  <1>3. pc'[p] = 11 => <<"rkey", p>> \in store'
    <2>1. CASE Commit(p)
      <3>1. store' = store \cup pending[p]
        BY <2>1 DEF Commit
      <3>2. Moves(p)
        BY <2>1, Goes
      <3>3. pc'[p] = 11 => pc[p] = 10
        BY <1>0, <3>2 DEF Moves
      <3> QED
        BY <1>0, <3>1, <3>3 DEF Published
    <2>2. CASE ~Commit(p)
      <3>1. pc[p] # 10
        <4>1. Fetch(p) => pc[p] \in {8, 13}
          BY FetchGoes
        <4> QED
          BY <2>2, <4>1, Goes DEF Step
      <3>2. pc'[p] = 11 => pc[p] >= 11
        BY <1>0, <3>1
      <3> QED
        BY <1>0, <1>1, <3>2 DEF Committed
    <2> QED
      BY <2>1, <2>2
  <1>4. /\ pc'[p] >= 6 => <<"worker", p>> \in store'
        /\ pc'[p] >= 11 => <<"rkey", p>> \in store'
    <2>1. pc'[p] >= 6 => pc'[p] = 6 \/ pc[p] >= 6
      BY <1>0
    <2>2. pc'[p] >= 11 => pc'[p] = 11 \/ pc[p] >= 11
      BY <1>0
    <2> QED
      BY <1>0, <1>1, <1>2, <1>3, <2>1, <2>2 DEF Committed
  <1>5. /\ fences'[p] >= 1 => pc'[p] >= 6
        /\ fences'[p] >= 2 => pc'[p] >= 11
    <2>1. fences'[p] = FencesBy(pc'[p])
      BY <1>0 DEF Counted
    <2> QED
      BY <1>0, <2>1 DEF FencesBy
  <1>6. \A q \in PE \ {p} : fences'[q] = fences[q]
    <2>1. EnterFence(p) => fences' = [fences EXCEPT ![p] = @ + 1]
      BY DEF EnterFence
    <2> QED
      BY <2>1, Frames DEF Counted, Table
  <1>7. ASSUME NEW q \in PE
        PROVE  /\ (q \notin gone' /\ pc'[q] >= 6) \/ fences'[q] >= 1 => <<"worker", q>> \in store'
               /\ (q \notin gone' /\ pc'[q] >= 11) \/ fences'[q] >= 2 => <<"rkey", q>> \in store'
    <2>1. CASE q = p
      BY <1>4, <1>5, <2>1
    <2>2. CASE q # p
      BY <1>0, <1>1, <1>6, <2>2 DEF Committed
    <2> QED
      BY <2>1, <2>2
  <1> QED
    BY <1>7 DEF Committed

LEMMA PassedStep ==
  ASSUME Walk, Walk', Counted, Passed, NEW p \in PE, Step(p)
  PROVE  Passed'
PROOF
  <1>0. /\ gone' = gone /\ p \notin gone /\ \A q \in PE \ {p} : pc'[q] = pc[q]
        /\ pc[p] \in 1..38 /\ pc'[p] \in {pc[p], pc[p] + 1}
        /\ pc'[p] = pc[p] => Fetch(p)
    BY OneForward
  <1>1. \A q \in PE : fences[q] <= fences'[q] /\ fences[q] \in 0..4 /\ fences'[q] \in 0..4
    BY CountedStep DEF Counted
  <1>2. ASSUME NEW q \in PE
        PROVE  /\ pc'[p] >= 8 => fences[q] >= 1
               /\ pc'[p] >= 13 => fences[q] >= 2
               /\ pc'[p] >= 18 => fences[q] >= 3
               /\ pc'[p] >= 37 => fences[q] >= 4
    <2>0. /\ pc[p] >= 8 => fences[q] >= 1
          /\ pc[p] >= 13 => fences[q] >= 2
          /\ pc[p] >= 18 => fences[q] >= 3
          /\ pc[p] >= 37 => fences[q] >= 4
      BY <1>0 DEF Passed
    <2>1. CASE LeaveFence(p)
      <3>1. fences[q] >= fences[p] /\ pc[p] \in {7, 12, 17, 36} /\ pc'[p] = pc[p] + 1
        BY <2>1, Goes DEF LeaveFence, Moves
      <3>2. fences[p] = FencesBy(pc[p])
        BY <1>0 DEF Counted
      <3>3. /\ pc[p] = 7 => fences[q] >= 1
            /\ pc[p] = 12 => fences[q] >= 2
            /\ pc[p] = 17 => fences[q] >= 3
            /\ pc[p] = 36 => fences[q] >= 4
        BY <1>0, <3>1, <3>2, FencesByIs
      <3> QED
        BY <1>0, <2>0, <3>1, <3>3
    <2>2. CASE ~LeaveFence(p)
      <3>1. pc[p] \notin {7, 12, 17, 36}
        <4>1. Fetch(p) => pc[p] \in {8, 13}
          BY FetchGoes
        <4> QED
          BY <2>2, <4>1, Goes DEF Step
      <3> QED
        BY <1>0, <2>0, <3>1
    <2> QED
      BY <2>1, <2>2
  <1>3. ASSUME NEW r \in PE \ gone', NEW q \in PE
        PROVE  /\ pc'[r] >= 8 => fences'[q] >= 1
               /\ pc'[r] >= 13 => fences'[q] >= 2
               /\ pc'[r] >= 18 => fences'[q] >= 3
               /\ pc'[r] >= 37 => fences'[q] >= 4
    <2>1. /\ pc'[r] >= 8 => fences[q] >= 1
          /\ pc'[r] >= 13 => fences[q] >= 2
          /\ pc'[r] >= 18 => fences[q] >= 3
          /\ pc'[r] >= 37 => fences[q] >= 4
      <3>1. CASE r = p
        BY <1>2, <3>1
      <3>2. CASE r # p
        BY <1>0, <3>2 DEF Passed
      <3> QED
        BY <3>1, <3>2
    <2> QED
      BY <1>1, <2>1
  <1> QED
    BY <1>3 DEF Passed

LEMMA SoughtStep ==
  ASSUME Walk, Sought, NEW p \in PE, Step(p)
  PROVE  Sought'
PROOF
  <1>0. /\ gone' = gone /\ p \notin gone /\ \A q \in PE \ {p} : pc'[q] = pc[q]
        /\ pc[p] \in 1..38 /\ pc'[p] \in {pc[p], pc[p] + 1}
        /\ pc'[p] = pc[p] => Fetch(p)
    BY OneForward
  <1>1. CASE Fetch(p)
    <2>1. /\ \/ pc[p] = 8 /\ Argument(p) = "worker"
             \/ pc[p] = 13 /\ Argument(p) = "rkey"
          /\ IF NextFetch(p)[2] = Size - 1 THEN Moves(p) ELSE Stays
      BY <1>1, FetchGoes
    <2>2. fetched' = [fetched EXCEPT ![p] = @ \cup {NextFetch(p)}]
      BY <1>1 DEF Fetch
    <2>3. /\ Table(fetched') /\ fetched'[p] = fetched[p] \cup {NextFetch(p)}
          /\ \A q \in PE \ {p} : fetched'[q] = fetched[q]
      BY <2>2 DEF Sought, Table
    <2>4. PICK q : NextFetch(p) = <<Argument(p), q>>
      BY DEF NextFetch
    <2>5. IF q = Size - 1 THEN pc'[p] = pc[p] + 1 ELSE pc'[p] = pc[p]
      BY <2>1, <2>4 DEF Moves, Stays
    <2>6. "worker" # "rkey"
      OBVIOUS
    <2>7. pc'[p] <= 8 => <<"worker", Size - 1>> \notin fetched'[p]
      <3>1. pc'[p] <= 8 => pc[p] = 8 /\ q # Size - 1
        BY <2>1, <2>5
      <3> QED
        BY <1>0, <2>3, <2>4, <3>1 DEF Sought
    <2>8. pc'[p] <= 13 => <<"rkey", Size - 1>> \notin fetched'[p]
      <3>1. pc'[p] <= 13 => pc[p] <= 13 /\ (q # Size - 1 \/ Argument(p) = "worker")
        BY <2>1, <2>5
      <3>2. pc'[p] <= 13 => <<"rkey", Size - 1>> # NextFetch(p)
        BY <2>4, <2>6, <3>1
      <3> QED
        BY <1>0, <2>3, <3>1, <3>2 DEF Sought
    <2>9. ASSUME NEW r \in PE \ gone'
          PROVE  /\ pc'[r] <= 8 => <<"worker", Size - 1>> \notin fetched'[r]
                 /\ pc'[r] <= 13 => <<"rkey", Size - 1>> \notin fetched'[r]
      <3>1. CASE r = p
        BY <2>7, <2>8, <3>1
      <3>2. CASE r # p
        BY <1>0, <2>3, <3>2 DEF Sought
      <3> QED
        BY <3>1, <3>2
    <2> QED
      BY <2>3, <2>9 DEF Sought
  <1>2. CASE ~Fetch(p)
    <2>1. fetched' = fetched
      BY <1>2, Frames
    <2>2. ASSUME NEW r \in PE \ gone'
          PROVE  /\ pc'[r] <= 8 => <<"worker", Size - 1>> \notin fetched'[r]
                 /\ pc'[r] <= 13 => <<"rkey", Size - 1>> \notin fetched'[r]
      <3>0. /\ pc[r] <= 8 => <<"worker", Size - 1>> \notin fetched[r]
            /\ pc[r] <= 13 => <<"rkey", Size - 1>> \notin fetched[r]
        BY <1>0 DEF Sought
      <3>1. CASE r = p
        BY <1>0, <2>1, <3>0, <3>1
      <3>2. CASE r # p
        BY <1>0, <2>1, <3>0, <3>2
      <3> QED
        BY <3>1, <3>2
    <2> QED
      BY <2>1, <2>2 DEF Sought
  <1> QED
    BY <1>1, <1>2

LEMMA ExchangeNext ==
  ASSUME Walk, Exchange, [Next]_vars
  PROVE  Exchange'
PROOF
  <1>1. ASSUME NEW p \in PE, Step(p) PROVE Exchange'
    <2>1. Walk'
      BY <1>1, StepGoes
    <2>2. Counted'
      BY <1>1, <2>1, CountedStep DEF Exchange
    <2> QED
      BY <1>1, <2>1, <2>2, PublishedStep, CommittedStep, PassedStep, SoughtStep DEF Exchange
  <1>2. ASSUME Rests, UNCHANGED <<pending, store, fences>>, Table(fetched'),
               \A q \in PE \ gone' : fetched'[q] = fetched[q]
        PROVE  Exchange'
    <2>1. \A q \in PE : q \notin gone' => q \notin gone /\ pc'[q] = pc[q]
      BY <1>2 DEF Rests
    <2>2. Counted'
      BY <1>2, <2>1 DEF Exchange, Counted, Rests
    <2>3. Published'
      BY <1>2, <2>1 DEF Exchange, Published
    <2>4. Committed'
      BY <1>2, <2>1 DEF Exchange, Committed
    <2>5. Passed'
      BY <1>2, <2>1 DEF Exchange, Passed
    <2>6. Sought'
      BY <1>2, <2>1 DEF Exchange, Sought
    <2> QED
      BY <2>2, <2>3, <2>4, <2>5, <2>6 DEF Exchange
  <1>3. Table(fetched)
    BY DEF Exchange, Sought
  <1> QED
    BY <1>1, <1>2, <1>3, NoStep

-----------------------------------------------------------------------------
(* The binomial tree of the barriers stays among the PEs.                  *)

\* The masks are the powers of two of an int.
LEMMA MasksAreNat ==
  \A m \in Masks : m \in Nat /\ 1 <= m
PROOF
  <1>1. ASSUME NEW k \in 0..30 PROVE 2^k \in Nat /\ 1 <= 2^k
    <2>1. \/ k = 0 \/ k = 1 \/ k = 2 \/ k = 3 \/ k = 4 \/ k = 5 \/ k = 6 \/ k = 7 \/ k = 8 \/ k = 9
          \/ k = 10 \/ k = 11 \/ k = 12 \/ k = 13 \/ k = 14 \/ k = 15 \/ k = 16 \/ k = 17 \/ k = 18 \/ k = 19
          \/ k = 20 \/ k = 21 \/ k = 22 \/ k = 23 \/ k = 24 \/ k = 25 \/ k = 26 \/ k = 27 \/ k = 28 \/ k = 29
          \/ k = 30
      OBVIOUS
    <2>2. /\ (k = 0 => 2^k = 2^0) /\ (k = 1 => 2^k = 2^1) /\ (k = 2 => 2^k = 2^2)
          /\ (k = 3 => 2^k = 2^3) /\ (k = 4 => 2^k = 2^4) /\ (k = 5 => 2^k = 2^5)
          /\ (k = 6 => 2^k = 2^6) /\ (k = 7 => 2^k = 2^7) /\ (k = 8 => 2^k = 2^8)
          /\ (k = 9 => 2^k = 2^9) /\ (k = 10 => 2^k = 2^10) /\ (k = 11 => 2^k = 2^11)
          /\ (k = 12 => 2^k = 2^12) /\ (k = 13 => 2^k = 2^13) /\ (k = 14 => 2^k = 2^14)
          /\ (k = 15 => 2^k = 2^15) /\ (k = 16 => 2^k = 2^16) /\ (k = 17 => 2^k = 2^17)
          /\ (k = 18 => 2^k = 2^18) /\ (k = 19 => 2^k = 2^19) /\ (k = 20 => 2^k = 2^20)
          /\ (k = 21 => 2^k = 2^21) /\ (k = 22 => 2^k = 2^22) /\ (k = 23 => 2^k = 2^23)
          /\ (k = 24 => 2^k = 2^24) /\ (k = 25 => 2^k = 2^25) /\ (k = 26 => 2^k = 2^26)
          /\ (k = 27 => 2^k = 2^27) /\ (k = 28 => 2^k = 2^28) /\ (k = 29 => 2^k = 2^29)
          /\ (k = 30 => 2^k = 2^30)
      OBVIOUS
    <2> QED
      BY <2>1, <2>2
  <1> QED
    BY <1>1 DEF Masks

\* Every node but 0 has a lowest bit, which is a mask of an int.
LEMMA LowestBitIs ==
  ASSUME NEW p \in Nat, 1 <= p, p < IntMax
  PROVE  LowestBit(p) \in Nat /\ 1 <= LowestBit(p) /\ LowestBit(p) <= p
PROOF
  <1>2. \E m \in Masks : p % (2 * m) = m
    <2> SUFFICES ASSUME \A m \in Masks : p % (2 * m) # m
                 PROVE  FALSE
      OBVIOUS
    <2>1. \A k \in 0..30 : p % (2 * 2^k) # 2^k
      BY DEF Masks
    <2>2. 0..30 = {0, 1, 2, 3, 4, 5, 6, 7, 8, 9, 10, 11, 12, 13, 14, 15,
                   16, 17, 18, 19, 20, 21, 22, 23, 24, 25, 26, 27, 28, 29, 30}
      OBVIOUS
    <2>3. /\ p % (2 * 2^0) # 2^0 /\ p % (2 * 2^1) # 2^1
          /\ p % (2 * 2^2) # 2^2 /\ p % (2 * 2^3) # 2^3
      BY <2>1, <2>2, Zenon
    <2>4. p % 16 = 0
      BY <2>3, SMT
    <2>5. /\ p % (2 * 2^4) # 2^4 /\ p % (2 * 2^5) # 2^5
          /\ p % (2 * 2^6) # 2^6 /\ p % (2 * 2^7) # 2^7
      BY <2>1, <2>2, Zenon
    <2>6. p % 256 = 0
      BY <2>5, <2>4, SMT
    <2>7. /\ p % (2 * 2^8) # 2^8 /\ p % (2 * 2^9) # 2^9
          /\ p % (2 * 2^10) # 2^10 /\ p % (2 * 2^11) # 2^11
      BY <2>1, <2>2, Zenon
    <2>8. p % 4096 = 0
      BY <2>7, <2>6, SMT
    <2>9. /\ p % (2 * 2^12) # 2^12 /\ p % (2 * 2^13) # 2^13
          /\ p % (2 * 2^14) # 2^14 /\ p % (2 * 2^15) # 2^15
      BY <2>1, <2>2, Zenon
    <2>10. p % 65536 = 0
      BY <2>9, <2>8, SMT
    <2>11. /\ p % (2 * 2^16) # 2^16 /\ p % (2 * 2^17) # 2^17
          /\ p % (2 * 2^18) # 2^18 /\ p % (2 * 2^19) # 2^19
      BY <2>1, <2>2, Zenon
    <2>12. p % 1048576 = 0
      BY <2>11, <2>10, SMT
    <2>13. /\ p % (2 * 2^20) # 2^20 /\ p % (2 * 2^21) # 2^21
          /\ p % (2 * 2^22) # 2^22 /\ p % (2 * 2^23) # 2^23
      BY <2>1, <2>2, Zenon
    <2>14. p % 16777216 = 0
      BY <2>13, <2>12, SMT
    <2>15. /\ p % (2 * 2^24) # 2^24 /\ p % (2 * 2^25) # 2^25
          /\ p % (2 * 2^26) # 2^26 /\ p % (2 * 2^27) # 2^27
      BY <2>1, <2>2, Zenon
    <2>16. p % 268435456 = 0
      BY <2>15, <2>14, SMT
    <2>17. /\ p % (2 * 2^28) # 2^28 /\ p % (2 * 2^29) # 2^29
          /\ p % (2 * 2^30) # 2^30
      BY <2>1, <2>2, Zenon
    <2>18. p % 2147483648 = 0
      BY <2>17, <2>16, SMT
    <2>19. p < 2147483648
      BY SMT DEF IntMax
    <2> QED
      BY <2>18, <2>19, SMT
  <1>3. LowestBit(p) \in Masks /\ p % (2 * LowestBit(p)) = LowestBit(p)
    BY <1>2 DEF LowestBit
  <1>4. ASSUME NEW m \in Nat \ {0}, p % (2 * m) = m PROVE m <= p
    BY <1>4
  <1> QED
    BY <1>3, <1>4, MasksAreNat

\* Parents and children are PEs: clearing the lowest bit makes a number smaller,
\* and a child is tested against the number of PEs.
LEMMA TreeStaysInside ==
  ASSUME NEW p \in PE
  PROVE  ParentOf[p] \in PE \cup {NoParent} /\ ChildrenOf[p] \subseteq PE
PROOF
  <1>0. Size \in Nat /\ Size <= IntMax /\ IntMax \in Nat /\ p \in 0..(Size - 1)
    BY LifecycleAssumption, SMT DEF PE, IntMax
  <1>1. Relative(Size, 0, p) = p
    BY <1>0 DEF Relative
  <1>2. ParentOf[p] \in PE \cup {NoParent}
    <2>1. ParentOf[p] = IF BinomialParent(p) = NoParent THEN NoParent
                        ELSE Absolute(Size, 0, BinomialParent(p))
      BY <1>1 DEF ParentOf, TreeParent, RelativeParent
    <2>2. CASE p = 0
      BY <2>1, <2>2 DEF BinomialParent
    <2>3. CASE p # 0
      <3>1. LowestBit(p) \in Nat /\ 1 <= LowestBit(p) /\ LowestBit(p) <= p
        BY <1>0, <2>3, LowestBitIs
      <3>2. BinomialParent(p) = p - LowestBit(p)
        BY <2>3 DEF BinomialParent
      <3>3. BinomialParent(p) \in 0..(Size - 1)
        BY <1>0, <3>1, <3>2
      <3>4. Absolute(Size, 0, BinomialParent(p)) = BinomialParent(p)
        BY <1>0, <3>3 DEF Absolute
      <3> QED
        BY <2>1, <3>3, <3>4 DEF PE
    <2> QED
      BY <2>2, <2>3
  <1>3. ASSUME NEW q \in ChildrenOf[p] PROVE q \in PE
    <2>1. ChildrenOf[p] = {Absolute(Size, 0, c) : c \in BinomialChildren(Size, p)}
      BY <1>1 DEF ChildrenOf, TreeChildren, RelativeChildren
    <2>2. PICK c \in BinomialChildren(Size, p) : q = Absolute(Size, 0, c)
      BY <1>3, <2>1
    <2>3. PICK m \in Masks : c = p + m /\ m < Size - p
      BY DEF BinomialChildren
    <2>4. m \in Nat
      BY MasksAreNat
    <2>5. c \in 0..(Size - 1)
      BY <1>0, <2>3, <2>4
    <2> QED
      BY <1>0, <2>2, <2>5 DEF Absolute, PE
  <1> QED
    BY <1>2, <1>3

-----------------------------------------------------------------------------
(* Memory, and what is on its way to it.                                   *)

\* The memory of a PE is there from the step after mapping to the last one.
Mapped == \A p \in PE \ gone : 3 <= pc[p] /\ pc[p] <= 37 => p \in mapped

\* What is on its way comes from a worker that is still open, of a PE that is
\* connected and has not finished the barrier of shutdown.
Underway ==
  \A o \in net :
    /\ o.from \in PE \ gone /\ o.to \in PE
    /\ 18 <= pc[o.from] /\ pc[o.from] <= 33
    /\ o.on = Default \/ (o.on \in 0..(slots[o.from].used - 1) /\ pc[o.from] <= 32)

\* Mapped is inductive.
LEMMA MappedNext ==
  ASSUME Walk, Mapped, [Next]_vars
  PROVE  Mapped'
PROOF
  <1>1. ASSUME NEW p \in PE, Step(p) PROVE Mapped'
    <2>0. /\ gone' = gone /\ p \notin gone /\ \A q \in PE \ {p} : pc'[q] = pc[q]
          /\ pc[p] \in 1..38 /\ pc'[p] \in {pc[p], pc[p] + 1}
          /\ pc'[p] = pc[p] => Fetch(p)
      BY <1>1, OneForward
    <2>1. \A q \in PE \ {p} : q \in mapped => q \in mapped'
      <3>1. /\ Map(p) => mapped' = mapped \cup {p}
            /\ Unmap(p) => mapped' = mapped \ {p}
        BY DEF Map, Unmap
      <3> QED
        BY <1>1, <3>1, Frames
    <2>2. 3 <= pc'[p] /\ pc'[p] <= 37 => p \in mapped'
      <3>1. CASE Map(p)
        BY <3>1 DEF Map
      <3>2. CASE Unmap(p)
        <4>1. pc[p] = 37 /\ pc'[p] = pc[p] + 1
          BY <3>2, Goes DEF Moves
        <4> QED
          BY <4>1
      <3>3. CASE ~Map(p) /\ ~Unmap(p)
        <4>1. mapped' = mapped
          BY <1>1, <3>3, Frames
        <4>2. pc[p] # 2
          <5>1. Fetch(p) => pc[p] \in {8, 13}
            BY FetchGoes
          <5> QED
            BY <1>1, <3>3, <5>1, Goes DEF Step
        <4>3. 3 <= pc'[p] /\ pc'[p] <= 37 => 3 <= pc[p] /\ pc[p] <= 37
          BY <2>0, <4>2
        <4> QED
          BY <2>0, <4>1, <4>3 DEF Mapped
      <3> QED
        BY <3>1, <3>2, <3>3
    <2>3. ASSUME NEW q \in PE \ gone', 3 <= pc'[q] /\ pc'[q] <= 37 PROVE q \in mapped'
      <3>1. CASE q = p
        BY <2>2, <2>3, <3>1
      <3>2. CASE q # p
        BY <2>0, <2>1, <2>3, <3>2 DEF Mapped
      <3> QED
        BY <3>1, <3>2
    <2> QED
      BY <2>3 DEF Mapped
  <1>2. ASSUME NEW p \in PE, EventEnds(p) PROVE Mapped'
    <2>1. mapped' = mapped \ {p} /\ gone' = gone \cup {p}
      BY <1>2 DEF EventEnds
    <2>2. \A q \in PE \ {p} : pc'[q] = pc[q]
      BY <1>2, EventGoes DEF Ends
    <2> QED
      BY <2>1, <2>2 DEF Mapped
  <1>3. ASSUME Stays, UNCHANGED <<mapped, gone>> PROVE Mapped'
    BY <1>3 DEF Stays, Mapped
  <1>4. ASSUME NEW p \in PE, Sleep(p) \/ Wake(p) \/ CreateContext(p) \/ GlobalExit(p) PROVE Mapped'
    BY <1>3, <1>4, OthersGo, OtherFrames
  <1>5. ASSUME NEW p \in PE, NEW c, DestroyContext(p, c) PROVE Mapped'
    BY <1>3, <1>5, OthersGo, OtherFrames
  <1>6. ASSUME NEW p \in PE, NEW q, NEW on, Put(p, q, on) PROVE Mapped'
    BY <1>3, <1>6, OthersGo, OtherFrames
  <1>7. ASSUME NEW o, Land(o) PROVE Mapped'
    BY <1>3, <1>7, LandGoes, OtherFrames
  <1>8. CASE UNCHANGED vars
    BY <1>3, <1>8, IdleGoes, OtherFrames
  <1> QED
    BY <1>1, <1>2, <1>4, <1>5, <1>6, <1>7, <1>8 DEF Next, Done

\* Underway is inductive: a worker is flushed before it is closed.
LEMMA UnderwayStep ==
  ASSUME Walk, Contexts, Underway, NEW p \in PE, Step(p)
  PROVE  Underway'
PROOF
  <1>0. /\ gone' = gone /\ p \notin gone /\ \A q \in PE \ {p} : pc'[q] = pc[q]
        /\ pc[p] \in 1..38 /\ pc'[p] \in {pc[p], pc[p] + 1}
        /\ pc'[p] = pc[p] => Fetch(p)
    BY OneForward
  <1>1. \A q \in PE : slots'[q].used = slots[q].used
    BY UsedStays
  <1>2. ASSUME NEW o \in net
        PROVE  /\ o.from \in PE \ gone' /\ o.to \in PE
               /\ 18 <= pc'[o.from] /\ pc'[o.from] <= 33
               /\ o.on = Default \/ (o.on \in 0..(slots'[o.from].used - 1) /\ pc'[o.from] <= 32)
    <2>0. /\ o.from \in PE \ gone /\ o.to \in PE
          /\ 18 <= pc[o.from] /\ pc[o.from] <= 33
          /\ o.on = Default \/ (o.on \in 0..(slots[o.from].used - 1) /\ pc[o.from] <= 32)
      BY DEF Underway
    <2>1. CASE o.from # p
      BY <1>0, <1>1, <2>0, <2>1
    <2>2. CASE o.from = p
      <3>1. CASE CloseContexts(p)
        <4>1. pc[p] = 32 /\ pc'[p] = pc[p] + 1
          BY <3>1, Goes DEF Moves
        <4>2. \A c \in 0..(slots[p].used - 1) : Landed(p, c)
          BY <3>1 DEF CloseContexts
        <4>3. o.on \notin 0..(slots[p].used - 1)
          BY <2>2, <4>2 DEF Landed
        <4>4. o.on = Default
          BY <2>0, <2>2, <4>3
        <4> QED
          BY <1>0, <2>0, <2>2, <4>1, <4>4
      <3>2. CASE CloseDefault(p)
        <4>1. pc[p] = 33 /\ Landed(p, Default)
          BY <3>2, Goes DEF CloseDefault
        <4>2. o.on # Default
          BY <2>2, <4>1 DEF Landed
        <4> QED
          BY <2>0, <2>2, <4>1, <4>2
      <3>3. CASE ~CloseContexts(p) /\ ~CloseDefault(p)
        <4>1. pc[p] # 32 /\ pc[p] # 33
          <5>1. Fetch(p) => pc[p] \in {8, 13}
            BY FetchGoes
          <5> QED
            BY <3>3, <5>1, Goes DEF Step
        <4>2. 18 <= pc[p] /\ pc[p] <= 33
          BY <2>0, <2>2
        <4>3. 18 <= pc'[p] /\ pc'[p] <= 32
          BY <1>0, <4>1, <4>2
        <4>4. o.on = Default \/ o.on \in 0..(slots'[o.from].used - 1)
          BY <1>1, <2>0
        <4> QED
          BY <1>0, <2>0, <2>2, <4>3, <4>4
      <3> QED
        BY <3>1, <3>2, <3>3
    <2> QED
      BY <2>1, <2>2
  <1>3. ASSUME NEW o \in net', o \notin net
        PROVE  /\ o.from \in PE \ gone' /\ o.to \in PE
               /\ 18 <= pc'[o.from] /\ pc'[o.from] <= 33
               /\ o.on = Default
    <2>1. Notify(p) \/ Release(p)
      BY <1>3, Frames
    <2>2. PICK q, b : q \in PE /\ o = Poke(p, q, b)
      <3>1. CASE Notify(p)
        <4>1. PICK q \in {ParentOf[p]} \ {NoParent} : o = Poke(p, q, Argument(p))
          BY <1>3, <3>1 DEF Notify
        <4>2. q \in PE
          BY <4>1, TreeStaysInside
        <4> QED
          BY <4>1, <4>2
      <3>2. CASE Release(p)
        <4>1. PICK q \in ChildrenOf[p] : o = Poke(p, q, Argument(p))
          BY <1>3, <3>2 DEF Release
        <4>2. q \in PE
          BY <4>1, TreeStaysInside
        <4> QED
          BY <4>1, <4>2
      <3> QED
        BY <2>1, <3>1, <3>2
    <2>3. o.from = p /\ o.to = q /\ o.on = Default
      BY <2>2 DEF Poke
    <2>4. pc[p] \in {21, 27, 23, 29} /\ pc'[p] = pc[p] + 1
      BY <2>1, Goes DEF Moves
    <2>5. 18 <= pc'[p] /\ pc'[p] <= 33
      BY <2>4
    <2> QED
      BY <1>0, <2>2, <2>3, <2>5
  <1> QED
    BY <1>2, <1>3 DEF Underway

LEMMA UnderwayNext ==
  ASSUME Walk, Contexts, Underway, [Next]_vars
  PROVE  Underway'
PROOF
  <1>0. \A q \in PE : slots[q].used \in Nat
    BY UsedIsNat
  <1>1. ASSUME NEW p \in PE, Step(p) PROVE Underway'
    BY <1>1, UnderwayStep
  <1>2. ASSUME NEW p \in PE, EventEnds(p) PROVE Underway'
    <2>1. net' = {o \in net : o.from # p} /\ gone' = gone \cup {p}
      BY <1>2 DEF EventEnds
    <2>2. \A q \in PE \ {p} : pc'[q] = pc[q] /\ slots'[q] = slots[q]
      BY <1>2, EventGoes, ContextsEnd DEF Ends
    <2>3. ASSUME NEW o \in net'
          PROVE  /\ o.from \in PE \ gone' /\ o.to \in PE
                 /\ 18 <= pc'[o.from] /\ pc'[o.from] <= 33
                 /\ o.on = Default \/ (o.on \in 0..(slots'[o.from].used - 1) /\ pc'[o.from] <= 32)
      <3>1. /\ o.from \in PE \ gone /\ o.to \in PE /\ o.from # p
            /\ 18 <= pc[o.from] /\ pc[o.from] <= 33
            /\ o.on = Default \/ (o.on \in 0..(slots[o.from].used - 1) /\ pc[o.from] <= 32)
        BY <2>1 DEF Underway
      <3>2. pc'[o.from] = pc[o.from] /\ slots'[o.from] = slots[o.from] /\ o.from \notin gone'
        BY <2>1, <2>2, <3>1
      <3> QED
        BY <3>1, <3>2
    <2> QED
      BY <2>3 DEF Underway
  <1>3. ASSUME Stays, gone' = gone,
               \A q \in PE : slots'[q].used \in Nat /\ slots[q].used <= slots'[q].used,
               \A o \in net' \ net : /\ o.from \in PE \ gone /\ o.to \in PE /\ pc[o.from] = 24
                                     /\ o.on = Default \/ o.on \in 0..(slots'[o.from].used - 1)
        PROVE  Underway'
    <2>1. ASSUME NEW o \in net'
          PROVE  /\ o.from \in PE \ gone' /\ o.to \in PE
                 /\ 18 <= pc'[o.from] /\ pc'[o.from] <= 33
                 /\ o.on = Default \/ (o.on \in 0..(slots'[o.from].used - 1) /\ pc'[o.from] <= 32)
      <3>1. CASE o \in net
        <4>1. /\ o.from \in PE \ gone /\ o.to \in PE
              /\ 18 <= pc[o.from] /\ pc[o.from] <= 33
              /\ o.on = Default \/ (o.on \in 0..(slots[o.from].used - 1) /\ pc[o.from] <= 32)
          BY <3>1 DEF Underway
        <4>2. 0..(slots[o.from].used - 1) \subseteq 0..(slots'[o.from].used - 1)
          BY <1>0, <1>3, <4>1
        <4>3. pc'[o.from] = pc[o.from]
          BY <1>3, <4>1 DEF Stays
        <4> QED
          BY <1>3, <4>1, <4>2, <4>3
      <3>2. CASE o \notin net
        BY <1>3, <3>2 DEF Stays
      <3> QED
        BY <3>1, <3>2
    <2> QED
      BY <2>1 DEF Underway
  <1>4. ASSUME Stays, gone' = gone, slots' = slots, net' \subseteq net PROVE Underway'
    <2>1. \A q \in PE : slots'[q].used \in Nat /\ slots[q].used <= slots'[q].used
      BY <1>0, <1>4
    <2>2. net' \ net = {}
      BY <1>4
    <2> QED
      BY <1>3, <1>4, <2>1, <2>2
  <1>5. ASSUME NEW p \in PE, CreateContext(p) PROVE Underway'
    <2>1. Stays /\ gone' = gone /\ net' = net
      BY <1>5, OthersGo, OtherFrames
    <2>2. /\ slots'[p].used \in {slots[p].used, slots[p].used + 1}
          /\ \A q \in PE \ {p} : slots'[q] = slots[q]
      BY <1>5, ContextsCreate
    <2>3. \A q \in PE : slots'[q].used \in Nat /\ slots[q].used <= slots'[q].used
      BY <1>0, <2>2
    <2> QED
      BY <1>3, <2>1, <2>3
  <1>6. ASSUME NEW p \in PE, NEW c \in slots[p].live, DestroyContext(p, c) PROVE Underway'
    <2>1. Stays /\ gone' = gone /\ net' = net
      BY <1>6, OthersGo, OtherFrames
    <2>2. \A q \in PE : slots'[q].used = slots[q].used
      BY <1>6, ContextsDestroy
    <2>3. \A q \in PE : slots'[q].used \in Nat /\ slots[q].used <= slots'[q].used
      BY <1>0, <2>2
    <2> QED
      BY <1>3, <2>1, <2>3
  <1>7. ASSUME NEW p \in PE, NEW q \in PE \ {p},
               NEW on \in {Default} \cup {c.slot : c \in slots[p].live}, Put(p, q, on)
        PROVE  Underway'
    <2>1. Stays /\ gone' = gone /\ slots' = slots /\ pc[p] = 24 /\ p \notin gone
      BY <1>7, OthersGo, OtherFrames
    <2>2. net' = net \cup {[from |-> p, to |-> q, on |-> on, poke |-> <<>>]}
      BY <1>7 DEF Put
    <2>3. on = Default \/ on \in 0..(slots[p].used - 1)
      <3>1. Sound(slots[p])
        BY DEF Contexts
      <3>2. \A c \in slots[p].live : c.slot \in 0..(slots[p].used - 1)
        BY <3>1 DEF Sound, SlotTable
      <3> QED
        BY <3>2
    <2>4. ASSUME NEW o \in net' \ net
          PROVE  /\ o.from \in PE \ gone /\ o.to \in PE /\ pc[o.from] = 24
                 /\ o.on = Default \/ o.on \in 0..(slots'[o.from].used - 1)
      <3>1. o.from = p /\ o.to = q /\ o.on = on
        BY <2>2
      <3> QED
        BY <2>1, <2>3, <3>1
    <2>5. \A r \in PE : slots'[r].used \in Nat /\ slots[r].used <= slots'[r].used
      BY <1>0, <2>1
    <2> QED
      BY <1>3, <2>1, <2>4, <2>5
  <1>8. ASSUME NEW o \in net, Land(o) PROVE Underway'
    <2>1. net' \subseteq net
      BY <1>8 DEF Land
    <2> QED
      BY <1>4, <1>8, <2>1, LandGoes, OtherFrames
  <1>9. ASSUME NEW p \in PE, Sleep(p) \/ Wake(p) \/ GlobalExit(p) PROVE Underway'
    BY <1>4, <1>9, OthersGo, OtherFrames
  <1>10. CASE UNCHANGED vars
    BY <1>4, <1>10, IdleGoes, OtherFrames
  <1> QED
    BY <1>1, <1>2, <1>5, <1>6, <1>7, <1>8, <1>9, <1>10 DEF Next, Done

-----------------------------------------------------------------------------
(* The invariant.                                                          *)

\* All of it.
LInv == Walk /\ Contexts /\ Workers /\ Exchange /\ Mapped /\ Underway

LEMMA LInvInit == Init => LInv
PROOF
  <1> SUFFICES ASSUME Init PROVE LInv
    OBVIOUS
  <1>1. \A p \in PE : todo[p] = Program
    BY DEF Init, Program
  <1>2. Program = SubSeq(Program, 1, 37) /\ Len(Program) = 37
    <2>1. Program \in Seq(Item) /\ Len(Program) = 37
      BY ProgramIs
    <2> QED
      BY <2>1, SubSeqFull
  <1>3. \A p \in PE : pc[p] = 1
    <2>1. \A p \in PE : pc[p] = 38 - Len(todo[p])
      BY DEF pc
    <2>2. 38 - 37 = 1
      OBVIOUS
    <2> QED
      BY <1>1, <1>2, <2>1, <2>2
  <1>4. Walk
    <2>1. todo = [p \in PE |-> todo[p]] /\ gone = {}
      BY DEF Init
    <2>2. ASSUME NEW p \in PE PROVE pc[p] \in 1..38 /\ todo[p] = SubSeq(Program, pc[p], 37)
      <3>1. pc[p] = 1 /\ todo[p] = SubSeq(Program, 1, 37)
        BY <1>1, <1>2, <1>3
      <3> QED
        BY <3>1
    <2> QED
      BY <2>1, <2>2 DEF Walk
  <1>5. Contexts
    <2>1. Sound(NoSlots) /\ Accounted(NoSlots) /\ NoSlots.used = 0
      BY NoSlotsAreSound DEF NoSlots
    <2>2. Table(slots) /\ made \in [PE -> Nat]
      BY DEF Init, Table
    <2>3. \A p \in PE : slots[p] = NoSlots /\ made[p] = 0 /\ MaxContexts[p] \in Nat
      BY LifecycleAssumption DEF Init
    <2> QED
      BY <2>1, <2>2, <2>3 DEF Contexts
  <1>6. Workers
    <2>1. Table(workers) /\ Table(thread)
      BY DEF Init, Table
    <2>2. \A p \in PE : workers[p] = {} /\ thread[p] = "none"
      BY DEF Init
    <2>3. ASSUME NEW p \in PE
          PROVE  /\ workers[p] \subseteq {Default} \cup (0..(slots[p].used - 1))
                 /\ ~(4 <= pc[p])
                 /\ thread[p] \in {"none", "polling", "asleep", "ended"}
                 /\ ~(thread[p] \in {"polling", "asleep"})
      BY <1>3, <2>2
    <2> QED
      BY <2>1, <2>3 DEF Workers
  <1>7. Exchange
    <2>1. Table(fences) /\ Table(pending) /\ Table(fetched)
      BY DEF Init, Table
    <2>2. \A p \in PE : fences[p] = 0 /\ fetched[p] = {}
      BY DEF Init
    <2>3. FencesBy(1) = 0
      BY DEF FencesBy
    <2>4. Counted
      BY <1>3, <2>1, <2>2, <2>3 DEF Counted
    <2>5. Published
      BY <1>3, <2>1 DEF Published
    <2>6. Committed
      BY <1>3, <2>2 DEF Committed
    <2>7. Passed
      BY <1>3 DEF Passed
    <2>8. Sought
      BY <2>1, <2>2 DEF Sought
    <2> QED
      BY <2>4, <2>5, <2>6, <2>7, <2>8 DEF Exchange
  <1>8. Mapped /\ Underway
    BY <1>3 DEF Init, Mapped, Underway
  <1> QED
    BY <1>4, <1>5, <1>6, <1>7, <1>8 DEF LInv

LEMMA LInvNext == LInv /\ [Next]_vars => LInv'
  BY WalkNext, ContextsNext, WorkersNext, ExchangeNext, MappedNext, UnderwayNext DEF LInv

\* Where every PE is in its program determines the workers, the memory, the
\* fences and the keys there are, in every state that can be reached.
THEOREM LifecycleInvariance == Spec => []LInv
  BY LInvInit, LInvNext, PTL DEF Spec

-----------------------------------------------------------------------------
(* What it means.                                                          *)

\* The progress thread never polls a worker that is not there.
THEOREM PollsWhatIsThere == Spec => []PollsALiveWorker
PROOF
  <1>1. LInv => PollsALiveWorker
    <2> SUFFICES ASSUME LInv, NEW p \in PE, thread[p] = "polling"
                 PROVE  Default \in workers[p]
      BY DEF PollsALiveWorker
    <2>1. pc[p] \in 19..31
      BY DEF LInv, Workers
    <2>2. 4 <= pc[p] /\ pc[p] <= 33
      BY <2>1
    <2> QED
      BY <2>2 DEF LInv, Workers
  <1> QED
    BY <1>1, LifecycleInvariance, PTL

\* No two contexts share a slot, and no slot is lost.
THEOREM ContextsStayApart == Spec => []ContextsApart
PROOF
  <1>1. LInv => ContextsApart
    <2> SUFFICES ASSUME LInv, NEW p \in PE, NEW s, s = slots[p]
                 PROVE  LET live == {c.slot : c \in s.live}
                            free == {s.free[i] : i \in DOMAIN s.free}
                        IN  /\ \A c, d \in s.live : c.slot = d.slot => c = d
                            /\ Cardinality(free) = Len(s.free)
                            /\ live \cap free = {}
                            /\ s.used <= s.spill
                            /\ At(p, "work") => live \cup free = 0..(s.used - 1)
      BY DEF ContextsApart
    <2> DEFINE live == {c.slot : c \in s.live}
               free == {s.free[i] : i \in DOMAIN s.free}
               n == Len(s.free)
    <2>1. /\ Sound(s) /\ (pc[p] <= 32 => Accounted(s))
      BY DEF LInv, Contexts
    <2>2. /\ s.free \in Seq(Nat) /\ s.used \in Nat /\ s.live \in SUBSET [slot : Nat, no : Nat]
      <3>1. s \in SlotTable
        BY <2>1 DEF Sound
      <3> QED
        BY <3>1 DEF SlotTable
    <2>3. n \in Nat /\ DOMAIN s.free = 1..n /\ \A i \in 1..n : s.free[i] \in Nat
      BY <2>2, LenProperties, ElementOfSeq
    <2>4. Cardinality(free) = n
      <3> DEFINE f == [i \in 1..n |-> s.free[i]]
      <3>1. f \in Bijection(1..n, free)
        <4>1. f \in [1..n -> free]
          BY <2>3
        <4>2. \A i, j \in 1..n : f[i] = f[j] => i = j
          BY <2>1 DEF Sound
        <4>3. \A x \in free : \E i \in 1..n : f[i] = x
          BY <2>3
        <4> HIDE DEF f, free
        <4> QED
          BY <4>1, <4>2, <4>3 DEF Bijection, Injection, IsInjective, Surjection
      <3>2. ExistsBijection(1..n, free)
        BY <3>1 DEF ExistsBijection
      <3> HIDE DEF free, n
      <3> QED
        BY <2>3, <3>2, FS_CountingElements
    <2>5. live \cap free = {}
      BY <2>1, <2>3 DEF Sound
    <2>6. ASSUME At(p, "work") PROVE live \cup free = 0..(s.used - 1)
      <3>1. pc[p] = 24
        BY <2>6, Acts DEF LInv
      <3>2. Accounted(s)
        BY <2>1, <3>1
      <3>3. live \cup free \subseteq 0..(s.used - 1)
        <4>1. \A c \in s.live : c.slot \in Nat /\ c.slot < s.used
          BY <2>1, <2>2 DEF Sound
        <4>2. \A i \in 1..n : s.free[i] \in Nat /\ s.free[i] < s.used
          BY <2>1, <2>3 DEF Sound
        <4> QED
          BY <2>2, <2>3, <4>1, <4>2
      <3>4. 0..(s.used - 1) \subseteq live \cup free
        BY <2>3, <3>2 DEF Accounted
      <3> QED
        BY <3>3, <3>4
    <2>7. (\A c, d \in s.live : c.slot = d.slot => c = d) /\ s.used <= s.spill
      BY <2>1 DEF Sound
    <2> QED
      BY <2>4, <2>5, <2>6, <2>7
  <1> QED
    BY <1>1, LifecycleInvariance, PTL

\* A set of PEs has a least one.
LEMMA LeastPE ==
  ASSUME NEW T, T \subseteq PE, T # {}
  PROVE  \E x \in T : \A y \in T : x <= y
PROOF
  <1>1. T \subseteq Nat
    BY LifecycleAssumption DEF PE
  <1>2. \E x \in T : \A y \in T : ~(<<y, x>> \in {ss \in Nat \X Nat : ss[1] < ss[2]})
    <2>1. IsWellFoundedOn({ss \in Nat \X Nat : ss[1] < ss[2]}, Nat)
      BY NatLessThanWellFounded DEF OpToRel
    <2> QED
      BY <1>1, <2>1, WFMin
  <1>3. PICK x \in T : \A y \in T : ~(<<y, x>> \in {ss \in Nat \X Nat : ss[1] < ss[2]})
    BY <1>2
  <1>4. ASSUME NEW y \in T PROVE x <= y
    <2>1. x \in Nat /\ y \in Nat /\ <<y, x>> \in Nat \X Nat
      BY <1>1
    <2>2. ~(y < x)
      BY <1>3, <2>1
    <2> QED
      BY <2>1, <2>2
  <1> QED
    BY <1>4

\* What PE p fetches next is the key of a PE.
LEMMA NextFetchIs ==
  ASSUME Walk, Sought, NEW p \in PE, At(p, "fetch")
  PROVE  \E q \in PE : NextFetch(p) = <<Argument(p), q>>
PROOF
  <1> DEFINE left == {q \in PE : <<Argument(p), q>> \notin fetched[p]}
  <1>1. /\ \/ pc[p] = 8 /\ Argument(p) = "worker"
           \/ pc[p] = 13 /\ Argument(p) = "rkey"
        /\ p \notin gone
    BY Acts
  <1>2. Size - 1 \in left
    <2>1. Size - 1 \in PE
      BY LifecycleAssumption DEF PE
    <2> QED
      BY <1>1, <2>1 DEF Sought
  <1>3. \E q \in left : \A r \in left : q <= r
    <2>1. left \subseteq PE /\ left # {}
      BY <1>2
    <2> QED
      BY <2>1, LeastPE
  <1> QED
    BY <1>3 DEF NextFetch

\* PMIx has the key that is asked for.
THEOREM FetchesFind == Spec => []FetchesFindTheirKeys
PROOF
  <1>1. LInv => FetchesFindTheirKeys
    <2> SUFFICES ASSUME LInv, NEW p \in PE, At(p, "fetch")
                 PROVE  NextFetch(p) \in store
      BY DEF FetchesFindTheirKeys
    <2>1. /\ \/ pc[p] = 8 /\ Argument(p) = "worker"
             \/ pc[p] = 13 /\ Argument(p) = "rkey"
          /\ p \notin gone
      BY Acts DEF LInv
    <2>2. PICK q \in PE : NextFetch(p) = <<Argument(p), q>>
      BY NextFetchIs DEF LInv, Exchange
    <2>3. /\ pc[p] = 8 => fences[q] >= 1
          /\ pc[p] = 13 => fences[q] >= 2
      <3>1. /\ pc[p] >= 8 => fences[q] >= 1
            /\ pc[p] >= 13 => fences[q] >= 2
        BY <2>1 DEF LInv, Exchange, Passed
      <3> QED
        BY <3>1
    <2> QED
      BY <2>1, <2>2, <2>3 DEF LInv, Exchange, Committed
  <1> QED
    BY <1>1, LifecycleInvariance, PTL

\* What is underway finds the memory it goes to, and the worker it came from.
THEOREM NothingIsOutlived == Spec => []NothingOutlivesItsMemory
PROOF
  <1>1. LInv => NothingOutlivesItsMemory
    <2> SUFFICES ASSUME LInv, NEW o \in net
                 PROVE  o.to \in mapped \cup gone /\ o.on \in workers[o.from]
      BY DEF NothingOutlivesItsMemory
    <2> DEFINE p == o.from
               q == o.to
    <2>1. /\ p \in PE \ gone /\ q \in PE /\ 18 <= pc[p] /\ pc[p] <= 33
          /\ o.on = Default \/ (o.on \in 0..(slots[p].used - 1) /\ pc[p] <= 32)
      BY DEF LInv, Underway
    <2>2. \A r \in PE : pc[r] \in 1..38
      BY DEF LInv, Walk
    <2> HIDE DEF p, q
    <2>3. ASSUME q \notin gone PROVE q \in mapped
      <3>1. fences[q] = FencesBy(pc[q]) /\ fences[p] = FencesBy(pc[p])
        BY <2>1, <2>3 DEF LInv, Exchange, Counted
      <3>2. fences[q] >= 3
        BY <2>1, <2>2 DEF LInv, Exchange, Passed
      <3>3. pc[q] >= 17
        BY <2>1, <2>2, <3>1, <3>2, FencesByIs
      <3>4. ~(fences[p] >= 4)
        BY <2>1, <2>2, <3>1, FencesByIs
      <3>5. ~(pc[q] >= 37)
        BY <2>1, <2>3, <3>4 DEF LInv, Exchange, Passed
      <3>6. 3 <= pc[q] /\ pc[q] <= 37
        BY <2>1, <2>2, <3>3, <3>5
      <3> QED
        BY <2>1, <2>3, <3>6 DEF LInv, Mapped
    <2>4. o.on \in workers[p]
      <3>1. 4 <= pc[p] /\ pc[p] <= 33
        BY <2>1, <2>2
      <3>2. Default \in workers[p] /\ (pc[p] <= 32 => 0..(slots[p].used - 1) \subseteq workers[p])
        BY <2>1, <3>1 DEF LInv, Workers
      <3> QED
        BY <2>1, <3>2
    <2> QED
      BY <2>3, <2>4 DEF p, q
  <1> QED
    BY <1>1, LifecycleInvariance, PTL

\* The variables that LInv says less of than their types.
Key == {"worker", "rkey"} \X PE

Types ==
  /\ store \subseteq Key /\ mapped \subseteq PE /\ handlers \subseteq PE /\ exiting \in BOOLEAN
  /\ \A p \in PE : pending[p] \subseteq Key /\ fetched[p] \subseteq Key

\* They are kept.
LEMMA TypesStep ==
  ASSUME LInv, Types, NEW p \in PE, Step(p)
  PROVE  Types'
PROOF
  <1>1. Table(pending) /\ Table(fetched)
    BY DEF LInv, Exchange, Published, Sought
  <1>2. store' \subseteq Key
    <2>1. Commit(p) => store' = store \cup pending[p]
      BY DEF Commit
    <2> QED
      BY <2>1, Frames DEF Types
  <1>3. mapped' \subseteq PE
    <2>1. (Map(p) => mapped' = mapped \cup {p}) /\ (Unmap(p) => mapped' = mapped \ {p})
      BY DEF Map, Unmap
    <2> QED
      BY <2>1, Frames DEF Types
  <1>4. \A q \in PE : pending'[q] \subseteq Key
    <2>1. CASE Publish(p)
      <3>1. pending' = [pending EXCEPT ![p] = @ \cup {<<Argument(p), p>>}]
        BY <2>1 DEF Publish
      <3>2. <<Argument(p), p>> \in Key
        <4>1. Argument(p) \in {"worker", "rkey"}
          BY <2>1, Goes DEF LInv
        <4> QED
          BY <4>1 DEF Key
      <3> QED
        BY <1>1, <3>1, <3>2 DEF Table, Types
    <2>2. CASE Commit(p)
      <3>1. pending' = [pending EXCEPT ![p] = {}]
        BY <2>2 DEF Commit
      <3> QED
        BY <1>1, <3>1 DEF Table, Types
    <2> QED
      BY <2>1, <2>2, Frames DEF Types
  <1>5. \A q \in PE : fetched'[q] \subseteq Key
    <2>1. CASE Fetch(p)
      <3>1. fetched' = [fetched EXCEPT ![p] = @ \cup {NextFetch(p)}] /\ At(p, "fetch")
        BY <2>1 DEF Fetch
      <3>2. NextFetch(p) \in Key
        <4>1. Argument(p) \in {"worker", "rkey"}
          BY <2>1, FetchGoes DEF LInv
        <4>2. \E q \in PE : NextFetch(p) = <<Argument(p), q>>
          BY <3>1, NextFetchIs DEF LInv, Exchange
        <4> QED
          BY <4>1, <4>2 DEF Key
      <3> QED
        BY <1>1, <3>1, <3>2 DEF Table, Types
    <2> QED
      BY <2>1, Frames DEF Types
  <1>6. handlers' \subseteq PE /\ exiting' \in BOOLEAN
    <2>1. (Register(p) => handlers' = handlers \cup {p} /\ exiting' = exiting)
      BY DEF Register
    <2>2. Map(p) \/ MakeWorker(p) \/ Publish(p) \/ Commit(p) \/ EnterFence(p) \/ LeaveFence(p)
            => UNCHANGED <<handlers, exiting>>
      BY DEF Map, MakeWorker, Publish, Commit, EnterFence, LeaveFence, exitVars
    <2>3. Fetch(p) \/ Connect(p) \/ StartThread(p) \/ StopThread(p) \/ Join(p) \/ Quiet(p)
            => UNCHANGED <<handlers, exiting>>
      BY DEF Fetch, Connect, StartThread, StopThread, Join, Quiet, exitVars
    <2>4. Gather(p) \/ Notify(p) \/ Await(p) \/ Release(p) \/ Finalize(p)
            => UNCHANGED <<handlers, exiting>>
      BY DEF Gather, Notify, Await, Release, Finalize, exitVars
    <2>5. CloseContexts(p) \/ CloseDefault(p) \/ Unmap(p) => UNCHANGED <<handlers, exiting>>
      BY DEF CloseContexts, CloseDefault, Unmap, exitVars
    <2> QED
      BY <2>1, <2>2, <2>3, <2>4, <2>5 DEF Step, Types
  <1> QED
    BY <1>2, <1>3, <1>4, <1>5, <1>6 DEF Types

LEMMA TypesNext ==
  ASSUME LInv, Types, [Next]_vars
  PROVE  Types'
PROOF
  <1>1. ASSUME NEW p \in PE, Step(p) PROVE Types'
    BY <1>1, TypesStep
  <1>2. ASSUME UNCHANGED <<store, pending, fetched, mapped, handlers, exiting>> PROVE Types'
    BY <1>2 DEF Types
  <1>3. ASSUME NEW p \in PE, Sleep(p) \/ Wake(p) \/ CreateContext(p) PROVE Types'
    BY <1>2, <1>3 DEF Sleep, Wake, CreateContext, pmixVars, exitVars
  <1>4. ASSUME NEW p \in PE, NEW c, DestroyContext(p, c) PROVE Types'
    BY <1>2, <1>4 DEF DestroyContext, pmixVars, exitVars
  <1>5. ASSUME NEW p \in PE, NEW q, NEW on, Put(p, q, on) PROVE Types'
    BY <1>2, <1>5 DEF Put, pmixVars, exitVars
  <1>6. ASSUME NEW o, Land(o) PROVE Types'
    BY <1>2, <1>6 DEF Land, pmixVars, exitVars
  <1>7. ASSUME NEW p \in PE, GlobalExit(p) PROVE Types'
    <2>1. exiting' = TRUE /\ UNCHANGED <<store, pending, fetched, mapped, handlers>>
      BY <1>7 DEF GlobalExit, pmixVars
    <2> QED
      BY <2>1 DEF Types
  <1>8. ASSUME NEW p \in PE, EventEnds(p) PROVE Types'
    <2>1. /\ fetched' = [fetched EXCEPT ![p] = {}] /\ mapped' = mapped \ {p}
          /\ UNCHANGED <<store, pending, handlers, exiting>>
      BY <1>8 DEF EventEnds
    <2>2. \A q \in PE : fetched'[q] \subseteq Key
      BY <2>1 DEF LInv, Exchange, Sought, Table, Types
    <2> QED
      BY <2>1, <2>2 DEF Types
  <1>9. CASE UNCHANGED vars
    BY <1>2, <1>9 DEF vars
  <1> QED
    BY <1>1, <1>3, <1>4, <1>5, <1>6, <1>7, <1>8, <1>9 DEF Next, Done

\* Every variable has its type: no PE comes to more fences than there are, has
\* more workers than it created contexts for, or a table that grew for nothing.
THEOREM LifecycleTyped == Spec => []TypeOK
PROOF
  <1>1. Init => Types
    BY DEF Init, Types
  <1>2. LInv /\ Types => TypeOK
    <2> SUFFICES ASSUME LInv, Types PROVE TypeOK
      OBVIOUS
    <2>1. DOMAIN todo = PE /\ gone \subseteq PE
      BY DEF LInv, Walk
    <2>2. ASSUME NEW p \in PE
          PROVE  /\ fences[p] \in 0..4
                 /\ workers[p] \subseteq Default..(MaxContexts[p] - 1)
                 /\ thread[p] \in {"none", "polling", "asleep", "ended"}
                 /\ slots[p].spill \in 0..(MaxContexts[p] + Block)
      <3>1. fences[p] \in 0..4
        BY DEF LInv, Exchange, Counted
      <3>2. /\ Sound(slots[p]) /\ slots[p].used <= made[p] /\ made[p] <= MaxContexts[p]
            /\ made[p] \in Nat
        BY DEF LInv, Contexts
      <3>3. /\ slots[p].used \in Nat /\ slots[p].spill \in Nat
            /\ slots[p].spill <= slots[p].used + Block
        BY <3>2 DEF Sound, SlotTable
      <3>4. MaxContexts[p] \in Nat /\ Block \in Nat
        BY LifecycleAssumption
      <3>5. /\ workers[p] \subseteq {Default} \cup (0..(slots[p].used - 1))
            /\ thread[p] \in {"none", "polling", "asleep", "ended"}
        BY DEF LInv, Workers
      <3>6. {Default} \cup (0..(slots[p].used - 1)) \subseteq Default..(MaxContexts[p] - 1)
        BY <3>2, <3>3, <3>4 DEF Default
      <3>7. slots[p].spill \in 0..(MaxContexts[p] + Block)
        BY <3>2, <3>3, <3>4
      <3> QED
        BY <3>1, <3>5, <3>6, <3>7
    <2> QED
      BY <2>1, <2>2 DEF TypeOK, Types, Key
  <1>3. LInv /\ Types /\ [Next]_vars => Types'
    BY TypesNext
  <1> QED
    BY <1>1, <1>2, <1>3, LifecycleInvariance, PTL DEF Spec
=============================================================================
