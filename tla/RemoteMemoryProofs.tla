------------------------ MODULE RemoteMemoryProofs ------------------------
(***************************************************************************)
(* Remote memory implements MemorySpec, for any threads, contexts, words   *)
(* and programs.                                                           *)
(*                                                                         *)
(* What a call wants of a word follows from the program alone (Want); what *)
(* the network holds of it is only that word, unread, unlanded or landed.  *)
(* RInv says so of every operation in flight (Posted): one of a plain call *)
(* is on one word, as the call wants it; one of a compare-and-swap loop is *)
(* on the 8 bytes of the word, a load or a swap of what the loop has read. *)
(* There is one of a call on a word at a time (Alone), none once its       *)
(* answer has been delivered (Buffers), and no source that has been given  *)
(* back is still to be read (Unread).                                      *)
(*                                                                         *)
(* A step then begins operations, lets one take effect, or leaves the      *)
(* abstract memory alone: all steps of calls that post, wait or return are *)
(* of one form (Calling), those of the loop of another (Looping), and of   *)
(* the transport only Land changes the memory.                             *)
(***************************************************************************)
EXTENDS RemoteMemory, TLAPS

The(c) == prog[c[1]][c[2]]
Me(t) == <<t, at[t]>>
InLoop(t) == stage[t] \in {"load", "cas"}

\* Call c has begun to access word w.
Has(c, w) ==
  /\ c[2] <= Len(prog[c[1]])
  /\ w \in WordsOf(The(c))
  /\ \/ c[2] < at[c[1]]
     \/ /\ c[2] = at[c[1]] /\ stage[c[1]] # "idle"
        /\ The(c).op = "put_signal" /\ stage[c[1]] = "posted" => w \in DOMAIN The(c).put

-----------------------------------------------------------------------------
(* The inductive invariant.                                                *)

\* How far a thread is suits the call it is in.
Stages ==
  \A t \in Thread :
    /\ stage[t] # "idle" => at[t] <= Len(prog[t])
    /\ stage[t] = "posted" =>
         /\ Now(t).op \in {"put", "put_signal", "get", "fadd", "swap", "cswap", "fetch_bitwise"}
         /\ ~ Looped(Me(t))
    /\ stage[t] = "signal" => Now(t).op = "put_signal" /\ Now(t).do = "swap"
    /\ InLoop(t) => Looped(Me(t))

\* An operation of a plain call: on one word, as the call wants it.
AsWanted(o, w) ==
  LET a == Want(<<o.call, w>>) IN
  /\ o.on = {w}
  /\ o.do = a.do /\ o.fetch = a.fetch
  /\ o.do = "store" => o.val \in {None, [v \in {w} |-> a.val]}
  /\ o.do \notin {"store", "load"} => o.val = [v \in {w} |-> a.val] /\ o.comp = [v \in {w} |-> a.comp]

OnWord(o, w) ==
  /\ AsWanted(o, w)
  /\ Has(o.call, w)
  /\ o.answer # None => o.fetch /\ o.answer \in [{w} -> Value]

\* One of a loop: on the 8 bytes, and what the loop is at.
OnCell(o) ==
  LET t == o.call[1]
      c == The(o.call)
  IN  /\ o.call = Me(t) /\ o.on = Cell(c.word) /\ o.fetch
      /\ \/ stage[t] = "load" /\ o.do = "load"
         \/ stage[t] = "cas" /\ o.do = "cswap" /\ o.val = Combined(c, orig[t]) /\ o.comp = orig[t]
      /\ o.answer # None => o.answer \in [Cell(c.word) -> Value]

Fits(o) ==
  /\ o.call[2] <= Len(prog[o.call[1]])
  /\ o.ctx = The(o.call).ctx
  /\ IF Looped(o.call) THEN OnCell(o) ELSE \E w \in Word : OnWord(o, w)

Posted == \A o \in net : Fits(o)

\* One operation of a call on a word.
Alone == \A o, p \in net : o.call = p.call /\ o.on \cap p.on # {} => o = p

\* What is in a result buffer: of a loop all 8 bytes or nothing, else words of
\* which nothing is in flight any more.
Buffers ==
  \A c \in Call :
    IF Looped(c)
    THEN /\ DOMAIN got[c] \in {{}, Cell(The(c).word)}
         /\ c = Me(c[1]) /\ InLoop(c[1]) /\ Mine(c[1]) = {} => DOMAIN got[c] # {}
    ELSE \A w \in DOMAIN got[c] : Has(c, w) /\ \A o \in net : o.call = c => w \notin o.on

Origs == \A t \in Thread : stage[t] = "cas" => orig[t] \in [Cell(Now(t).word) -> Value]

\* Nobody reads a source that has been given back.
Unread == \A o \in net : o.do = "store" /\ o.val = None => ~ GivenBack(o)

\* Nothing of the calls before a quiet is in flight on its context.
Quieted ==
  \A o \in net : \A m \in o.call[2] + 1 .. at[o.call[1]] - 1 :
    ~ (prog[o.call[1]][m].op = "quiet" /\ prog[o.call[1]][m].ctx = o.ctx /\ o.ctx \notin NoStore)

\* Only the non-blocking gets and fetches return before their answer has come.
NothingLeft ==
  \A o \in net : o.call[2] < at[o.call[1]] /\ o.fetch => The(o.call).op \in {"get_nbi", "fadd_nbi"}

RInv == TypeOK /\ Stages /\ Posted /\ Alone /\ Buffers /\ Origs /\ Unread /\ Quieted /\ NothingLeft

-----------------------------------------------------------------------------
(* Buffers, calls and what they want.                                      *)

LEMMA BufferIs ==
  ASSUME NEW f \in Buffer
  PROVE  DOMAIN f \subseteq Word /\ f \in [DOMAIN f -> Value]
  BY DEF Buffer

LEMMA BufferMade ==
  ASSUME NEW S \in SUBSET Word, NEW f \in [S -> Value]
  PROVE  f \in Buffer /\ f # None
  BY MemoryAssumption DEF Buffer

LEMMA BufferOne ==
  ASSUME NEW w \in Word, NEW v \in Value
  PROVE  [x \in {w} |-> v] \in Buffer /\ [x \in {w} |-> v] # None
  BY BufferMade

LEMMA CellIs ==
  ASSUME NEW w \in Word
  PROVE  Cell(w) \subseteq Word /\ w \in Cell(w)
  BY MemoryAssumption DEF Cell

LEMMA CallIs ==
  ASSUME TypeOK, NEW c \in Call, c[2] <= Len(prog[c[1]])
  PROVE  IsCall(The(c)) /\ c[1] \in Thread /\ c[2] \in Nat /\ c = <<c[1], c[2]>>
  BY ProgramAssumption DEF TypeOK, Call, The

LEMMA BegunIs == Begun = {x \in Call \X Word : Has(x[1], x[2])}
  BY DEF Begun, Has, The

\* The words of a call are of three kinds.
LEMMA WantStore ==
  ASSUME NEW c, NEW w \in Word, IsCall(The(c)), w \in DOMAIN The(c).put
  PROVE  /\ The(c).op \in {"put", "put_nbi", "put_signal"} /\ w \notin The(c).get
         /\ The(c).put[w] \in Value
         /\ Want(<<c, w>>) = [call |-> c, word |-> w, do |-> "store", val |-> The(c).put[w],
                              comp |-> Zero, fetch |-> FALSE]
         /\ Want(<<c, w>>).do = "store" /\ Want(<<c, w>>).fetch = FALSE
         /\ Want(<<c, w>>).val = The(c).put[w]
<1>1. The(c).op \in {"put", "put_nbi", "put_signal"} /\ The(c).get = {} /\ The(c).put \in Buffer
  BY DEF IsCall
<1>2. The(c).put[w] \in Value
  BY <1>1, BufferIs
<1>3. Want(<<c, w>>) = [call |-> c, word |-> w, do |-> "store", val |-> The(c).put[w],
                        comp |-> Zero, fetch |-> FALSE]
  BY DEF Want, The
<1> DEFINE o == Want(<<c, w>>)
<1> HIDE DEF o
<1>4. o.do = "store" /\ o.fetch = FALSE /\ o.val = The(c).put[w]
  BY <1>3 DEF o
<1> QED
  BY <1>1, <1>2, <1>3, <1>4 DEF o

LEMMA WantLoad ==
  ASSUME NEW c, NEW w \in Word, IsCall(The(c)), w \in The(c).get
  PROVE  /\ The(c).op \in {"get", "get_nbi"} /\ w \notin DOMAIN The(c).put
         /\ Want(<<c, w>>) = [call |-> c, word |-> w, do |-> "load", val |-> Zero,
                              comp |-> Zero, fetch |-> TRUE]
         /\ Want(<<c, w>>).do = "load" /\ Want(<<c, w>>).fetch = TRUE
<1>1. The(c).op \in {"get", "get_nbi"} /\ DOMAIN The(c).put = {}
  BY DEF IsCall
<1>2. Want(<<c, w>>) = [call |-> c, word |-> w, do |-> "load", val |-> Zero,
                        comp |-> Zero, fetch |-> TRUE]
  BY <1>1 DEF Want, The
<1> DEFINE o == Want(<<c, w>>)
<1> HIDE DEF o
<1>3. o.do = "load" /\ o.fetch = TRUE
  BY <1>2 DEF o
<1> QED
  BY <1>1, <1>2, <1>3 DEF o

LEMMA WantAtomic ==
  ASSUME NEW c, NEW w \in Word, IsCall(The(c)), w = The(c).word
  PROVE  /\ The(c).op \in WithWord /\ w \notin DOMAIN The(c).put /\ w \notin The(c).get
         /\ The(c).do \in {"swap", "cswap", "add", "and", "or", "xor"}
         /\ The(c).val \in Value /\ The(c).comp \in Value
         /\ Want(<<c, w>>) = [call |-> c, word |-> w, do |-> The(c).do, val |-> The(c).val,
                              comp |-> The(c).comp, fetch |-> Fetching(The(c))]
<1>1. The(c).op \in WithWord
  BY MemoryAssumption DEF IsCall
<1>2. w \notin DOMAIN The(c).put /\ The(c).get = {} /\ The(c).val \in Value /\ The(c).comp \in Value
  BY <1>1 DEF IsCall, WithWord, CasOps
<1>3. The(c).do \in {"swap", "cswap", "add", "and", "or", "xor"}
  BY <1>1 DEF IsCall, WithWord, CasOps
<1>4. Want(<<c, w>>) = [call |-> c, word |-> w, do |-> The(c).do, val |-> The(c).val,
                        comp |-> The(c).comp, fetch |-> Fetching(The(c))]
  BY <1>2 DEF Want, The
<1> QED
  BY <1>1, <1>2, <1>3, <1>4

LEMMA WantType ==
  ASSUME NEW c \in Call, NEW w \in Word, IsCall(The(c)), w \in WordsOf(The(c))
  PROVE  Want(<<c, w>>) \in M!Operation /\ Want(<<c, w>>).call = c /\ Want(<<c, w>>).word = w
<1>1. Zero \in Value
  BY MemoryAssumption
<1> DEFINE o == Want(<<c, w>>)
<1>2. CASE w \in DOMAIN The(c).put
  <2>1. /\ The(c).put[w] \in Value
        /\ o = [call |-> c, word |-> w, do |-> "store", val |-> The(c).put[w],
                             comp |-> Zero, fetch |-> FALSE]
    BY <1>2, WantStore
  <2> HIDE DEF o
  <2>2. o \in M!Operation /\ o.call = c /\ o.word = w
    BY <2>1, <1>1 DEF M!Operation
  <2> QED
    BY <2>2 DEF o
<1>3. CASE w \in The(c).get
  <2>1. o = [call |-> c, word |-> w, do |-> "load", val |-> Zero,
                          comp |-> Zero, fetch |-> TRUE]
    BY <1>3, WantLoad
  <2> HIDE DEF o
  <2>2. o \in M!Operation /\ o.call = c /\ o.word = w
    BY <2>1, <1>1 DEF M!Operation
  <2> QED
    BY <2>2 DEF o
<1>4. CASE w = The(c).word
  <2>1. Fetching(The(c)) \in BOOLEAN
    BY DEF Fetching
  <2>2. /\ The(c).do \in {"swap", "cswap", "add", "and", "or", "xor"}
        /\ The(c).val \in Value /\ The(c).comp \in Value
        /\ o = [call |-> c, word |-> w, do |-> The(c).do, val |-> The(c).val,
                             comp |-> The(c).comp, fetch |-> Fetching(The(c))]
    BY <1>4, WantAtomic
  <2> HIDE DEF o
  <2>3. o \in M!Operation /\ o.call = c /\ o.word = w
    BY <2>1, <2>2 DEF M!Operation
  <2> QED
    BY <2>3 DEF o
<1> QED
  BY <1>2, <1>3, <1>4 DEF WordsOf

\* Neither what a call wants nor how it is made changes.
LEMMA Frame ==
  ASSUME prog' = prog, native' = native
  PROVE  /\ \A x : Want(x)' = Want(x)
         /\ \A c : (Looped(c)' <=> Looped(c)) /\ The(c)' = The(c)
         /\ \A o, w : AsWanted(o, w)' <=> AsWanted(o, w)
<1>1. \A x : Want(x)' = Want(x)
  BY DEF Want
<1>2. \A c : (Looped(c)' <=> Looped(c)) /\ The(c)' = The(c)
  BY DEF Looped, The
<1>3. \A o, w : AsWanted(o, w)' <=> AsWanted(o, w)
  BY <1>1 DEF AsWanted
<1> QED
  BY <1>1, <1>2, <1>3

LEMMA Chosen ==
  ASSUME NEW S, NEW p \in S, \A q \in S : q = p
  PROVE  (CHOOSE q \in S : TRUE) = p
  OBVIOUS

-----------------------------------------------------------------------------
(* Steps of the abstract memory.                                           *)

LEMMA WantOf ==
  ASSUME TypeOK, NEW x \in Begun
  PROVE  /\ x \in Call \X Word /\ x = <<x[1], x[2]>>
         /\ Want(x) \in M!Operation /\ Want(x).call = x[1] /\ Want(x).word = x[2]
<1>1. x \in Call \X Word /\ Has(x[1], x[2]) /\ x = <<x[1], x[2]>>
  BY BegunIs
<1>2. x[1] \in Call /\ x[2] \in Word /\ IsCall(The(x[1])) /\ x[2] \in WordsOf(The(x[1]))
  BY <1>1, CallIs DEF Has
<1>3. /\ Want(<<x[1], x[2]>>) \in M!Operation
      /\ Want(<<x[1], x[2]>>).call = x[1] /\ Want(<<x[1], x[2]>>).word = x[2]
  BY <1>2, WantType
<1> QED
  BY <1>1, <1>3

LEMMA WantInjective ==
  ASSUME TypeOK, NEW x \in Begun, NEW y \in Begun, Want(x) = Want(y)
  PROVE  x = y
<1>1. x = <<x[1], x[2]>> /\ Want(x).call = x[1] /\ Want(x).word = x[2]
  BY WantOf
<1>2. y = <<y[1], y[2]>> /\ Want(y).call = y[1] /\ Want(y).word = y[2]
  BY WantOf
<1> QED
  BY <1>1, <1>2

\* The three kinds of steps: operations begin, those of o take effect, or nothing
\* is seen.
Begins == M!Begin /\ Pending \subseteq Pending' /\ Begun' \subseteq Begun \cup Pending'

Takes(o) ==
  /\ M!Effect /\ Begun' = Begun
  /\ \A x \in Pending \ Pending' : x[1] = o.call /\ x[2] \in o.on

Stays == UNCHANGED M!vars /\ Pending' = Pending /\ Begun' = Begun

\* New operations of calls begin.
LEMMA AbsBegin ==
  ASSUME TypeOK, prog' = prog, native' = native, mem' = mem, Pending \subseteq Begun,
         NEW S \in SUBSET (Call \X Word), S \cap Begun = {}, \A x \in S : Want(x) \in M!Operation /\ Want(x).call = x[1] /\ Want(x).word = x[2],
         Begun' = Begun \cup S, Pending' = Pending \cup S,
         \A x \in Call \X Word : Found(x)' = Found(x)
  PROVE  Begins
<1>1. OpenOps' = OpenOps \cup {Want(x) : x \in S}
  BY Frame DEF OpenOps
<1>2. \A o \in OpenOps : <<o.call, o.word>> \in Begun
  <2> SUFFICES ASSUME NEW x \in Begun PROVE <<Want(x).call, Want(x).word>> = x
    BY DEF OpenOps
  <2> QED
    BY WantOf
<1>3. \A x \in S : <<Want(x).call, Want(x).word>> = x
  OBVIOUS
<1>4. OpenOps' \ OpenOps = {Want(x) : x \in S}
  BY <1>1, <1>2, <1>3
<1>5. {<<o.call, o.word>> : o \in {Want(x) : x \in S}} = S
  BY <1>3
<1>6. Answers' = Answers
  BY DEF Answers
<1>7. /\ OpenOps \subseteq OpenOps'
      /\ OpenOps' \ OpenOps \subseteq M!Operation
      /\ \A o \in OpenOps' \ OpenOps : <<o.call, o.word>> \notin Begun
      /\ Begun' = Begun \cup {<<o.call, o.word>> : o \in OpenOps' \ OpenOps}
  BY <1>1, <1>3, <1>4, <1>5
<1> QED
  BY <1>6, <1>7 DEF M!Begin, Begins

\* An operation takes effect.
LEMMA AbsEffect ==
  ASSUME TypeOK, prog' = prog, native' = native, Pending \subseteq Begun, Begun' = Begun,
         NEW x \in Pending, Pending' = Pending \ {x},
         mem' = [mem EXCEPT ![x[2]] = M!Outcome(Want(x), mem[x[2]])],
         \A y \in Call \X Word :
           Found(y)' = IF y = x /\ Want(x).fetch THEN mem[x[2]] ELSE Found(y)
  PROVE  M!Effect
<1>0. x \in Begun /\ x \in Call \X Word
  BY BegunIs
<1>1. Want(x).call = x[1] /\ Want(x).word = x[2] /\ x = <<x[1], x[2]>>
  BY <1>0, WantOf
<1>2. OpenOps' = OpenOps \ {Want(x)} /\ Want(x) \in OpenOps
  BY Frame, WantInjective DEF OpenOps
<1>3. Answers' = IF Want(x).fetch THEN [Answers EXCEPT ![<<Want(x).call, Want(x).word>>] = mem[x[2]]] ELSE Answers
  <2>1. CASE Want(x).fetch
    BY <1>0, <1>1, <2>1 DEF Answers
  <2>2. CASE ~ Want(x).fetch
    BY <2>2 DEF Answers
  <2> QED
    BY <2>1, <2>2
<1> QED
  BY <1>1, <1>2, <1>3 DEF M!Effect

\* Or nothing is seen of the step.
LEMMA AbsStutter ==
  ASSUME prog' = prog, native' = native, mem' = mem, Begun' = Begun, Pending' = Pending,
         \A x \in Call \X Word : Found(x)' = Found(x)
  PROVE  Stays
  BY Frame DEF M!vars, OpenOps, Answers, Stays

LEMMA FoundSame ==
  ASSUME prog' = prog, native' = native, NEW x \in Call \X Word, got'[x[1]] = got[x[1]],
         Looped(x[1]) => /\ at'[x[1][1]] = at[x[1][1]] /\ orig'[x[1][1]] = orig[x[1][1]]
                         /\ Swapped(x[1][1])' <=> Swapped(x[1][1]),
         ~ Looped(x[1]) => Landed(x)' = Landed(x)
  PROVE  Found(x)' = Found(x)
<1>1. Looped(x[1])' <=> Looped(x[1])
  BY Frame
<1>2. CASE Looped(x[1])
  BY <1>1, <1>2 DEF Found
<1>3. CASE ~ Looped(x[1])
  BY <1>1, <1>3 DEF Found
<1> QED
  BY <1>2, <1>3

LEMMA PendingBegun ==
  ASSUME RInv
  PROVE  Pending \subseteq Begun
<1> SUFFICES ASSUME NEW x \in Pending PROVE Has(x[1], x[2])
  BY BegunIs DEF Pending
<1>0. x[1] \in Call /\ x[2] \in Word /\ x[1] = <<x[1][1], x[1][2]>> /\ x[1][1] \in Thread
  BY DEF Pending, Call
<1>1. CASE Looped(x[1])
  <2>1. x[1] = Me(x[1][1]) /\ InLoop(x[1][1]) /\ x[2] = Now(x[1][1]).word /\ x[1][2] = at[x[1][1]]
    BY <1>0, <1>1 DEF Pending, Me, InLoop
  <2>2. The(x[1]).op \in CasOps /\ x[2] = The(x[1]).word /\ x[1][2] <= Len(prog[x[1][1]])
    BY <1>1, <2>1 DEF Looped, The, Now, Me
  <2> QED
    BY <1>0, <2>1, <2>2 DEF Has, WordsOf, InLoop, CasOps
<1>2. CASE ~ Looped(x[1])
  <2>1. PICK o \in net : o.call = x[1] /\ x[2] \in o.on
    BY <1>2 DEF Pending
  <2>2. PICK w \in Word : OnWord(o, w)
    BY <1>2, <2>1 DEF RInv, Posted, Fits
  <2> QED
    BY <2>1, <2>2 DEF OnWord, AsWanted
<1> QED
  BY <1>1, <1>2

-----------------------------------------------------------------------------
(* Steps of calls.                                                         *)

\* Thread t, in call c, posts the operations New on the words of N, goes on in
\* its call or returns from it.  In a loop it returns when it has swapped.
Calling(t, c, N, New) ==
  /\ native' = native /\ prog' = prog /\ orig' = orig /\ got' = got /\ mem' = mem
  /\ c = Me(t) /\ at[t] <= Len(prog[t])
  /\ \A s \in Thread : s # t => at'[s] = at[s] /\ stage'[s] = stage[s]
  /\ \/ at'[t] = at[t] + 1 /\ stage'[t] = "idle"
     \/ at'[t] = at[t] /\ stage'[t] \in {"posted", "signal"} /\ ~ Looped(c)
  /\ Looped(c) => N = {} /\ Swapped(t) /\ Mine(t) = {}
  /\ net' = net \cup New
  /\ \A o \in New :
       /\ o.call = c /\ o.ctx = The(c).ctx /\ o.answer = None
       /\ \E w \in N : AsWanted(o, w)
  /\ \A w \in N : \E o \in New : w \in o.on
  /\ \A o, p \in New : o.on \cap p.on # {} => o = p
  /\ N \subseteq Word
  /\ \A w \in N : ~ Has(c, w)
  /\ \A w \in Word : Has(c, w)' <=> Has(c, w) \/ w \in N

\* A call that returns leaves only the sources of a non-blocking put unread and
\* only its own answers outstanding; a quiet leaves nothing on its context.
Leaving(t, c) ==
  at'[t] # at[t] =>
    /\ \A o \in net' : o.call = c =>
         /\ o.do = "store" /\ o.val = None => The(c).op = "put_nbi"
         /\ o.fetch => The(c).op \in {"get_nbi", "fadd_nbi"}
    /\ The(c).op = "quiet" /\ The(c).ctx \notin NoStore => \A o \in net' : o.ctx # The(c).ctx

LEMMA CallingHas ==
  ASSUME TypeOK, NEW t \in Thread, NEW c, NEW N, NEW New, Calling(t, c, N, New),
         NEW d \in Call, NEW w \in Word
  PROVE  Has(d, w)' <=> Has(d, w) \/ (d = c /\ w \in N)
<1>1. c = <<t, at[t]>> /\ at[t] \in Int
  BY DEF Calling, Me, TypeOK
<1>2. CASE d = c
  BY <1>2 DEF Calling
<1>3. CASE d # c
  <2>1. The(d)' = The(d) /\ prog' = prog
    BY Frame DEF Calling
  <2>2. d = <<d[1], d[2]>> /\ d[1] \in Thread /\ d[2] \in Int
    BY DEF Call
  <2>3. CASE d[1] # t
    <3>1. at'[d[1]] = at[d[1]] /\ stage'[d[1]] = stage[d[1]]
      BY <2>2, <2>3 DEF Calling
    <3> QED
      BY <3>1, <2>1, <1>3 DEF Has
  <2>4. CASE d[1] = t
    <3>1. d[2] # at[t]
      BY <1>1, <1>3, <2>2, <2>4
    <3>2. (d[2] < at'[t] <=> d[2] < at[t]) /\ (d[2] = at'[t] => stage'[t] = "idle")
      BY <1>1, <2>2, <3>1 DEF Calling
    <3> QED
      BY <3>1, <3>2, <2>1, <2>4, <1>3 DEF Has
  <2> QED
    BY <2>3, <2>4
<1> QED
  BY <1>2, <1>3

\* What is posted is not in the way of what the call has in flight.
LEMMA CallingNew ==
  ASSUME RInv, NEW t \in Thread, NEW c, NEW N, NEW New, Calling(t, c, N, New)
  PROVE  /\ New # {} => ~ Looped(c)
         /\ \A o \in New : \E w \in N : o.on = {w} /\ AsWanted(o, w)
         /\ \A o \in New : \A p \in net : p.call = c => o.on \cap p.on = {}
         /\ \A p \in net : p.call = c => ~ Looped(c)
<1>1. New # {} => ~ Looped(c)
  BY DEF Calling
<1>2. \A o \in New : \E w \in N : o.on = {w} /\ AsWanted(o, w)
  BY DEF Calling, AsWanted
<1>3. ASSUME NEW p \in net, p.call = c PROVE ~ Looped(c)
  BY <1>3 DEF Calling, Mine, Me
<1>4. ASSUME NEW o \in New, NEW p \in net, p.call = c PROVE o.on \cap p.on = {}
  <2>1. PICK w \in Word : OnWord(p, w)
    BY <1>1, <1>4 DEF RInv, Posted, Fits
  <2>2. p.on = {w} /\ Has(c, w)
    BY <2>1, <1>4 DEF OnWord, AsWanted
  <2>3. PICK v \in N : o.on = {v}
    BY <1>2
  <2>4. ~ Has(c, v)
    BY DEF Calling
  <2> QED
    BY <2>2, <2>3, <2>4
<1> QED
  BY <1>1, <1>2, <1>3, <1>4

LEMMA CallingPosted ==
  ASSUME RInv, NEW t \in Thread, NEW c, NEW N, NEW New, Calling(t, c, N, New), c \in Call
  PROVE  Posted' /\ Alone'
<1>1. ASSUME NEW o \in net PROVE Fits(o)'
  <2>0. Fits(o) /\ o.call \in Call /\ prog' = prog /\ native' = native
    BY DEF RInv, Posted, TypeOK, Calling, Operation
  <2>1. (Looped(o.call)' <=> Looped(o.call)) /\ The(o.call)' = The(o.call)
    BY <2>0, Frame
  <2>2. CASE Looped(o.call)
    <3> DEFINE s == o.call[1]
    <3>1. o.call = <<s, at[s]>> /\ s \in Thread /\ OnCell(o)
      BY <2>0, <2>2 DEF Fits, OnCell, Me, Call
    <3>2. ASSUME s = t PROVE FALSE
      <4>1. o.call = c
        BY <3>1, <3>2 DEF Calling, Me
      <4>2. \A p \in net : p.call = c => ~ Looped(c)
        BY CallingNew
      <4> QED
        BY <4>1, <4>2, <2>2
    <3>3. at'[s] = at[s] /\ stage'[s] = stage[s] /\ orig'[s] = orig[s]
      BY <3>1, <3>2 DEF Calling
    <3>4. OnCell(o)'
      BY <3>1, <3>3, <2>1 DEF OnCell, Me
    <3> QED
      BY <3>4, <2>0, <2>1, <2>2 DEF Fits
  <2>3. CASE ~ Looped(o.call)
    <3>1. PICK w \in Word : OnWord(o, w)
      BY <2>0, <2>3 DEF Fits
    <3>2. AsWanted(o, w)' /\ Has(o.call, w)'
      BY <3>1, <2>0, Frame, CallingHas DEF OnWord, RInv
    <3>3. OnWord(o, w)'
      BY <3>1, <3>2 DEF OnWord
    <3> QED
      BY <3>3, <2>0, <2>1, <2>3 DEF Fits
  <2> QED
    BY <2>2, <2>3
<1>2. ASSUME NEW o \in New PROVE Fits(o)'
  <2>0. /\ prog' = prog /\ native' = native /\ o.call = c /\ o.ctx = The(c).ctx /\ o.answer = None
        /\ c[2] <= Len(prog[c[1]])
    BY DEF Calling, Me
  <2>1. (Looped(o.call)' <=> Looped(o.call)) /\ The(o.call)' = The(o.call)
    BY <2>0, Frame
  <2>2. ~ Looped(c)
    BY CallingNew
  <2>3. PICK w \in N : AsWanted(o, w)
    BY CallingNew
  <2>4. w \in Word
    BY DEF Calling
  <2>5. Has(c, w)' /\ AsWanted(o, w)'
    BY <2>0, <2>3, <2>4, Frame, CallingHas DEF RInv
  <2>6. OnWord(o, w)'
    BY <2>0, <2>5 DEF OnWord
  <2> QED
    BY <2>0, <2>1, <2>2, <2>4, <2>6 DEF Fits
<1>3. net' = net \cup New
  BY DEF Calling
<1>4. Posted'
  BY <1>1, <1>2, <1>3 DEF Posted
<1>5. ASSUME NEW o \in net', NEW p \in net', o.call = p.call, o.on \cap p.on # {}
      PROVE  o = p
  <2>1. CASE o \in net /\ p \in net
    BY <2>1, <1>5 DEF RInv, Alone
  <2>2. CASE o \in New /\ p \in New
    BY <2>2, <1>5 DEF Calling
  <2>5. \A q \in New : \A r \in net : r.call = c => q.on \cap r.on = {}
    BY CallingNew
  <2>0. \A q \in New : q.call = c
    BY DEF Calling
  <2>3. CASE o \in New /\ p \in net
    <3>1. p.call = c
      BY <2>0, <2>3, <1>5
    <3> QED
      BY <2>5, <2>3, <3>1, <1>5
  <2>4. CASE o \in net /\ p \in New
    <3>1. o.call = c
      BY <2>0, <2>4, <1>5
    <3>2. p.on \cap o.on = {}
      BY <2>5, <2>4, <3>1
    <3> QED
      BY <3>2, <1>5
  <2> QED
    BY <2>1, <2>2, <2>3, <2>4, <1>3
<1> QED
  BY <1>4, <1>5 DEF Alone

LEMMA CallingBuffers ==
  ASSUME RInv, NEW t \in Thread, NEW c, NEW N, NEW New, Calling(t, c, N, New), c \in Call
  PROVE  Buffers' /\ Origs'
<1>0. prog' = prog /\ native' = native /\ got' = got /\ orig' = orig /\ net' = net \cup New
  BY DEF Calling
<1>1. ASSUME NEW d \in Call, Looped(d)
      PROVE  /\ DOMAIN got[d] \in {{}, Cell(The(d).word)}
             /\ d = Me(d[1])' /\ InLoop(d[1])' /\ Mine(d[1])' = {} => DOMAIN got[d] # {}
  <2>1. DOMAIN got[d] \in {{}, Cell(The(d).word)}
    BY <1>1 DEF RInv, Buffers
  <2>2. ASSUME d = Me(d[1])', InLoop(d[1])', Mine(d[1])' = {}
        PROVE  DOMAIN got[d] # {}
    <3>1. d[1] # t /\ d[1] \in Thread
      BY <2>2 DEF Calling, InLoop, Call
    <3>2. at'[d[1]] = at[d[1]] /\ stage'[d[1]] = stage[d[1]]
      BY <3>1 DEF Calling
    <3>3. d = Me(d[1]) /\ InLoop(d[1])
      BY <3>2, <2>2 DEF Me, InLoop
    <3>4. Mine(d[1]) = {}
      BY <3>2, <2>2, <1>0 DEF Mine
    <3> QED
      BY <3>3, <3>4, <1>1 DEF RInv, Buffers
  <2> QED
    BY <2>1, <2>2
<1>2. ASSUME NEW d \in Call, ~ Looped(d), NEW w \in DOMAIN got[d]
      PROVE  Has(d, w)' /\ \A o \in net' : o.call = d => w \notin o.on
  <2>1. Has(d, w) /\ \A o \in net : o.call = d => w \notin o.on
    BY <1>2 DEF RInv, Buffers
  <2>2. w \in Word
    <3>1. got[d] \in Buffer
      BY DEF RInv, TypeOK
    <3> QED
      BY <3>1, BufferIs
  <2>3. Has(d, w)'
    BY <2>1, <2>2, CallingHas DEF RInv
  <2>4. ASSUME NEW o \in New, o.call = d PROVE w \notin o.on
    <3>1. PICK v \in N : o.on = {v}
      BY CallingNew
    <3>2. d = c /\ ~ Has(c, v)
      BY <2>4 DEF Calling
    <3> QED
      BY <3>1, <3>2, <2>1
  <2> QED
    BY <2>1, <2>3, <2>4, <1>0
<1>3. \A d : (Looped(d)' <=> Looped(d)) /\ The(d)' = The(d)
  BY <1>0, Frame
<1>4. Buffers'
  BY <1>0, <1>1, <1>2, <1>3 DEF Buffers
<1>5. ASSUME NEW s \in Thread, stage'[s] = "cas" PROVE orig'[s] \in [Cell(Now(s)'.word) -> Value]
  <2>1. s # t
    BY <1>5 DEF Calling
  <2>2. at'[s] = at[s] /\ stage'[s] = stage[s]
    BY <2>1 DEF Calling
  <2>3. Now(s)' = Now(s)
    BY <2>2, <1>0 DEF Now
  <2> QED
    BY <1>0, <1>5, <2>2, <2>3 DEF RInv, Origs
<1> QED
  BY <1>4, <1>5 DEF Origs

LEMMA CallingLeaves ==
  ASSUME RInv, NEW t \in Thread, NEW c, NEW N, NEW New, Calling(t, c, N, New), c \in Call,
         Leaving(t, c), TypeOK'
  PROVE  Unread' /\ Quieted' /\ NothingLeft'
<1>0. /\ prog' = prog /\ net' = net \cup New /\ c = <<t, at[t]>> /\ at[t] \in Int
      /\ at'[t] \in {at[t], at[t] + 1}
  BY DEF Calling, Me, RInv, TypeOK
<1>1. ASSUME NEW o \in net'
      PROVE  /\ o.do = "store" /\ o.val = None => ~ GivenBack(o)'
             /\ o.call[2] < at'[o.call[1]] /\ o.fetch => The(o.call).op \in {"get_nbi", "fadd_nbi"}
  <2> DEFINE s == o.call[1]
             n == o.call[2]
  <2>0. o.call = <<s, n>> /\ s \in Thread /\ n \in Int /\ at[s] \in Int
    BY DEF RInv, TypeOK, Call, Operation
  <2>1. CASE o.call = c /\ at'[t] = at[t]
    <3>1. ~ (n < at'[s])
      BY <2>0, <2>1, <1>0
    <3> QED
      BY <3>1 DEF GivenBack
  <2>2. CASE o.call = c /\ at'[t] # at[t]
    <3>1. at'[s] - 1 = n /\ n + 1 .. at'[s] - 1 = {}
      BY <2>0, <2>2, <1>0
    <3>2. prog[s][n] = The(c) /\ The(o.call) = The(c)
      BY <2>2 DEF The
    <3>3. /\ o.do = "store" /\ o.val = None => The(c).op = "put_nbi"
          /\ o.fetch => The(c).op \in {"get_nbi", "fadd_nbi"}
      BY <2>2 DEF Leaving
    <3> QED
      BY <3>1, <3>2, <3>3, <1>0 DEF GivenBack
  <2>3. CASE o.call # c
    <3>1. o \in net
      BY <2>3, <1>0 DEF Calling
    <3>2. /\ o.do = "store" /\ o.val = None => ~ GivenBack(o)
          /\ o.call[2] < at[o.call[1]] /\ o.fetch => The(o.call).op \in {"get_nbi", "fadd_nbi"}
      BY <3>1 DEF RInv, Unread, NothingLeft
    <3>3. CASE at'[s] = at[s]
      BY <3>2, <3>3, <1>0 DEF GivenBack
    <3>4. CASE at'[s] # at[s]
      <4>1. s = t /\ n # at[t] /\ at'[t] = at[t] + 1
        BY <3>4, <2>0, <2>3, <1>0 DEF Calling
      <4>2. n < at'[s] <=> n < at[s]
        BY <4>1, <2>0, <1>0
      <4>3. ASSUME GivenBack(o)', o.do = "store", o.val = None PROVE FALSE
        <5>1. n < at[s] /\ ~ GivenBack(o)
          BY <4>2, <4>3, <3>2 DEF GivenBack
        <5>2. prog[s][n].op = "put_nbi" /\ o.ctx \notin NoStore
          BY <5>1, <4>3, <1>0 DEF GivenBack
        <5>3. PICK m \in n + 1 .. at'[s] - 1 : prog[s][m].op = "quiet" /\ prog[s][m].ctx = o.ctx
          BY <5>2, <4>3, <1>0 DEF GivenBack
        <5>4. m \in n + 1 .. at[s] - 1 \/ m = at[s]
          BY <5>3, <4>1, <2>0
        <5>5. m = at[s]
          BY <5>1, <5>2, <5>3, <5>4 DEF GivenBack
        <5>6. The(c).op = "quiet" /\ The(c).ctx = o.ctx
          BY <5>3, <5>5, <4>1, <1>0 DEF The
        <5> QED
          BY <5>2, <5>6, <4>1, <3>4 DEF Leaving
      <4> QED
        BY <4>2, <4>3, <3>2
    <3> QED
      BY <3>3, <3>4
  <2> QED
    BY <2>1, <2>2, <2>3
<1>2. \A d : The(d)' = The(d)
  BY <1>0 DEF The
<1>3. Quieted'
  <2> SUFFICES ASSUME NEW o \in net', NEW m \in o.call[2] + 1 .. at'[o.call[1]] - 1,
                      prog[o.call[1]][m].op = "quiet", prog[o.call[1]][m].ctx = o.ctx, o.ctx \notin NoStore
               PROVE  FALSE
    BY <1>0 DEF Quieted
  <2> DEFINE s == o.call[1]
             n == o.call[2]
  <2>0. o.call = <<s, n>> /\ s \in Thread /\ n \in Int /\ at[s] \in Int
    BY DEF RInv, TypeOK, Call, Operation
  <2>1. CASE o \in New
    <3>1. s = t /\ n = at[t]
      BY <2>1, <1>0 DEF Calling
    <3> QED
      BY <3>1, <1>0
  <2>2. CASE o \in net /\ m \in n + 1 .. at[s] - 1
    BY <2>2 DEF RInv, Quieted
  <2>3. CASE o \in net /\ m \notin n + 1 .. at[s] - 1
    <3>1. at'[s] # at[s]
      BY <2>3
    <3>2. s = t
      BY <3>1, <2>0 DEF Calling
    <3>3. m = at[t]
      BY <3>1, <3>2, <2>0, <2>3, <1>0
    <3>4. The(c).op = "quiet" /\ The(c).ctx = o.ctx
      BY <3>2, <3>3, <1>0 DEF The
    <3> QED
      BY <3>1, <3>2, <3>4 DEF Leaving
  <2> QED
    BY <2>1, <2>2, <2>3, <1>0
<1> QED
  BY <1>1, <1>2, <1>3 DEF Unread, NothingLeft

\* A step of a call begins what it posts.
LEMMA CallingBegins ==
  ASSUME RInv, TypeOK', NEW t \in Thread, NEW c, NEW N, NEW New, Calling(t, c, N, New), c \in Call,
         N \subseteq WordsOf(The(c))
  PROVE  Begins
<1> DEFINE S == {<<c, w>> : w \in N}
<1>0. /\ prog' = prog /\ native' = native /\ got' = got /\ orig' = orig /\ mem' = mem /\ net' = net \cup New
      /\ c = <<t, at[t]>> /\ c[2] <= Len(prog[c[1]]) /\ N \subseteq Word
      /\ at[t] \in Int /\ at'[t] \in {at[t], at[t] + 1}
  BY DEF Calling, Me, RInv, TypeOK
<1>1. S \subseteq Call \X Word
  BY <1>0
<1>2. S \cap Begun = {}
  BY BegunIs DEF Calling
<1>3. \A x \in S : Want(x) \in M!Operation /\ Want(x).call = x[1] /\ Want(x).word = x[2]
  <2>1. IsCall(The(c))
    BY <1>0, CallIs DEF RInv
  <2> QED
    BY <2>1, <1>0, WantType
<1>4. Begun' = Begun \cup S
  <2>1. \A d \in Call, w \in Word : Has(d, w)' <=> Has(d, w) \/ (d = c /\ w \in N)
    BY CallingHas DEF RInv
  <2>2. Begun' = {x \in Call \X Word : Has(x[1], x[2])'}
    BY BegunIs DEF Begun, Has, The
  <2> QED
    BY <2>1, <2>2, <1>1, BegunIs
<1>5. ASSUME NEW d \in Call, Looped(d), d[1] # t
      PROVE  /\ at'[d[1]] = at[d[1]] /\ stage'[d[1]] = stage[d[1]]
             /\ Swapped(d[1])' <=> Swapped(d[1])
             /\ Now(d[1])' = Now(d[1])
  <2>1. at'[d[1]] = at[d[1]] /\ stage'[d[1]] = stage[d[1]]
    BY <1>5 DEF Calling, Call
  <2>2. \A o \in New : o.call # <<d[1], at[d[1]]>>
    BY <1>5 DEF Calling, Me
  <2>3. Mine(d[1])' = Mine(d[1])
    BY <2>1, <2>2, <1>0 DEF Mine
  <2> QED
    BY <2>1, <2>3, <1>0 DEF Swapped, Now
<1>6. ASSUME NEW d \in Call, Looped(d), d[1] = t, d[2] = at[t]
      PROVE  Swapped(t) /\ Mine(t) = {} /\ at'[t] = at[t] + 1 /\ d = c
  <2>1. d = c
    BY <1>6, <1>0 DEF Call
  <2> QED
    BY <2>1, <1>6 DEF Calling
<1>7. stage'[t] \notin {"load", "cas"}
  BY DEF Calling
<1>8. \A d : (Looped(d)' <=> Looped(d)) /\ The(d)' = The(d)
  BY <1>0, Frame
<1>9. Pending' = Pending \cup S
  <2> SUFFICES ASSUME NEW x \in Call \X Word PROVE x \in Pending' <=> x \in Pending \/ x \in S
    BY <1>1 DEF Pending
  <2>0. x[1] \in Call /\ x[2] \in Word /\ x = <<x[1], x[2]>>
    OBVIOUS
  <2>1. CASE Looped(x[1]) /\ x[1][1] # t
    <3>1. x \notin S
      BY <2>1, <1>0
    <3> QED
      BY <2>0, <2>1, <3>1, <1>5, <1>8 DEF Pending
  <2>2. CASE Looped(x[1]) /\ x[1][1] = t
    <3>1. x \notin S
      BY <2>2 DEF Calling
    <3>2. x \notin Pending'
      BY <2>2, <1>7, <1>8 DEF Pending
    <3>3. x \notin Pending
      BY <2>0, <2>2, <1>6 DEF Pending
    <3> QED
      BY <3>1, <3>2, <3>3
  <2>3. CASE ~ Looped(x[1])
    <3>1. x \in Pending <=> \E o \in net : o.call = x[1] /\ x[2] \in o.on /\ o.answer = None
      BY <2>3 DEF Pending
    <3>2. x \in Pending' <=> \E o \in net \cup New : o.call = x[1] /\ x[2] \in o.on /\ o.answer = None
      BY <2>3, <1>0, <1>8 DEF Pending
    <3>3. (\E o \in New : o.call = x[1] /\ x[2] \in o.on /\ o.answer = None) <=> x[1] = c /\ x[2] \in N
      <4>1. \A o \in New : o.call = c /\ o.answer = None
        BY DEF Calling
      <4>3. \A o \in New : \E w \in N : o.on = {w}
        BY CallingNew
      <4>2. \A w \in N : \E o \in New : w \in o.on
        BY DEF Calling
      <4> QED
        BY <4>1, <4>2, <4>3
    <3>4. x \in S <=> x[1] = c /\ x[2] \in N
      BY <2>0
    <3> QED
      BY <3>1, <3>2, <3>3, <3>4
  <2> QED
    BY <2>1, <2>2, <2>3
<1>10. ASSUME NEW x \in Call \X Word PROVE Found(x)' = Found(x)
  <2>0. x[1] \in Call /\ x[2] \in Word /\ x[1][2] \in Int
    BY DEF Call
  <2>1. CASE Looped(x[1]) /\ x[1][1] # t
    BY <2>0, <2>1, <1>0, <1>5, FoundSame
  <2>2. CASE Looped(x[1]) /\ x[1][1] = t /\ x[1][2] # at[t]
    <3>1. (x[1][2] < at'[t] <=> x[1][2] < at[t]) /\ ~ (x[1][2] = at'[t] /\ Swapped(t)')
      BY <2>0, <2>2, <1>0, <1>7 DEF Swapped
    <3> QED
      BY <2>2, <3>1, <1>0, <1>8 DEF Found
  <2>3. CASE Looped(x[1]) /\ x[1][1] = t /\ x[1][2] = at[t]
    <3>1. Swapped(t) /\ Mine(t) = {} /\ at'[t] = at[t] + 1 /\ x[1] = c
      BY <2>0, <2>3, <1>6
    <3>2. got[c] = orig[t]
      BY <3>1, <1>0 DEF Swapped
    <3> QED
      BY <2>3, <3>1, <3>2, <1>0, <1>8 DEF Found
  <2>4. CASE ~ Looped(x[1])
    <3>1. Landed(x)' = Landed(x)
      BY <1>0 DEF Landed, Calling
    <3> QED
      BY <2>4, <3>1, <1>0, FoundSame
  <2> QED
    BY <2>1, <2>2, <2>3, <2>4
<1> HIDE DEF S
<1> QED
  BY <1>0, <1>1, <1>2, <1>3, <1>4, <1>9, <1>10, PendingBegun, AbsBegin DEF RInv

-----------------------------------------------------------------------------
(* What the calls post.                                                    *)

\* The operations of New are those that call c, of thread t, makes on N.
Posting(c, N, New) ==
  /\ New \subseteq Operation
  /\ \A o \in New :
       /\ o.call = c /\ o.ctx = The(c).ctx /\ o.answer = None
       /\ \E w \in N : AsWanted(o, w)
  /\ \A w \in N : \E o \in New : w \in o.on
  /\ \A o, p \in New : o.on \cap p.on # {} => o = p
  /\ N \subseteq Word /\ N \subseteq WordsOf(The(c))

LEMMA NowIs ==
  ASSUME RInv, NEW t \in Thread, at[t] <= Len(prog[t])
  PROVE  /\ Me(t) \in Call /\ Now(t) = The(Me(t)) /\ IsCall(Now(t))
         /\ epoch[Now(t).ctx] \in Nat /\ Now(t).ctx \in Ctx
<1>1. at[t] \in 1 .. MaxCalls /\ prog \in Programs
  BY ProgramAssumption, MemoryAssumption DEF RInv, TypeOK
<1>2. Me(t) \in Call /\ Now(t) = The(Me(t)) /\ Me(t)[2] <= Len(prog[Me(t)[1]])
  BY <1>1 DEF Call, Me, Now, The
<1>3. IsCall(Now(t))
  BY <1>2, CallIs DEF RInv
<1>4. Now(t).ctx \in Ctx
  BY <1>3 DEF IsCall
<1> QED
  BY <1>2, <1>3, <1>4 DEF RInv, TypeOK

LEMMA StoresPost ==
  ASSUME RInv, NEW t \in Thread, at[t] <= Len(prog[t])
  PROVE  /\ Posting(Me(t), DOMAIN Now(t).put, Stores(t))
         /\ \A o \in Stores(t) : o.do = "store" /\ o.fetch = FALSE
<1> DEFINE c == Me(t)
           N == DOMAIN Now(t).put
<1>0. Now(t).ctx \in Ctx /\ epoch[Now(t).ctx] \in Nat
  BY NowIs
<1>1. c \in Call /\ Now(t) = The(c) /\ IsCall(The(c))
  BY NowIs
<1>2. N \subseteq Word /\ N \subseteq WordsOf(The(c))
  <2>1. Now(t).put \in Buffer
    BY <1>1 DEF IsCall
  <2> QED
    BY <2>1, <1>1, BufferIs DEF WordsOf
<1>3. ASSUME NEW w \in N, NEW o, o = Op(t, {w}, "store", None, None, FALSE)
      PROVE  /\ o \in Operation /\ o.call = c /\ o.ctx = The(c).ctx /\ o.answer = None
             /\ o.on = {w} /\ AsWanted(o, w) /\ o.do = "store" /\ o.fetch = FALSE
  <2>1. {w} \in SUBSET Word
    BY <1>2
  <2>2. /\ o \in Operation /\ o.call = c /\ o.ctx = The(c).ctx /\ o.answer = None
        /\ o.on = {w} /\ o.do = "store" /\ o.val = None /\ o.fetch = FALSE
    BY <2>1, <1>0, <1>1, <1>3 DEF Op, Operation, Me
  <2>3. Want(<<c, w>>).do = "store" /\ Want(<<c, w>>).fetch = FALSE
    BY <1>1, <1>2, WantStore
  <2>4. AsWanted(o, w)
    BY <2>2, <2>3 DEF AsWanted
  <2> QED
    BY <2>2, <2>4
<1>4. \A o \in Stores(t) : \E w \in N : o = Op(t, {w}, "store", None, None, FALSE)
  BY DEF Stores
<1>5. \A w \in N : Op(t, {w}, "store", None, None, FALSE) \in Stores(t)
  BY DEF Stores
<1> HIDE DEF N, c
<1>6. ASSUME NEW o \in Stores(t)
      PROVE  /\ o \in Operation /\ o.call = c /\ o.ctx = The(c).ctx /\ o.answer = None
             /\ o.do = "store" /\ o.fetch = FALSE
             /\ \E w \in N : AsWanted(o, w)
  BY <1>3, <1>4
<1>7. \A w \in N : \E o \in Stores(t) : w \in o.on
  BY <1>3, <1>5
<1>8. ASSUME NEW o \in Stores(t), NEW p \in Stores(t), o.on \cap p.on # {} PROVE o = p
  <2>1. PICK v \in N : o = Op(t, {v}, "store", None, None, FALSE)
    BY <1>4
  <2>2. PICK w \in N : p = Op(t, {w}, "store", None, None, FALSE)
    BY <1>4
  <2>3. o.on = {v} /\ p.on = {w}
    BY <2>1, <2>2, <1>3
  <2>4. v = w
    BY <2>3, <1>8
  <2> QED
    BY <2>1, <2>2, <2>4
<1>9. Posting(c, N, Stores(t))
  BY <1>2, <1>6, <1>7, <1>8 DEF Posting
<1> QED
  BY <1>6, <1>9 DEF N, c

LEMMA LoadsPost ==
  ASSUME RInv, NEW t \in Thread, at[t] <= Len(prog[t])
  PROVE  /\ Posting(Me(t), Now(t).get, Loads(t))
         /\ \A o \in Loads(t) : o.do = "load"
<1> DEFINE c == Me(t)
           N == Now(t).get
<1>0. Now(t).ctx \in Ctx /\ epoch[Now(t).ctx] \in Nat
  BY NowIs
<1>1. c \in Call /\ Now(t) = The(c) /\ IsCall(The(c))
  BY NowIs
<1>2. N \subseteq Word /\ N \subseteq WordsOf(The(c))
  BY <1>1 DEF IsCall, WordsOf
<1>3. ASSUME NEW w \in N, NEW o, o = Op(t, {w}, "load", None, None, TRUE)
      PROVE  /\ o \in Operation /\ o.call = c /\ o.ctx = The(c).ctx /\ o.answer = None
             /\ o.on = {w} /\ AsWanted(o, w) /\ o.do = "load"
  <2>1. {w} \in SUBSET Word
    BY <1>2
  <2>2. /\ o \in Operation /\ o.call = c /\ o.ctx = The(c).ctx /\ o.answer = None
        /\ o.on = {w} /\ o.do = "load" /\ o.val = None /\ o.fetch = TRUE
    BY <2>1, <1>0, <1>1, <1>3 DEF Op, Operation, Me
  <2>3. Want(<<c, w>>).do = "load" /\ Want(<<c, w>>).fetch = TRUE
    BY <1>1, <1>2, WantLoad
  <2>4. AsWanted(o, w)
    BY <2>2, <2>3 DEF AsWanted
  <2> QED
    BY <2>2, <2>4
<1>4. \A o \in Loads(t) : \E w \in N : o = Op(t, {w}, "load", None, None, TRUE)
  BY DEF Loads
<1>5. \A w \in N : Op(t, {w}, "load", None, None, TRUE) \in Loads(t)
  BY DEF Loads
<1> HIDE DEF N, c
<1>6. ASSUME NEW o \in Loads(t)
      PROVE  /\ o \in Operation /\ o.call = c /\ o.ctx = The(c).ctx /\ o.answer = None
             /\ o.do = "load"
             /\ \E w \in N : AsWanted(o, w)
  BY <1>3, <1>4
<1>7. \A w \in N : \E o \in Loads(t) : w \in o.on
  BY <1>3, <1>5
<1>8. ASSUME NEW o \in Loads(t), NEW p \in Loads(t), o.on \cap p.on # {} PROVE o = p
  <2>1. PICK v \in N : o = Op(t, {v}, "load", None, None, TRUE)
    BY <1>4
  <2>2. PICK w \in N : p = Op(t, {w}, "load", None, None, TRUE)
    BY <1>4
  <2>3. o.on = {v} /\ p.on = {w}
    BY <2>1, <2>2, <1>3
  <2>4. v = w
    BY <2>3, <1>8
  <2> QED
    BY <2>1, <2>2, <2>4
<1>9. Posting(c, N, Loads(t))
  BY <1>2, <1>6, <1>7, <1>8 DEF Posting
<1> QED
  BY <1>6, <1>9 DEF N, c

LEMMA AtomicPosts ==
  ASSUME RInv, NEW t \in Thread, at[t] <= Len(prog[t]), Now(t).op \in WithWord,
         NEW fetch \in BOOLEAN, fetch = Fetching(Now(t)), NEW e \in Nat,
         NEW o, o \in {Atomic(t, fetch), [Atomic(t, fetch) EXCEPT !.epoch = e]}
  PROVE  /\ Posting(Me(t), {Now(t).word}, {o})
         /\ o.do # "store" /\ o.fetch = fetch /\ Now(t).word \in Word
<1> DEFINE c == Me(t)
           w == Now(t).word
           a == Atomic(t, fetch)
<1>0. Now(t).ctx \in Ctx /\ epoch[Now(t).ctx] \in Nat
  BY NowIs
<1>1. c \in Call /\ Now(t) = The(c) /\ IsCall(The(c))
  BY NowIs
<1>2. w \in Word /\ w \in WordsOf(The(c))
  BY <1>1 DEF IsCall, WordsOf
<1>3. /\ The(c).do \in {"swap", "cswap", "add", "and", "or", "xor"}
      /\ The(c).val \in Value /\ The(c).comp \in Value
      /\ Want(<<c, w>>) = [call |-> c, word |-> w, do |-> The(c).do, val |-> The(c).val,
                           comp |-> The(c).comp, fetch |-> Fetching(The(c))]
  BY <1>1, <1>2, WantAtomic
<1>4. /\ a \in Operation /\ a.call = c /\ a.ctx = The(c).ctx /\ a.answer = None
      /\ a.on = {w} /\ a.do = The(c).do /\ a.fetch = fetch
      /\ a.val = [v \in {w} |-> The(c).val] /\ a.comp = [v \in {w} |-> The(c).comp]
  <2>1. a = Op(t, {w}, The(c).do, [v \in {w} |-> The(c).val], [v \in {w} |-> The(c).comp], fetch)
    BY <1>1 DEF Atomic
  <2>2. [v \in {w} |-> The(c).val] \in Buffer /\ [v \in {w} |-> The(c).comp] \in Buffer
    BY <1>2, <1>3, BufferOne
  <2>3. {w} \in SUBSET Word
    BY <1>2
  <2> HIDE DEF a, w
  <2> QED
    BY <2>1, <2>2, <2>3, <1>0, <1>1, <1>3 DEF Op, Operation, Me
<1>5. /\ o \in Operation /\ o.call = c /\ o.ctx = The(c).ctx /\ o.answer = None
      /\ o.on = {w} /\ o.do = The(c).do /\ o.fetch = fetch
      /\ o.val = [v \in {w} |-> The(c).val] /\ o.comp = [v \in {w} |-> The(c).comp]
  <2>1. o = a \/ o = [a EXCEPT !.epoch = e]
    OBVIOUS
  <2> HIDE DEF a, w, c
  <2> QED
    BY <1>4, <2>1 DEF Operation
<1>6. AsWanted(o, w)
  BY <1>1, <1>3, <1>5 DEF AsWanted
<1> HIDE DEF w, c
<1>7. Posting(c, {w}, {o})
  BY <1>2, <1>5, <1>6 DEF Posting
<1>8. o.do # "store"
  BY <1>3, <1>5
<1> QED
  BY <1>2, <1>5, <1>7, <1>8 DEF w, c

-----------------------------------------------------------------------------
(* One step of a call, and what it needs to be one.                        *)

\* What thread t's call has accessed when t is at stage s.
Reach(t, s) ==
  {w \in WordsOf(Now(t)) :
     s # "idle" /\ (Now(t).op = "put_signal" /\ s = "posted" => w \in DOMAIN Now(t).put)}

LEMMA HasNow ==
  ASSUME RInv, NEW t \in Thread, at[t] <= Len(prog[t]), NEW w \in Word
  PROVE  Has(Me(t), w) <=> w \in Reach(t, stage[t])
  BY NowIs DEF Has, Reach, Me, RInv, TypeOK

LEMMA IdleIs ==
  ASSUME RInv, NEW t \in Thread, stage[t] = "idle", at[t] <= Len(prog[t])
  PROVE  /\ \A o \in net : o.call # Me(t)
         /\ Mine(t) = {} /\ Reach(t, stage[t]) = {}
<1>1. Reach(t, stage[t]) = {}
  BY DEF Reach
<1>2. ASSUME NEW o \in net, o.call = Me(t) PROVE FALSE
  <2>1. Fits(o)
    BY DEF RInv, Posted
  <2>2. CASE Looped(o.call)
    BY <1>2, <2>1, <2>2 DEF Fits, OnCell, Me
  <2>3. CASE ~ Looped(o.call)
    <3>1. PICK w \in Word : Has(Me(t), w)
      BY <1>2, <2>1, <2>3 DEF Fits, OnWord
    <3> QED
      BY <3>1, <1>1, HasNow
  <2> QED
    BY <2>2, <2>3
<1> QED
  BY <1>1, <1>2 DEF Mine, Me

\* Thread t posts New on the words N of its call c and is then at st.
Proceeds(t, c, N, New, st) ==
  /\ c = Me(t) /\ at[t] <= Len(prog[t])
  /\ native' = native /\ prog' = prog /\ orig' = orig /\ got' = got /\ mem' = mem
  /\ epoch' \in [Ctx -> Nat]
  /\ Posting(c, N, New) /\ net' = net \cup New
  /\ st \in {"idle", "posted", "signal"} /\ stage' = [stage EXCEPT ![t] = st]
  /\ at' = IF st = "idle" THEN [at EXCEPT ![t] = @ + 1] ELSE at
  /\ Looped(c) => N = {} /\ Swapped(t) /\ Mine(t) = {} /\ st = "idle"
  /\ st = "posted" => Now(t).op \in {"put", "put_signal", "get", "fadd", "swap", "cswap", "fetch_bitwise"}
  /\ st = "signal" => Now(t).op = "put_signal" /\ Now(t).do = "swap"
  /\ N \cap Reach(t, stage[t]) = {}
  /\ Reach(t, stage[t]) \cup N = IF st = "idle" THEN WordsOf(Now(t)) \cap Word ELSE Reach(t, st)
  /\ st = "idle" =>
       /\ \A o \in net \cup New : o.call = c =>
            /\ o.do = "store" /\ o.val = None => Now(t).op = "put_nbi"
            /\ o.fetch => Now(t).op \in {"get_nbi", "fadd_nbi"}
       /\ Now(t).op = "quiet" /\ Now(t).ctx \notin NoStore =>
            \A o \in net \cup New : o.ctx # Now(t).ctx

LEMMA CallStep ==
  ASSUME RInv, NEW t \in Thread, NEW c, NEW N, NEW New, NEW st, Proceeds(t, c, N, New, st)
  PROVE  RInv' /\ Begins
<1>0. /\ c = Me(t) /\ at[t] <= Len(prog[t])
      /\ native' = native /\ prog' = prog /\ orig' = orig /\ got' = got /\ mem' = mem
      /\ epoch' \in [Ctx -> Nat]
      /\ Posting(c, N, New) /\ net' = net \cup New
      /\ st \in {"idle", "posted", "signal"} /\ stage' = [stage EXCEPT ![t] = st]
      /\ at' = IF st = "idle" THEN [at EXCEPT ![t] = @ + 1] ELSE at
      /\ Looped(c) => N = {} /\ Swapped(t) /\ Mine(t) = {} /\ st = "idle"
      /\ st = "posted" => Now(t).op \in {"put", "put_signal", "get", "fadd", "swap", "cswap", "fetch_bitwise"}
      /\ st = "signal" => Now(t).op = "put_signal" /\ Now(t).do = "swap"
      /\ N \cap Reach(t, stage[t]) = {}
      /\ Reach(t, stage[t]) \cup N = IF st = "idle" THEN WordsOf(Now(t)) \cap Word ELSE Reach(t, st)
  BY DEF Proceeds
<1>20. st = "idle" =>
        /\ \A o \in net \cup New : o.call = c =>
             /\ o.do = "store" /\ o.val = None => Now(t).op = "put_nbi"
             /\ o.fetch => Now(t).op \in {"get_nbi", "fadd_nbi"}
        /\ Now(t).op = "quiet" /\ Now(t).ctx \notin NoStore =>
             \A o \in net \cup New : o.ctx # Now(t).ctx
  BY DEF Proceeds
<1>1. c \in Call /\ Now(t) = The(c) /\ IsCall(The(c)) /\ c = <<t, at[t]>>
  BY <1>0, NowIs DEF Me
<1>2. at[t] \in 1 .. MaxCalls /\ MaxCalls \in Nat
  BY <1>0, ProgramAssumption, MemoryAssumption DEF RInv, TypeOK
<1>3. /\ N \subseteq Word /\ N \subseteq WordsOf(The(c)) /\ New \subseteq Operation
      /\ \A o \in New :
           /\ o.call = c /\ o.ctx = The(c).ctx /\ o.answer = None
           /\ \E w \in N : AsWanted(o, w)
      /\ \A w \in N : \E o \in New : w \in o.on
      /\ \A o, p \in New : o.on \cap p.on # {} => o = p
  BY <1>0 DEF Posting
<1>4. /\ \A s \in Thread : s # t => at'[s] = at[s] /\ stage'[s] = stage[s]
      /\ stage'[t] = st /\ at'[t] = IF st = "idle" THEN at[t] + 1 ELSE at[t]
  BY <1>0 DEF RInv, TypeOK
<1>5. ASSUME NEW w \in Word
      PROVE  Has(c, w)' <=> Has(c, w) \/ w \in N
  <2>1. Has(c, w) <=> w \in Reach(t, stage[t])
    BY <1>0, HasNow
  <2>2. CASE st = "idle"
    <3>1. Has(c, w)' <=> w \in WordsOf(The(c))
      BY <1>0, <1>1, <1>2, <1>4, <2>2 DEF Has, The
    <3> QED
      BY <1>0, <2>1, <2>2, <3>1, <1>1
  <2>3. CASE st # "idle"
    <3>1. Has(c, w)' <=> w \in Reach(t, st)
      BY <1>0, <1>1, <1>2, <1>4, <2>3 DEF Has, The, Reach
    <3> QED
      BY <1>0, <2>1, <2>3, <3>1
  <2> QED
    BY <2>2, <2>3
<1>6. \A w \in N : ~ Has(c, w)
  BY <1>0, <1>1, <1>3, HasNow
<1>7. Calling(t, c, N, New)
  <2>1. \/ at'[t] = at[t] + 1 /\ stage'[t] = "idle"
        \/ at'[t] = at[t] /\ stage'[t] \in {"posted", "signal"} /\ ~ Looped(c)
    BY <1>0, <1>4
  <2> QED
    BY <1>0, <1>3, <1>4, <1>5, <1>6, <2>1 DEF Calling
<1>8. Leaving(t, c)
  BY <1>0, <1>20, <1>1, <1>2, <1>4 DEF Leaving
<1>9. TypeOK'
  <2>1. at' \in [Thread -> 1 .. MaxCalls + 1]
    BY <1>0, <1>2 DEF RInv, TypeOK
  <2>2. stage' \in [Thread -> {"idle", "posted", "signal", "load", "cas"}]
    BY <1>0 DEF RInv, TypeOK
  <2> QED
    BY <1>0, <1>3, <2>1, <2>2 DEF RInv, TypeOK
<1>10. Stages'
  <2> SUFFICES ASSUME NEW s \in Thread
               PROVE  /\ stage'[s] # "idle" => at'[s] <= Len(prog[s])
                      /\ stage'[s] = "posted" =>
                           /\ Now(s)'.op \in {"put", "put_signal", "get", "fadd", "swap", "cswap", "fetch_bitwise"}
                           /\ ~ Looped(Me(s))'
                      /\ stage'[s] = "signal" => Now(s)'.op = "put_signal" /\ Now(s)'.do = "swap"
                      /\ InLoop(s)' => Looped(Me(s))'
    BY <1>0 DEF Stages
  <2>1. CASE s # t
    <3>1. at'[s] = at[s] /\ stage'[s] = stage[s] /\ Now(s)' = Now(s) /\ Me(s)' = Me(s)
      BY <1>0, <1>4, <2>1 DEF Now, Me
    <3>2. (Looped(Me(s))' <=> Looped(Me(s))) /\ (InLoop(s)' <=> InLoop(s))
      BY <1>0, <3>1 DEF Looped, InLoop
    <3> QED
      BY <3>1, <3>2 DEF RInv, Stages
  <2>2. CASE s = t /\ st = "idle"
    BY <1>0, <1>4, <2>2 DEF InLoop
  <2>3. CASE s = t /\ st # "idle"
    <3>1. at'[t] = at[t] /\ Now(t)' = Now(t) /\ Me(t)' = Me(t)
      BY <1>0, <1>4, <2>3 DEF Now, Me
    <3>2. Looped(Me(t))' <=> Looped(Me(t))
      BY <1>0, <3>1 DEF Looped
    <3> QED
      BY <1>0, <1>4, <2>3, <3>1, <3>2 DEF InLoop
  <2> QED
    BY <2>1, <2>2, <2>3
<1>11. Posted' /\ Alone'
  BY <1>1, <1>7, CallingPosted
<1>12. Buffers' /\ Origs'
  BY <1>1, <1>7, CallingBuffers
<1>13. Unread' /\ Quieted' /\ NothingLeft'
  BY <1>1, <1>7, <1>8, <1>9, CallingLeaves
<1>14. Begins
  BY <1>1, <1>3, <1>7, <1>9, CallingBegins
<1> QED
  BY <1>9, <1>10, <1>11, <1>12, <1>13, <1>14 DEF RInv

LEMMA WordsAre ==
  ASSUME NEW k, IsCall(k)
  PROVE  /\ k.op \in {"put", "put_nbi"} => WordsOf(k) = DOMAIN k.put
         /\ k.op \in {"get", "get_nbi"} => WordsOf(k) = k.get
         /\ k.op \in {"fence", "quiet"} => WordsOf(k) = {}
         /\ k.op \in WithWord /\ k.op # "put_signal" => WordsOf(k) = {k.word}
         /\ k.op = "put_signal" => WordsOf(k) = DOMAIN k.put \cup {k.word} /\ k.word \notin DOMAIN k.put
         /\ WordsOf(k) \subseteq Word
<1>1. k.put \in Buffer /\ DOMAIN k.put \subseteq Word /\ k.get \subseteq Word
  BY BufferIs DEF IsCall
<1>2. WordsOf(k) \subseteq Word
  BY <1>1 DEF WordsOf
<1>3. CASE k.op \in {"put", "put_nbi"}
  BY <1>1, <1>2, <1>3, MemoryAssumption DEF IsCall, WordsOf, Plain, WithWord, CasOps
<1>4. CASE k.op \in {"get", "get_nbi"}
  BY <1>1, <1>2, <1>4, MemoryAssumption DEF IsCall, WordsOf, Plain, WithWord, CasOps
<1>5. CASE k.op \in {"fence", "quiet"}
  BY <1>1, <1>2, <1>5, MemoryAssumption DEF IsCall, WordsOf, Plain, WithWord, CasOps
<1>6. CASE k.op = "put_signal"
  BY <1>1, <1>2, <1>6 DEF IsCall, WordsOf, WithWord
<1>7. CASE k.op \in WithWord /\ k.op # "put_signal"
  BY <1>1, <1>2, <1>7 DEF IsCall, WordsOf, WithWord, CasOps
<1> QED
  BY <1>2, <1>3, <1>4, <1>5, <1>6, <1>7 DEF IsCall, Plain

LEMMA PostOnlyStep ==
  ASSUME RInv, NEW t \in Thread, PostOnly(t)
  PROVE  RInv' /\ Begins
<1>0. PICK c : c = Me(t)
  OBVIOUS
<1>1. /\ stage[t] = "idle" /\ at[t] <= Len(prog[t]) /\ Returned(t)
      /\ UNCHANGED <<native, prog, orig, got, mem, epoch>>
  BY DEF PostOnly, Ready, Add, NativeBitwise, FetchAddNbi
<1>2. /\ IsCall(Now(t)) /\ Now(t) = The(c)
      /\ \A o \in net : o.call # c
      /\ Reach(t, stage[t]) = {}
  BY <1>0, <1>1, NowIs, IdleIs
<1>3. Looped(c) <=> ~ native /\ Now(t).op \in CasOps
  BY <1>0, <1>1, <1>2 DEF Looped, Me, The
<1>4. ASSUME NEW N, NEW New, Posting(c, N, New), net' = net \cup New, N = WordsOf(Now(t)), ~ Looped(c),
             \A o \in New : /\ o.do = "store" /\ o.val = None => Now(t).op = "put_nbi"
                            /\ o.fetch => Now(t).op \in {"get_nbi", "fadd_nbi"},
             Now(t).op # "quiet"
      PROVE  RInv' /\ Begins
  <2>1. stage' = [stage EXCEPT ![t] = "idle"] /\ at' = [at EXCEPT ![t] = @ + 1]
    BY <1>1 DEF Returned
  <2>2. epoch' \in [Ctx -> Nat]
    BY <1>1 DEF RInv, TypeOK
  <2>3. Reach(t, stage[t]) \cup N = WordsOf(Now(t)) \cap Word
    BY <1>2, <1>4, WordsAre
  <2>4. \A o \in net \cup New : o.call = c =>
                /\ o.do = "store" /\ o.val = None => Now(t).op = "put_nbi"
                /\ o.fetch => Now(t).op \in {"get_nbi", "fadd_nbi"}
    BY <1>2, <1>4
  <2>5. Proceeds(t, c, N, New, "idle")
    BY <1>0, <1>1, <1>2, <1>4, <2>1, <2>2, <2>3, <2>4 DEF Proceeds
  <2> QED
    BY <2>5, CallStep
<1>5. CASE Ready(t, {"put_nbi"}) /\ net' = net \cup Stores(t)
  <2>1. Now(t).op = "put_nbi"
    BY <1>5 DEF Ready
  <2>2. Posting(c, DOMAIN Now(t).put, Stores(t)) /\ \A o \in Stores(t) : o.fetch = FALSE
    BY <1>0, <1>1, StoresPost
  <2>3. WordsOf(Now(t)) = DOMAIN Now(t).put /\ ~ Looped(c)
    BY <1>2, <1>3, <2>1, WordsAre DEF CasOps
  <2> QED
    BY <1>4, <1>5, <2>1, <2>2, <2>3
<1>6. CASE Ready(t, {"get_nbi"}) /\ net' = net \cup Loads(t)
  <2>1. Now(t).op = "get_nbi"
    BY <1>6 DEF Ready
  <2>2. Posting(c, Now(t).get, Loads(t)) /\ \A o \in Loads(t) : o.do = "load"
    BY <1>0, <1>1, LoadsPost
  <2>3. WordsOf(Now(t)) = Now(t).get /\ ~ Looped(c)
    BY <1>2, <1>3, <2>1, WordsAre DEF CasOps
  <2> QED
    BY <1>4, <1>6, <2>1, <2>2, <2>3
<1>7. ASSUME NEW f \in BOOLEAN, f = Fetching(Now(t)), net' = net \cup {Atomic(t, f)},
             Now(t).op \in WithWord, Now(t).op \notin {"put_signal", "quiet"}, ~ Looped(c),
             f => Now(t).op = "fadd_nbi"
      PROVE  RInv' /\ Begins
  <2>1. PICK o : o = Atomic(t, f)
    OBVIOUS
  <2>2. Posting(c, {Now(t).word}, {o}) /\ o.do # "store" /\ o.fetch = f
    BY <1>0, <1>1, <1>7, <2>1, AtomicPosts
  <2>3. WordsOf(Now(t)) = {Now(t).word}
    BY <1>2, <1>7, WordsAre
  <2> QED
    BY <1>4, <1>7, <2>1, <2>2, <2>3
<1>8. CASE Add(t)
  BY <1>3, <1>7, <1>8 DEF Add, Ready, Fetching, WithWord, CasOps
<1>9. CASE NativeBitwise(t)
  BY <1>3, <1>7, <1>9 DEF NativeBitwise, Ready, Fetching, WithWord, CasOps
<1>10. CASE FetchAddNbi(t)
  BY <1>3, <1>7, <1>10 DEF FetchAddNbi, Ready, Fetching, WithWord, CasOps
<1> QED
  BY <1>5, <1>6, <1>8, <1>9, <1>10 DEF PostOnly

LEMMA PostAndWaitStep ==
  ASSUME RInv, NEW t \in Thread, PostAndWait(t)
  PROVE  RInv' /\ Begins
<1>0. PICK c : c = Me(t)
  OBVIOUS
<1>1. /\ stage[t] = "idle" /\ at[t] <= Len(prog[t]) /\ stage' = [stage EXCEPT ![t] = "posted"]
      /\ UNCHANGED <<native, prog, at, orig, got, mem, epoch>>
  BY DEF PostAndWait, Ready, FetchAdd, Swaps, NativeFetch
<1>2. /\ IsCall(Now(t)) /\ Now(t) = The(c)
      /\ \A o \in net : o.call # c
      /\ Reach(t, stage[t]) = {}
  BY <1>0, <1>1, NowIs, IdleIs
<1>3. Looped(c) <=> ~ native /\ Now(t).op \in CasOps
  BY <1>0, <1>1, <1>2 DEF Looped, Me, The
<1>4. ASSUME NEW N, NEW New, Posting(c, N, New), net' = net \cup New, N = Reach(t, "posted"), ~ Looped(c),
             Now(t).op \in {"put", "put_signal", "get", "fadd", "swap", "cswap", "fetch_bitwise"}
      PROVE  RInv' /\ Begins
  <2>1. epoch' \in [Ctx -> Nat]
    BY <1>1 DEF RInv, TypeOK
  <2>2. Proceeds(t, c, N, New, "posted")
    BY <1>0, <1>1, <1>2, <1>4, <2>1 DEF Proceeds
  <2> QED
    BY <2>2, CallStep
<1>5. CASE Ready(t, {"put", "put_signal"}) /\ net' = net \cup Stores(t)
  <2>1. Now(t).op \in {"put", "put_signal"}
    BY <1>5 DEF Ready
  <2>2. Posting(c, DOMAIN Now(t).put, Stores(t))
    BY <1>0, <1>1, StoresPost
  <2>3. Reach(t, "posted") = DOMAIN Now(t).put /\ ~ Looped(c)
    BY <1>2, <1>3, <2>1, WordsAre DEF CasOps, Reach
  <2> QED
    BY <1>4, <1>5, <2>1, <2>2, <2>3
<1>6. CASE Ready(t, {"get"}) /\ net' = net \cup Loads(t)
  <2>1. Now(t).op = "get"
    BY <1>6 DEF Ready
  <2>2. Posting(c, Now(t).get, Loads(t))
    BY <1>0, <1>1, LoadsPost
  <2>3. Reach(t, "posted") = Now(t).get /\ ~ Looped(c)
    BY <1>2, <1>3, <2>1, WordsAre DEF CasOps, Reach
  <2> QED
    BY <1>4, <1>6, <2>1, <2>2, <2>3
<1>7. ASSUME Fetching(Now(t)) = TRUE, net' = net \cup {Atomic(t, TRUE)}, ~ Looped(c),
             Now(t).op \in {"fadd", "swap", "cswap", "fetch_bitwise"}
      PROVE  RInv' /\ Begins
  <2>1. PICK o : o = Atomic(t, TRUE)
    OBVIOUS
  <2>2. Now(t).op \in WithWord
    BY <1>7 DEF WithWord, CasOps
  <2>3. Posting(c, {Now(t).word}, {o})
    <3>1. PICK f \in BOOLEAN : f = TRUE
      OBVIOUS
    <3>2. o = Atomic(t, f) /\ f = Fetching(Now(t))
      BY <1>7, <2>1, <3>1
    <3> QED
      BY <1>0, <1>1, <2>2, <3>1, <3>2, AtomicPosts
  <2>4. Reach(t, "posted") = {Now(t).word}
    BY <1>2, <1>7, <2>2, WordsAre DEF Reach
  <2> QED
    BY <1>4, <1>7, <2>1, <2>3, <2>4
<1>8. CASE FetchAdd(t)
  BY <1>3, <1>7, <1>8 DEF FetchAdd, Ready, Fetching, CasOps
<1>9. CASE Swaps(t)
  BY <1>3, <1>7, <1>9 DEF Swaps, Ready, Fetching, CasOps
<1>10. CASE NativeFetch(t)
  BY <1>3, <1>7, <1>10 DEF NativeFetch, Ready, Fetching, CasOps
<1> QED
  BY <1>5, <1>6, <1>8, <1>9, <1>10 DEF PostAndWait

\* Steps that post nothing and return.
LEMMA ReturnStep ==
  ASSUME RInv, NEW t \in Thread, at[t] <= Len(prog[t]), Returned(t),
         UNCHANGED <<native, prog, orig, got, mem, net>>, epoch' \in [Ctx -> Nat],
         Looped(Me(t)) => Swapped(t) /\ Mine(t) = {},
         Reach(t, stage[t]) = WordsOf(Now(t)),
         Complete(t) \/ Mine(t) = {},
         Now(t).op = "quiet" /\ Now(t).ctx \notin NoStore => \A o \in net : o.ctx # Now(t).ctx
  PROVE  RInv' /\ Begins
<1>0. PICK c : c = Me(t)
  OBVIOUS
<1>1. Posting(c, {}, {})
  BY DEF Posting
<1>2. stage' = [stage EXCEPT ![t] = "idle"] /\ at' = [at EXCEPT ![t] = @ + 1]
  BY DEF Returned
<1>3. \A o \in net : o.call = c => ~ o.fetch /\ o.val # None
  BY <1>0 DEF Complete, Mine, Me
<1>4. WordsOf(Now(t)) \subseteq Word
  BY NowIs, WordsAre
<1>5. Proceeds(t, c, {}, {}, "idle")
  BY <1>0, <1>1, <1>2, <1>3, <1>4 DEF Proceeds
<1> QED
  BY <1>5, CallStep

LEMMA SimpleReturns ==
  ASSUME RInv, NEW t \in Thread, Return(t) \/ Fence(t) \/ Quiet(t) \/ Signalled(t) \/ CasReturn(t)
  PROVE  RInv' /\ Begins
<1>1. epoch \in [Ctx -> Nat]
  BY DEF RInv, TypeOK
<1>2. /\ stage[t] # "idle" => at[t] <= Len(prog[t])
      /\ stage[t] = "posted" =>
           /\ Now(t).op \in {"put", "put_signal", "get", "fadd", "swap", "cswap", "fetch_bitwise"}
           /\ ~ Looped(Me(t))
      /\ stage[t] = "signal" => Now(t).op = "put_signal"
      /\ InLoop(t) => Looped(Me(t))
  BY DEF RInv, Stages
<1>3. at[t] <= Len(prog[t]) =>
        (Looped(Me(t)) => Now(t).op \in CasOps) /\ IsCall(Now(t)) /\ Now(t).ctx \in Ctx
  BY NowIs DEF Looped, The
<1>4. CASE Return(t)
  <2>1. stage[t] = "posted" /\ Now(t).op # "put_signal" /\ Complete(t) /\ Returned(t)
        /\ UNCHANGED <<native, prog, orig, got, mem, net, epoch>>
    BY <1>4 DEF Return
  <2>2. Reach(t, stage[t]) = WordsOf(Now(t))
    BY <2>1 DEF Reach
  <2> QED
    BY <1>1, <1>2, <2>1, <2>2, ReturnStep
<1>5. CASE Fence(t)
  <2>1. stage[t] = "idle" /\ at[t] <= Len(prog[t]) /\ Now(t).op = "fence" /\ Returned(t)
        /\ UNCHANGED <<native, prog, orig, got, mem, net>> /\ epoch' = Fenced(Now(t).ctx)
    BY <1>5 DEF Fence, Ready
  <2>2. epoch' \in [Ctx -> Nat]
    BY <1>1, <1>3, <2>1 DEF Fenced
  <2>3. WordsOf(Now(t)) = {} /\ Mine(t) = {} /\ Reach(t, stage[t]) = {}
    BY <1>3, <2>1, WordsAre, IdleIs
  <2>4. ~ Looped(Me(t))
    BY <1>3, <2>1 DEF CasOps
  <2> QED
    BY <2>1, <2>2, <2>3, <2>4, ReturnStep
<1>6. CASE Quiet(t)
  <2>1. stage[t] = "idle" /\ at[t] <= Len(prog[t]) /\ Now(t).op = "quiet" /\ Returned(t)
        /\ UNCHANGED <<native, prog, orig, got, mem, net, epoch>>
        /\ (Now(t).ctx \in NoStore \/ \A o \in net : o.ctx # Now(t).ctx)
    BY <1>6 DEF Quiet, Ready
  <2>2. epoch' \in [Ctx -> Nat]
    BY <1>1, <2>1
  <2>3. WordsOf(Now(t)) = {} /\ Mine(t) = {} /\ Reach(t, stage[t]) = {}
    BY <1>3, <2>1, WordsAre, IdleIs
  <2>4. ~ Looped(Me(t))
    BY <1>3, <2>1 DEF CasOps
  <2> QED
    BY <2>1, <2>2, <2>3, <2>4, ReturnStep
<1>7. CASE Signalled(t)
  <2>1. stage[t] = "signal" /\ Complete(t) /\ Returned(t)
        /\ UNCHANGED <<native, prog, orig, got, mem, net, epoch>>
    BY <1>7 DEF Signalled
  <2>2. at[t] <= Len(prog[t]) /\ Now(t).op = "put_signal"
    BY <1>2, <2>1
  <2>3. Reach(t, stage[t]) = WordsOf(Now(t)) /\ ~ Looped(Me(t))
    BY <1>3, <2>1, <2>2 DEF Reach, CasOps
  <2> QED
    BY <1>1, <2>1, <2>2, <2>3, ReturnStep
<1>8. CASE CasReturn(t)
  <2>1. stage[t] = "cas" /\ Mine(t) = {} /\ got[<<t, at[t]>>] = orig[t] /\ Returned(t)
        /\ UNCHANGED <<native, prog, orig, got, mem, net, epoch>>
    BY <1>8 DEF CasReturn
  <2>2. at[t] <= Len(prog[t]) /\ Now(t).op \in CasOps
    BY <1>2, <1>3, <2>1 DEF InLoop
  <2>3. Swapped(t)
    BY <2>1 DEF Swapped
  <2>4. Reach(t, stage[t]) = WordsOf(Now(t)) /\ Now(t).op # "quiet"
    BY <2>1, <2>2 DEF Reach, CasOps
  <2> QED
    BY <1>1, <2>1, <2>2, <2>3, <2>4, ReturnStep
<1> QED
  BY <1>4, <1>5, <1>6, <1>7, <1>8

LEMMA SignalStep ==
  ASSUME RInv, NEW t \in Thread, Signal(t)
  PROVE  RInv' /\ Begins
<1>0. PICK c : c = Me(t)
  OBVIOUS
<1> DEFINE k == Now(t)
           st == IF k.do = "swap" THEN "signal" ELSE "idle"
<1>1. /\ stage[t] = "posted" /\ k.op = "put_signal" /\ Complete(t)
      /\ epoch' = Fenced(k.ctx)
      /\ net' = net \cup {[Atomic(t, k.do = "swap") EXCEPT !.epoch = epoch'[k.ctx]]}
      /\ UNCHANGED <<native, prog, orig, got, mem>>
      /\ IF k.do = "swap" THEN stage' = [stage EXCEPT ![t] = "signal"] /\ UNCHANGED at ELSE Returned(t)
  BY DEF Signal
<1>2. at[t] <= Len(prog[t]) /\ ~ Looped(c)
  BY <1>0, <1>1 DEF RInv, Stages
<1>3. IsCall(k) /\ k.ctx \in Ctx /\ epoch \in [Ctx -> Nat]
  BY <1>2, NowIs DEF RInv, TypeOK
<1>4. epoch' \in [Ctx -> Nat] /\ epoch'[k.ctx] \in Nat
  BY <1>1, <1>3 DEF Fenced
<1>5. PICK f \in BOOLEAN : f = (k.do = "swap")
  OBVIOUS
<1>6. f = Fetching(k) /\ k.op \in WithWord
  BY <1>1, <1>5 DEF Fetching, WithWord
<1>7. PICK o : o = [Atomic(t, f) EXCEPT !.epoch = epoch'[k.ctx]]
  OBVIOUS
<1>8. Posting(c, {k.word}, {o}) /\ o.do # "store" /\ o.fetch = f
  <2>1. PICK e \in Nat : e = epoch'[k.ctx]
    BY <1>4
  <2> QED
    BY <1>0, <1>2, <1>6, <1>7, <2>1, AtomicPosts
<1>9. net' = net \cup {o}
  BY <1>1, <1>5, <1>7
<1>10. /\ Reach(t, stage[t]) = DOMAIN k.put /\ k.word \notin DOMAIN k.put
       /\ WordsOf(k) = DOMAIN k.put \cup {k.word} /\ WordsOf(k) \subseteq Word
  BY <1>1, <1>3, WordsAre DEF Reach
<1>11. /\ st \in {"idle", "posted", "signal"} /\ stage' = [stage EXCEPT ![t] = st]
       /\ at' = IF st = "idle" THEN [at EXCEPT ![t] = @ + 1] ELSE at
  BY <1>1 DEF Returned
<1>12. Reach(t, stage[t]) \cup {k.word} = IF st = "idle" THEN WordsOf(k) \cap Word ELSE Reach(t, st)
  BY <1>1, <1>10 DEF Reach
<1>13. st = "idle" => \A p \in net \cup {o} : p.call = c =>
                /\ p.do = "store" /\ p.val = None => k.op = "put_nbi"
                /\ p.fetch => k.op \in {"get_nbi", "fadd_nbi"}
  <2>1. \A p \in net : p.call = c => ~ p.fetch /\ p.val # None
    BY <1>0, <1>1 DEF Complete, Mine, Me
  <2> QED
    BY <1>5, <1>8, <2>1
<1>14. st # "posted" /\ (st = "signal" => k.do = "swap")
  OBVIOUS
<1> HIDE DEF st
<1>15. Proceeds(t, c, {k.word}, {o}, st)
  BY <1>0, <1>1, <1>2, <1>4, <1>8, <1>9, <1>10, <1>11, <1>12, <1>13, <1>14 DEF Proceeds
<1> QED
  BY <1>15, CallStep

-----------------------------------------------------------------------------
(* Steps of the compare-and-swap loop.                                     *)

\* What the loop swaps in: its neighbours stay as they are.
LEMMA CombinedIs ==
  ASSUME NEW k, IsCall(k), k.op \in CasOps, NEW old \in [Cell(k.word) -> Value]
  PROVE  /\ Combined(k, old) \in [Cell(k.word) -> Value]
         /\ k.word \in Word /\ k.do \in Arithmetic
         /\ \A w \in Cell(k.word) :
              Combined(k, old)[w] = IF w = k.word THEN Combine(k.do, old[w], k.val) ELSE old[w]
<1>1. /\ k.word \in Word /\ k.val \in Value /\ k.do \in {"and", "or", "xor"}
      /\ k.do = "and" => Beside[k.word] = {}
  BY DEF IsCall, WithWord
<1>2. Combined(k, old) =
        [w \in Cell(k.word) |-> Combine(k.do, old[w], IF w = k.word THEN k.val ELSE Zero)]
  BY DEF Combined
<1>3. ASSUME NEW w \in Cell(k.word)
      PROVE  /\ Combine(k.do, old[w], IF w = k.word THEN k.val ELSE Zero) \in Value
             /\ w # k.word => Combine(k.do, old[w], Zero) = old[w]
  <2>1. old[w] \in Value /\ Zero \in Value /\ k.do \in Arithmetic
    BY <1>1, MemoryAssumption DEF Arithmetic
  <2>2. w # k.word => k.do \in {"add", "or", "xor"}
    BY <1>1 DEF Cell
  <2>3. \A f \in Arithmetic : \A a, b \in Value : Combine(f, a, b) \in Value
    BY MemoryAssumption
  <2>4. \A f \in {"add", "or", "xor"} : \A a \in Value : Combine(f, a, Zero) = a
    BY MemoryAssumption
  <2>5. (IF w = k.word THEN k.val ELSE Zero) \in Value
    BY <1>1, <2>1
  <2> QED
    BY <2>1, <2>2, <2>3, <2>4, <2>5
<1> QED
  BY <1>1, <1>2, <1>3 DEF Arithmetic

\* Thread t, in the loop c, posts o and is then at st.
Looping(t, c, o, st) ==
  /\ c = Me(t) /\ Looped(c) /\ Mine(t) = {}
  /\ native' = native /\ prog' = prog /\ got' = got /\ mem' = mem /\ at' = at /\ epoch' = epoch
  /\ stage[t] \in {"idle", "load", "cas"} /\ st \in {"load", "cas"}
  /\ stage' = [stage EXCEPT ![t] = st]
  /\ orig' = orig \/ orig' = [orig EXCEPT ![t] = got[c]]
  /\ st = "cas" => orig'[t] \in [Cell(The(c).word) -> Value]
  /\ stage[t] # "idle" => ~ Swapped(t)
  /\ net' = net \cup {o} /\ o \in Operation
  /\ o.call = c /\ o.ctx = The(c).ctx /\ o.on = Cell(The(c).word) /\ o.fetch /\ o.answer = None
  /\ \/ st = "load" /\ o.do = "load"
     \/ st = "cas" /\ o.do = "cswap" /\ o.val = Combined(The(c), orig'[t]) /\ o.comp = orig'[t]

LEMMA LoopingFacts ==
  ASSUME RInv, NEW t \in Thread, NEW c, NEW o, NEW st, Looping(t, c, o, st)
  PROVE  /\ c \in Call /\ c = <<t, at[t]>> /\ Now(t) = The(c) /\ IsCall(The(c)) /\ at[t] <= Len(prog[t])
         /\ The(c).op \in CasOps /\ The(c).word \in Word /\ WordsOf(The(c)) = {The(c).word}
         /\ \A s \in Thread : /\ Now(s)' = Now(s) /\ Me(s)' = Me(s)
                              /\ s # t => stage'[s] = stage[s] /\ orig'[s] = orig[s]
                              /\ s # t => Mine(s)' = Mine(s) /\ (Swapped(s)' <=> Swapped(s))
         /\ stage'[t] = st
         /\ \A p \in net : p.call # c
<1>1. at[t] <= Len(prog[t]) /\ c = <<t, at[t]>>
  BY DEF Looping, Looped, Me
<1>2. c \in Call /\ Now(t) = The(c) /\ IsCall(The(c))
  BY <1>1, NowIs DEF Looping
<1>3. The(c).op \in CasOps
  BY DEF Looping, Looped, The
<1>4. The(c).word \in Word /\ WordsOf(The(c)) = {The(c).word}
  BY <1>2, <1>3, WordsAre DEF IsCall, WithWord, CasOps
<1>5. ASSUME NEW s \in Thread
      PROVE  /\ Now(s)' = Now(s) /\ Me(s)' = Me(s)
             /\ s # t => stage'[s] = stage[s] /\ orig'[s] = orig[s]
             /\ s # t => Mine(s)' = Mine(s) /\ (Swapped(s)' <=> Swapped(s))
  <2>1. Now(s)' = Now(s) /\ Me(s)' = Me(s) /\ at'[s] = at[s] /\ got' = got
    BY DEF Looping, Now, Me
  <2>2. s # t => stage'[s] = stage[s] /\ orig'[s] = orig[s]
    BY DEF Looping, RInv, TypeOK
  <2>3. s # t => Mine(s)' = Mine(s)
    BY <1>1, <2>1 DEF Looping, Mine
  <2> QED
    BY <2>1, <2>2, <2>3 DEF Swapped
<1>6. stage'[t] = st
  BY DEF Looping, RInv, TypeOK
<1>7. \A p \in net : p.call # c
  BY <1>1 DEF Looping, Mine
<1> QED
  BY <1>1, <1>2, <1>3, <1>4, <1>5, <1>6, <1>7

LEMMA LoopingHas ==
  ASSUME RInv, NEW t \in Thread, NEW c, NEW o, NEW st, Looping(t, c, o, st),
         NEW d \in Call, NEW w \in Word
  PROVE  Has(d, w)' <=> Has(d, w) \/ (d = c /\ w = The(c).word /\ stage[t] = "idle")
<1>1. /\ c = <<t, at[t]>> /\ The(c).op \in CasOps /\ WordsOf(The(c)) = {The(c).word}
      /\ \A s \in Thread : s # t => stage'[s] = stage[s]
      /\ stage'[t] = st /\ at[t] <= Len(prog[t])
  BY LoopingFacts
<1>2. at' = at /\ prog' = prog /\ st # "idle" /\ at[t] \in Int /\ (stage[t] = "idle" \/ stage[t] \in {"load", "cas"})
  BY DEF Looping, RInv, TypeOK
<1>3. d = <<d[1], d[2]>> /\ d[1] \in Thread /\ d[2] \in Int
  BY DEF Call
<1>4. CASE d[1] # t
  BY <1>1, <1>2, <1>3, <1>4 DEF Has, The
<1>5. CASE d[1] = t /\ d[2] # at[t]
  BY <1>1, <1>2, <1>3, <1>5 DEF Has, The
<1>6. CASE d = c
  BY <1>1, <1>2, <1>6 DEF Has, The, CasOps
<1> QED
  BY <1>1, <1>3, <1>4, <1>5, <1>6

LEMMA LoopingInv ==
  ASSUME RInv, NEW t \in Thread, NEW c, NEW o, NEW st, Looping(t, c, o, st)
  PROVE  RInv'
<1>0. /\ native' = native /\ prog' = prog /\ got' = got /\ mem' = mem /\ at' = at /\ epoch' = epoch
      /\ net' = net \cup {o} /\ stage' = [stage EXCEPT ![t] = st] /\ st \in {"load", "cas"} /\ Looped(c)
      /\ o \in Operation /\ o.call = c
  BY DEF Looping
<1>1. /\ c \in Call /\ c = <<t, at[t]>> /\ Now(t) = The(c) /\ IsCall(The(c)) /\ at[t] <= Len(prog[t])
      /\ The(c).op \in CasOps /\ The(c).word \in Word /\ WordsOf(The(c)) = {The(c).word}
      /\ stage'[t] = st
      /\ \A p \in net : p.call # c
  BY LoopingFacts
<1>2. \A s \in Thread : /\ Now(s)' = Now(s) /\ Me(s)' = Me(s)
                        /\ s # t => stage'[s] = stage[s] /\ orig'[s] = orig[s] /\ Mine(s)' = Mine(s)
  BY LoopingFacts
<1>3. \A d : (Looped(d)' <=> Looped(d)) /\ The(d)' = The(d)
  BY <1>0, Frame
<1>4. TypeOK'
  <2>1. stage' \in [Thread -> {"idle", "posted", "signal", "load", "cas"}]
    BY <1>0 DEF RInv, TypeOK
  <2>2. orig' \in [Thread -> Buffer \cup {None}]
    BY <1>1 DEF Looping, RInv, TypeOK
  <2> QED
    BY <1>0, <2>1, <2>2 DEF RInv, TypeOK
<1>5. Stages'
  <2> SUFFICES ASSUME NEW s \in Thread
               PROVE  /\ stage'[s] # "idle" => at[s] <= Len(prog[s])
                      /\ stage'[s] = "posted" =>
                           /\ Now(s).op \in {"put", "put_signal", "get", "fadd", "swap", "cswap", "fetch_bitwise"}
                           /\ ~ Looped(Me(s))
                      /\ stage'[s] = "signal" => Now(s).op = "put_signal" /\ Now(s).do = "swap"
                      /\ stage'[s] \in {"load", "cas"} => Looped(Me(s))
    BY <1>0, <1>2, <1>3 DEF Stages, InLoop
  <2>1. CASE s # t
    BY <1>2, <2>1 DEF RInv, Stages, InLoop
  <2>2. CASE s = t
    BY <1>0, <1>1, <2>2 DEF Me
  <2> QED
    BY <2>1, <2>2
<1>6. Posted'
  <2>1. ASSUME NEW p \in net PROVE Fits(p)'
    <3>0. Fits(p) /\ p.call \in Call /\ p.call[1] \in Thread
      BY DEF RInv, Posted, TypeOK, Operation, Call
    <3>1. CASE Looped(p.call)
      <4>1. OnCell(p) /\ p.call = Me(p.call[1])
        BY <3>0, <3>1 DEF Fits, OnCell
      <4>2. p.call[1] # t
        BY <4>1, <1>1 DEF Me
      <4>3. OnCell(p)'
        BY <4>1, <4>2, <3>0, <1>0, <1>2, <1>3 DEF OnCell
      <4> QED
        BY <4>3, <3>0, <3>1, <1>0, <1>3 DEF Fits
    <3>2. CASE ~ Looped(p.call)
      <4>1. PICK w \in Word : OnWord(p, w)
        BY <3>0, <3>2 DEF Fits
      <4>2. AsWanted(p, w)' /\ Has(p.call, w)'
        BY <4>1, <3>0, <1>0, Frame, LoopingHas DEF OnWord
      <4>3. OnWord(p, w)'
        BY <4>1, <4>2 DEF OnWord
      <4> QED
        BY <4>3, <3>0, <3>2, <1>0, <1>3 DEF Fits
    <3> QED
      BY <3>1, <3>2
  <2>2. Fits(o)'
    <3>1. OnCell(o)'
      BY <1>0, <1>1, <1>2, <1>3 DEF OnCell, Looping, Me
    <3> QED
      BY <3>1, <1>0, <1>1, <1>3 DEF Fits, Looping
  <2> QED
    BY <2>1, <2>2, <1>0 DEF Posted
<1>7. Alone'
  BY <1>0, <1>1 DEF RInv, Alone
<1>8. Buffers'
  <2>1. ASSUME NEW d \in Call, Looped(d)
        PROVE  /\ DOMAIN got[d] \in {{}, Cell(The(d).word)}
               /\ d = Me(d[1])' /\ InLoop(d[1])' /\ Mine(d[1])' = {} => DOMAIN got[d] # {}
    <3>1. DOMAIN got[d] \in {{}, Cell(The(d).word)}
      BY <2>1 DEF RInv, Buffers
    <3>2. ASSUME d = Me(d[1])', InLoop(d[1])', Mine(d[1])' = {} PROVE DOMAIN got[d] # {}
      <4>1. d[1] \in Thread
        BY DEF Call
      <4>2. d[1] # t
        BY <3>2, <1>0, <1>1 DEF Mine
      <4> QED
        BY <4>1, <4>2, <3>2, <2>1, <1>2 DEF RInv, Buffers, InLoop
    <3> QED
      BY <3>1, <3>2
  <2>2. ASSUME NEW d \in Call, ~ Looped(d), NEW w \in DOMAIN got[d]
        PROVE  Has(d, w)' /\ \A p \in net' : p.call = d => w \notin p.on
    <3>1. Has(d, w) /\ \A p \in net : p.call = d => w \notin p.on
      BY <2>2 DEF RInv, Buffers
    <3>2. got[d] \in Buffer
      BY DEF RInv, TypeOK
    <3>3. w \in Word
      BY <3>2, BufferIs
    <3>4. Has(d, w)'
      BY <3>1, <3>3, LoopingHas
    <3> QED
      BY <3>1, <3>4, <2>2, <1>0
  <2> QED
    BY <2>1, <2>2, <1>0, <1>3 DEF Buffers
<1>9. Origs'
  <2> SUFFICES ASSUME NEW s \in Thread, stage'[s] = "cas" PROVE orig'[s] \in [Cell(Now(s).word) -> Value]
    BY <1>2 DEF Origs
  <2>1. CASE s # t
    BY <2>1, <1>2 DEF RInv, Origs
  <2>2. CASE s = t
    BY <2>2, <1>1 DEF Looping
  <2> QED
    BY <2>1, <2>2
<1>10. Unread'
  <2>1. \A p : GivenBack(p)' <=> GivenBack(p)
    BY <1>0 DEF GivenBack
  <2>2. o.do # "store"
    BY DEF Looping
  <2> QED
    BY <1>0, <2>1, <2>2 DEF RInv, Unread
<1>11. NothingLeft'
  <2>1. ~ (o.call[2] < at[o.call[1]])
    BY <1>0, <1>1 DEF RInv, TypeOK
  <2> QED
    BY <1>0, <1>3, <2>1 DEF RInv, NothingLeft
<1>12. Quieted'
  <2>1. o.call[2] + 1 .. at[o.call[1]] - 1 = {}
    BY <1>0, <1>1 DEF RInv, TypeOK
  <2> QED
    BY <1>0, <2>1 DEF RInv, Quieted
<1> QED
  BY <1>4, <1>5, <1>6, <1>7, <1>8, <1>9, <1>10, <1>11, <1>12 DEF RInv

\* The first step of a loop begins its operation, the others are not seen.
LEMMA LoopingBegins ==
  ASSUME RInv, NEW t \in Thread, NEW c, NEW o, NEW st, Looping(t, c, o, st)
  PROVE  Begins
<1> DEFINE S == {x \in Call \X Word : x = <<c, The(c).word>> /\ stage[t] = "idle"}
<1>0. /\ native' = native /\ prog' = prog /\ got' = got /\ mem' = mem /\ at' = at
      /\ net' = net \cup {o} /\ st \in {"load", "cas"} /\ Looped(c)
      /\ o.call = c /\ o.answer = None /\ Mine(t) = {}
      /\ stage[t] \in {"idle", "load", "cas"} /\ (stage[t] # "idle" => ~ Swapped(t))
      /\ st = "cas" => orig'[t] \in [Cell(The(c).word) -> Value]
  BY DEF Looping
<1>1. /\ c \in Call /\ c = <<t, at[t]>> /\ Now(t) = The(c) /\ IsCall(The(c)) /\ at[t] <= Len(prog[t])
      /\ The(c).word \in Word /\ WordsOf(The(c)) = {The(c).word}
      /\ stage'[t] = st
  BY LoopingFacts
<1>2. \A s \in Thread : /\ Now(s)' = Now(s)
                        /\ s # t => stage'[s] = stage[s] /\ orig'[s] = orig[s] /\ (Swapped(s)' <=> Swapped(s))
  BY LoopingFacts
<1>3. \A d : (Looped(d)' <=> Looped(d)) /\ The(d)' = The(d)
  BY <1>0, Frame
<1>4. S \cap Begun = {}
  <2>1. ~ Has(c, The(c).word) \/ stage[t] # "idle"
    BY <1>1 DEF Has, RInv, TypeOK
  <2> QED
    BY <2>1, BegunIs
<1>5. \A x \in S : Want(x) \in M!Operation /\ Want(x).call = x[1] /\ Want(x).word = x[2]
  BY <1>1, WantType
<1>6. Begun' = Begun \cup S
  <2>1. \A d \in Call, w \in Word : Has(d, w)' <=> Has(d, w) \/ (d = c /\ w = The(c).word /\ stage[t] = "idle")
    BY LoopingHas
  <2>2. Begun' = {x \in Call \X Word : Has(x[1], x[2])'}
    BY BegunIs DEF Begun, Has, The
  <2> QED
    BY <2>1, <2>2, BegunIs
<1>7. ~ Swapped(t)'
  <2>1. \E p \in Mine(t)' : p = o
    BY <1>0, <1>1 DEF Mine
  <2>2. \A p \in Mine(t)' : p = o
    BY <1>0, <1>1 DEF Mine
  <2>3. st = "cas" => orig'[t] # None
    BY <1>0, <1>1, CellIs, BufferMade
  <2> QED
    BY <2>1, <2>2, <2>3, <1>0, <1>1 DEF Swapped
<1>8. ~ Swapped(t)
  BY <1>0 DEF Swapped
<1>9. Pending' = Pending \cup S
  <2> SUFFICES ASSUME NEW x \in Call \X Word PROVE x \in Pending' <=> x \in Pending \/ x \in S
    BY DEF Pending
  <2>0. x[1] \in Call /\ x[2] \in Word /\ x = <<x[1], x[2]>> /\ x[1] = <<x[1][1], x[1][2]>> /\ x[1][1] \in Thread
    BY DEF Call
  <2>1. CASE x[1] = c
    <3>1. x \in Pending' <=> x[2] = The(c).word
      BY <2>1, <1>0, <1>1, <1>2, <1>3, <1>7 DEF Pending
    <3>2. x \in Pending <=> x[2] = The(c).word /\ stage[t] # "idle"
      BY <2>1, <1>0, <1>1, <1>8 DEF Pending
    <3>3. x \in S <=> x[2] = The(c).word /\ stage[t] = "idle"
      BY <2>0, <2>1
    <3> QED
      BY <3>1, <3>2, <3>3
  <2>2. CASE x[1] # c /\ Looped(x[1])
    <3>1. x \notin S
      BY <2>2
    <3>2. CASE x[1][1] = t
      BY <3>1, <3>2, <2>0, <2>2, <1>0, <1>1, <1>3 DEF Pending
    <3>3. CASE x[1][1] # t
      BY <3>1, <3>3, <2>0, <2>2, <1>0, <1>2, <1>3 DEF Pending
    <3> QED
      BY <3>2, <3>3
  <2>3. CASE ~ Looped(x[1])
    <3>1. x \notin S /\ x[1] # c
      BY <2>3, <1>0
    <3> QED
      BY <3>1, <2>3, <1>0, <1>3 DEF Pending
  <2> QED
    BY <2>1, <2>2, <2>3
<1>10. ASSUME NEW x \in Call \X Word PROVE Found(x)' = Found(x)
  <2>0. x[1] \in Call /\ x[1] = <<x[1][1], x[1][2]>> /\ x[1][1] \in Thread
    BY DEF Call
  <2>1. CASE Looped(x[1]) /\ x[1][1] # t
    BY <2>0, <2>1, <1>0, <1>2, FoundSame
  <2>2. CASE Looped(x[1]) /\ x[1][1] = t
    BY <2>0, <2>2, <1>0, <1>3, <1>7, <1>8 DEF Found
  <2>3. CASE ~ Looped(x[1])
    <3>1. Landed(x)' = Landed(x)
      BY <2>3, <1>0 DEF Landed
    <3> QED
      BY <2>3, <3>1, <1>0, FoundSame
  <2> QED
    BY <2>1, <2>2, <2>3
<1>11. S \in SUBSET (Call \X Word)
  OBVIOUS
<1> HIDE DEF S
<1> QED
  BY <1>0, <1>4, <1>5, <1>6, <1>9, <1>10, <1>11, PendingBegun, AbsBegin DEF RInv

\* The request for the 8 bytes at a word, in a step to "load".
LEMMA LoadMade ==
  ASSUME RInv, NEW t \in Thread, at[t] <= Len(prog[t]), Now(t).op \in CasOps,
         NEW o, o = Op(t, Cell(Now(t).word), "load", None, None, TRUE)
  PROVE  /\ o \in Operation /\ o.call = Me(t) /\ o.ctx = Now(t).ctx /\ o.on = Cell(Now(t).word)
         /\ o.fetch /\ o.answer = None /\ o.do = "load"
<1>1. Me(t) \in Call /\ IsCall(Now(t)) /\ epoch[Now(t).ctx] \in Nat /\ Now(t).ctx \in Ctx
  BY NowIs
<1>2. Now(t).word \in Word
  BY <1>1 DEF IsCall, WithWord
<1>3. Cell(Now(t).word) \in SUBSET Word
  BY <1>2, CellIs
<1> QED
  BY <1>1, <1>3 DEF Op, Operation, Me

LEMMA CasLoadStep ==
  ASSUME RInv, NEW t \in Thread, CasLoad(t) \/ CasRetry(t)
  PROVE  RInv' /\ Begins
<1>0. PICK c : c = Me(t)
  OBVIOUS
<1>1. PICK o : o = Op(t, Cell(Now(t).word), "load", None, None, TRUE)
  OBVIOUS
<1>2. /\ UNCHANGED <<native, prog, at, orig, got, mem, epoch>>
      /\ net' = net \cup {o} /\ stage' = [stage EXCEPT ![t] = "load"]
  BY <1>1 DEF CasLoad, CasRetry
<1>3. /\ stage[t] \in {"idle", "cas"} /\ at[t] <= Len(prog[t]) /\ Looped(c) /\ Mine(t) = {}
      /\ stage[t] # "idle" => ~ Swapped(t)
  <2>1. CASE CasLoad(t)
    <3>1. stage[t] = "idle" /\ at[t] <= Len(prog[t]) /\ Now(t).op \in CasOps /\ ~ native
      BY <2>1 DEF CasLoad, Ready
    <3>2. Looped(c) /\ Mine(t) = {}
      BY <3>1, <1>0, IdleIs DEF Looped, Me, Now
    <3> QED
      BY <3>1, <3>2
  <2>2. CASE CasRetry(t)
    <3>1. stage[t] = "cas" /\ Mine(t) = {} /\ got[<<t, at[t]>>] # orig[t]
      BY <2>2 DEF CasRetry
    <3>2. Looped(c) /\ at[t] <= Len(prog[t])
      BY <3>1, <1>0 DEF RInv, Stages, InLoop
    <3> QED
      BY <3>1, <3>2 DEF Swapped
  <2> QED
    BY <2>1, <2>2
<1>4. Now(t) = The(c) /\ The(c).op \in CasOps
  BY <1>0, <1>3 DEF Looped, The, Now, Me
<1>5. /\ o \in Operation /\ o.call = c /\ o.ctx = The(c).ctx /\ o.on = Cell(The(c).word)
      /\ o.fetch /\ o.answer = None /\ o.do = "load"
  BY <1>0, <1>1, <1>3, <1>4, LoadMade
<1>6. PICK st \in {"load", "cas"} : st = "load"
  OBVIOUS
<1>7. Looping(t, c, o, st)
  BY <1>0, <1>2, <1>3, <1>5, <1>6 DEF Looping
<1> QED
  BY <1>7, LoopingInv, LoopingBegins

LEMMA CasSwapStep ==
  ASSUME RInv, NEW t \in Thread, CasSwap(t)
  PROVE  RInv' /\ Begins
<1>0. PICK c : c = Me(t)
  OBVIOUS
<1>1. PICK old : old = got[c]
  OBVIOUS
<1>2. PICK o : o = Op(t, DOMAIN old, "cswap", Combined(Now(t), old), old, TRUE)
  OBVIOUS
<1>3. /\ stage[t] = "load" /\ Mine(t) = {} /\ orig' = [orig EXCEPT ![t] = old]
      /\ net' = net \cup {o} /\ stage' = [stage EXCEPT ![t] = "cas"]
      /\ UNCHANGED <<native, prog, at, got, mem, epoch>>
  BY <1>0, <1>1, <1>2 DEF CasSwap, Me
<1>4. Looped(c) /\ at[t] <= Len(prog[t]) /\ InLoop(t)
  BY <1>0, <1>3 DEF RInv, Stages, InLoop
<1>5. /\ c \in Call /\ Now(t) = The(c) /\ IsCall(The(c)) /\ c = <<t, at[t]>>
      /\ epoch[Now(t).ctx] \in Nat /\ Now(t).ctx \in Ctx
  BY <1>0, <1>4, NowIs DEF Me
<1>6. The(c).op \in CasOps
  BY <1>4 DEF Looped, The
<1>7. old \in [Cell(The(c).word) -> Value]
  <2>1. DOMAIN old = Cell(The(c).word)
    <3>0. c[1] = t
      BY <1>5
    <3>1. c = Me(c[1]) /\ InLoop(c[1]) /\ Mine(c[1]) = {}
      BY <3>0, <1>0, <1>3, <1>4
    <3> QED
      BY <3>1, <1>1, <1>4, <1>5 DEF RInv, Buffers
  <2>2. old \in Buffer
    BY <1>1, <1>5 DEF RInv, TypeOK
  <2> QED
    BY <2>1, <2>2, BufferIs
<1>8. Combined(The(c), old) \in [Cell(The(c).word) -> Value] /\ The(c).word \in Word
  BY <1>5, <1>6, <1>7, CombinedIs
<1>9. Combined(The(c), old) \in Buffer /\ old \in Buffer /\ Cell(The(c).word) \in SUBSET Word
  BY <1>7, <1>8, CellIs, BufferMade
<1>10. /\ o \in Operation /\ o.call = c /\ o.ctx = The(c).ctx /\ o.on = Cell(The(c).word)
       /\ o.fetch /\ o.answer = None /\ o.do = "cswap" /\ o.val = Combined(The(c), old) /\ o.comp = old
  <2>1. PICK v : v = Combined(The(c), old)
    OBVIOUS
  <2>2. o = Op(t, Cell(The(c).word), "cswap", v, old, TRUE)
    BY <1>2, <1>5, <1>7, <2>1
  <2>3. v \in Buffer
    BY <2>1, <1>9
  <2> QED
    BY <2>1, <2>2, <2>3, <1>5, <1>9 DEF Op, Operation
<1>11. orig'[t] = old
  BY <1>3 DEF RInv, TypeOK
<1>12. PICK st \in {"load", "cas"} : st = "cas"
  OBVIOUS
<1>13. ~ Swapped(t)
  BY <1>3 DEF Swapped
<1>14. Looping(t, c, o, st)
  BY <1>0, <1>1, <1>3, <1>4, <1>7, <1>10, <1>11, <1>12, <1>13 DEF Looping
<1> QED
  BY <1>14, LoopingInv, LoopingBegins

-----------------------------------------------------------------------------
(* Steps of the transport.                                                 *)

\* Of operation o becomes what is in New: itself, further on, or nothing.
Moving(o, New) ==
  /\ o \in net
  /\ native' = native /\ prog' = prog /\ at' = at /\ stage' = stage /\ orig' = orig /\ epoch' = epoch
  /\ mem' \in [Word -> Value]
  /\ net' = (net \ {o}) \cup New
  /\ New \subseteq Operation
  /\ \A p \in New :
       /\ p.call = o.call /\ p.ctx = o.ctx /\ p.on = o.on /\ p.do = o.do /\ p.fetch = o.fetch
       /\ Fits(p)
       /\ p.do = "store" => p.val # None
       /\ \A q \in New : q = p
  /\ got' \in [Call -> Buffer]
  /\ \A d \in Call : d # o.call => got'[d] = got[d]

LEMMA MovingFrame ==
  ASSUME NEW o, NEW New, Moving(o, New)
  PROVE  /\ \A d : (Looped(d)' <=> Looped(d)) /\ The(d)' = The(d)
         /\ \A t : Now(t)' = Now(t) /\ Me(t)' = Me(t) /\ (InLoop(t)' <=> InLoop(t))
         /\ \A d, w : Has(d, w)' <=> Has(d, w)
         /\ \A p : (Fits(p)' <=> Fits(p)) /\ (GivenBack(p)' <=> GivenBack(p))
         /\ Begun' = Begun
<1>0. native' = native /\ prog' = prog /\ at' = at /\ stage' = stage /\ orig' = orig
  BY DEF Moving
<1>1. \A d : (Looped(d)' <=> Looped(d)) /\ The(d)' = The(d)
  BY <1>0, Frame
<1>2. \A t : Now(t)' = Now(t) /\ Me(t)' = Me(t) /\ (InLoop(t)' <=> InLoop(t))
  BY <1>0 DEF Now, Me, InLoop
<1>3. \A d, w : Has(d, w)' <=> Has(d, w)
  BY <1>0, <1>1 DEF Has
<1>4. \A p, w : OnWord(p, w)' <=> OnWord(p, w)
  BY <1>0, <1>3, Frame DEF OnWord
<1>5. \A p : OnCell(p)' <=> OnCell(p)
  BY <1>0, <1>1, <1>2 DEF OnCell
<1>6. \A p : Fits(p)' <=> Fits(p)
  BY <1>0, <1>1, <1>4, <1>5 DEF Fits
<1>7. \A p : GivenBack(p)' <=> GivenBack(p)
  BY <1>0 DEF GivenBack
<1>8. Begun' = Begun
  BY <1>0 DEF Begun
<1> QED
  BY <1>1, <1>2, <1>3, <1>6, <1>7, <1>8

LEMMA MovingInv ==
  ASSUME RInv, NEW o, NEW New, Moving(o, New), Buffers'
  PROVE  RInv'
<1>0. /\ o \in net
      /\ native' = native /\ prog' = prog /\ at' = at /\ stage' = stage /\ orig' = orig /\ epoch' = epoch
      /\ mem' \in [Word -> Value] /\ net' = (net \ {o}) \cup New /\ New \subseteq Operation
      /\ got' \in [Call -> Buffer]
  BY DEF Moving
<1>1. \A p \in New :
       /\ p.call = o.call /\ p.on = o.on /\ p.do = o.do /\ p.fetch = o.fetch
       /\ Fits(p)
       /\ p.do = "store" => p.val # None
       /\ \A q \in New : q = p
  BY DEF Moving
<1>2. TypeOK'
  BY <1>0 DEF RInv, TypeOK
<1>3. Stages'
  BY <1>0, MovingFrame DEF RInv, Stages
<1>4. Posted'
  BY <1>0, <1>1, MovingFrame DEF RInv, Posted
<1>5. Alone'
  <2> SUFFICES ASSUME NEW p \in net', NEW q \in net', p.call = q.call, p.on \cap q.on # {} PROVE p = q
    BY DEF Alone
  <2>1. CASE p \in net \ {o} /\ q \in net \ {o}
    BY <2>1 DEF RInv, Alone
  <2>2. CASE p \in New /\ q \in New
    BY <2>2, <1>1
  <2>3. CASE p \in New /\ q \in net \ {o}
    <3>1. o.call = q.call /\ o.on \cap q.on # {}
      BY <2>3, <1>1
    <3> QED
      BY <3>1, <2>3, <1>0 DEF RInv, Alone
  <2>4. CASE p \in net \ {o} /\ q \in New
    <3>1. o.call = p.call /\ p.on \cap o.on # {}
      BY <2>4, <1>1
    <3> QED
      BY <3>1, <2>4, <1>0 DEF RInv, Alone
  <2> QED
    BY <2>1, <2>2, <2>3, <2>4, <1>0
<1>6. Origs'
  BY <1>0, MovingFrame DEF RInv, Origs
<1>7. Unread'
  <2> SUFFICES ASSUME NEW p \in net', p.do = "store", p.val = None PROVE ~ GivenBack(p)
    BY MovingFrame DEF Unread
  <2>1. p \in net
    BY <1>0, <1>1
  <2> QED
    BY <2>1 DEF RInv, Unread
<1>9. Quieted'
  <2> SUFFICES ASSUME NEW p \in net', NEW m \in p.call[2] + 1 .. at[p.call[1]] - 1
               PROVE  ~ (prog[p.call[1]][m].op = "quiet" /\ prog[p.call[1]][m].ctx = p.ctx /\ p.ctx \notin NoStore)
    BY <1>0 DEF Quieted
  <2>1. PICK q \in net : q.call = p.call /\ q.ctx = p.ctx
    BY <1>0 DEF Moving
  <2> QED
    BY <2>1 DEF RInv, Quieted
<1>8. NothingLeft'
  <2> SUFFICES ASSUME NEW p \in net', p.call[2] < at[p.call[1]], p.fetch
               PROVE  The(p.call).op \in {"get_nbi", "fadd_nbi"}
    BY <1>0, MovingFrame DEF NothingLeft
  <2>1. CASE p \in net
    BY <2>1 DEF RInv, NothingLeft
  <2>2. CASE p \in New
    <3>1. o.call = p.call /\ o.fetch
      BY <2>2, <1>1
    <3> QED
      BY <3>1, <1>0 DEF RInv, NothingLeft
  <2> QED
    BY <1>0, <2>1, <2>2
<1> QED
  BY <1>2, <1>3, <1>4, <1>5, <1>6, <1>7, <1>8, <1>9 DEF RInv

\* What other calls wait for and have found stays as it is.
LEMMA MovingOthers ==
  ASSUME RInv, NEW o, NEW New, Moving(o, New), NEW x \in Call \X Word, x[1] # o.call
  PROVE  (x \in Pending' <=> x \in Pending) /\ Found(x)' = Found(x)
<1>0. /\ native' = native /\ prog' = prog /\ at' = at /\ stage' = stage /\ orig' = orig
      /\ net' = (net \ {o}) \cup New /\ \A p \in New : p.call = o.call
      /\ got'[x[1]] = got[x[1]]
  BY DEF Moving
<1>1. x[1] = <<x[1][1], x[1][2]>> /\ x[1][1] \in Thread
  BY DEF Call
<1>2. CASE Looped(x[1])
  <2>1. CASE x[1][2] = at[x[1][1]]
    <3>1. Mine(x[1][1])' = Mine(x[1][1])
      BY <2>1, <1>0, <1>1 DEF Mine
    <3>2. got'[<<x[1][1], at[x[1][1]]>>] = got[<<x[1][1], at[x[1][1]]>>]
      BY <2>1, <1>0, <1>1
    <3>3. Swapped(x[1][1])' <=> Swapped(x[1][1])
      BY <3>1, <3>2, <1>0 DEF Swapped
    <3>4. x \in Pending' <=> x \in Pending
      BY <3>3, <1>0, <1>2, MovingFrame DEF Pending
    <3> QED
      BY <3>3, <3>4, <1>0, <1>2, FoundSame
  <2>2. CASE x[1][2] # at[x[1][1]]
    <3>1. x \notin Pending' /\ x \notin Pending
      BY <2>2, <1>0, <1>2, MovingFrame DEF Pending
    <3>2. Found(x)' = Found(x)
      BY <2>2, <1>0, <1>2, MovingFrame DEF Found, The
    <3> QED
      BY <3>1, <3>2
  <2> QED
    BY <2>1, <2>2
<1>3. CASE ~ Looped(x[1])
  <2>1. Landed(x)' = Landed(x)
    BY <1>0 DEF Landed
  <2>2. x \in Pending' <=> x \in Pending
    BY <1>0, <1>3, MovingFrame DEF Pending
  <2> QED
    BY <2>1, <2>2, <1>0, <1>3, FoundSame
<1> QED
  BY <1>2, <1>3

\* The result buffers when none is written to.
LEMMA MovingBuffers ==
  ASSUME RInv, NEW o, NEW New, Moving(o, New), got' = got, New # {} \/ ~ Looped(o.call)
  PROVE  Buffers'
<1>0. /\ at' = at /\ net' = (net \ {o}) \cup New /\ o \in net
      /\ \A p \in New : p.call = o.call /\ p.on = o.on
  BY DEF Moving
<1>1. ASSUME NEW d \in Call, Looped(d)
      PROVE  /\ DOMAIN got[d] \in {{}, Cell(The(d).word)}
             /\ d = Me(d[1]) /\ InLoop(d[1]) /\ Mine(d[1])' = {} => DOMAIN got[d] # {}
  <2>1. DOMAIN got[d] \in {{}, Cell(The(d).word)}
    BY <1>1 DEF RInv, Buffers
  <2>2. ASSUME d = Me(d[1]), InLoop(d[1]), Mine(d[1])' = {} PROVE DOMAIN got[d] # {}
    <3>1. \A p \in net' : p.call # d
      BY <2>2, <1>0 DEF Mine, Me
    <3>2. o.call # d
      BY <3>1, <1>0, <1>1
    <3>3. Mine(d[1]) = {}
      BY <3>1, <3>2, <2>2, <1>0 DEF Mine, Me
    <3> QED
      BY <3>3, <2>2, <1>1 DEF RInv, Buffers
  <2> QED
    BY <2>1, <2>2
<1>2. ASSUME NEW d \in Call, ~ Looped(d), NEW w \in DOMAIN got[d]
      PROVE  Has(d, w) /\ \A p \in net' : p.call = d => w \notin p.on
  <2>1. Has(d, w) /\ \A p \in net : p.call = d => w \notin p.on
    BY <1>2 DEF RInv, Buffers
  <2> QED
    BY <2>1, <1>0
<1> QED
  BY <1>1, <1>2, MovingFrame DEF Buffers

\* An operation of a plain call is the only one on its word.
LEMMA PlainIs ==
  ASSUME RInv, NEW o \in net, ~ Looped(o.call), NEW w \in Word, OnWord(o, w)
  PROVE  /\ o.call \in Call /\ o.on = {w} /\ Has(o.call, w) /\ o \in Operation
         /\ IsCall(The(o.call)) /\ w \in WordsOf(The(o.call))
         /\ \A p \in net : p.call = o.call /\ w \in p.on => p = o
         /\ w \notin DOMAIN got[o.call]
         /\ <<o.call, w>> \in Pending <=> o.answer = None
<1>1. o.call \in Call /\ o \in Operation
  BY DEF RInv, TypeOK, Operation
<1>2. o.on = {w} /\ Has(o.call, w) /\ o.call[2] <= Len(prog[o.call[1]]) /\ w \in WordsOf(The(o.call))
  BY DEF OnWord, AsWanted, Has
<1>3. IsCall(The(o.call))
  BY <1>1, <1>2, CallIs DEF RInv
<1>4. \A p \in net : p.call = o.call /\ w \in p.on => p = o
  BY <1>2 DEF RInv, Alone
<1>5. w \notin DOMAIN got[o.call]
  BY <1>1, <1>2 DEF RInv, Buffers
<1>6. <<o.call, w>> \in Pending <=> o.answer = None
  BY <1>1, <1>2, <1>4 DEF Pending
<1> QED
  BY <1>1, <1>2, <1>3, <1>4, <1>5, <1>6

\* It touches only its word.
LEMMA PlainOthers ==
  ASSUME RInv, NEW o, NEW New, Moving(o, New), ~ Looped(o.call), NEW w \in Word, OnWord(o, w),
         \A v \in Word \ {w} : /\ v \in DOMAIN got'[o.call] <=> v \in DOMAIN got[o.call]
                               /\ v \in DOMAIN got[o.call] => got'[o.call][v] = got[o.call][v],
         NEW y \in Call \X Word, y # <<o.call, w>>
  PROVE  (y \in Pending' <=> y \in Pending) /\ Found(y)' = Found(y)
<1>1. CASE y[1] # o.call
  BY <1>1, MovingOthers
<1>2. CASE y[1] = o.call
  <2>1. y[2] # w /\ y[2] \in Word
    BY <1>2
  <2>2. net' = (net \ {o}) \cup New /\ \A p \in New : p.on = {w}
    BY DEF Moving, OnWord, AsWanted
  <2>3. o.on = {w}
    BY DEF OnWord, AsWanted
  <2>4. (Looped(o.call)' <=> Looped(o.call))
    BY MovingFrame
  <2>5. y \in Pending' <=> y \in Pending
    BY <1>2, <2>1, <2>2, <2>3, <2>4 DEF Pending
  <2>6. Landed(y)' = Landed(y)
    BY <1>2, <2>1, <2>2, <2>3 DEF Landed
  <2>7. /\ y[2] \in DOMAIN got'[o.call] <=> y[2] \in DOMAIN got[o.call]
        /\ y[2] \in DOMAIN got[o.call] => got'[o.call][y[2]] = got[o.call][y[2]]
    BY <2>1
  <2>8. Found(y)' = Found(y)
    BY <1>2, <2>4, <2>6, <2>7 DEF Found
  <2> QED
    BY <2>5, <2>8
<1> QED
  BY <1>1, <1>2

\* Nothing is seen when its word is as open as before and as found.
LEMMA PlainStutter ==
  ASSUME RInv, NEW o, NEW New, Moving(o, New), ~ Looped(o.call), NEW w \in Word, OnWord(o, w), mem' = mem,
         \A v \in Word \ {w} : /\ v \in DOMAIN got'[o.call] <=> v \in DOMAIN got[o.call]
                               /\ v \in DOMAIN got[o.call] => got'[o.call][v] = got[o.call][v],
         <<o.call, w>> \in Pending' <=> <<o.call, w>> \in Pending,
         Found(<<o.call, w>>)' = Found(<<o.call, w>>)
  PROVE  Stays
<1>1. ASSUME NEW y \in Call \X Word
      PROVE  (y \in Pending' <=> y \in Pending) /\ Found(y)' = Found(y)
  <2>1. CASE y = <<o.call, w>>
    BY <2>1
  <2>2. CASE y # <<o.call, w>>
    BY <2>2, PlainOthers
  <2> QED
    BY <2>1, <2>2
<1>2. Pending' = Pending
  BY <1>1 DEF Pending
<1>3. prog' = prog /\ native' = native /\ Begun' = Begun
  BY MovingFrame DEF Moving
<1> QED
  BY <1>1, <1>2, <1>3, AbsStutter

LEMMA ReadSourceStep ==
  ASSUME RInv, NEW o \in net, ReadSource(o)
  PROVE  RInv' /\ Stays
<1>1. /\ o.do = "store" /\ o.val = None
      /\ UNCHANGED <<native, prog, at, stage, orig, got, mem, epoch>>
  BY DEF ReadSource
<1>2. ~ Looped(o.call) /\ Fits(o)
  BY <1>1 DEF RInv, Posted, Fits, OnCell
<1>3. PICK w \in Word : OnWord(o, w)
  BY <1>2 DEF Fits
<1>4. /\ o.call \in Call /\ o.on = {w} /\ Has(o.call, w) /\ o \in Operation
      /\ IsCall(The(o.call)) /\ w \in WordsOf(The(o.call))
      /\ \A p \in net : p.call = o.call /\ w \in p.on => p = o
      /\ w \notin DOMAIN got[o.call]
      /\ <<o.call, w>> \in Pending <=> o.answer = None
  BY <1>2, <1>3, PlainIs
<1>5. /\ Want(<<o.call, w>>).do = "store" /\ ~ Want(<<o.call, w>>).fetch
      /\ Want(<<o.call, w>>).val = The(o.call).put[w] /\ The(o.call).put[w] \in Value
  <2>1. o.do = Want(<<o.call, w>>).do
    BY <1>3 DEF OnWord, AsWanted
  <2>2. w \notin The(o.call).get
    BY <2>1, <1>1, <1>4, WantLoad
  <2>3. w # The(o.call).word \/ w \in DOMAIN The(o.call).put
    <3> SUFFICES ASSUME w = The(o.call).word PROVE FALSE
      OBVIOUS
    <3>1. /\ The(o.call).do \in {"swap", "cswap", "add", "and", "or", "xor"}
          /\ Want(<<o.call, w>>) = [call |-> o.call, word |-> w, do |-> The(o.call).do, val |-> The(o.call).val,
                                   comp |-> The(o.call).comp, fetch |-> Fetching(The(o.call))]
      BY <1>4, WantAtomic
    <3>2. Want(<<o.call, w>>).do = The(o.call).do
      BY <3>1
    <3> QED
      BY <3>1, <3>2, <2>1, <1>1
  <2>4. w \in DOMAIN The(o.call).put
    BY <2>2, <2>3, <1>4 DEF WordsOf
  <2> QED
    BY <2>4, <1>4, WantStore
<1>6. o.answer = None /\ ~ o.fetch
  BY <1>3, <1>5 DEF OnWord, AsWanted
<1>7. ~ GivenBack(o)
  BY <1>1 DEF RInv, Unread
<1>8. PICK v : v = [x \in {w} |-> The(o.call).put[w]]
  OBVIOUS
<1>9. PICK p : p = [o EXCEPT !.val = v]
  OBVIOUS
<1>10. net' = (net \ {o}) \cup {p}
  <2>1. net' = (net \ {o}) \cup {[o EXCEPT !.val = [x \in o.on |-> The(o.call).put[x]]]}
    BY <1>7 DEF ReadSource, The
  <2>2. [x \in o.on |-> The(o.call).put[x]] = v
    BY <1>4, <1>8
  <2> QED
    BY <2>1, <2>2, <1>9
<1>11. v \in Buffer /\ v # None
  BY <1>5, <1>8, BufferOne
<1>12. /\ p \in Operation /\ p.call = o.call /\ p.ctx = o.ctx /\ p.on = o.on /\ p.do = o.do
       /\ p.fetch = o.fetch /\ p.answer = None /\ p.val = v
  BY <1>4, <1>6, <1>9, <1>11 DEF Operation
<1>13. OnWord(p, w)
  BY <1>1, <1>3, <1>5, <1>6, <1>8, <1>12 DEF OnWord, AsWanted
<1>14. Fits(p)
  BY <1>2, <1>12, <1>13 DEF Fits
<1>15. Moving(o, {p})
  BY <1>1, <1>10, <1>11, <1>12, <1>14 DEF Moving, RInv, TypeOK
<1>16. RInv'
  BY <1>1, <1>2, <1>15, MovingBuffers, MovingInv
<1>17. <<o.call, w>> \in Pending' /\ <<o.call, w>> \in Pending
  <2>1. p \in net' /\ w \in p.on
    BY <1>4, <1>10, <1>12
  <2> QED
    BY <2>1, <1>2, <1>4, <1>6, <1>12, <1>15, MovingFrame DEF Pending
<1>18. Landed(<<o.call, w>>)' = {} /\ Landed(<<o.call, w>>) = {}
  BY <1>4, <1>6, <1>10, <1>12 DEF Landed
<1>19. Found(<<o.call, w>>)' = Found(<<o.call, w>>)
  BY <1>1, <1>2, <1>4, <1>18, FoundSame
<1> QED
  BY <1>1, <1>2, <1>3, <1>15, <1>16, <1>17, <1>19, PlainStutter

\* What an operation on one word makes of it is what the abstract one does.
LEMMA AfterIs ==
  ASSUME RInv, NEW o \in net, ~ Looped(o.call), NEW w \in Word, OnWord(o, w), MayLand(o),
         NEW old, old = [v \in {w} |-> mem[w]]
  PROVE  /\ After(o, old)[w] = M!Outcome(Want(<<o.call, w>>), mem[w])
         /\ M!Outcome(Want(<<o.call, w>>), mem[w]) \in Value
<1> DEFINE a == Want(<<o.call, w>>)
<1> SUFFICES After(o, old)[w] = M!Outcome(a, mem[w]) /\ M!Outcome(a, mem[w]) \in Value
  OBVIOUS
<1>1. /\ o.on = {w} /\ IsCall(The(o.call)) /\ w \in WordsOf(The(o.call)) /\ o.call \in Call
  BY PlainIs
<1>2. a \in M!Operation
  BY <1>1, WantType
<1>3. /\ o.do = a.do
      /\ o.do = "store" => o.val = [v \in {w} |-> a.val]
      /\ o.do \notin {"store", "load"} => o.val = [v \in {w} |-> a.val] /\ o.comp = [v \in {w} |-> a.comp]
  BY DEF OnWord, AsWanted, MayLand
<1>4. mem[w] \in Value
  BY DEF RInv, TypeOK
<1> HIDE DEF a
<1>5. /\ a.do \in {"load", "store", "swap", "cswap", "add", "and", "or", "xor"}
      /\ a.val \in Value /\ a.comp \in Value
  BY <1>2 DEF M!Operation
<1>6. CASE o.do = "load"
  BY <1>3, <1>4, <1>6 DEF After, M!Outcome
<1>7. CASE o.do \in {"store", "swap"}
  BY <1>3, <1>5, <1>7 DEF After, M!Outcome
<1>8. CASE o.do = "cswap"
  <2>1. o.val = [v \in {w} |-> a.val] /\ o.comp = [v \in {w} |-> a.comp]
    BY <1>3, <1>8
  <2>2. old = o.comp <=> mem[w] = a.comp
    <3>1. old = o.comp => mem[w] = a.comp
      <4>1. old[w] = mem[w] /\ o.comp[w] = a.comp
        BY <2>1
      <4> QED
        BY <4>1
    <3>2. mem[w] = a.comp => old = o.comp
      BY <2>1
    <3> QED
      BY <3>1, <3>2
  <2> QED
    BY <2>1, <2>2, <1>3, <1>4, <1>5, <1>8 DEF After, M!Outcome
<1>9. CASE o.do \in Arithmetic
  <2>1. o.val[w] = a.val /\ w \in o.on
    BY <1>1, <1>3, <1>9 DEF Arithmetic
  <2>2. o.do \notin {"load", "store", "swap", "cswap"}
    BY <1>9 DEF Arithmetic
  <2>3. After(o, old)[w] = Combine(o.do, mem[w], a.val)
    BY <2>1, <2>2 DEF After
  <2>4. M!Outcome(a, mem[w]) = Combine(o.do, mem[w], a.val)
    BY <1>3, <2>2 DEF M!Outcome
  <2>5. Combine(o.do, mem[w], a.val) \in Value
    BY <1>4, <1>5, <1>9, MemoryAssumption
  <2> QED
    BY <2>3, <2>4, <2>5
<1> QED
  BY <1>3, <1>5, <1>6, <1>7, <1>8, <1>9 DEF Arithmetic

LEMMA LandPlainStep ==
  ASSUME RInv, NEW o \in net, ~ Looped(o.call), Land(o)
  PROVE  RInv' /\ Takes(o)
<1>0. PICK old : old = [v \in o.on |-> mem[v]]
  OBVIOUS
<1>1. /\ MayLand(o) /\ o.answer = None
      /\ mem' = [v \in Word |-> IF v \in o.on THEN After(o, old)[v] ELSE mem[v]]
      /\ UNCHANGED <<native, prog, at, stage, orig, got, epoch>>
  BY <1>0 DEF Land, MayLand
<1>2. Fits(o)
  BY DEF RInv, Posted
<1>3. PICK w \in Word : OnWord(o, w)
  BY <1>2 DEF Fits
<1>4. /\ o.call \in Call /\ o.on = {w} /\ Has(o.call, w) /\ o \in Operation
      /\ \A p \in net : p.call = o.call /\ w \in p.on => p = o
      /\ w \notin DOMAIN got[o.call]
      /\ <<o.call, w>> \in Pending
  BY <1>1, <1>3, PlainIs
<1>5. old = [v \in {w} |-> mem[w]] /\ mem[w] \in Value /\ mem \in [Word -> Value]
  BY <1>0, <1>4 DEF RInv, TypeOK
<1>6. /\ After(o, old)[w] = M!Outcome(Want(<<o.call, w>>), mem[w])
      /\ M!Outcome(Want(<<o.call, w>>), mem[w]) \in Value
  BY <1>1, <1>3, <1>5, AfterIs
<1>7. /\ mem' = [mem EXCEPT ![w] = M!Outcome(Want(<<o.call, w>>), mem[w])]
      /\ mem' \in [Word -> Value]
  BY <1>1, <1>4, <1>5, <1>6
<1>8. old \in [{w} -> Value] /\ old \in Buffer /\ old # None /\ old[w] = mem[w]
  BY <1>5, BufferOne
<1>9. PICK p : p = [o EXCEPT !.answer = old]
  OBVIOUS
<1>10. PICK New : New = IF o.fetch THEN {p} ELSE {}
  OBVIOUS
<1>11. net' = (net \ {o}) \cup New
  BY <1>0, <1>9, <1>10 DEF Land
<1>12. /\ p \in Operation /\ p.call = o.call /\ p.ctx = o.ctx /\ p.on = o.on /\ p.do = o.do
       /\ p.fetch = o.fetch /\ p.answer = old /\ p.val = o.val /\ p.comp = o.comp
  BY <1>4, <1>8, <1>9 DEF Operation
<1>13. o.fetch => OnWord(p, w)
  BY <1>3, <1>8, <1>12 DEF OnWord, AsWanted
<1>14. o.fetch => Fits(p)
  BY <1>2, <1>12, <1>13 DEF Fits
<1>15. o.do = "store" => o.val # None
  BY <1>1 DEF MayLand
<1>16. \A q \in New : q = p /\ o.fetch
  BY <1>10
<1>17. Moving(o, New)
  BY <1>1, <1>7, <1>11, <1>12, <1>14, <1>15, <1>16 DEF Moving, RInv, TypeOK
<1>18. RInv'
  BY <1>1, <1>17, MovingBuffers, MovingInv
<1>19. PICK x \in Pending : x = <<o.call, w>>
  BY <1>4
<1>20. x[1] = o.call /\ x[2] = w
  BY <1>19
<1>21. x \notin Pending'
  <2>1. ASSUME NEW q \in net', q.call = o.call, w \in q.on PROVE q.answer # None
    <3>1. q \in New
      BY <2>1, <1>4, <1>11
    <3> QED
      BY <3>1, <1>8, <1>12, <1>16
  <2>2. ~ Looped(x[1])'
    BY <1>17, <1>20, MovingFrame
  <2> QED
    BY <2>1, <2>2, <1>20 DEF Pending
<1>22. Landed(x) = {} /\ Landed(x)' = New
  <2>1. Landed(x) = {}
    BY <1>1, <1>4, <1>20 DEF Landed
  <2>2. \A q \in New : q.call = x[1] /\ x[2] \in q.on /\ q.answer # None
    BY <1>4, <1>8, <1>12, <1>16, <1>20
  <2>3. Landed(x)' = New
    BY <2>1, <2>2, <1>4, <1>11, <1>20 DEF Landed
  <2> QED
    BY <2>1, <2>3
<1>23. Found(x)' = IF o.fetch THEN mem[w] ELSE None
  <2>1. o.fetch => (CHOOSE q \in New : TRUE) = p
    BY <1>10, Chosen
  <2>2. Found(x)' = IF New # {} THEN (CHOOSE q \in New : TRUE).answer[w] ELSE None
    <3>1. ~ Looped(o.call)'
      BY <1>17, MovingFrame
    <3> QED
      BY <3>1, <1>1, <1>4, <1>20, <1>22 DEF Found
  <2> QED
    BY <2>1, <2>2, <1>8, <1>10, <1>12
<1>24. Found(x) = None
  BY <1>4, <1>20, <1>22 DEF Found
<1>25. Want(x).fetch <=> o.fetch
  BY <1>3, <1>19 DEF OnWord, AsWanted
<1>26. \A y \in Call \X Word : y # x => (y \in Pending' <=> y \in Pending) /\ Found(y)' = Found(y)
  BY <1>1, <1>3, <1>17, <1>19, PlainOthers
<1>27. Pending' = Pending \ {x}
  BY <1>21, <1>26 DEF Pending
<1>28. \A y \in Call \X Word : Found(y)' = IF y = x /\ Want(x).fetch THEN mem[x[2]] ELSE Found(y)
  BY <1>20, <1>23, <1>24, <1>25, <1>26
<1>29. mem' = [mem EXCEPT ![x[2]] = M!Outcome(Want(x), mem[x[2]])]
  BY <1>7, <1>19, <1>20
<1>30. prog' = prog /\ native' = native /\ Begun' = Begun
  BY <1>1, <1>17, MovingFrame
<1>31. M!Effect
  BY <1>27, <1>28, <1>29, <1>30, PendingBegun, AbsEffect DEF RInv
<1>32. \A y \in Pending \ Pending' : y[1] = o.call /\ y[2] \in o.on
  BY <1>4, <1>20, <1>27
<1> QED
  BY <1>18, <1>30, <1>31, <1>32 DEF Takes

\* The result buffer of its call after an answer has been delivered.
LEMMA DeliverIs ==
  ASSUME RInv, NEW o \in net, Deliver(o)
  PROVE  /\ o.answer # None /\ o.call \in Call /\ net' = net \ {o}
         /\ UNCHANGED <<native, prog, at, stage, orig, mem, epoch>>
         /\ o.answer \in [o.on -> Value] /\ o.on \subseteq Word
         /\ got'[o.call] = [v \in DOMAIN got[o.call] \cup o.on |->
                              IF v \in o.on THEN o.answer[v] ELSE got[o.call][v]]
         /\ Moving(o, {})
<1>1. /\ o.answer # None /\ net' = net \ {o}
      /\ UNCHANGED <<native, prog, at, stage, orig, mem, epoch>>
  BY DEF Deliver
<1>2. PICK b : b = [v \in DOMAIN got[o.call] \cup o.on |-> IF v \in o.on THEN o.answer[v] ELSE got[o.call][v]]
  OBVIOUS
<1>3. o.call \in Call /\ o.on \subseteq Word /\ got \in [Call -> Buffer]
  BY DEF RInv, TypeOK, Operation
<1>4. got' = [got EXCEPT ![o.call] = b]
  BY <1>2 DEF Deliver
<1>5. o.answer \in [o.on -> Value]
  <2>1. Fits(o)
    BY DEF RInv, Posted
  <2>2. CASE Looped(o.call)
    BY <1>1, <2>1, <2>2 DEF Fits, OnCell
  <2>3. CASE ~ Looped(o.call)
    BY <1>1, <2>1, <2>3 DEF Fits, OnWord, AsWanted
  <2> QED
    BY <2>2, <2>3
<1>6. DOMAIN got[o.call] \subseteq Word /\ got[o.call] \in [DOMAIN got[o.call] -> Value]
  BY <1>3, BufferIs
<1>7. b \in Buffer
  <2>1. b \in [DOMAIN got[o.call] \cup o.on -> Value]
    BY <1>2, <1>5, <1>6
  <2>2. DOMAIN got[o.call] \cup o.on \in SUBSET Word
    BY <1>3, <1>6
  <2> QED
    BY <2>1, <2>2, BufferMade
<1>8. got' \in [Call -> Buffer] /\ got'[o.call] = b /\ \A d \in Call : d # o.call => got'[d] = got[d]
  BY <1>3, <1>4, <1>7
<1>9. mem' \in [Word -> Value]
  BY <1>1 DEF RInv, TypeOK
<1>10. Moving(o, {})
  BY <1>1, <1>8, <1>9 DEF Moving
<1> QED
  BY <1>1, <1>2, <1>3, <1>5, <1>8, <1>10

LEMMA DeliverPlainStep ==
  ASSUME RInv, NEW o \in net, ~ Looped(o.call), Deliver(o)
  PROVE  RInv' /\ Stays
<1>1. /\ o.answer # None /\ o.call \in Call /\ net' = net \ {o} /\ mem' = mem /\ at' = at
      /\ got'[o.call] = [v \in DOMAIN got[o.call] \cup o.on |->
                              IF v \in o.on THEN o.answer[v] ELSE got[o.call][v]]
      /\ Moving(o, {}) /\ o.on \subseteq Word
  BY DeliverIs
<1>2. Fits(o)
  BY DEF RInv, Posted
<1>3. PICK w \in Word : OnWord(o, w)
  BY <1>2 DEF Fits
<1>4. /\ o.on = {w} /\ Has(o.call, w)
      /\ \A p \in net : p.call = o.call /\ w \in p.on => p = o
      /\ w \notin DOMAIN got[o.call]
      /\ <<o.call, w>> \notin Pending
  BY <1>1, <1>3, PlainIs
<1>5. \A d : (Looped(d)' <=> Looped(d)) /\ The(d)' = The(d)
  BY <1>1, MovingFrame
<1>6. \A d, v : Has(d, v)' <=> Has(d, v)
  BY <1>1, MovingFrame
<1>7. \A d \in Call : d # o.call => got'[d] = got[d]
  BY <1>1 DEF Moving
<1>8. Buffers'
  <2>1. ASSUME NEW d \in Call, Looped(d)
        PROVE  /\ DOMAIN got'[d] \in {{}, Cell(The(d).word)}
               /\ d = Me(d[1]) /\ InLoop(d[1]) /\ Mine(d[1])' = {} => DOMAIN got'[d] # {}
    <3>1. d # o.call /\ got'[d] = got[d]
      BY <2>1, <1>7
    <3>2. d = Me(d[1]) => Mine(d[1])' = Mine(d[1])
      BY <3>1, <1>1 DEF Mine, Me
    <3> QED
      BY <3>1, <3>2, <2>1 DEF RInv, Buffers
  <2>2. ASSUME NEW d \in Call, ~ Looped(d), NEW v \in DOMAIN got'[d]
        PROVE  Has(d, v) /\ \A p \in net' : p.call = d => v \notin p.on
    <3>1. CASE v \in DOMAIN got[d]
      BY <3>1, <2>2, <1>1 DEF RInv, Buffers
    <3>2. CASE v \notin DOMAIN got[d]
      <4>1. d = o.call
        BY <3>2, <2>2, <1>7
      <4>2. v = w
        BY <4>1, <3>2, <2>2, <1>1, <1>4
      <4> QED
        BY <4>1, <4>2, <1>1, <1>4
    <3> QED
      BY <3>1, <3>2
  <2> QED
    BY <2>1, <2>2, <1>1, MovingFrame DEF Buffers
<1>9. RInv'
  BY <1>1, <1>8, MovingInv
<1>10. <<o.call, w>> \notin Pending'
  BY <1>1, <1>4, <1>5 DEF Pending
<1>11. Landed(<<o.call, w>>) = {o}
  BY <1>1, <1>4 DEF Landed
<1>12. (CHOOSE q \in {o} : TRUE) = o
  BY Chosen
<1>13. Found(<<o.call, w>>) = o.answer[w]
  BY <1>4, <1>11, <1>12 DEF Found
<1>14. Found(<<o.call, w>>)' = o.answer[w]
  <2>1. w \in DOMAIN got'[o.call] /\ got'[o.call][w] = o.answer[w]
    BY <1>1, <1>4
  <2> QED
    BY <2>1, <1>5 DEF Found
<1>15. \A v \in Word \ {w} : /\ v \in DOMAIN got'[o.call] <=> v \in DOMAIN got[o.call]
                             /\ v \in DOMAIN got[o.call] => got'[o.call][v] = got[o.call][v]
  BY <1>1, <1>4
<1> QED
  BY <1>1, <1>3, <1>4, <1>9, <1>10, <1>13, <1>14, <1>15, PlainStutter

\* The operation of a loop is the only one of its call.
LEMMA LoopIs ==
  ASSUME RInv, NEW o \in net, Looped(o.call)
  PROVE  /\ o \in Operation /\ o.call \in Call /\ o.call[1] \in Thread /\ o.call = Me(o.call[1])
         /\ InLoop(o.call[1]) /\ Mine(o.call[1]) = {o} /\ OnCell(o) /\ Fits(o)
         /\ IsCall(The(o.call)) /\ The(o.call).op \in CasOps
         /\ The(o.call).word \in Word /\ WordsOf(The(o.call)) = {The(o.call).word}
         /\ The(o.call).word \in Cell(The(o.call).word) /\ Cell(The(o.call).word) \subseteq Word
         /\ Now(o.call[1]) = The(o.call)
         /\ stage[o.call[1]] = "cas" => orig[o.call[1]] \in [Cell(The(o.call).word) -> Value]
<1>1. o \in Operation /\ o.call \in Call /\ o.call[1] \in Thread
  BY DEF RInv, TypeOK, Operation, Call
<1>2. Fits(o)
  BY DEF RInv, Posted
<1>3. OnCell(o) /\ o.call = Me(o.call[1]) /\ o.call[2] <= Len(prog[o.call[1]]) /\ InLoop(o.call[1])
  BY <1>2 DEF Fits, OnCell, InLoop
<1>4. IsCall(The(o.call)) /\ The(o.call).op \in CasOps
  BY <1>1, <1>3, CallIs DEF RInv, Looped, The
<1>5. The(o.call).word \in Word /\ WordsOf(The(o.call)) = {The(o.call).word}
  BY <1>4, WordsAre DEF IsCall, WithWord, CasOps
<1>6. The(o.call).word \in Cell(The(o.call).word) /\ Cell(The(o.call).word) \subseteq Word
  BY <1>5, CellIs
<1>7. \A p \in net : p.call = o.call => p = o
  <2> SUFFICES ASSUME NEW p \in net, p.call = o.call PROVE p = o
    OBVIOUS
  <2>1. OnCell(p)
    BY DEF RInv, Posted, Fits
  <2>2. p.on \cap o.on # {}
    BY <2>1, <1>3, <1>6 DEF OnCell
  <2> QED
    BY <2>2 DEF RInv, Alone
<1>8. Mine(o.call[1]) = {o}
  BY <1>3, <1>7 DEF Mine, Me
<1>9. Now(o.call[1]) = The(o.call)
  BY <1>3 DEF Now, The, Me
<1>10. stage[o.call[1]] = "cas" => orig[o.call[1]] \in [Cell(The(o.call).word) -> Value]
  BY <1>1, <1>9 DEF RInv, Origs
<1> QED
  BY <1>1, <1>2, <1>3, <1>4, <1>5, <1>6, <1>8, <1>9, <1>10

\* What is seen of a loop follows from whether it has swapped.
LEMMA LoopSeen ==
  ASSUME RInv, NEW o \in net, Looped(o.call), NEW New, Moving(o, New), NEW y \in Call \X Word, y[1] = o.call
  PROVE  /\ y \in Pending <=> ~ Swapped(o.call[1]) /\ y[2] = The(o.call).word
         /\ y \in Pending' <=> ~ Swapped(o.call[1])' /\ y[2] = The(o.call).word
         /\ Found(y) = IF Swapped(o.call[1]) /\ y[2] = The(o.call).word /\ The(o.call).op # "bitwise"
                       THEN orig[o.call[1]][y[2]] ELSE None
         /\ Found(y)' = IF Swapped(o.call[1])' /\ y[2] = The(o.call).word /\ The(o.call).op # "bitwise"
                        THEN orig[o.call[1]][y[2]] ELSE None
<1> DEFINE t == o.call[1]
<1>0. PICK c : c = o.call
  OBVIOUS
<1>1. c = <<t, at[t]>> /\ stage[t] \in {"load", "cas"} /\ Now(t) = The(c) /\ t \in Thread
  BY <1>0, LoopIs DEF Me, InLoop
<1>2. ~ (at[t] < at[t]) /\ c[1] = t /\ c[2] = at[t]
  BY <1>1 DEF RInv, TypeOK
<1>3. y \in Pending <=> ~ Swapped(t) /\ y[2] = The(c).word
  BY <1>0, <1>1, <1>2 DEF Pending
<1>4. Found(y) = IF Swapped(t) /\ y[2] = The(c).word /\ The(c).op # "bitwise" THEN orig[t][y[2]] ELSE None
  BY <1>0, <1>1, <1>2 DEF Found, The
<1>5. prog' = prog /\ at' = at /\ stage' = stage /\ orig' = orig
  BY DEF Moving
<1>6. Looped(c)' /\ The(c)' = The(c) /\ Now(t)' = Now(t)
  <2>1. (\A d : (Looped(d)' <=> Looped(d)) /\ The(d)' = The(d)) /\ \A s : Now(s)' = Now(s)
    BY MovingFrame
  <2> QED
    BY <2>1, <1>0
<1>7. y \in Pending' <=> ~ Swapped(t)' /\ y[2] = The(c).word
  BY <1>0, <1>1, <1>2, <1>5, <1>6 DEF Pending
<1>8. Found(y)' = IF Swapped(t)' /\ y[2] = The(c).word /\ The(c).op # "bitwise" THEN orig[t][y[2]] ELSE None
  BY <1>0, <1>1, <1>2, <1>5, <1>6 DEF Found, The
<1> QED
  BY <1>0, <1>3, <1>4, <1>7, <1>8

\* Nothing is seen when the loop has swapped as little or as much as before.
LEMMA LoopStutter ==
  ASSUME RInv, NEW o \in net, Looped(o.call), NEW New, Moving(o, New), mem' = mem,
         Swapped(o.call[1])' <=> Swapped(o.call[1])
  PROVE  Stays
<1>1. ASSUME NEW y \in Call \X Word
      PROVE  (y \in Pending' <=> y \in Pending) /\ Found(y)' = Found(y)
  <2>1. CASE y[1] = o.call
    BY <2>1, LoopSeen
  <2>2. CASE y[1] # o.call
    BY <2>2, MovingOthers
  <2> QED
    BY <2>1, <2>2
<1>2. Pending' = Pending
  BY <1>1 DEF Pending
<1>3. prog' = prog /\ native' = native /\ Begun' = Begun
  BY MovingFrame DEF Moving
<1> QED
  BY <1>1, <1>2, <1>3, AbsStutter

LEMMA DeliverLoopStep ==
  ASSUME RInv, NEW o \in net, Looped(o.call), Deliver(o)
  PROVE  RInv' /\ Stays
<1> DEFINE t == o.call[1]
           C == Cell(The(o.call).word)
<1>1. /\ o.answer # None /\ o.call \in Call /\ net' = net \ {o} /\ mem' = mem /\ at' = at
      /\ stage' = stage /\ orig' = orig /\ o.answer \in [o.on -> Value]
      /\ got'[o.call] = [v \in DOMAIN got[o.call] \cup o.on |->
                              IF v \in o.on THEN o.answer[v] ELSE got[o.call][v]]
      /\ Moving(o, {})
  BY DeliverIs
<1>2. /\ t \in Thread /\ o.call = <<t, at[t]>> /\ stage[t] \in {"load", "cas"} /\ Mine(t) = {o}
      /\ o.on = C /\ The(o.call).word \in C
  BY LoopIs DEF Me, InLoop, OnCell
<1>3. DOMAIN got[o.call] \in {{}, C}
  BY <1>1 DEF RInv, Buffers
<1>4. got'[o.call] = o.answer /\ DOMAIN got'[o.call] = C
  BY <1>1, <1>2, <1>3
<1>5. \A d \in Call : d # o.call => got'[d] = got[d]
  BY <1>1 DEF Moving
<1>6. Buffers'
  <2>1. ASSUME NEW d \in Call, Looped(d)
        PROVE  /\ DOMAIN got'[d] \in {{}, Cell(The(d).word)}
               /\ d = Me(d[1]) /\ InLoop(d[1]) /\ Mine(d[1])' = {} => DOMAIN got'[d] # {}
    <3>1. CASE d = o.call
      BY <3>1, <1>2, <1>4
    <3>2. CASE d # o.call
      <4>1. got'[d] = got[d]
        BY <3>2, <1>5
      <4>2. d = Me(d[1]) => Mine(d[1])' = Mine(d[1])
        BY <3>2, <1>1 DEF Mine, Me
      <4> QED
        BY <4>1, <4>2, <2>1 DEF RInv, Buffers
    <3> QED
      BY <3>1, <3>2
  <2>2. ASSUME NEW d \in Call, ~ Looped(d), NEW v \in DOMAIN got'[d]
        PROVE  Has(d, v) /\ \A p \in net' : p.call = d => v \notin p.on
    <3>1. got'[d] = got[d]
      BY <2>2, <1>5
    <3> QED
      BY <3>1, <2>2, <1>1 DEF RInv, Buffers
  <2> QED
    BY <2>1, <2>2, <1>1, MovingFrame DEF Buffers
<1>7. RInv'
  BY <1>1, <1>6, MovingInv
<1>8. Mine(t)' = {}
  BY <1>1, <1>2 DEF Mine
<1>9. Swapped(t)' <=> stage[t] = "cas" /\ o.answer = orig[t]
  BY <1>1, <1>2, <1>4, <1>8 DEF Swapped
<1>10. Swapped(t) <=> stage[t] = "cas" /\ o.answer = orig[t]
  BY <1>2 DEF Swapped
<1> QED
  BY <1>1, <1>7, <1>9, <1>10, LoopStutter

\* A compare-and-swap that finds what the loop has read is the effect of the
\* loop; any other operation of a loop leaves the memory alone.
LEMMA LandLoopStep ==
  ASSUME RInv, NEW o \in net, Looped(o.call), Land(o)
  PROVE  RInv' /\ (Takes(o) \/ Stays)
<1> DEFINE t == o.call[1]
           k == The(o.call)
           C == Cell(k.word)
<1>0. PICK old : old = [v \in o.on |-> mem[v]]
  OBVIOUS
<1>1. /\ o.answer = None
      /\ mem' = [v \in Word |-> IF v \in o.on THEN After(o, old)[v] ELSE mem[v]]
      /\ UNCHANGED <<native, prog, at, stage, orig, got, epoch>>
  BY <1>0 DEF Land, MayLand
<1>2. /\ o \in Operation /\ o.call \in Call /\ t \in Thread /\ o.call = <<t, at[t]>>
      /\ Mine(t) = {o} /\ OnCell(o) /\ Fits(o) /\ Now(t) = k
      /\ IsCall(k) /\ k.op \in CasOps /\ k.word \in Word /\ WordsOf(k) = {k.word}
      /\ k.word \in C /\ C \subseteq Word
      /\ stage[t] = "cas" => orig[t] \in [C -> Value]
  BY LoopIs DEF Me
<1>3. /\ o.on = C /\ o.fetch
      /\ \/ stage[t] = "load" /\ o.do = "load"
         \/ stage[t] = "cas" /\ o.do = "cswap" /\ o.val = Combined(k, orig[t]) /\ o.comp = orig[t]
  BY <1>2 DEF OnCell
<1>4. mem \in [Word -> Value]
  BY DEF RInv, TypeOK
<1>5. old = [v \in C |-> mem[v]] /\ old \in [C -> Value]
  BY <1>0, <1>2, <1>3, <1>4
<1>6. old \in Buffer /\ old # None
  BY <1>2, <1>5, BufferMade
<1>7. PICK p : p = [o EXCEPT !.answer = old]
  OBVIOUS
<1>8. net' = (net \ {o}) \cup {p}
  BY <1>0, <1>3, <1>7 DEF Land
<1>9. /\ p \in Operation /\ p.call = o.call /\ p.ctx = o.ctx /\ p.on = o.on /\ p.do = o.do
      /\ p.fetch = o.fetch /\ p.answer = old /\ p.val = o.val /\ p.comp = o.comp
  BY <1>2, <1>6, <1>7 DEF Operation
<1>10. OnCell(p)
  BY <1>2, <1>5, <1>9 DEF OnCell
<1>11. Fits(p)
  BY <1>2, <1>9, <1>10 DEF Fits
<1>12. stage[t] = "cas" =>
         /\ Combined(k, orig[t]) \in [C -> Value] /\ k.do \in Arithmetic
         /\ \A v \in C : Combined(k, orig[t])[v] =
                           IF v = k.word THEN Combine(k.do, orig[t][v], k.val) ELSE orig[t][v]
  BY <1>2, CombinedIs
<1>13. After(o, old) = IF stage[t] = "cas" /\ old = orig[t] THEN Combined(k, orig[t]) ELSE old
  BY <1>3 DEF After
<1>14. After(o, old) \in [C -> Value]
  BY <1>5, <1>12, <1>13
<1>15. mem' \in [Word -> Value]
  BY <1>1, <1>3, <1>4, <1>14
<1>16. o.do # "store"
  BY <1>3
<1>17. Moving(o, {p})
  BY <1>1, <1>8, <1>9, <1>11, <1>15, <1>16 DEF Moving, RInv, TypeOK
<1>18. RInv'
  BY <1>1, <1>17, MovingBuffers, MovingInv
<1>19. Mine(t)' = {p}
  BY <1>1, <1>2, <1>8, <1>9 DEF Mine
<1>20. Swapped(t)' <=> stage[t] = "cas" /\ old = orig[t]
  BY <1>1, <1>9, <1>19 DEF Swapped
<1>21. ~ Swapped(t)
  <2>1. stage[t] = "cas" => orig[t] # None
    BY <1>2, BufferMade
  <2> QED
    BY <2>1, <1>1, <1>2 DEF Swapped
<1>22. CASE ~ (stage[t] = "cas" /\ old = orig[t])
  <2>1. mem' = mem
    BY <1>1, <1>3, <1>4, <1>5, <1>13, <1>22
  <2> QED
    BY <2>1, <1>17, <1>18, <1>20, <1>21, <1>22, LoopStutter
<1>23. CASE stage[t] = "cas" /\ old = orig[t]
  <2>0. PICK x \in Call \X Word : x = <<o.call, k.word>>
    BY <1>2
  <2>1. x[1] = o.call /\ x[2] = k.word
    BY <2>0
  <2>2. Want(x) = [call |-> o.call, word |-> k.word, do |-> k.do, val |-> k.val,
                   comp |-> k.comp, fetch |-> Fetching(k)]
    BY <2>0, <1>2, WantAtomic
  <2>3. Want(x).fetch = Fetching(k) /\ Want(x).do = k.do /\ Want(x).val = k.val
    BY <2>2
  <2>4. Want(x).fetch <=> k.op # "bitwise"
    BY <2>3, <1>2 DEF Fetching, CasOps
  <2>5. M!Outcome(Want(x), mem[k.word]) = Combine(k.do, mem[k.word], k.val)
    <3>1. k.do \notin {"load", "store", "swap", "cswap"}
      BY <1>12, <1>23 DEF Arithmetic
    <3> QED
      BY <2>3, <3>1 DEF M!Outcome
  <2>6. mem' = [mem EXCEPT ![x[2]] = M!Outcome(Want(x), mem[x[2]])]
    <3>1. \A v \in C : After(o, old)[v] = IF v = k.word THEN Combine(k.do, mem[v], k.val) ELSE mem[v]
      BY <1>5, <1>12, <1>13, <1>23
    <3>2. mem' = [v \in Word |-> IF v = k.word THEN Combine(k.do, mem[v], k.val) ELSE mem[v]]
      BY <3>1, <1>1, <1>2, <1>3
    <3> QED
      BY <3>2, <2>1, <2>5, <1>2, <1>4
  <2>7. \A y \in Call \X Word : y[1] = o.call =>
          /\ y \in Pending <=> y = x
          /\ y \notin Pending'
          /\ Found(y) = None
          /\ Found(y)' = IF y = x /\ Want(x).fetch THEN mem[x[2]] ELSE None
    <3> SUFFICES ASSUME NEW y \in Call \X Word, y[1] = o.call
                 PROVE  /\ y \in Pending <=> y = x
                        /\ y \notin Pending'
                        /\ Found(y) = None
                        /\ Found(y)' = IF y = x /\ Want(x).fetch THEN mem[x[2]] ELSE None
      OBVIOUS
    <3>1. /\ y \in Pending <=> ~ Swapped(t) /\ y[2] = k.word
          /\ y \in Pending' <=> ~ Swapped(t)' /\ y[2] = k.word
          /\ Found(y) = IF Swapped(t) /\ y[2] = k.word /\ k.op # "bitwise" THEN orig[t][y[2]] ELSE None
          /\ Found(y)' = IF Swapped(t)' /\ y[2] = k.word /\ k.op # "bitwise" THEN orig[t][y[2]] ELSE None
      BY <1>17, LoopSeen
    <3>2. y = x <=> y[2] = k.word
      BY <2>0
    <3>3. orig[t][k.word] = mem[k.word]
      BY <1>2, <1>5, <1>23
    <3> QED
      BY <3>1, <3>2, <3>3, <2>1, <2>4, <1>20, <1>21, <1>23
  <2>8. \A y \in Call \X Word : y[1] # o.call => (y \in Pending' <=> y \in Pending) /\ Found(y)' = Found(y)
    BY <1>17, MovingOthers
  <2>9. x \in Pending
    BY <2>1, <2>7
  <2>10. Pending' = Pending \ {x}
    BY <2>1, <2>7, <2>8 DEF Pending
  <2>11. \A y \in Call \X Word : Found(y)' = IF y = x /\ Want(x).fetch THEN mem[x[2]] ELSE Found(y)
    BY <2>1, <2>7, <2>8
  <2>12. prog' = prog /\ native' = native /\ Begun' = Begun
    BY <1>1, <1>17, MovingFrame
  <2>13. M!Effect
    BY <2>6, <2>9, <2>10, <2>11, <2>12, PendingBegun, AbsEffect DEF RInv
  <2>14. \A y \in Pending \ Pending' : y[1] = o.call /\ y[2] \in o.on
    BY <2>1, <2>10, <1>2, <1>3
  <2> QED
    BY <2>12, <2>13, <2>14, <1>18 DEF Takes
<1> QED
  BY <1>22, <1>23

LEMMA InitRInv ==
  ASSUME Init
  PROVE  RInv /\ M!Init
<1>0. Zero \in Value /\ MaxCalls \in Nat
  BY MemoryAssumption
<1>1. [w \in {} |-> Zero] \in Buffer
  <2>1. [w \in {} |-> Zero] \in [{} -> Value]
    OBVIOUS
  <2> QED
    BY <2>1, BufferMade
<1>2. TypeOK
  BY <1>0, <1>1 DEF Init, TypeOK
<1>3. \A t \in Thread : stage[t] = "idle"
  BY DEF Init
<1>4. net = {} /\ \A c \in Call : DOMAIN got[c] = {} /\ ~ InLoop(c[1])
  BY <1>3 DEF Init, Call, InLoop
<1>5. RInv
  BY <1>2, <1>3, <1>4 DEF RInv, Stages, InLoop, Posted, Alone, Buffers, Origs, Unread, Quieted, NothingLeft
<1>6. Begun = {}
  <2> SUFFICES ASSUME NEW c \in Call, NEW w \in Word, Has(c, w) PROVE FALSE
    BY BegunIs
  <2>1. c[1] \in Thread /\ c[2] \in 1 .. MaxCalls /\ at[c[1]] = 1 /\ stage[c[1]] = "idle"
    BY <1>3 DEF Init, Call
  <2> QED
    BY <2>1, <1>0 DEF Has
<1>7. OpenOps = {}
  BY <1>5, <1>6, PendingBegun DEF OpenOps
<1>8. ASSUME NEW x \in Call \X Word PROVE Found(x) = None
  <2>1. x[1] \in Call /\ x[1][1] \in Thread /\ x[1][2] \in 1 .. MaxCalls
    BY DEF Call
  <2>2. ~ (x[1][2] < at[x[1][1]]) /\ ~ Swapped(x[1][1])
    BY <1>0, <1>3, <2>1 DEF Init, Swapped
  <2>3. Landed(x) = {}
    BY <1>4 DEF Landed
  <2> QED
    BY <2>1, <2>2, <2>3, <1>4 DEF Found
<1>9. Answers = [x \in Call \X Word |-> None]
  BY <1>8 DEF Answers
<1>10. mem \in [Word -> Value]
  BY <1>2 DEF TypeOK
<1> QED
  BY <1>5, <1>6, <1>7, <1>9, <1>10 DEF M!Init

LEMMA Unchanged ==
  ASSUME RInv, UNCHANGED vars
  PROVE  RInv' /\ Stays
<1>0. /\ native' = native /\ prog' = prog /\ at' = at /\ stage' = stage /\ orig' = orig
      /\ got' = got /\ mem' = mem /\ net' = net /\ epoch' = epoch
  BY DEF vars
<1>1. TypeOK' /\ Stages'
  BY <1>0 DEF RInv, TypeOK, Stages, InLoop, Looped, Me, Now
<1>2. (\A d : (Looped(d)' <=> Looped(d)) /\ The(d)' = The(d)) /\ \A o, w : AsWanted(o, w)' <=> AsWanted(o, w)
  BY <1>0, Frame
<1>3. \A d, w : Has(d, w)' <=> Has(d, w)
  BY <1>0, <1>2 DEF Has
<1>4. \A t : Mine(t)' = Mine(t) /\ Me(t)' = Me(t) /\ Now(t)' = Now(t) /\ (InLoop(t)' <=> InLoop(t))
  BY <1>0 DEF Mine, Me, Now, InLoop
<1>5. \A o : Fits(o)' <=> Fits(o)
  <2>1. \A o : OnCell(o)' <=> OnCell(o)
    BY <1>0, <1>2, <1>4 DEF OnCell
  <2>2. \A o, w : OnWord(o, w)' <=> OnWord(o, w)
    BY <1>2, <1>3 DEF OnWord
  <2> QED
    BY <1>0, <1>2, <2>1, <2>2 DEF Fits
<1>6. Posted' /\ Alone' /\ Buffers' /\ Origs'
  BY <1>0, <1>2, <1>3, <1>4, <1>5 DEF RInv, Posted, Alone, Buffers, Origs
<1>7. Unread' /\ Quieted' /\ NothingLeft'
  BY <1>0, <1>2 DEF RInv, Unread, Quieted, NothingLeft, GivenBack
<1>8. RInv'
  BY <1>1, <1>6, <1>7 DEF RInv
<1>9. \A t : Swapped(t)' <=> Swapped(t)
  BY <1>0, <1>4 DEF Swapped
<1>10. Begun' = Begun /\ Pending' = Pending
  BY <1>0, <1>2, <1>4, <1>9 DEF Begun, Pending
<1>11. \A x \in Call \X Word : Found(x)' = Found(x)
  <2> SUFFICES ASSUME NEW x \in Call \X Word PROVE Found(x)' = Found(x)
    OBVIOUS
  <2>1. Landed(x)' = Landed(x) /\ (Swapped(x[1][1])' <=> Swapped(x[1][1]))
    BY <1>0, <1>9 DEF Landed
  <2> QED
    BY <2>1, <1>0, FoundSame
<1> QED
  BY <1>0, <1>8, <1>10, <1>11, AbsStutter

LEMMA StepBegins ==
  ASSUME RInv, NEW t \in Thread, Step(t)
  PROVE  RInv' /\ Begins
<1>1. CASE PostOnly(t)
  BY <1>1, PostOnlyStep
<1>2. CASE PostAndWait(t)
  BY <1>2, PostAndWaitStep
<1>3. CASE Return(t) \/ Fence(t) \/ Quiet(t) \/ Signalled(t) \/ CasReturn(t)
  BY <1>3, SimpleReturns
<1>4. CASE Signal(t)
  BY <1>4, SignalStep
<1>5. CASE CasLoad(t) \/ CasRetry(t)
  BY <1>5, CasLoadStep
<1>6. CASE CasSwap(t)
  BY <1>6, CasSwapStep
<1> QED
  BY <1>1, <1>2, <1>3, <1>4, <1>5, <1>6 DEF Step

LEMMA NextStep ==
  ASSUME RInv, [Next]_vars
  PROVE  RInv' /\ [M!Next]_(M!vars)
<1>1. ASSUME NEW t \in Thread, Step(t) PROVE RInv' /\ Begins
  BY <1>1, StepBegins
<1>2. ASSUME NEW o \in net, ReadSource(o) \/ Land(o) \/ Deliver(o)
      PROVE  RInv' /\ (Takes(o) \/ Stays)
  <2>1. CASE ReadSource(o)
    BY <2>1, ReadSourceStep
  <2>2. CASE Land(o)
    BY <2>2, LandPlainStep, LandLoopStep
  <2>3. CASE Deliver(o)
    BY <2>3, DeliverPlainStep, DeliverLoopStep
  <2> QED
    BY <1>2, <2>1, <2>2, <2>3
<1>3. CASE UNCHANGED vars
  BY <1>3, Unchanged DEF Stays
<1>4. CASE Next
  BY <1>1, <1>2, <1>3, <1>4 DEF Next, Transport, Finished, M!Next, Begins, Takes, Stays
<1> QED
  BY <1>3, <1>4 DEF Stays

-----------------------------------------------------------------------------
(* What a fence orders.                                                    *)

\* Call k of its thread fences operation o: it comes after o, on a context of
\* which a fence takes notice; that of a put with signal is after its stores.
Fences(k, o) ==
  LET c == prog[o.call[1]][k] IN
  /\ o.ctx \notin NoStore /\ c.op \in {"fence", "put_signal"} /\ c.ctx = o.ctx
  /\ o.call[2] < k \/ (o.call[2] = k /\ o.do = "store")

Passed(t, k) == k < at[t] \/ (k = at[t] /\ stage[t] = "signal")

\* A fence is between o and what call x[1] does to word x[2], of the same PE.
Behind(o, x) ==
  /\ o.call[1] = x[1][1] /\ o.ctx = The(x[1]).ctx /\ PEOf[x[2]] \in OnePE(o)
  /\ \E k \in 1 .. x[1][2] : Fences(k, o) /\ (k = x[1][2] => x[2] = The(x[1]).word)

\* As long as an operation has not landed, nothing behind it takes effect.
FencesOrder == \A o \in net : o.answer = None => \A x \in Begun : Behind(o, x) => x \in Pending

\* The epoch of an operation is before that of what follows its fence.
Epochs ==
  /\ \A o \in net : o.epoch <= epoch[o.ctx]
  /\ \A o \in net : \A k \in 1 .. Len(prog[o.call[1]]) :
       Fences(k, o) /\ Passed(o.call[1], k) => o.epoch < epoch[o.ctx]
  /\ \A o, p \in net : p.call[1] = o.call[1] /\ p.ctx = o.ctx =>
       \A k \in 1 .. p.call[2] : Fences(k, o) /\ (k = p.call[2] => p.do # "store") => o.epoch < p.epoch

OInv == Epochs /\ FencesOrder

\* What a step of thread t posts, and that it passes a fence by making one.
Posts(t) ==
  /\ native' = native /\ prog' = prog /\ at[t] <= Len(prog[t])
  /\ \A s \in Thread : s # t => at'[s] = at[s] /\ stage'[s] = stage[s]
  /\ at'[t] = at[t] \/ (at'[t] = at[t] + 1 /\ stage'[t] = "idle")
  /\ epoch' \in {epoch, Fenced(Now(t).ctx)}
  /\ stage[t] # "signal" /\ (at'[t] # at[t] \/ stage'[t] = "signal") /\ Now(t).op \in {"fence", "put_signal"}
       => epoch' = Fenced(Now(t).ctx)
  /\ net \subseteq net'
  /\ \A p \in net' \ net :
       /\ p.call = Me(t) /\ p.ctx = Now(t).ctx /\ p.epoch = epoch'[Now(t).ctx] /\ Now(t).op # "fence"
       /\ p.do = "store" => stage[t] = "idle"
       /\ p.do = "store" /\ Now(t).op = "put_signal" => at'[t] = at[t] /\ stage'[t] = "posted"
       /\ p.do # "store" /\ Now(t).op = "put_signal" => epoch' = Fenced(Now(t).ctx)
       /\ \A q \in net' \ net : p.do = "store" <=> q.do = "store"

LEMMA StepPosts ==
  ASSUME RInv, NEW t \in Thread, Step(t)
  PROVE  Posts(t)
<1> DEFINE k == Now(t)
<1>1. /\ at \in [Thread -> 1 .. MaxCalls + 1]
      /\ stage \in [Thread -> {"idle", "posted", "signal", "load", "cas"}]
  BY DEF RInv, TypeOK
<1>2. stage[t] # "idle" => at[t] <= Len(prog[t])
  BY DEF RInv, Stages
<1>3. \A p \in Stores(t) : p.call = Me(t) /\ p.ctx = k.ctx /\ p.epoch = epoch[k.ctx] /\ p.do = "store"
  BY DEF Stores, Op, Me
<1>4. \A p \in Loads(t) : p.call = Me(t) /\ p.ctx = k.ctx /\ p.epoch = epoch[k.ctx] /\ p.do = "load"
  BY DEF Loads, Op, Me
<1>5. ASSUME NEW f, NEW p, p = Atomic(t, f)
      PROVE  p.call = Me(t) /\ p.ctx = k.ctx /\ p.epoch = epoch[k.ctx] /\ p.do = k.do
  BY <1>5 DEF Atomic, Op, Me
<1>6. at[t] <= Len(prog[t]) =>
        (k.op \in WithWord => k.do \in {"swap", "cswap", "add", "and", "or", "xor"} /\ k.do # "store")
  BY NowIs DEF IsCall, WithWord, CasOps
<1> HIDE DEF k
<1>7. CASE PostOnly(t)
  <2>1. /\ stage[t] = "idle" /\ at[t] <= Len(prog[t]) /\ epoch' = epoch /\ native' = native /\ prog' = prog
        /\ at' = [at EXCEPT ![t] = @ + 1] /\ stage' = [stage EXCEPT ![t] = "idle"]
    BY <1>7 DEF PostOnly, Ready, Add, NativeBitwise, FetchAddNbi, Returned
  <2>2. PICK New : /\ net' = net \cup New /\ k.op \notin {"fence", "put_signal"}
                   /\ \A p \in New : /\ p.call = Me(t) /\ p.ctx = k.ctx /\ p.epoch = epoch[k.ctx]
                                     /\ \A q \in New : p.do = "store" <=> q.do = "store"
    <3>1. CASE Ready(t, {"put_nbi"}) /\ net' = net \cup Stores(t)
      BY <3>1, <1>3 DEF Ready, k
    <3>2. CASE Ready(t, {"get_nbi"}) /\ net' = net \cup Loads(t)
      BY <3>2, <1>4 DEF Ready, k
    <3>3. CASE Add(t) \/ NativeBitwise(t) \/ FetchAddNbi(t)
      <4>1. PICK f : net' = net \cup {Atomic(t, f)} /\ k.op \notin {"fence", "put_signal"}
        BY <3>3 DEF Add, NativeBitwise, FetchAddNbi, Ready, k
      <4>2. PICK p : p = Atomic(t, f)
        OBVIOUS
      <4>3. p.call = Me(t) /\ p.ctx = k.ctx /\ p.epoch = epoch[k.ctx]
        BY <4>2, <1>5
      <4>4. PICK New : New = {p}
        OBVIOUS
      <4>5. net' = net \cup New
        BY <4>1, <4>2, <4>4
      <4> QED
        BY <4>1, <4>3, <4>4, <4>5
    <3> QED
      BY <1>7, <3>1, <3>2, <3>3 DEF PostOnly
  <2> QED
    BY <1>1, <2>1, <2>2 DEF Posts, k
<1>8. CASE PostAndWait(t)
  <2>1. /\ stage[t] = "idle" /\ at[t] <= Len(prog[t]) /\ epoch' = epoch /\ native' = native /\ prog' = prog
        /\ at' = at /\ stage' = [stage EXCEPT ![t] = "posted"]
    BY <1>8 DEF PostAndWait, Ready, FetchAdd, Swaps, NativeFetch
  <2>2. PICK New : /\ net' = net \cup New /\ k.op # "fence"
                   /\ \A p \in New : /\ p.call = Me(t) /\ p.ctx = k.ctx /\ p.epoch = epoch[k.ctx]
                                     /\ p.do # "store" => k.op # "put_signal"
                                     /\ \A q \in New : p.do = "store" <=> q.do = "store"
    <3>1. CASE Ready(t, {"put", "put_signal"}) /\ net' = net \cup Stores(t)
      BY <3>1, <1>3 DEF Ready, k
    <3>2. CASE Ready(t, {"get"}) /\ net' = net \cup Loads(t)
      BY <3>2, <1>4 DEF Ready, k
    <3>3. CASE FetchAdd(t) \/ Swaps(t) \/ NativeFetch(t)
      <4>1. PICK f : net' = net \cup {Atomic(t, f)} /\ k.op \notin {"fence", "put_signal"}
        BY <3>3 DEF FetchAdd, Swaps, NativeFetch, Ready, k
      <4>2. PICK p : p = Atomic(t, f)
        OBVIOUS
      <4>3. p.call = Me(t) /\ p.ctx = k.ctx /\ p.epoch = epoch[k.ctx]
        BY <4>2, <1>5
      <4>4. PICK New : New = {p}
        OBVIOUS
      <4>5. net' = net \cup New
        BY <4>1, <4>2, <4>4
      <4> QED
        BY <4>1, <4>3, <4>4, <4>5
    <3> QED
      BY <1>8, <3>1, <3>2, <3>3 DEF PostAndWait
  <2> QED
    BY <1>1, <2>1, <2>2 DEF Posts, k
<1>9. CASE Signal(t)
  <2>1. /\ stage[t] = "posted" /\ k.op = "put_signal" /\ epoch' = Fenced(k.ctx)
        /\ net' = net \cup {[Atomic(t, k.do = "swap") EXCEPT !.epoch = epoch'[k.ctx]]}
        /\ native' = native /\ prog' = prog
        /\ \/ at' = at /\ stage' = [stage EXCEPT ![t] = "signal"]
           \/ at' = [at EXCEPT ![t] = @ + 1] /\ stage' = [stage EXCEPT ![t] = "idle"]
    BY <1>9 DEF Signal, Returned, k
  <2>2. PICK p : p = [Atomic(t, k.do = "swap") EXCEPT !.epoch = epoch'[k.ctx]]
    OBVIOUS
  <2>3. p.call = Me(t) /\ p.ctx = k.ctx /\ p.epoch = epoch'[k.ctx] /\ p.do = k.do
    BY <2>2 DEF Atomic, Op, Me, k
  <2>4. at[t] <= Len(prog[t]) /\ k.do # "store"
    BY <1>2, <1>6, <2>1 DEF WithWord
  <2> QED
    BY <1>1, <2>1, <2>2, <2>3, <2>4 DEF Posts, k
<1>10. CASE CasLoad(t) \/ CasSwap(t) \/ CasRetry(t)
  <2>1. /\ stage[t] \in {"idle", "load", "cas"} /\ epoch' = epoch /\ native' = native /\ prog' = prog
        /\ at' = at /\ (stage' = [stage EXCEPT ![t] = "load"] \/ stage' = [stage EXCEPT ![t] = "cas"])
        /\ at[t] <= Len(prog[t])
    BY <1>2, <1>10 DEF CasLoad, CasSwap, CasRetry, Ready
  <2>2. k.op \in CasOps
    <3>1. CASE CasLoad(t)
      BY <3>1 DEF CasLoad, Ready, k
    <3>2. CASE ~ CasLoad(t)
      <4>1. InLoop(t)
        BY <3>2, <1>10 DEF InLoop, CasSwap, CasRetry
      <4> QED
        BY <4>1 DEF RInv, Stages, Looped, Me, Now, k
    <3> QED
      BY <3>1, <3>2
  <2>3. PICK p : net' = net \cup {p} /\ p.call = Me(t) /\ p.ctx = k.ctx /\ p.epoch = epoch[k.ctx] /\ p.do # "store"
    <3>1. CASE CasLoad(t) \/ CasRetry(t)
      <4>1. PICK p : p = Op(t, Cell(Now(t).word), "load", None, None, TRUE)
        OBVIOUS
      <4>2. net' = net \cup {p}
        BY <3>1, <4>1 DEF CasLoad, CasRetry
      <4>3. p.call = Me(t) /\ p.ctx = k.ctx /\ p.epoch = epoch[k.ctx] /\ p.do # "store"
        BY <4>1 DEF Op, Me, k
      <4> QED
        BY <4>2, <4>3
    <3>2. CASE CasSwap(t)
      <4>1. PICK old : old = got[<<t, at[t]>>]
        OBVIOUS
      <4>2. PICK p : p = Op(t, DOMAIN old, "cswap", Combined(Now(t), old), old, TRUE)
        OBVIOUS
      <4>3. net' = net \cup {p}
        BY <3>2, <4>1, <4>2 DEF CasSwap
      <4>4. p.call = Me(t) /\ p.ctx = k.ctx /\ p.epoch = epoch[k.ctx] /\ p.do # "store"
        BY <4>2 DEF Op, Me, k
      <4> QED
        BY <4>3, <4>4
    <3> QED
      BY <1>10, <3>1, <3>2
  <2> QED
    BY <1>1, <2>1, <2>2, <2>3 DEF Posts, CasOps, k
<1>11. CASE Return(t) \/ Quiet(t) \/ Signalled(t) \/ CasReturn(t)
  <2>1. /\ epoch' = epoch /\ native' = native /\ prog' = prog /\ net' = net /\ at[t] <= Len(prog[t])
        /\ at' = [at EXCEPT ![t] = @ + 1] /\ stage' = [stage EXCEPT ![t] = "idle"]
    BY <1>2, <1>11 DEF Return, Quiet, Signalled, CasReturn, Returned, Ready
  <2>2. stage[t] # "signal" => k.op \notin {"fence", "put_signal"}
    <3>1. CASE Return(t)
      BY <3>1 DEF RInv, Stages, Return, k
    <3>2. CASE Quiet(t)
      BY <3>2 DEF Quiet, Ready, k
    <3>3. CASE CasReturn(t)
      <4>1. InLoop(t)
        BY <3>3 DEF InLoop, CasReturn
      <4> QED
        BY <4>1 DEF RInv, Stages, Looped, Me, Now, k, CasOps
    <3> QED
      BY <1>11, <3>1, <3>2, <3>3 DEF Signalled
  <2> QED
    BY <1>1, <2>1, <2>2 DEF Posts, k
<1>12. CASE Fence(t)
  <2>1. /\ stage[t] = "idle" /\ at[t] <= Len(prog[t]) /\ epoch' = Fenced(k.ctx) /\ native' = native /\ prog' = prog
        /\ at' = [at EXCEPT ![t] = @ + 1] /\ stage' = [stage EXCEPT ![t] = "idle"] /\ net' = net
    BY <1>12 DEF Fence, Ready, Returned, k
  <2> QED
    BY <1>1, <2>1 DEF Posts, k
<1> QED
  BY <1>7, <1>8, <1>9, <1>10, <1>11, <1>12 DEF Step

\* Earlier calls than the one a thread is in are in its program.
LEMMA NowLength ==
  ASSUME RInv, NEW t \in Thread, at[t] <= Len(prog[t]), NEW n, n \in Nat, n <= at[t], NEW k \in 1 .. n
  PROVE  k \in 1 .. Len(prog[t])
<1>1. Len(prog[t]) \in Nat
  BY ProgramAssumption, MemoryAssumption DEF RInv, TypeOK
<1>2. at[t] \in Nat
  BY MemoryAssumption DEF RInv, TypeOK
<1> QED
  BY <1>1, <1>2

\* What is in flight is of calls that have come.
LEMMA HasCome ==
  ASSUME RInv, NEW o \in net
  PROVE  /\ o.call[1] \in Thread /\ o.call[2] \in Nat /\ o.call = <<o.call[1], o.call[2]>>
         /\ at[o.call[1]] \in Nat /\ o.call[2] <= at[o.call[1]]
<1>1. o.call \in Call /\ o.call[1] \in Thread /\ o.call[2] \in Nat /\ o.call = <<o.call[1], o.call[2]>>
  BY DEF RInv, TypeOK, Operation, Call
<1>2. at[o.call[1]] \in Nat
  BY <1>1, MemoryAssumption DEF RInv, TypeOK
<1>3. Fits(o)
  BY DEF RInv, Posted
<1>4. CASE Looped(o.call)
  <2>1. o.call = Me(o.call[1])
    BY <1>3, <1>4 DEF Fits, OnCell
  <2> QED
    BY <2>1, <1>1, <1>2 DEF Me
<1>5. CASE ~ Looped(o.call)
  <2>1. PICK w \in Word : Has(o.call, w)
    BY <1>3, <1>5 DEF Fits, OnWord
  <2> QED
    BY <2>1, <1>1, <1>2 DEF Has
<1> QED
  BY <1>1, <1>2, <1>4, <1>5

LEMMA EpochsGrow ==
  ASSUME RInv, NEW t \in Thread, Posts(t)
  PROVE  /\ Now(t).ctx \in Ctx /\ Me(t) \in Call
         /\ \A c \in Ctx : epoch[c] \in Nat /\ epoch'[c] \in Nat /\ epoch[c] <= epoch'[c]
         /\ epoch' = Fenced(Now(t).ctx) /\ Now(t).ctx \notin NoStore => epoch'[Now(t).ctx] = epoch[Now(t).ctx] + 1
<1>1. Now(t).ctx \in Ctx /\ Me(t) \in Call
  BY NowIs DEF Posts
<1>2. epoch \in [Ctx -> Nat]
  BY DEF RInv, TypeOK
<1> QED
  BY <1>1, <1>2 DEF Posts, Fenced

LEMMA EpochsKept ==
  ASSUME RInv, RInv', Epochs, NEW t \in Thread, Posts(t)
  PROVE  Epochs'
<1>0. /\ prog' = prog /\ at[t] <= Len(prog[t]) /\ net \subseteq net'
      /\ at'[t] = at[t] \/ (at'[t] = at[t] + 1 /\ stage'[t] = "idle")
  BY DEF Posts
<1>1. /\ Now(t).ctx \in Ctx /\ Me(t) \in Call
      /\ \A c \in Ctx : epoch[c] \in Nat /\ epoch'[c] \in Nat /\ epoch[c] <= epoch'[c]
      /\ epoch' = Fenced(Now(t).ctx) /\ Now(t).ctx \notin NoStore => epoch'[Now(t).ctx] = epoch[Now(t).ctx] + 1
  BY EpochsGrow
<1>2. \A p \in net' \ net :
       /\ p.call = Me(t) /\ p.ctx = Now(t).ctx /\ p.epoch = epoch'[Now(t).ctx] /\ Now(t).op # "fence"
       /\ p.do = "store" => stage[t] = "idle"
       /\ p.do = "store" /\ Now(t).op = "put_signal" => at'[t] = at[t] /\ stage'[t] = "posted"
       /\ p.do # "store" /\ Now(t).op = "put_signal" => epoch' = Fenced(Now(t).ctx)
       /\ \A q \in net' \ net : p.do = "store" <=> q.do = "store"
  BY DEF Posts
<1>3. \A o \in net' : o.ctx \in Ctx /\ o.epoch \in Nat /\ o.call[1] \in Thread /\ o.call[2] \in Nat /\ o.call = <<o.call[1], o.call[2]>>
  BY DEF RInv, TypeOK, Operation, Call
<1>4. Me(t) = <<t, at[t]>> /\ Me(t)[1] = t /\ Me(t)[2] = at[t] /\ at[t] \in Nat
  BY DEF Me, RInv, TypeOK
<1>5. \A o, k : Fences(k, o)' <=> Fences(k, o)
  BY <1>0 DEF Fences
<1>6. \A k, o : Fences(k, o) /\ o.call[1] = t /\ k = at[t] =>
        Now(t).op \in {"fence", "put_signal"} /\ o.ctx = Now(t).ctx /\ o.ctx \notin NoStore
  BY DEF Fences, Now
<1>7. ASSUME NEW o \in net' PROVE o.epoch <= epoch'[o.ctx]
  <2>1. CASE o \in net
    <3>1. o.epoch <= epoch[o.ctx]
      BY <2>1 DEF Epochs
    <3> QED
      BY <3>1, <1>1, <1>3
  <2>2. CASE o \notin net
    BY <2>2, <1>1, <1>2
  <2> QED
    BY <2>1, <2>2
<1>8. ASSUME NEW o \in net', NEW k \in 1 .. Len(prog[o.call[1]]), Fences(k, o), Passed(o.call[1], k)'
      PROVE  o.epoch < epoch'[o.ctx]
  <2> DEFINE s == o.call[1]
  <2>1. CASE o \in net /\ Passed(s, k)
    <3>1. o.epoch < epoch[o.ctx]
      BY <2>1, <1>8 DEF Epochs
    <3> QED
      BY <3>1, <1>1, <1>3
  <2>2. CASE o \in net /\ ~ Passed(s, k)
    <3>1. s = t
      BY <2>2, <1>3, <1>8 DEF Posts, Passed
    <3>2. k = at[t] /\ stage[t] # "signal" /\ (at'[t] # at[t] \/ stage'[t] = "signal")
      BY <3>1, <2>2, <1>0, <1>4, <1>8 DEF Passed
    <3>3. Now(t).op \in {"fence", "put_signal"} /\ o.ctx = Now(t).ctx /\ o.ctx \notin NoStore
      BY <3>1, <3>2, <1>6, <1>8
    <3>4. epoch' = Fenced(Now(t).ctx)
      BY <3>2, <3>3 DEF Posts
    <3>5. o.epoch <= epoch[o.ctx]
      BY <2>2 DEF Epochs
    <3> QED
      BY <3>3, <3>4, <3>5, <1>1, <1>3
  <2>3. CASE o \notin net
    <3>1. s = t /\ o.call[2] = at[t]
      BY <2>3, <1>2, <1>4
    <3>2. at[t] < k \/ (at[t] = k /\ o.do = "store")
      BY <3>1, <1>8 DEF Fences
    <3>3. k < at'[t] \/ (k = at'[t] /\ stage'[t] = "signal")
      BY <3>1, <1>8 DEF Passed
    <3>4. k = at[t] /\ o.do = "store"
      BY <3>2, <3>3, <1>0, <1>4
    <3>5. Now(t).op = "put_signal"
      BY <3>1, <3>4, <2>3, <1>2, <1>6, <1>8
    <3>6. at'[t] = at[t] /\ stage'[t] = "posted"
      BY <3>4, <3>5, <2>3, <1>2
    <3> QED
      BY <3>3, <3>4, <3>6, <1>4
  <2> QED
    BY <2>1, <2>2, <2>3
<1>9. ASSUME NEW o \in net', NEW p \in net', p.call[1] = o.call[1], p.ctx = o.ctx, NEW k \in 1 .. p.call[2],
             Fences(k, o), k = p.call[2] => p.do # "store"
      PROVE  o.epoch < p.epoch
  <2>1. CASE o \in net /\ p \in net
    BY <2>1, <1>9 DEF Epochs
  <2>2. CASE o \in net /\ p \notin net
    <3>1. p.call[1] = t /\ p.call[2] = at[t] /\ p.epoch = epoch'[o.ctx]
      BY <2>2, <1>2, <1>4, <1>9
    <3>2. CASE k < at[t]
      <4>1. k \in 1 .. Len(prog[o.call[1]]) /\ Passed(o.call[1], k)
        BY <3>1, <3>2, <1>0, <1>4, <1>9, NowLength DEF Passed
      <4>2. o.epoch < epoch[o.ctx]
        BY <4>1, <2>2, <1>9 DEF Epochs
      <4> QED
        BY <4>2, <3>1, <1>1, <1>3
    <3>3. CASE k = at[t]
      <4>1. Now(t).op \in {"fence", "put_signal"} /\ o.ctx = Now(t).ctx /\ o.ctx \notin NoStore
        BY <3>1, <3>3, <1>6, <1>9
      <4>2. epoch' = Fenced(Now(t).ctx)
        BY <4>1, <3>1, <3>3, <2>2, <1>2, <1>9
      <4>3. o.epoch <= epoch[o.ctx]
        BY <2>2 DEF Epochs
      <4> QED
        BY <4>1, <4>2, <4>3, <3>1, <1>1, <1>3
    <3> QED
      BY <3>1, <3>2, <3>3, <1>4
  <2>3. CASE o \notin net
    <3>1. o.call = Me(t) /\ o.call[2] = at[t] /\ o.call[1] = t
      BY <2>3, <1>2, <1>4
    <3>2. p.call[2] <= at[t]
      <4>1. CASE p \in net
        BY <4>1, <3>1, <1>9, HasCome
      <4>2. CASE p \notin net
        BY <4>2, <1>2, <1>4
      <4> QED
        BY <4>1, <4>2
    <3>3. k = at[t] /\ p.call[2] = at[t] /\ o.do = "store" /\ p.do # "store"
      BY <3>1, <3>2, <1>3, <1>4, <1>9 DEF Fences
    <3>4. p.call = Me(t)
      BY <3>1, <3>3, <1>3, <1>4, <1>9
    <3>5. p \in net
      BY <3>3, <2>3, <1>2
    <3>6. stage[t] = "idle"
      BY <3>3, <2>3, <1>2
    <3> QED
      BY <3>4, <3>5, <3>6, <1>0, IdleIs
  <2> QED
    BY <2>1, <2>2, <2>3
<1> QED
  BY <1>0, <1>5, <1>7, <1>8, <1>9 DEF Epochs

\* A fence on the way to what a call has begun is one that it has passed.
LEMMA OrderCalls ==
  ASSUME RInv, FencesOrder, NEW t \in Thread, Posts(t), Begins
  PROVE  FencesOrder'
<1>1. prog' = prog /\ Pending \subseteq Pending' /\ Begun' \subseteq Begun \cup Pending'
  BY DEF Posts, Begins
<1>2. \A o, x : Behind(o, x)' <=> Behind(o, x)
  BY <1>1 DEF Behind, Fences, The
<1> SUFFICES ASSUME NEW o \in net', o.answer = None, NEW x \in Begun, Behind(o, x)
             PROVE  x \in Pending'
  BY <1>1, <1>2 DEF FencesOrder
<1>3. CASE o \in net
  BY <1>1, <1>3 DEF FencesOrder
<1>4. CASE o \notin net
  <2>1. o.call = Me(t) /\ (o.do = "store" => stage[t] = "idle")
    BY <1>4 DEF Posts
  <2>2. o.call[1] = t /\ o.call[2] = at[t] /\ at[t] \in Nat
    BY <2>1, MemoryAssumption DEF Me, RInv, TypeOK
  <2>3. PICK k \in 1 .. x[1][2] : x[1][1] = t /\ Fences(k, o)
    BY <2>2 DEF Behind
  <2>4. at[t] < k \/ (at[t] = k /\ o.do = "store")
    BY <2>2, <2>3 DEF Fences
  <2>5. x[1] \in Call /\ Has(x[1], x[2]) /\ x[1][2] \in Nat
    BY BegunIs DEF Call
  <2>6. x[1][2] < at[t] \/ (x[1][2] = at[t] /\ stage[t] # "idle")
    BY <2>3, <2>5 DEF Has
  <2> QED
    BY <2>1, <2>2, <2>4, <2>5, <2>6
<1> QED
  BY <1>3, <1>4

\* What the transport does to what is in flight.
Carries ==
  /\ native' = native /\ prog' = prog /\ at' = at /\ stage' = stage /\ epoch' = epoch
  /\ \A p \in net' : \E q \in net :
       /\ p.call = q.call /\ p.ctx = q.ctx /\ p.epoch = q.epoch /\ p.do = q.do /\ p.on = q.on
       /\ p.answer = None => q.answer = None

LEMMA EpochsCarried ==
  ASSUME RInv, Epochs, Carries
  PROVE  Epochs'
<1>1. native' = native /\ prog' = prog /\ at' = at /\ stage' = stage /\ epoch' = epoch
  BY DEF Carries
<1>2. \A p \in net' : \E q \in net :
        p.call = q.call /\ p.ctx = q.ctx /\ p.epoch = q.epoch /\ p.do = q.do
  BY DEF Carries
<1>3. \A k, o, p : o.call = p.call /\ o.ctx = p.ctx /\ o.do = p.do => (Fences(k, o)' <=> Fences(k, p))
  BY <1>1 DEF Fences
<1>4. \A t, k : Passed(t, k)' <=> Passed(t, k)
  BY <1>1 DEF Passed
<1>5. \A o \in net' : o.epoch <= epoch'[o.ctx]
  BY <1>1, <1>2 DEF Epochs
<1>6. ASSUME NEW o \in net', NEW k \in 1 .. Len(prog[o.call[1]]), Fences(k, o)', Passed(o.call[1], k)'
      PROVE  o.epoch < epoch'[o.ctx]
  <2>1. PICK q \in net : o.call = q.call /\ o.ctx = q.ctx /\ o.epoch = q.epoch /\ o.do = q.do
    BY <1>2
  <2>2. Fences(k, q) /\ Passed(q.call[1], k) /\ k \in 1 .. Len(prog[q.call[1]])
    BY <2>1, <1>3, <1>4, <1>6
  <2>3. q.epoch < epoch[q.ctx]
    BY <2>2 DEF Epochs
  <2> QED
    BY <2>1, <2>3, <1>1
<1>7. ASSUME NEW o \in net', NEW p \in net', p.call[1] = o.call[1], p.ctx = o.ctx, NEW k \in 1 .. p.call[2],
             Fences(k, o)', k = p.call[2] => p.do # "store"
      PROVE  o.epoch < p.epoch
  <2>1. PICK q \in net : o.call = q.call /\ o.ctx = q.ctx /\ o.epoch = q.epoch /\ o.do = q.do
    BY <1>2
  <2>2. PICK r \in net : p.call = r.call /\ p.ctx = r.ctx /\ p.epoch = r.epoch /\ p.do = r.do
    BY <1>2
  <2>3. Fences(k, q)
    BY <2>1, <1>3, <1>7
  <2>4. q.epoch < r.epoch
    BY <2>1, <2>2, <2>3, <1>7 DEF Epochs
  <2> QED
    BY <2>1, <2>2, <2>4
<1> QED
  BY <1>1, <1>5, <1>6, <1>7 DEF Epochs

LEMMA OrderCarried ==
  ASSUME RInv, FencesOrder, Carries, Pending' = Pending, Begun' = Begun
  PROVE  FencesOrder'
<1>1. prog' = prog
  BY DEF Carries
<1>2. \A o, p, x : o.call = p.call /\ o.ctx = p.ctx /\ o.do = p.do /\ o.on = p.on =>
        (Behind(o, x)' <=> Behind(p, x))
  BY <1>1 DEF Behind, Fences, The, OnePE
<1> SUFFICES ASSUME NEW o \in net', o.answer = None, NEW x \in Begun, Behind(o, x)'
             PROVE  x \in Pending
  BY DEF FencesOrder
<1>3. PICK q \in net : /\ o.call = q.call /\ o.ctx = q.ctx /\ o.do = q.do /\ o.on = q.on
                       /\ q.answer = None
  BY DEF Carries
<1>4. Behind(q, x)
  BY <1>2, <1>3
<1> QED
  BY <1>3, <1>4 DEF FencesOrder

\* An operation lies on one PE.
LEMMA OneOfPE ==
  ASSUME RInv, NEW o \in net
  PROVE  o.on \subseteq Word /\ \A v, w \in o.on : PEOf[v] = PEOf[w]
<1>1. o.on \subseteq Word /\ o.call \in Call
  BY DEF RInv, TypeOK, Operation
<1>2. Fits(o) /\ o.call[2] <= Len(prog[o.call[1]])
  BY DEF RInv, Posted, Fits
<1>3. CASE Looped(o.call)
  <2>1. o.on = Cell(The(o.call).word)
    BY <1>2, <1>3 DEF Fits, OnCell
  <2>2. IsCall(The(o.call)) /\ The(o.call).op \in CasOps
    BY <1>1, <1>2, <1>3, CallIs DEF RInv, Looped, The
  <2>3. The(o.call).word \in Word
    BY <2>2 DEF IsCall, WithWord, CasOps
  <2> QED
    BY <1>1, <2>1, <2>3, MemoryAssumption DEF Cell
<1>4. CASE ~ Looped(o.call)
  BY <1>1, <1>2, <1>4 DEF Fits, OnWord, AsWanted
<1> QED
  BY <1>3, <1>4

\* A fence between two operations has been passed when the later was posted.
LEMMA LandsInOrder ==
  ASSUME RInv, Epochs, NEW o \in net, MayLand(o), NEW q \in net, q.answer = None,
         NEW x \in Begun, x[1] = o.call, x[2] \in o.on, Behind(q, x)
  PROVE  FALSE
<1>1. q.call[1] = o.call[1] /\ q.ctx = The(o.call).ctx /\ PEOf[x[2]] \in OnePE(q)
  BY DEF Behind
<1>2. PICK k \in 1 .. o.call[2] : Fences(k, q) /\ (k = o.call[2] => x[2] = The(o.call).word)
  BY DEF Behind
<1>3. Fits(o) /\ o.ctx = The(o.call).ctx /\ o.call \in Call /\ o.call[2] <= Len(prog[o.call[1]])
  BY DEF RInv, Posted, Fits, TypeOK, Operation
<1>4. k = o.call[2] => o.do # "store"
  <2> SUFFICES ASSUME x[2] = The(o.call).word, o.do = "store" PROVE FALSE
    BY <1>2
  <2>1. ~ Looped(o.call)
    BY <1>3 DEF Fits, OnCell
  <2>2. PICK w \in Word : AsWanted(o, w)
    BY <1>3, <2>1 DEF Fits, OnWord
  <2>3. w = The(o.call).word /\ Want(<<o.call, w>>).do = "store"
    BY <2>2 DEF AsWanted
  <2>4. IsCall(The(o.call))
    BY <1>3, CallIs DEF RInv
  <2>5. PICK a : /\ a = Want(<<o.call, w>>)
                 /\ a = [call |-> o.call, word |-> w, do |-> The(o.call).do, val |-> The(o.call).val,
                         comp |-> The(o.call).comp, fetch |-> Fetching(The(o.call))]
    BY <2>3, <2>4, WantAtomic
  <2>6. The(o.call).do # "store"
    BY <2>3, <2>4, WantAtomic
  <2> QED
    BY <2>3, <2>5, <2>6
<1>5. q.epoch < o.epoch
  BY <1>1, <1>2, <1>3, <1>4 DEF Epochs
<1>6. OnePE(q) = OnePE(o)
  <2>1. \A v \in q.on : PEOf[v] = PEOf[x[2]]
    <3>1. PICK w \in q.on : PEOf[w] = PEOf[x[2]]
      BY <1>1 DEF OnePE
    <3> QED
      BY <3>1, OneOfPE
  <2>2. \A v \in o.on : PEOf[v] = PEOf[x[2]]
    BY OneOfPE
  <2> QED
    BY <1>1, <2>1, <2>2 DEF OnePE
<1>7. q.epoch >= o.epoch
  BY <1>1, <1>3, <1>6 DEF MayLand
<1>8. q.epoch \in Nat /\ o.epoch \in Nat
  BY DEF RInv, TypeOK, Operation
<1> QED
  BY <1>5, <1>7, <1>8

LEMMA OrderLanded ==
  ASSUME RInv, OInv, NEW o \in net, Land(o), Takes(o) \/ Stays
  PROVE  OInv'
<1>0. PICK old : old = [w \in o.on |-> mem[w]]
  OBVIOUS
<1>1. /\ MayLand(o) /\ o.answer = None
      /\ UNCHANGED <<native, prog, at, stage, orig, got, epoch>>
  BY DEF Land, MayLand
<1>2. PICK p : p = [o EXCEPT !.answer = old]
  OBVIOUS
<1>3. net' \subseteq (net \ {o}) \cup {p}
  BY <1>0, <1>2 DEF Land
<1>4. o \in Operation /\ p.call = o.call /\ p.ctx = o.ctx /\ p.epoch = o.epoch /\ p.do = o.do /\ p.on = o.on /\ p.answer = old
  BY <1>2 DEF RInv, TypeOK, Operation
<1>5. old # None
  <2>1. mem \in [Word -> Value] /\ o.on \subseteq Word
    BY OneOfPE DEF RInv, TypeOK
  <2>2. old \in [o.on -> Value]
    BY <2>1, <1>0
  <2> QED
    BY <2>1, <2>2, BufferMade
<1>6. Carries
  BY <1>1, <1>3, <1>4, <1>5 DEF Carries
<1>7. Epochs'
  BY <1>6, EpochsCarried DEF OInv
<1>8. CASE Stays
  BY <1>6, <1>7, <1>8, OrderCarried DEF OInv, Stays
<1>9. CASE Takes(o)
  <2>1. Begun' = Begun /\ \A x \in Pending \ Pending' : x[1] = o.call /\ x[2] \in o.on
    BY <1>9 DEF Takes
  <2>2. \A q, x : Behind(q, x)' <=> Behind(q, x)
    BY <1>1 DEF Behind, Fences, The
  <2>3. ASSUME NEW q \in net', q.answer = None, NEW x \in Begun, Behind(q, x)
        PROVE  x \in Pending'
    <3>1. q \in net
      BY <2>3, <1>3, <1>4, <1>5
    <3>2. x \in Pending
      BY <3>1, <2>3 DEF OInv, FencesOrder
    <3>3. CASE x \notin Pending'
      <4>1. x[1] = o.call /\ x[2] \in o.on
        BY <3>2, <3>3, <2>1
      <4> QED
        BY <4>1, <3>1, <2>3, <1>1, LandsInOrder DEF OInv
    <3> QED
      BY <3>3
  <2>4. FencesOrder'
    BY <2>1, <2>2, <2>3 DEF FencesOrder
  <2> QED
    BY <2>4, <1>7 DEF OInv
<1> QED
  BY <1>8, <1>9

LEMMA NextOrder ==
  ASSUME RInv, OInv, [Next]_vars
  PROVE  OInv'
<1>1. RInv'
  BY NextStep
<1>2. ASSUME NEW t \in Thread, Step(t) PROVE OInv'
  BY <1>1, <1>2, StepPosts, StepBegins, EpochsKept, OrderCalls DEF OInv
<1>3. ASSUME NEW o \in net, ReadSource(o) PROVE OInv'
  <2>1. Stays
    BY <1>3, ReadSourceStep
  <2>2. PICK v : net' = (net \ {o}) \cup {[o EXCEPT !.val = v]}
    BY <1>3 DEF ReadSource
  <2>3. PICK p : p = [o EXCEPT !.val = v]
    OBVIOUS
  <2>4. /\ p.call = o.call /\ p.ctx = o.ctx /\ p.epoch = o.epoch /\ p.do = o.do /\ p.on = o.on
        /\ p.answer = o.answer
    BY <2>3 DEF RInv, TypeOK, Operation
  <2>5. net' = (net \ {o}) \cup {p}
    BY <2>2, <2>3
  <2>6. native' = native /\ prog' = prog /\ at' = at /\ stage' = stage /\ epoch' = epoch
    BY <1>3 DEF ReadSource
  <2>7. Carries
    BY <2>4, <2>5, <2>6 DEF Carries
  <2> QED
    BY <2>1, <2>7, EpochsCarried, OrderCarried DEF OInv, Stays
<1>4. ASSUME NEW o \in net, Land(o) PROVE OInv'
  BY <1>4, LandPlainStep, LandLoopStep, OrderLanded
<1>5. ASSUME NEW o \in net, Deliver(o) PROVE OInv'
  <2>1. Stays
    BY <1>5, DeliverPlainStep, DeliverLoopStep
  <2>2. Carries
    BY <1>5 DEF Deliver, Carries
  <2> QED
    BY <2>1, <2>2, EpochsCarried, OrderCarried DEF OInv, Stays
<1>6. CASE UNCHANGED vars
  <2>1. Stays
    BY <1>6, Unchanged
  <2>2. Carries
    BY <1>6 DEF vars, Carries
  <2> QED
    BY <2>1, <2>2, EpochsCarried, OrderCarried DEF OInv, Stays
<1>7. CASE Next
  BY <1>2, <1>3, <1>4, <1>5, <1>6, <1>7 DEF Next, Transport, Finished
<1> QED
  BY <1>6, <1>7

-----------------------------------------------------------------------------
(* The theorems.                                                           *)

\* What is in flight is what the programs want, one operation of a call on a
\* word at a time, and no source that has been given back is still to be read
\* (comms.c, the waits of the blocking routines; shmemc_ctx_quiet).
THEOREM RemoteMemoryInvariance == Spec => []RInv
<1>1. Init => RInv
  BY InitRInv
<1>2. RInv /\ [Next]_vars => RInv'
  BY NextStep
<1> QED
  BY <1>1, <1>2, PTL DEF Spec

\* Every state is well typed: a cell read by a loop is a cell of values, no
\* call is on a word or a context that is not there.
THEOREM TypeCorrect == Spec => []TypeOK
<1>1. RInv => TypeOK
  BY DEF RInv
<1> QED
  BY <1>1, RemoteMemoryInvariance, PTL

\* A blocking get or fetch leaves nothing behind when it returns: only the
\* non-blocking ones still have an answer to come (comms.c, the waits).
THEOREM BlockingCallsLeaveNothing == Spec => []NothingLeft
<1>1. RInv => NothingLeft
  BY DEF RInv
<1> QED
  BY <1>1, RemoteMemoryInvariance, PTL

\* No source is read after the program has been told that it may use it again,
\* by the return of the put or by a quiet (comms.c, shmemc_ctx_quiet).
THEOREM NoSourceReadTooLate == Spec => []Unread
<1>1. RInv => Unread
  BY DEF RInv
<1> QED
  BY <1>1, RemoteMemoryInvariance, PTL

\* Puts, gets and atomics, also those made of a get and a compare-and-swap in
\* a loop, are operations of the abstract memory: each takes effect once, with
\* the operand of the program, on its own word, and answers with what it found.
THEOREM MemoryRefined == Spec => ImplementsMemory
<1>1. Init => M!Init
  BY InitRInv
<1>2. RInv /\ [Next]_vars => [M!Next]_(M!vars)
  BY NextStep
<1>3. Spec => []RInv
  BY RemoteMemoryInvariance
<1> QED
  BY <1>1, <1>2, <1>3, PTL DEF Spec, ImplementsMemory, M!Spec


\* When a quiet has returned, nothing of the calls before it is in flight on
\* its context: everything has landed, and answers are in (comms.c:205-227,
\* shmemc_ctx_quiet; not on a context made without stores, where it returns).
THEOREM QuietCompletes == Spec => []Quieted
<1>1. RInv => Quieted
  BY DEF RInv
<1> QED
  BY <1>1, RemoteMemoryInvariance, PTL

\* As long as an operation before a fence has not landed, nothing behind the
\* fence on the same context to the same PE takes effect; a put with signal
\* has such a fence between its words and its signal (comms.c:192-203,
\* shmemc_ctx_fence; 784-830, shmemc_ctx_put_signal).
THEOREM FencesKeepOrder == Spec => []FencesOrder
<1>1. Init => OInv
  BY DEF Init, OInv, Epochs, FencesOrder
<1>2. RInv /\ OInv /\ [Next]_vars => OInv'
  BY NextOrder
<1>3. OInv => FencesOrder
  BY DEF OInv
<1>4. Spec => []RInv
  BY RemoteMemoryInvariance
<1> QED
  BY <1>1, <1>2, <1>3, <1>4, PTL DEF Spec
=============================================================================
