------------------------------ MODULE MemorySpec ------------------------------
(***************************************************************************)
(* What one-sided memory access promises, whatever carries it out: an      *)
(* operation on a word, once begun, takes effect at one moment, once, on   *)
(* that word and on no other; a fetching one answers with the value it     *)
(* found.  Nothing is said of the order of operations: that is the matter  *)
(* of fence, quiet and the signals.                                        *)
(***************************************************************************)
CONSTANTS
  Call,             \* the calls that are made
  Word,             \* the words of all PEs
  Value,            \* what a word can hold
  None,             \* no answer yet
  Combine(_, _, _)  \* what an arithmetic or bitwise operation makes of two values

VARIABLES
  mem,     \* what each word holds
  begun,   \* the words each call has begun to access
  open,    \* the operations begun that have not taken effect
  answer   \* what each call found in each word it fetched

vars == <<mem, begun, open, answer>>

\* An operation on one word.
Operation ==
  [call : Call, word : Word, do : {"load", "store", "swap", "cswap", "add", "and", "or", "xor"},
   val : Value, comp : Value, fetch : BOOLEAN]

Init ==
  /\ mem \in [Word -> Value]
  /\ begun = {}
  /\ open = {}
  /\ answer = [x \in Call \X Word |-> None]

\* What operation o makes of a word that holds old.
Outcome(o, old) ==
  CASE o.do = "load"              -> old
    [] o.do \in {"store", "swap"} -> o.val
    [] o.do = "cswap"             -> IF old = o.comp THEN o.val ELSE old
    [] OTHER                      -> Combine(o.do, old, o.val)

\* A call begins operations, on words it has not accessed before.
Begin ==
  /\ open \subseteq open'
  /\ open' \ open \subseteq Operation
  /\ \A o \in open' \ open : <<o.call, o.word>> \notin begun
  /\ begun' = begun \cup {<<o.call, o.word>> : o \in open' \ open}
  /\ UNCHANGED <<mem, answer>>

\* An operation takes effect.
Effect ==
  \E o \in open :
    /\ open' = open \ {o}
    /\ begun' = begun
    /\ mem' = [mem EXCEPT ![o.word] = Outcome(o, @)]
    /\ answer' = IF o.fetch THEN [answer EXCEPT ![<<o.call, o.word>>] = mem[o.word]] ELSE answer

Next == Begin \/ Effect

Spec == Init /\ [][Next]_vars
=============================================================================
