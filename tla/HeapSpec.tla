------------------------------ MODULE HeapSpec ------------------------------
(***************************************************************************)
(* What the symmetric heap promises to the program (include/shmem/api.h,   *)
(* "dynamically allocates symmetric memory"): memory that nobody else has, *)
(* aligned as asked, that stays where it is until it is released or        *)
(* resized.  A block is where it begins, how many bytes it holds and how   *)
(* it is aligned; places are in granules of eight bytes.  The steps are    *)
(* relations between the blocks before and after.                          *)
(***************************************************************************)
EXTENDS Integers

CONSTANTS First, End,  \* blocks lie in First .. End - 1
          Base         \* the address of granule 0

VARIABLE block

Granules(b) == b.at..(b.at + ((b.bytes + 7) \div 8) - 1)

Fits(b, others) ==
  /\ Granules(b) \subseteq First..(End - 1)
  /\ (8 * (Base + b.at)) % b.align = 0
  /\ \A c \in others : Granules(b) \cap Granules(c) = {}

Init == \A b \in block : Fits(b, block \ {b})

Obtain == \E b \in block' \ block : block' = block \cup {b} /\ Fits(b, block)

Release == \E b \in block : block' = block \ {b}

\* in place, or moved beside the old block
Resize == \E b \in block, c \in block' :
            /\ block' = (block \ {b}) \cup {c}
            /\ \/ c.at = b.at /\ Fits(c, block \ {b})
               \/ Fits(c, block)

Next == Obtain \/ Release \/ Resize

Spec == Init /\ [][Next]_block
=============================================================================
