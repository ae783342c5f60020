----------------------------- MODULE Allocator ------------------------------
(***************************************************************************)
(* What the kernel's heap promises its callers: each one's request is      *)
(* answered, with a block above all that was ever given out, and none is   *)
(* refused that could fit.  What is freed is the block taken last, and is  *)
(* not given out again.  It promises nothing once a block that is not the  *)
(* last one is freed, or one is given out inside another caller's call.    *)
(***************************************************************************)
EXTENDS Integers, Sequences

CONSTANTS Callers, Addresses, Start, Capacity

VARIABLES blocks,   \* what the callers hold, the last one taken at the end
          asked,    \* the size of each caller's request that waits, 0 if none does
          top,      \* all that was ever given out lies below
          broken    \* nothing is promised any more

vars == <<blocks, asked, top, broken>>

Init == blocks = << >> /\ asked = [p \in Callers |-> 0] /\ top = Start /\ ~broken

Ask(p) == /\ asked[p] = 0 /\ asked'[p] # 0
          /\ asked' = [asked EXCEPT ![p] = asked'[p]]
          /\ UNCHANGED <<blocks, top>>

Grant(p) ==
    \E at \in Addresses :
        /\ asked[p] # 0 /\ at >= top
        /\ blocks' = Append(blocks, [at |-> at, size |-> asked[p]])
        /\ top' = at + asked[p]
        /\ asked' = [asked EXCEPT ![p] = 0]

Refuse(p) == /\ asked[p] >= Capacity /\ asked[p] # 0
             /\ asked' = [asked EXCEPT ![p] = 0]
             /\ UNCHANGED <<blocks, top>>

FreeLast == /\ blocks # << >>
            /\ blocks' = SubSeq(blocks, 1, Len(blocks) - 1)
            /\ UNCHANGED <<asked, top>>

Keeps == ~broken /\ (FreeLast \/ \E p \in Callers : Ask(p) \/ Grant(p) \/ Refuse(p))

Next == broken' \/ (Keeps /\ ~broken')

Spec == Init /\ [][Next]_vars
=============================================================================
