------------------------------ MODULE MCJD1618 ------------------------------
(***************************************************************************)
(* The repository's own test.rom, and programs for what it leaves out.     *)
(* Most are put at 0x40.  Two end a byte before the memory's end (512      *)
(* here), one at it.                                                       *)
(***************************************************************************)
EXTENDS JD1618

TestRom == <<128, 0, 97, 0, 103, 48, 3, 128, 97, 19, 97, 16, 97, 17, 0, 0>>

\* Q counts down from what lies at 0x48.
CountDown == <<64, 0, MV, Q, 72, DEC, Q, JNZ, 67, NOP, 2>>

\* OF := 2, from where the program lies.
SetOffset == <<64, 0, INC, A, INC, A, MV, OF, A, NOP>>

\* What lies at 0xC8 is printed, then X = 0x30 is stored there.
LoadStore == <<64, 0, STI, MV, Y, 200, INT, INT_PC, MV, X, 65, MV, 200, X, CLI, NOP>>

\* Sums, differences, comparisons and jumps of every kind.
Arithmetic == <<64, 0, INC, X, ADD, A, X, SUB, A, X, JZ, 76, 0, 0, CMP, A, X, JE, 64,
                CMP, A, 0, JNE, 64, NDE, JMP, 90, 0, MV, Q, Y, 7>>

Halts == <<252, 1, INC, A, HLT>>
ToTheTop == <<252, 1, INC, A, HLT, NOP>>
RoundTheTop == <<252, 1, INC, A, STI>>
Empty == <<0, 0>>

MCPrograms ==
    {TestRom, CountDown, SetOffset, LoadStore, Arithmetic, Halts, ToTheTop, RoundTheTop,
     Empty}
=============================================================================
