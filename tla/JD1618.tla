------------------------------- MODULE JD1618 -------------------------------
(***************************************************************************)
(* loaders/JD1618.cpp: the processor that the emulator plays, its loader,  *)
(* and a caller that runs one program after the other: Start, LoadPRG,     *)
(* StartExecution.  (The kernel links the emulator and does not call it    *)
(* yet: FATFS.cpp:200.)                                                    *)
(*                                                                         *)
(* One action is one turn of ExecuteFromMemory's loop, or of LoadPRG's.    *)
(* Memory is kept as the addresses that were written; all others are 0.    *)
(* The cycles of an instruction count only as far as they decide whether   *)
(* the loop goes on.                                                       *)
(***************************************************************************)
EXTENDS Integers, Sequences, TLC

CONSTANTS Programs,    \* what LoadPRG may be given
          InitialOF,   \* what the offset register may hold before it is set
          MemorySize,  \* 65536; addresses are taken modulo it, as 16-bit ones
          MaxRuns      \* BOUND on the runs

Bytes == 0 .. 255

ASSUME JD1618Assumption ==
    /\ Programs \subseteq Seq(Bytes) /\ \A p \in Programs : Len(p) >= 2
    /\ InitialOF \subseteq Bytes /\ MaxRuns \in Nat
    /\ MemorySize \in Nat /\ MemorySize >= 256

VARIABLES
    phase,      \* where the caller or the machine is
    reg,        \* registers by their code: A, X, Y, Q, K, OF
    flag,       \* status register: Z, N, E, I
    pc, ram,
    prog, i,    \* LoadPRG's argument and index
    lowFirst,   \* how the build orders the two reads of line 708
    printed,    \* the character printed last, 0 if none
    offsetWas,  \* ghost: the offset register when the run began
    seen,       \* ghost: [prog, offset, result] of the runs that ended
    runs

vars == <<phase, reg, flag, pc, ram, prog, i, lowFirst, printed, offsetWas, seen,
          runs>>
machine == <<reg, flag, pc, ram, printed>>
session == <<prog, i, lowFirst, offsetWas, runs>>

A == 1
X == 2
Y == 3
Q == 4
K == 5
OF == 6

MV == 48
JMP == 64
JZ == 65
JNZ == 66
JE == 67
JNE == 68
DEC == 80
INC == 81
ADD == 82
SUB == 83
CMP == 84
INT == 97
CLI == 98
STI == 99
NOP == 100
HLT == 101
NDE == 102
SDE == 103
INT_PC == 16

\* Opcodes after which the loop goes on.
Known == {MV, JMP, JZ, JNZ, JE, JNE, DEC, INC, ADD, SUB, CMP, INT, CLI, STI, HLT,
          NDE, SDE}
-----------------------------------------------------------------------------
(* Memory.                                                                 *)

Peek(a) == IF a % MemorySize \in DOMAIN ram THEN ram[a % MemorySize] ELSE 0
Poke(a, b) == ram' = (a % MemorySize :> b) @@ ram

Opcode == Peek(pc)
First  == Peek(pc + 1)
Second == Peek(pc + 2)
\* The program counter does not go round.
PastUnwrapped(n) == pc + n

\* PC has 16 bits.
Past(n) == (pc + n) % MemorySize

\* Addresses are one byte, times the offset register if it is set.
Scaled(b) == IF reg[OF] = 0 THEN b ELSE b * reg[OF]
-----------------------------------------------------------------------------
(* The instructions.                                                       *)

Running(op) == phase = "running" /\ Opcode \in op
KeepRunning == UNCHANGED <<phase, session, seen>>

\* Between two registers the source is emptied; from Y to Q it is Q that is.
Moved(d, s) == IF d = Q /\ s = Y THEN [reg EXCEPT ![Q] = 0]
               ELSE [reg EXCEPT ![d] = reg[s], ![s] = 0]

Mv ==
    LET d == First  s == Second IN
    /\ Running({MV})
    /\ CASE d \in {A, X, Y, Q} ->
              /\ reg' = IF s \in (A .. K) \ {d} THEN Moved(d, s)
                        ELSE [reg EXCEPT ![d] = Peek(Scaled(s))]
              /\ UNCHANGED ram
         [] d = OF ->
              /\ reg' = IF s \in A .. Q THEN Moved(OF, s) ELSE [reg EXCEPT ![OF] = Peek(s)]
              /\ UNCHANGED ram
         [] OTHER ->
              /\ IF s \in A .. Q THEN Poke(Scaled(d), reg[s]) ELSE Poke(d, Peek(s))
              /\ UNCHANGED reg
    /\ pc' = Past(3)
    /\ UNCHANGED <<flag, printed>> /\ KeepRunning

Jumps == CASE Opcode = JMP -> TRUE
           [] Opcode = JZ -> flag.z   [] Opcode = JNZ -> ~flag.z
           [] Opcode = JE -> flag.e   [] Opcode = JNE -> ~flag.e

Jump ==
    /\ Running({JMP, JZ, JNZ, JE, JNE})
    /\ pc' = IF Jumps THEN Scaled(First) % MemorySize ELSE Past(2)
    /\ UNCHANGED <<reg, flag, ram, printed>> /\ KeepRunning

\* Register r takes value v, and Z and N follow it, or they do not.
SetFlags(v) == flag' = [flag EXCEPT !.z = (v = 0), !.n = v >= 128]
Put(r, v) == reg' = [reg EXCEPT ![r] = v]

DecInc ==
    /\ Running({DEC, INC})
    /\ IF First \notin A .. Q THEN UNCHANGED <<reg, flag>>
       ELSE LET v == (reg[First] + (IF Opcode = INC THEN 1 ELSE 255)) % 256 IN
            /\ Put(First, v)
            /\ IF Opcode = DEC THEN SetFlags(v) ELSE UNCHANGED flag
    /\ pc' = Past(2)
    /\ UNCHANGED <<ram, printed>> /\ KeepRunning

AddSub ==
    LET d == First  s == Second IN
    /\ Running({ADD, SUB})
    /\ IF d \notin A .. Y \/ s \notin (A .. Y) \ {d} THEN UNCHANGED <<reg, flag>>
       ELSE LET v == (reg[s] + (IF Opcode = ADD THEN reg[d] ELSE 256 - reg[d])) % 256 IN
            /\ Put(d, v)
            /\ IF Opcode = SUB THEN SetFlags(v) ELSE UNCHANGED flag
    /\ pc' = Past(3)
    /\ UNCHANGED <<ram, printed>> /\ KeepRunning

\* A register is compared with another, or with the operand itself; 10 does not
\* go into one bit (line 569).
Equal(a, b) ==
    \E p \in {<<a, b>>, <<b, a>>} :
        /\ p[1] \in A .. Y
        /\ reg[p[1]] = IF p[2] \in (A .. Y) \ {p[1]} THEN reg[p[2]] ELSE p[2]

Compare ==
    /\ Running({CMP})
    /\ flag' = [flag EXCEPT !.e = Equal(First, Second)]
    /\ pc' = Past(3)
    /\ UNCHANGED <<reg, ram, printed>> /\ KeepRunning

\* Of the interrupts one prints Y; the others change no state of the machine,
\* and there is none that sets K.
Interrupt ==
    /\ Running({INT})
    /\ printed' = IF flag.i /\ First = INT_PC THEN reg[Y] ELSE printed
    /\ pc' = Past(2)
    /\ UNCHANGED <<reg, flag, ram>> /\ KeepRunning

\* SDE and NDE only choose what is logged.
OneByte ==
    /\ Running({CLI, STI, SDE, NDE})
    /\ flag' = [flag EXCEPT !.i = IF Opcode \in {CLI, STI} THEN Opcode = STI ELSE @]
    /\ pc' = Past(1)
    /\ UNCHANGED <<reg, ram, printed>> /\ KeepRunning

\* The memory is not cleared.
ResetKeepsMemory ==
    /\ pc' = MemorySize - 4
    /\ reg' = [r \in A .. OF |-> IF r = OF THEN reg[OF] ELSE 0]
    /\ flag' = [z |-> FALSE, n |-> FALSE, e |-> FALSE, i |-> FALSE]
    /\ UNCHANGED ram

\* All but the offset register.
ResetCPU ==
    /\ pc' = MemorySize - 4
    /\ reg' = [r \in A .. OF |-> IF r = OF THEN reg[OF] ELSE 0]
    /\ flag' = [z |-> FALSE, n |-> FALSE, e |-> FALSE, i |-> FALSE]
    /\ ram' = << >>

\* The host's processor waits too, and the run goes on, at FFFC, when it wakes.
Hlt ==
    /\ Running({HLT}) /\ ResetCPU
    /\ phase' = "halted"
    /\ UNCHANGED <<session, printed, seen>>

Wake ==
    /\ phase = "halted" /\ phase' = "running"
    /\ UNCHANGED <<machine, session, seen>>

\* NOP, zero and what is no opcode end the run.
Unknown ==
    /\ phase = "running" /\ Opcode \notin Known
    /\ phase' = "idle" /\ pc' = Past(1)
    /\ seen' = seen \cup {[prog |-> prog, offset |-> offsetWas,
                           result |-> <<reg, flag, printed>>]}
    /\ UNCHANGED <<reg, flag, ram, printed, session>>
-----------------------------------------------------------------------------
(* The caller.                                                             *)

Init ==
    /\ phase = "idle" /\ runs = 0 /\ seen = {} /\ printed = 0
    /\ \E o \in InitialOF : reg = [r \in A .. OF |-> IF r = OF THEN o ELSE 0]
    /\ flag = [z |-> FALSE, n |-> FALSE, e |-> FALSE, i |-> FALSE]
    /\ pc = 0 /\ ram = << >> /\ prog = << >> /\ i = 0 /\ offsetWas = 0
    /\ lowFirst \in BOOLEAN

Start ==
    /\ phase = "idle" /\ runs < MaxRuns                               \* BOUND
    /\ ResetCPU
    /\ phase' = "reset" /\ runs' = runs + 1
    /\ printed' = 0
    /\ UNCHANGED <<prog, i, lowFirst, offsetWas, seen>>

\* Both bytes of the address are read by one expression, in either order.
LoadAddress(p) ==
    (IF lowFirst THEN p[1] + 256 * p[2] ELSE p[2] + 256 * p[1]) % MemorySize

\* A file of two bytes is not loaded, and PC stays at FFFC.
LoadPRG(p) ==
    /\ phase = "reset" /\ prog' = p
    /\ IF Len(p) = 2 THEN phase' = "loaded" /\ UNCHANGED <<pc, i>>
       ELSE phase' = "loading" /\ pc' = LoadAddress(p) /\ i' = LoadAddress(p)
    /\ UNCHANGED <<reg, flag, ram, lowFirst, printed, offsetWas, seen, runs>>

\* The end is loaded too.
ToLoadInclusive(j) == j <= LoadAddress(prog) + Len(prog) - 2

\* The loop's condition: i has 16 bits, the end has not.
ToLoad(j) == j < LoadAddress(prog) + Len(prog) - 2

\* What is read from behind the program's end is left out.
LoadByte ==
    /\ phase = "loading"
    /\ IF ToLoad(i)
       THEN LET at == i - LoadAddress(prog) + 3 IN
            /\ IF at \in 3 .. Len(prog) THEN Poke(i, prog[at]) ELSE UNCHANGED ram
            /\ i' = (i + 1) % MemorySize /\ UNCHANGED phase
       ELSE phase' = "loaded" /\ UNCHANGED <<ram, i>>
    /\ UNCHANGED <<reg, flag, pc, prog, lowFirst, printed, offsetWas, seen, runs>>

StartExecution ==
    /\ phase = "loaded" /\ phase' = "running" /\ offsetWas' = reg[OF]
    /\ UNCHANGED <<machine, prog, i, lowFirst, seen, runs>>

Next ==
    \/ Start \/ \E p \in Programs : LoadPRG(p)
    \/ LoadByte \/ StartExecution
    \/ Mv \/ Jump \/ DecInc \/ AddSub \/ Compare \/ Interrupt \/ OneByte
    \/ Hlt \/ Wake \/ Unknown

\* The loader runs on; nothing is assumed of the caller, nor of what wakes the host.
Spec == Init /\ [][Next]_vars /\ WF_vars(LoadByte)
-----------------------------------------------------------------------------
TypeOK ==
    /\ phase \in {"idle", "reset", "loading", "loaded", "running", "halted"}
    /\ reg \in [A .. OF -> Bytes] /\ flag \in [{"z", "n", "e", "i"} -> BOOLEAN]
    /\ pc \in 0 .. MemorySize - 1 /\ i \in 0 .. MemorySize - 1
    /\ DOMAIN ram \subseteq 0 .. MemorySize - 1
    /\ \A a \in DOMAIN ram : ram[a] \in Bytes

\* A program that is started afresh does what it did before, whatever ran in
\* between, as long as the offset register is the same: the reset clears the
\* memory, the registers and the flags, and only OF outlives it (JD1618.cpp:26-38).
RunIsRepeatable ==
    \A a, b \in seen : a.prog = b.prog /\ a.offset = b.offset => a.result = b.result

\* LoadPRG returns, except for a program that reaches the last byte of the memory:
\* its end, unlike the index, does not go round (JD1618.cpp:710).
LoadReturns ==
    phase = "loading" ~> \/ phase # "loading"
                         \/ LoadAddress(prog) + Len(prog) - 2 >= MemorySize
=============================================================================
