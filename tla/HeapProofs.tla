----------------------------- MODULE HeapProofs -----------------------------
(***************************************************************************)
(* What Heap's runs check on a small heap, proved for every heap, every    *)
(* header size and every set of requests.                                  *)
(*                                                                         *)
(* The proof follows the one idea of the code: as long as blocks are freed *)
(* last first and no handler gets one inside kernelMain's call, the list   *)
(* is the held blocks in ascending order and one free chunk above them.  A *)
(* search can only stop at that chunk, and what MemFree frees is always    *)
(* the chunk just below it.  That the heap is undisturbed also says who is *)
(* inside it: a step that changes the list finds the other caller idle.    *)
(***************************************************************************)
EXTENDS Heap, SequenceTheorems, WellFoundedInduction, TLAPS

\* A caller in the middle of MemFree still has the block that it frees.
FreesItsOwn == \A p \in Callers : call[p].pc = "freeing" => Buffers(p) # {}

\* A heap with no block yet is one free chunk.
Fresh ==
    held = << >> =>
      /\ first = HeapStart
      /\ chunk[HeapStart] = Alone(HeapSize - HeaderSize)

\* The blocks ascend, and the free chunk lies above them all.
Ascending ==
    /\ \A i \in 1 .. Len(held) :
         /\ HeapStart <= ChunkOf(i)
         /\ held[i].at + held[i].size <= Top
    /\ \A i, j \in 1 .. Len(held) : i < j => held[i].at + held[i].size <= ChunkOf(j)

\* What each block found outstanding when it was taken, and so what is left.
Accounted ==
    /\ \A i \in 1 .. Len(held) :
         held[i].below = IF i = 1 THEN 0
                         ELSE held[i - 1].below + held[i - 1].size + HeaderSize
    /\ chunk[Top].size = HeapSize - HeaderSize - Outstanding

\* The first block is kernelMain's, and a handler holds nothing to be freed outside
\* its run, or in a run that came inside one of kernelMain's calls.
Nested ==
    /\ inside => active
    /\ active => held # << >>
    /\ held # << >> => held[1].owner = "kept"
    /\ ~inside => call["handler"].pc = "idle"
    /\ ~inside \/ call["main"].pc # "idle" =>
         \A i \in 1 .. Len(held) : held[i].owner # "handler"

\* A search is at a chunk of the list, for a size that a caller may ask for now; or
\* it is past the list's end, for more than the heap has.
Searching ==
    \A p \in Callers :
      InSearch(p) =>
        /\ call[p].size # 0
        /\ IF held = << >> THEN call[p].size = BootSize ELSE Reasonable(call[p].size)
        /\ call[p].cursor \in {Null, Top} \cup {ChunkOf(i) : i \in 1 .. Len(held)}
        /\ call[p].cursor = Null => call[p].size >= HeapSize
        /\ call[p].pc = "found" => Fits(call[p].cursor, call[p].size)

\* MemFree works on the last block, which is the caller's.
FreesLast ==
    \A p \in Callers :
      call[p].pc = "freeing" =>
        /\ Len(held) > 1
        /\ call[p].cursor = ChunkOf(Len(held))
        /\ held[Len(held)].owner = p

Sound ==
    /\ Fresh
    /\ ListIsHeldThenFree
    /\ Ascending
    /\ Accounted
    /\ Nested
    /\ Searching
    /\ FreesLast

IInv ==
    /\ TypeOK
    /\ FreesItsOwn
    /\ ~Disturbed => Sound
-----------------------------------------------------------------------------
\* Addresses are positive numbers, and 0 is none of them.
LEMMA AddressFacts ==
    /\ Null \notin Memory
    /\ \A a \in Memory : a \in Nat /\ 1 <= a /\ a <= MaxAddress
    /\ \A a \in Nat : 1 <= a /\ a <= MaxAddress => a \in Memory
    /\ HeapStart \in Memory
BY HeapAssumption DEF Null, Memory

\* A set of natural numbers that is not empty has a smallest member.
LEMMA Smallest ==
    ASSUME NEW S, S \subseteq Nat, S # {}
    PROVE  \E i \in S : \A j \in S : i <= j
<1>. DEFINE R == OpToRel(<, Nat)
<1>1. IsWellFoundedOn(R, Nat)
  BY NatLessThanWellFounded
<1>2. \A x, y \in Nat : y < x => <<y, x>> \in R
  BY DEF OpToRel
<1>. HIDE DEF R
<1>3. PICK i \in S : \A j \in S : <<j, i>> \notin R
  BY <1>1, WFMin
<1>4. ASSUME NEW j \in S PROVE i <= j
  <2>1. i \in Nat /\ j \in Nat
    OBVIOUS
  <2>2. ~(j < i)
    BY <1>2, <1>3, <2>1
  <2>. QED
    BY <2>1, <2>2
<1>. QED
  BY <1>4

\* A caller's last block is one of its own, and the only one that lies above the others.
LEMMA LastBuffer ==
    ASSUME held \in Seq(Block), NEW p, Buffers(p) # {}
    PROVE  /\ Max(Buffers(p)) \in 1 .. Len(held)
           /\ held[Max(Buffers(p))].owner = p
           /\ \A j \in Buffers(p) : j <= Max(Buffers(p))
<1>. DEFINE N == Len(held)
            S == {N - i : i \in Buffers(p)}
<1>1. N \in Nat /\ \A i \in Buffers(p) : i \in 1 .. N /\ held[i].owner = p
  BY DEF Buffers
<1>. HIDE DEF N
<1>2. S \subseteq Nat /\ S # {}
  BY <1>1
<1>3. PICK m \in S : \A n \in S : m <= n
  BY <1>2, Smallest
<1>4. PICK i \in Buffers(p) : m = N - i
  OBVIOUS
<1>5. \A j \in Buffers(p) : i >= j
  <2>1. ASSUME NEW j \in Buffers(p) PROVE i >= j
    <3>1. N - i <= N - j
      BY <1>3, <1>4
    <3>. QED
      BY <1>1, <3>1
  <2>. QED
    BY <2>1
<1>6. Max(Buffers(p)) \in Buffers(p) /\ \A j \in Buffers(p) : Max(Buffers(p)) >= j
  BY <1>5 DEF Max
<1>. QED
  BY <1>1, <1>6 DEF N

\* What RemoveAt leaves of a sequence.
LEMMA RemoveAtFacts ==
    ASSUME NEW S, NEW s \in Seq(S), NEW i \in 1 .. Len(s)
    PROVE  /\ RemoveAt(s, i) \in Seq(S) /\ Len(RemoveAt(s, i)) = Len(s) - 1
           /\ \A j \in 1 .. i - 1 : RemoveAt(s, i)[j] = s[j]
           /\ \A j \in i + 1 .. Len(s) : RemoveAt(s, i)[j - 1] = s[j]
<1>. DEFINE N == Len(s)
            a == SubSeq(s, 1, i - 1)
            b == SubSeq(s, i + 1, N)
<1>1. N \in Nat /\ i \in Nat /\ 1 <= i /\ i <= N /\ \A j \in 1 .. N : s[j] \in S
  OBVIOUS
<1>2. /\ a \in Seq(S) /\ Len(a) = i - 1
      /\ \A j \in 1 .. i - 1 : a[j] = s[j]
  BY <1>1
<1>3. /\ b \in Seq(S) /\ Len(b) = N - i
      /\ \A j \in 1 .. N - i : b[j] = s[i + j]
  <2>1. CASE i = N
    <3>1. N < i + 1
      BY <1>1, <2>1
    <3>2. b = << >>
      BY <1>1, <3>1
    <3>. QED
      BY <1>1, <2>1, <3>2
  <2>2. CASE i < N
    <3>. QED
      BY <1>1, <2>2
  <2>. QED
    BY <1>1, <2>1, <2>2
<1>. HIDE DEF a, b, N
<1>4. /\ a \o b \in Seq(S) /\ Len(a \o b) = N - 1
      /\ \A j \in 1 .. i - 1 : (a \o b)[j] = a[j]
      /\ \A j \in i .. N - 1 : (a \o b)[j] = b[j - (i - 1)]
  <2>1. /\ a \o b \in Seq(S) /\ Len(a \o b) = Len(a) + Len(b)
        /\ \A j \in 1 .. Len(a) + Len(b) :
             (a \o b)[j] = IF j <= Len(a) THEN a[j] ELSE b[j - Len(a)]
    BY <1>2, <1>3, ConcatProperties
  <2>2. Len(a) + Len(b) = N - 1 /\ Len(a) = i - 1
    BY <1>1, <1>2, <1>3
  <2>3. \A j \in 1 .. i - 1 : j \in 1 .. N - 1 /\ j <= i - 1
    BY <1>1
  <2>4. \A j \in i .. N - 1 : j \in 1 .. N - 1 /\ ~(j <= i - 1)
    BY <1>1
  <2>. QED
    BY <2>1, <2>2, <2>3, <2>4
<1>5. ASSUME NEW j \in i + 1 .. N PROVE (a \o b)[j - 1] = s[j]
  <2>1. j - 1 \in i .. N - 1 /\ (j - 1) - (i - 1) = j - i
    BY <1>1
  <2>2. j - i \in 1 .. N - i /\ i + (j - i) = j
    BY <1>1
  <2>. QED
    BY <1>3, <1>4, <2>1, <2>2
<1>. QED
  BY <1>2, <1>4, <1>5 DEF RemoveAt, a, b, N
-----------------------------------------------------------------------------
Typed == TypeOK /\ FreesItsOwn

Call == [pc : {"idle", "searching", "found", "freeing"}, size : Nat,
         cursor : Memory \cup {Null}]

\* The headers stay headers when one is cut or marked.
LEMMA HandOutTyped ==
    ASSUME TypeOK, NEW c \in Memory, NEW size \in Nat, Remainder(c, size) <= MaxAddress
    PROVE  HandOut(c, size) \in [Memory -> Chunk]
<1>. DEFINE n == Remainder(c, size)
            rest == [next |-> chunk[c].next, prev |-> c, allocated |-> FALSE,
                     size |-> chunk[c].size - HeaderSize - size]
            kept == [next |-> n, prev |-> chunk[c].prev, allocated |-> TRUE,
                     size |-> size]
            cut == [chunk EXCEPT ![n] = rest, ![c] = kept]
<1>1. chunk \in [Memory -> Chunk] /\ chunk[c] \in Chunk
  BY DEF TypeOK
<1>2. n \in Memory
  <2>1. c \in Nat /\ 1 <= c
    BY AddressFacts
  <2>2. n \in Nat /\ 1 <= n /\ n <= MaxAddress
    BY <2>1, HeapAssumption DEF Remainder
  <2>. QED
    BY <2>2, AddressFacts
<1>3. CASE Splits(c, size)
  <2>1. chunk[c].size - HeaderSize - size \in Nat
    <3>1. chunk[c].size \in Nat /\ chunk[c].size > size + HeaderSize + 1
      BY <1>1, <1>3 DEF Chunk, Splits
    <3>. QED
      BY <3>1, HeapAssumption
  <2>2. rest \in Chunk /\ kept \in Chunk
    <3>1. chunk[c].next \in Memory \cup {Null} /\ chunk[c].prev \in Memory \cup {Null}
      BY <1>1 DEF Chunk
    <3>. HIDE DEF n
    <3>. QED
      BY <1>2, <2>1, <3>1 DEF Chunk
  <2>. HIDE DEF rest, kept, n
  <2>3. cut \in [Memory -> Chunk]
    BY <1>1, <1>2, <2>2
  <2>4. chunk[c].next \in Memory \cup {Null}
    BY <1>1 DEF Chunk
  <2>5. HandOut(c, size) = LinkBack(cut, chunk[c].next, n)
    BY <1>3 DEF HandOut, rest, kept, n
  <2>. HIDE DEF cut
  <2>6. LinkBack(cut, chunk[c].next, n) \in [Memory -> Chunk]
    <3>1. CASE chunk[c].next = Null
      BY <2>3, <3>1 DEF LinkBack
    <3>2. CASE chunk[c].next \in Memory
      <4>1. LinkBack(cut, chunk[c].next, n) = [cut EXCEPT ![chunk[c].next].prev = n]
        BY <3>2, AddressFacts DEF LinkBack
      <4>. QED
        BY <1>2, <2>3, <3>2, <4>1 DEF Chunk
    <3>. QED
      BY <2>4, <3>1, <3>2
  <2>. QED
    BY <2>5, <2>6
<1>4. CASE ~Splits(c, size)
  BY <1>1, <1>4 DEF HandOut, Chunk
<1>. QED
  BY <1>3, <1>4

LEMMA LinkTyped ==
    ASSUME NEW m \in [Memory -> Chunk], NEW q \in Memory \cup {Null},
           NEW r \in Memory \cup {Null}
    PROVE  /\ LinkBack(m, q, r) \in [Memory -> Chunk]
           /\ LinkOn(m, q, r) \in [Memory -> Chunk]
<1>1. CASE q = Null
  BY <1>1 DEF LinkBack, LinkOn
<1>2. CASE q \in Memory
  <2>1. /\ LinkBack(m, q, r) = [m EXCEPT ![q].prev = r]
        /\ LinkOn(m, q, r) = [m EXCEPT ![q].next = r]
    BY <1>2, AddressFacts DEF LinkBack, LinkOn
  <2>2. [m EXCEPT ![q].prev = r] \in [Memory -> Chunk]
    BY <1>2 DEF Chunk
  <2>3. [m EXCEPT ![q].next = r] \in [Memory -> Chunk]
    BY <1>2 DEF Chunk
  <2>. QED
    BY <2>1, <2>2, <2>3
<1>. QED
  BY <1>1, <1>2

\* So do they when a freed chunk is linked, wherever that is.
LEMMA MergeTyped ==
    ASSUME TypeOK, NEW c \in Memory
    PROVE  /\ IsFree(chunk[c].prev) => IntoPrevious(c) \in [Memory -> Chunk]
           /\ IsFree(chunk[c].next) => IntoNext(c) \in [Memory -> Chunk]
           /\ ToFront(c) \in [Memory -> Chunk]
<1>. DEFINE p == chunk[c].prev
            n == chunk[c].next
<1>1. /\ chunk \in [Memory -> Chunk] /\ chunk[c] \in Chunk /\ first \in Memory
      /\ p \in Memory \cup {Null} /\ n \in Memory \cup {Null} /\ chunk[c].size \in Nat
  BY DEF TypeOK, Chunk
<1>3. ASSUME IsFree(p) PROVE IntoPrevious(c) \in [Memory -> Chunk]
  <2>1. p \in Memory
    BY <1>1, <1>3 DEF IsFree
  <2>. DEFINE m == [chunk EXCEPT ![p].next = n]
              k == [m EXCEPT ![p].size = @ + chunk[c].size + HeaderSize]
  <2>2. m \in [Memory -> Chunk]
    BY <1>1, <2>1 DEF Chunk
  <2>3. IntoPrevious(c) = LinkBack(k, n, p)
    BY DEF IntoPrevious
  <2>. HIDE DEF m
  <2>4. k \in [Memory -> Chunk]
    <3>1. m[p].size + chunk[c].size + HeaderSize \in Nat
      BY <1>1, <2>1, <2>2, HeapAssumption DEF Chunk
    <3>. HIDE DEF p
    <3>. QED
      BY <2>1, <2>2, <3>1 DEF Chunk
  <2>. HIDE DEF k, n, p
  <2>5. LinkBack(k, n, p) \in [Memory -> Chunk]
    BY <1>1, <2>1, <2>4, LinkTyped
  <2>. QED
    BY <2>3, <2>5
<1>4. ASSUME IsFree(n) PROVE IntoNext(c) \in [Memory -> Chunk]
  <2>1. n \in Memory
    BY <1>1, <1>4 DEF IsFree
  <2>. DEFINE grown == [next |-> chunk[n].next, prev |-> p,
                        allocated |-> chunk[n].allocated,
                        size |-> chunk[n].size + chunk[c].size + HeaderSize]
              m == [chunk EXCEPT ![n] = grown]
  <2>2. grown \in Chunk
    BY <1>1, <2>1, HeapAssumption DEF Chunk
  <2>3. IntoNext(c) = LinkOn(m, p, n)
    BY DEF IntoNext
  <2>. HIDE DEF grown
  <2>4. m \in [Memory -> Chunk]
    BY <1>1, <2>1, <2>2
  <2>. HIDE DEF m, n, p
  <2>5. LinkOn(m, p, n) \in [Memory -> Chunk]
    BY <1>1, <2>1, <2>4, LinkTyped
  <2>. QED
    BY <2>3, <2>5
<1>5. ToFront(c) \in [Memory -> Chunk]
  <2>. DEFINE d == [chunk[c] EXCEPT !.prev = Null, !.next = first]
              m == [chunk EXCEPT ![c] = d]
  <2>1. d \in Chunk
    BY <1>1 DEF Chunk
  <2>2. ToFront(c) = [m EXCEPT ![first].prev = c]
    BY <1>1 DEF ToFront
  <2>. HIDE DEF d
  <2>3. m \in [Memory -> Chunk]
    BY <1>1, <2>1
  <2>. HIDE DEF m
  <2>. QED
    BY <1>1, <2>2, <2>3 DEF Chunk
<1>. QED
  BY <1>3, <1>4, <1>5

\* One caller's state changes at a time.
LEMMA CallTyped ==
    ASSUME TypeOK, NEW p \in Callers, NEW r \in Call,
           r.pc \in {"found", "freeing"} => r.cursor # Null,
           call' = [call EXCEPT ![p] = r]
    PROVE  /\ call' \in [Callers -> Call] /\ call'[p] = r
           /\ \A q \in Callers : q # p => call'[q] = call[q]
           /\ \A q \in Callers : call'[q].pc \in {"found", "freeing"} => call'[q].cursor # Null
BY DEF TypeOK, Call

LEMMA IdleTyped == Idle \in Call /\ Idle.pc = "idle" /\ Idle.size = 0
BY DEF Idle, Call

\* The steps that leave the headers and the blocks alone.
LEMMA QuietTyped ==
    ASSUME Typed, NEW p \in Callers, NEW r \in Call,
           r.pc = "found" => r.cursor # Null, r.pc # "freeing",
           call' = [call EXCEPT ![p] = r], since' \in Nat,
           UNCHANGED <<first, chunk, held, active, inside>>
    PROVE  Typed'
<1>1. TypeOK'
  BY CallTyped DEF Typed, TypeOK, Call
<1>2. FreesItsOwn'
  BY CallTyped DEF Typed, TypeOK, FreesItsOwn, Buffers
<1>. QED
  BY <1>1, <1>2 DEF Typed

\* Blocks that are added leave a caller what it had.
LEMMA TakeTyped ==
    ASSUME Typed, NEW p \in Callers, Take(p)
    PROVE  Typed'
<1>. DEFINE c == call[p].cursor
            size == call[p].size
<1>1. c \in Memory /\ size \in Nat /\ held \in Seq(Block)
  BY DEF Typed, TypeOK, Take
<1>2. HandOut(c, size) \in [Memory -> Chunk]
  BY <1>1, HandOutTyped DEF Take, Typed
<1>3. Outstanding \in Nat
  <2>1. CASE held = << >>
    BY <2>1 DEF Outstanding
  <2>2. CASE held # << >>
    <3>1. held[Len(held)] \in Block
      BY <1>1, <2>2
    <3>. QED
      BY <2>2, <3>1, HeapAssumption DEF Outstanding, Block
  <2>. QED
    BY <2>1, <2>2
<1>4. c + HeaderSize \in HeaderSize + 1 .. MaxAddress
  <2>1. c \in Nat /\ 1 <= c /\ c + HeaderSize + size <= MaxAddress
    BY <1>1, AddressFacts DEF Take, Remainder
  <2>. HIDE DEF c, size
  <2>. QED
    BY <1>1, <2>1, HeapAssumption
<1>5. PICK owner \in OwnersFor(p) :
        held' = Append(held, [at |-> c + HeaderSize, size |-> size,
                              below |-> Outstanding, owner |-> owner])
  BY DEF Take
<1>6. owner \in Callers \cup {"kept"}
  BY DEF OwnersFor, Callers
<1>. DEFINE b == [at |-> c + HeaderSize, size |-> size,
                  below |-> Outstanding, owner |-> owner]
<1>7. b \in Block
  BY <1>1, <1>3, <1>4, <1>6 DEF Block
<1>8. held' = Append(held, b)
  BY <1>5
<1>. HIDE DEF b
<1>9. /\ held' \in Seq(Block) /\ Len(held') = Len(held) + 1
      /\ \A i \in 1 .. Len(held) : held'[i] = held[i]
  BY <1>1, <1>7, <1>8
<1>10. since' \in Nat
  BY DEF Take, DisturbedIf, Typed, TypeOK
<1>11. TypeOK'
  <2>1. call' = [call EXCEPT ![p] = Idle] /\ UNCHANGED <<first, active, inside>>
    BY DEF Take
  <2>2. chunk' = HandOut(c, size)
    BY DEF Take
  <2>. QED
    BY <1>2, <1>9, <1>10, <2>1, <2>2, CallTyped, IdleTyped DEF Typed, TypeOK, Call
<1>12. \A q \in Callers : Buffers(q) \subseteq Buffers(q)'
  BY <1>1, <1>9 DEF Buffers
<1>13. FreesItsOwn'
  BY <1>12, CallTyped, IdleTyped DEF Typed, FreesItsOwn, Take
<1>. QED
  BY <1>11, <1>13 DEF Typed

LEMMA BlockTyped ==
    ASSUME TypeOK, NEW i \in 1 .. Len(held)
    PROVE  held[i] \in Block /\ ChunkOf(i) \in Memory
<1>1. held[i] \in Block
  BY DEF TypeOK
<1>2. ChunkOf(i) \in Nat /\ 1 <= ChunkOf(i) /\ ChunkOf(i) <= MaxAddress
  BY <1>1, HeapAssumption DEF Block, ChunkOf
<1>. QED
  BY <1>1, <1>2, AddressFacts

LEMMA MemFreeTyped ==
    ASSUME Typed, NEW p \in Callers, MemFree(p)
    PROVE  Typed'
<1>. DEFINE i == Max(Buffers(p))
            r == [pc |-> "freeing", size |-> 0, cursor |-> ChunkOf(i)]
<1>1. i \in 1 .. Len(held) /\ held[i].owner = p
  BY LastBuffer DEF MemFree, Typed, TypeOK
<1>2. ChunkOf(i) \in Memory
  BY <1>1, BlockTyped DEF Typed
<1>3. chunk' \in [Memory -> Chunk]
  BY <1>2 DEF MemFree, Typed, TypeOK, Chunk
<1>4. /\ call' = [call EXCEPT ![p] = r] /\ UNCHANGED <<first, held, active, inside>>
      /\ Buffers(p) # {}
  BY DEF MemFree
<1>5. r \in Call /\ r.cursor # Null /\ r.pc = "freeing"
  BY <1>2, AddressFacts DEF Call
<1>. HIDE DEF r
<1>6. /\ call' \in [Callers -> Call]
      /\ \A q \in Callers : q # p => call'[q] = call[q]
      /\ \A q \in Callers : call'[q].pc \in {"found", "freeing"} => call'[q].cursor # Null
  BY <1>4, <1>5, CallTyped DEF Typed
<1>7. since' \in Nat
  BY DEF MemFree, DisturbedIf, Typed, TypeOK
<1>8. TypeOK'
  BY <1>3, <1>4, <1>6, <1>7 DEF Typed, TypeOK, Call
<1>9. FreesItsOwn'
  BY <1>4, <1>6 DEF Typed, FreesItsOwn, Buffers
<1>. QED
  BY <1>8, <1>9 DEF Typed

LEMMA MergeKeepsTypes ==
    ASSUME Typed, NEW p \in Callers, Merge(p)
    PROVE  Typed'
<1>. DEFINE i == Max(Buffers(p))
            N == Len(held)
            c == call[p].cursor
<1>1. call[p].pc = "freeing" /\ c \in Memory /\ held \in Seq(Block) /\ N \in Nat
  BY DEF Merge, Typed, TypeOK
<1>2. i \in 1 .. N /\ held[i].owner = p
  BY <1>1, LastBuffer DEF Typed, FreesItsOwn
<1>3. chunk' \in [Memory -> Chunk] /\ first' \in Memory
  BY <1>1, MergeTyped DEF Merge, Typed, TypeOK
<1>4. /\ call' = [call EXCEPT ![p] = Idle] /\ UNCHANGED <<active, inside, since>>
      /\ held' = RemoveAt(held, i)
  BY DEF Merge
<1>. HIDE DEF i
<1>5. /\ held' \in Seq(Block) /\ Len(held') = N - 1
      /\ \A j \in 1 .. i - 1 : held'[j] = held[j]
      /\ \A j \in i + 1 .. N : held'[j - 1] = held[j]
  BY <1>1, <1>2, <1>4, RemoveAtFacts
<1>6. /\ call' \in [Callers -> Call] /\ call'[p] = Idle
      /\ \A q \in Callers : q # p => call'[q] = call[q]
      /\ \A q \in Callers : call'[q].pc \in {"found", "freeing"} => call'[q].cursor # Null
  BY <1>4, CallTyped, IdleTyped DEF Typed
<1>7. TypeOK'
  BY <1>3, <1>4, <1>5, <1>6 DEF Typed, TypeOK, Call
<1>8. ASSUME NEW q \in Callers, q # p, call[q].pc = "freeing"
      PROVE  Buffers(q)' # {}
  <2>1. PICK j \in 1 .. N : held[j].owner = q
    BY <1>8 DEF Typed, FreesItsOwn, Buffers
  <2>2. j # i
    BY <1>2, <1>8, <2>1
  <2>3. CASE j < i
    <3>1. j \in 1 .. i - 1 /\ j \in 1 .. N - 1
      BY <1>1, <1>2, <2>1, <2>3
    <3>. QED
      BY <1>5, <2>1, <3>1 DEF Buffers
  <2>4. CASE j > i
    <3>1. j \in i + 1 .. N /\ j - 1 \in 1 .. N - 1
      BY <1>1, <1>2, <2>1, <2>4
    <3>. QED
      BY <1>5, <2>1, <3>1 DEF Buffers
  <2>. QED
    BY <1>1, <1>2, <2>1, <2>2, <2>3, <2>4
<1>9. FreesItsOwn'
  BY <1>6, <1>8, IdleTyped DEF FreesItsOwn
<1>. QED
  BY <1>7, <1>9 DEF Typed

\* The types are kept whatever the callers do to each other.
LEMMA TypedKeeps == Typed /\ [Next]_vars => Typed'
<1>. SUFFICES ASSUME Typed, [Next]_vars PROVE Typed'
  OBVIOUS
<1>1. ASSUME NEW p \in Callers, NEW size \in Sizes \cup {BootSize}, MemAllocate(p, size)
      PROVE  Typed'
  <2>. DEFINE r == [pc |-> "searching", size |-> size, cursor |-> first]
  <2>1. r \in Call /\ r.pc = "searching"
    BY HeapAssumption DEF Typed, TypeOK, Call
  <2>2. since' \in Nat /\ call' = [call EXCEPT ![p] = r]
    BY <1>1 DEF MemAllocate, Typed, TypeOK
  <2>. HIDE DEF r
  <2>. QED
    BY <1>1, <2>1, <2>2, QuietTyped DEF MemAllocate
<1>2. ASSUME NEW p \in Callers, NextChunk(p) \/ Find(p)
      PROVE  Typed'
  <2>1. call[p] \in Call /\ chunk \in [Memory -> Chunk] /\ since' \in Nat
    BY <1>2 DEF Typed, TypeOK, Call, NextChunk, Find
  <2>2. PICK r : r = call'[p]
    OBVIOUS
  <2>3. r \in Call /\ r.pc # "freeing" /\ (r.pc = "found" => r.cursor # Null)
    BY <1>2, <2>1, <2>2 DEF NextChunk, Find, Call, Chunk, Typed, TypeOK
  <2>4. call' = [call EXCEPT ![p] = r]
    BY <1>2, <2>1, <2>2 DEF NextChunk, Find, Call, Typed, TypeOK
  <2>. QED
    BY <1>2, <2>1, <2>3, <2>4, QuietTyped DEF NextChunk, Find
<1>3. ASSUME NEW p \in Callers, NoneFits(p)
      PROVE  Typed'
  BY <1>3, IdleTyped, QuietTyped DEF NoneFits, Typed, TypeOK
<1>4. ASSUME NEW p \in Callers, Take(p) PROVE Typed'
  BY <1>4, TakeTyped
<1>5. ASSUME NEW p \in Callers, MemFree(p) PROVE Typed'
  BY <1>5, MemFreeTyped
<1>6. ASSUME NEW p \in Callers, Merge(p) PROVE Typed'
  BY <1>6, MergeKeepsTypes
<1>7. CASE Activate \/ HandlerEnters \/ HandlerReturns \/ UNCHANGED vars
  <2>1. /\ UNCHANGED <<first, chunk, held, call, since>>
        /\ active' \in BOOLEAN /\ inside' \in BOOLEAN
    BY <1>7 DEF Activate, HandlerEnters, HandlerReturns, vars, Typed, TypeOK
  <2>2. TypeOK'
    BY <2>1 DEF Typed, TypeOK
  <2>3. FreesItsOwn'
    BY <2>1 DEF Typed, FreesItsOwn, Buffers
  <2>. QED
    BY <2>2, <2>3 DEF Typed
<1>. QED
  BY <1>1, <1>2, <1>3, <1>4, <1>5, <1>6, <1>7 DEF Next, InCall
-----------------------------------------------------------------------------
\* Disturbed once, disturbed for ever.
LEMMA WasUndisturbed ==
    ASSUME TypeOK, [Next]_vars, ~Disturbed'
    PROVE  ~Disturbed
<1>1. since \in Nat /\ since' = 0
  BY DEF TypeOK, Disturbed
<1>2. ASSUME NEW p \in Callers, InCall(p) PROVE since = 0
  BY <1>1, <1>2 DEF InCall, MemAllocate, NextChunk, NoneFits, Find, Take, MemFree, Merge,
                    DisturbedIf, Disturbed
<1>3. CASE Activate \/ HandlerEnters \/ HandlerReturns \/ UNCHANGED vars
  BY <1>1, <1>3 DEF Activate, HandlerEnters, HandlerReturns, vars, Disturbed
<1>. QED
  BY <1>2, <1>3 DEF Next, Disturbed

\* The free chunk at the top, as the invariant describes it.
LEMMA TopFacts ==
    ASSUME IInv, ~Disturbed
    PROVE  /\ Top \in Memory /\ HeapStart <= Top
           /\ chunk[Top] \in Chunk
           /\ ~chunk[Top].allocated /\ chunk[Top].next = Null
           /\ chunk[Top].prev = IF held = << >> THEN Null ELSE ChunkOf(Len(held))
           /\ Outstanding \in Nat
<1>1. TypeOK /\ Fresh /\ ListIsHeldThenFree /\ Ascending
  BY DEF IInv, Sound
<1>2. CASE held = << >>
  <2>1. Top = HeapStart /\ Outstanding = 0
    BY <1>1, <1>2 DEF Top, Fresh, Outstanding
  <2>2. chunk[HeapStart] = Alone(HeapSize - HeaderSize)
    BY <1>1, <1>2 DEF Fresh
  <2>3. chunk[HeapStart] \in Chunk
    BY <1>1, AddressFacts DEF TypeOK
  <2>. QED
    BY <1>2, <2>1, <2>2, <2>3, AddressFacts, HeapAssumption DEF Alone
<1>3. CASE held # << >>
  <2>. DEFINE N == Len(held)
  <2>1. N \in Nat /\ 1 <= N /\ N \in 1 .. N /\ held[N] \in Block
    BY <1>1, <1>3 DEF TypeOK
  <2>2. HeapStart <= ChunkOf(N) /\ held[N].at + held[N].size <= Top
    BY <1>1, <2>1 DEF Ascending
  <2>3. /\ chunk[ChunkOf(N)].next # Null
        /\ chunk[chunk[ChunkOf(N)].next].prev = ChunkOf(N)
        /\ ~chunk[chunk[ChunkOf(N)].next].allocated
        /\ chunk[chunk[ChunkOf(N)].next].next = Null
    BY <1>1, <1>3, <2>1 DEF ListIsHeldThenFree
  <2>4. Top = chunk[ChunkOf(N)].next
    BY <1>3 DEF Top
  <2>5. ChunkOf(N) \in Memory
    BY <1>1, <2>1, BlockTyped
  <2>6. chunk[ChunkOf(N)] \in Chunk
    BY <1>1, <2>5 DEF TypeOK
  <2>7. Top \in Memory
    BY <2>3, <2>4, <2>6 DEF Chunk
  <2>8. chunk[Top] \in Chunk
    BY <1>1, <2>7 DEF TypeOK
  <2>9. HeapStart <= Top
    <3>1. /\ held[N].at \in Nat /\ held[N].size \in Nat /\ Top \in Nat
      BY <2>1, <2>7, AddressFacts, HeapAssumption DEF Block
    <3>. QED
      BY <3>1, <2>2, HeapAssumption DEF ChunkOf
  <2>10. Outstanding \in Nat
    BY <1>3, <2>1, HeapAssumption DEF Outstanding, Block
  <2>. QED
    BY <1>3, <2>3, <2>4, <2>7, <2>8, <2>9, <2>10
<1>. QED
  BY <1>2, <1>3

\* Every block's chunk lies in the heap, below the top; it is marked, but for the one
\* that MemFree is working on.
LEMMA BlockFacts ==
    ASSUME IInv, ~Disturbed, NEW i \in 1 .. Len(held)
    PROVE  /\ held[i] \in Block /\ held[i].at \in Nat /\ held[i].size \in Nat
           /\ ChunkOf(i) \in Memory /\ ChunkOf(i) < Top
           /\ chunk[ChunkOf(i)] \in Chunk
           /\ chunk[ChunkOf(i)].allocated <=> ~(i = Len(held) /\ Freeing)
           /\ chunk[ChunkOf(i)].size = held[i].size
           /\ i < Len(held) => chunk[ChunkOf(i)].next = ChunkOf(i + 1)
           /\ i = Len(held) => chunk[ChunkOf(i)].next = Top
<1>1. TypeOK /\ ListIsHeldThenFree /\ Ascending
  BY DEF IInv, Sound
<1>2. held[i] \in Block /\ held # << >> /\ ChunkOf(i) \in Memory
  BY <1>1, BlockTyped DEF TypeOK
<1>3. held[i].at + held[i].size <= Top
  BY <1>1 DEF Ascending
<1>4. held[i].at \in Nat /\ held[i].size \in Nat
  BY <1>2, HeapAssumption DEF Block
<1>5. ChunkOf(i) < Top
  <2>1. Top \in Nat
    BY TopFacts, AddressFacts
  <2>. QED
    BY <1>3, <1>4, <2>1, HeapAssumption DEF ChunkOf
<1>6. chunk[ChunkOf(i)].allocated <=> ~(i = Len(held) /\ Freeing)
  BY <1>1, <1>2 DEF ListIsHeldThenFree
<1>7. /\ chunk[ChunkOf(i)].size = held[i].size
      /\ i < Len(held) => chunk[ChunkOf(i)].next = ChunkOf(i + 1)
  BY <1>1, <1>2 DEF ListIsHeldThenFree
<1>8. i = Len(held) => chunk[ChunkOf(i)].next = Top
  BY <1>2 DEF Top
<1>. QED
  BY <1>1, <1>2, <1>4, <1>5, <1>6, <1>7, <1>8 DEF TypeOK

\* The chunks of the blocks ascend as the blocks do.
LEMMA ChunksAscend ==
    ASSUME IInv, ~Disturbed, NEW i \in 1 .. Len(held), NEW j \in 1 .. Len(held), i < j
    PROVE  ChunkOf(i) < ChunkOf(j)
<1>1. held[i].at + held[i].size <= ChunkOf(j)
  BY DEF IInv, Sound, Ascending
<1>2. held[i].at \in Nat /\ held[i].size \in Nat /\ ChunkOf(j) \in Nat
  BY BlockFacts, AddressFacts
<1>3. ChunkOf(i) = held[i].at - HeaderSize
  BY DEF ChunkOf
<1>. QED
  BY <1>1, <1>2, <1>3, HeapAssumption

\* The other caller: kernelMain outside the handler's run is idle when the handler has
\* a buffer, the handler is idle when it does not run.
LEMMA OtherIsIdle ==
    ASSUME IInv, ~Disturbed, NEW p \in Callers, Runs(p),
           \/ p = "main"
           \/ call["main"].pc = "idle"
           \/ \E i \in 1 .. Len(held) : held[i].owner = p
    PROVE  \A q \in Callers : q # p => call[q].pc = "idle"
<1>1. Nested
  BY DEF IInv, Sound
<1>2. CASE p = "main"
  <2>1. call["handler"].pc = "idle"
    BY <1>1, <1>2 DEF Runs, Nested
  <2>. QED
    BY <1>2, <2>1 DEF Callers
<1>3. CASE p = "handler"
  <2>1. call["main"].pc = "idle"
    BY <1>1, <1>3 DEF Nested
  <2>. QED
    BY <1>3, <2>1 DEF Callers
<1>. QED
  BY <1>2, <1>3 DEF Callers
-----------------------------------------------------------------------------
LEMMA InitIInv == Init => IInv
<1>. SUFFICES ASSUME Init PROVE IInv
  OBVIOUS
<1>. USE DEF Init
<1>1. chunk[HeapStart] = Alone(HeapSize - HeaderSize)
  BY AddressFacts
<1>2. TypeOK
  <2>1. HeapSize - HeaderSize \in Nat
    BY HeapAssumption
  <2>2. \A s \in Nat : Alone(s) \in Chunk
    BY DEF Alone, Chunk
  <2>3. chunk \in [Memory -> Chunk]
    BY <2>1, <2>2
  <2>4. held \in Seq(Block) /\ since \in Nat /\ first \in Memory
    BY AddressFacts
  <2>5. /\ call \in [Callers -> [pc : {"idle", "searching", "found", "freeing"}, size : Nat,
                               cursor : Memory \cup {Null}]]
        /\ \A p \in Callers : call[p].pc = "idle"
    BY DEF Idle, Null
  <2>6. \A p \in Callers : call[p].pc \in {"found", "freeing"} => call[p].cursor # Null
    BY <2>5
  <2>. QED
    BY <2>3, <2>4, <2>5, <2>6 DEF TypeOK
<1>3. \A p \in Callers : call[p].pc = "idle"
  BY DEF Idle
<1>4. Fresh /\ ListIsHeldThenFree /\ Ascending
  BY <1>1 DEF Fresh, ListIsHeldThenFree, Ascending
<1>5. Searching /\ FreesLast /\ FreesItsOwn /\ Nested
  BY <1>3 DEF Searching, InSearch, FreesLast, FreesItsOwn, Nested, Callers
<1>6. Accounted
  BY <1>1, HeapAssumption DEF Accounted, Outstanding, Top, Alone
<1>. QED
  BY <1>2, <1>4, <1>5, <1>6 DEF IInv, Sound

\* The steps that leave the list alone leave everything that is said of it.
LEMMA ListUntouched ==
    ASSUME IInv, ~Disturbed, UNCHANGED <<first, chunk, held>>, Freeing' <=> Freeing
    PROVE  /\ Fresh' /\ ListIsHeldThenFree' /\ Ascending' /\ Accounted'
           /\ Top' = Top /\ Outstanding' = Outstanding
           /\ \A i \in 1 .. Len(held) : ChunkOf(i)' = ChunkOf(i)
           /\ \A size : Reasonable(size)' = Reasonable(size)
           /\ \A c, size : Fits(c, size)' = Fits(c, size)
<1>1. /\ Top' = Top /\ Outstanding' = Outstanding
      /\ \A i : ChunkOf(i)' = ChunkOf(i)
      /\ \A size : Reasonable(size)' = Reasonable(size)
      /\ \A c, size : Fits(c, size)' = Fits(c, size)
  BY DEF Top, Outstanding, ChunkOf, Reasonable, Fits
<1>2. Fresh' /\ Ascending' /\ Accounted'
  BY <1>1 DEF IInv, Sound, Fresh, Ascending, Accounted
<1>3. ListIsHeldThenFree'
  BY <1>1 DEF IInv, Sound, ListIsHeldThenFree
<1>. QED
  BY <1>1, <1>2, <1>3

\* A caller that goes on searching, or stops, while the list stays.
LEMMA SearchKeeps ==
    ASSUME IInv, ~Disturbed, NEW p \in Callers, NEW r \in Call,
           UNCHANGED <<first, chunk, held, active, inside>>,
           call' = [call EXCEPT ![p] = r],
           Runs(p), call[p].pc # "freeing", r.pc # "freeing",
           r.pc \in {"searching", "found"} =>
             /\ r.size # 0
             /\ IF held = << >> THEN r.size = BootSize ELSE Reasonable(r.size)
             /\ r.cursor \in {Null, Top} \cup {ChunkOf(i) : i \in 1 .. Len(held)}
             /\ r.cursor = Null => r.size >= HeapSize
             /\ r.pc = "found" => Fits(r.cursor, r.size)
    PROVE  Sound'
<1>1. /\ call'[p] = r
      /\ \A q \in Callers : q # p => call'[q] = call[q]
  BY DEF IInv, TypeOK
<1>2. Freeing' <=> Freeing
  BY <1>1 DEF Freeing
<1>3. /\ Fresh' /\ ListIsHeldThenFree' /\ Ascending' /\ Accounted'
      /\ Top' = Top /\ Outstanding' = Outstanding
      /\ \A i \in 1 .. Len(held) : ChunkOf(i)' = ChunkOf(i)
      /\ \A size : Reasonable(size)' = Reasonable(size)
      /\ \A c, size : Fits(c, size)' = Fits(c, size)
  BY <1>2, ListUntouched
<1>4. {Null, Top'} \cup {ChunkOf(i)' : i \in 1 .. Len(held')}
        = {Null, Top} \cup {ChunkOf(i) : i \in 1 .. Len(held)}
  BY <1>3
<1>5. Searching'
  <2>1. ASSUME NEW q \in Callers, InSearch(q)'
        PROVE  /\ call'[q].size # 0
               /\ IF held = << >> THEN call'[q].size = BootSize ELSE Reasonable(call'[q].size)
               /\ call'[q].cursor \in {Null, Top} \cup {ChunkOf(i) : i \in 1 .. Len(held)}
               /\ call'[q].cursor = Null => call'[q].size >= HeapSize
               /\ call'[q].pc = "found" => Fits(call'[q].cursor, call'[q].size)
    <3>1. CASE q = p
      BY <1>1, <2>1, <3>1 DEF InSearch
    <3>2. CASE q # p
      BY <1>1, <2>1, <3>2 DEF InSearch, IInv, Sound, Searching
    <3>. QED
      BY <3>1, <3>2
  <2>2. held' = held
    OBVIOUS
  <2>. QED
    BY <1>3, <1>4, <2>1, <2>2 DEF Searching
<1>6. FreesLast'
  BY <1>1, <1>3 DEF IInv, Sound, FreesLast
<1>7. Nested'
  BY <1>1 DEF IInv, Sound, Nested, Runs, Callers
<1>. QED
  BY <1>3, <1>5, <1>6, <1>7 DEF Sound
LEMMA MemAllocateKeeps ==
    ASSUME IInv, ~Disturbed, NEW p \in Callers, NEW size \in Sizes \cup {BootSize},
           MemAllocate(p, size)
    PROVE  Sound'
<1>. DEFINE r == [pc |-> "searching", size |-> size, cursor |-> first]
<1>1. size \in Nat /\ size # 0 /\ first \in Memory /\ first # Null
  BY HeapAssumption, AddressFacts DEF IInv, TypeOK
<1>2. first \in {Top} \cup {ChunkOf(i) : i \in 1 .. Len(held)}
  <2>1. CASE held = << >>
    BY <2>1 DEF Top
  <2>2. CASE held # << >>
    <3>1. Len(held) \in Nat /\ 1 <= Len(held)
      BY <2>2 DEF IInv, TypeOK
    <3>2. ChunkOf(1) = first
      BY <2>2 DEF IInv, Sound, ListIsHeldThenFree
    <3>. QED
      BY <3>1, <3>2
  <2>. QED
    BY <2>1, <2>2
<1>3. r \in Call
  BY <1>1 DEF Call
<1>4. /\ Runs(p) /\ call[p].pc = "idle" /\ call' = [call EXCEPT ![p] = r]
      /\ UNCHANGED <<first, chunk, held, active, inside>>
      /\ IF held = << >> THEN size = BootSize ELSE Reasonable(size)
  BY DEF MemAllocate
<1>5. r.pc = "searching" /\ r.size = size /\ r.cursor = first
  OBVIOUS
<1>. HIDE DEF r
<1>. QED
  BY <1>1, <1>2, <1>3, <1>4, <1>5, SearchKeeps

\* Past the free chunk there is nothing, and it is too small only for a giant.
LEMMA OnlyGiantsPass ==
    ASSUME IInv, ~Disturbed, NEW p \in Callers, InSearch(p),
           ~Fits(Top, call[p].size)
    PROVE  call[p].size >= HeapSize
<1>. DEFINE size == call[p].size
<1>1. /\ size \in Nat
      /\ IF held = << >> THEN size = BootSize ELSE Reasonable(size)
  BY DEF IInv, TypeOK, Sound, Searching
<1>2. chunk[Top].size <= size /\ chunk[Top].size \in Nat
  BY <1>1, TopFacts DEF Fits, Chunk
<1>3. chunk[Top].size = HeapSize - HeaderSize - Outstanding /\ Outstanding \in Nat
  BY TopFacts DEF IInv, Sound, Accounted
<1>. HIDE DEF size
<1>4. ASSUME held = << >> PROVE size >= HeapSize
  <2>1. Outstanding = 0 /\ size = BootSize
    BY <1>1, <1>4 DEF Outstanding
  <2>. QED
    BY <1>2, <1>3, <2>1, HeapAssumption
<1>5. ASSUME held # << >> PROVE size >= HeapSize
  <2>1. Outstanding + size + 2 * HeaderSize + 1 < HeapSize \/ size >= HeapSize
    BY <1>1, <1>5 DEF Reasonable
  <2>. QED
    BY <1>1, <1>2, <1>3, <2>1, HeapAssumption
<1>. QED
  BY <1>4, <1>5 DEF size

LEMMA NextChunkKeeps ==
    ASSUME IInv, ~Disturbed, NEW p \in Callers, NextChunk(p)
    PROVE  Sound'
<1>. DEFINE c == call[p].cursor
            size == call[p].size
            r == [call[p] EXCEPT !.cursor = chunk[c].next]
<1>1. /\ InSearch(p) /\ c # Null /\ ~Fits(c, size) /\ Runs(p) /\ call[p].pc = "searching"
      /\ size \in Nat /\ size # 0
      /\ IF held = << >> THEN size = BootSize ELSE Reasonable(size)
      /\ c \in {Null, Top} \cup {ChunkOf(i) : i \in 1 .. Len(held)}
      /\ call[p] \in Call
  BY DEF Call, NextChunk, InSearch, IInv, TypeOK, Sound, Searching
<1>2. CASE c = Top
  <2>1. chunk[c].next = Null /\ size >= HeapSize
    BY <1>1, <1>2, TopFacts, OnlyGiantsPass
  <2>. QED
    <3>1. r \in Call
      BY <1>1, <2>1 DEF Call
    <3>2. call' = [call EXCEPT ![p] = r]
      BY DEF NextChunk
    <3>3. r.pc = "searching" /\ r.size = size /\ r.cursor = Null
      BY <1>1, <2>1 DEF Call
    <3>. HIDE DEF r, c
    <3>. QED
      BY <1>1, <2>1, <3>1, <3>2, <3>3, SearchKeeps DEF NextChunk
<1>3. ASSUME NEW i \in 1 .. Len(held), c = ChunkOf(i)
      PROVE  Sound'
  <2>1. /\ chunk[c].next \in {Top} \cup {ChunkOf(j) : j \in 1 .. Len(held)}
        /\ chunk[c].next \in Memory
    <3>1. Len(held) \in Nat
      BY DEF IInv, TypeOK
    <3>2. CASE i < Len(held)
      <4>1. chunk[c].next = ChunkOf(i + 1) /\ i + 1 \in 1 .. Len(held)
        BY <1>3, <3>1, <3>2, BlockFacts
      <4>. QED
        BY <4>1, BlockFacts
    <3>3. CASE i = Len(held)
      BY <1>3, <3>3, BlockFacts, TopFacts
    <3>. QED
      BY <3>1, <3>2, <3>3
  <2>2. r \in Call
    BY <1>1, <2>1 DEF Call
  <2>3. call' = [call EXCEPT ![p] = r]
    BY DEF NextChunk
  <2>4. r.pc = "searching" /\ r.size = size /\ r.cursor = chunk[c].next /\ r.cursor # Null
    BY <1>1, <2>1, AddressFacts DEF Call
  <2>. HIDE DEF r, c
  <2>. QED
    BY <1>1, <2>1, <2>2, <2>3, <2>4, SearchKeeps DEF NextChunk
<1>. QED
  BY <1>1, <1>2, <1>3

LEMMA FindOrNoneKeeps ==
    ASSUME IInv, ~Disturbed, NEW p \in Callers, NoneFits(p) \/ Find(p)
    PROVE  Sound'
<1>1. CASE NoneFits(p)
  BY <1>1, IdleTyped, SearchKeeps DEF NoneFits
<1>2. CASE Find(p)
  <2>. DEFINE r == [call[p] EXCEPT !.pc = "found"]
  <2>1. /\ call[p] \in Call /\ InSearch(p)
        /\ r.pc = "found" /\ r.size = call[p].size /\ r.cursor = call[p].cursor
    BY <1>2 DEF Find, InSearch, IInv, TypeOK, Call
  <2>2. r \in Call
    BY <2>1 DEF Call
  <2>3. call' = [call EXCEPT ![p] = r]
    BY <1>2 DEF Find
  <2>4. /\ r.size # 0
        /\ IF held = << >> THEN r.size = BootSize ELSE Reasonable(r.size)
        /\ r.cursor \in {Null, Top} \cup {ChunkOf(i) : i \in 1 .. Len(held)}
        /\ r.cursor = Null => r.size >= HeapSize
        /\ Fits(r.cursor, r.size)
    BY <1>2, <2>1 DEF Find, IInv, Sound, Searching
  <2>. HIDE DEF r
  <2>. QED
    BY <1>2, <2>1, <2>2, <2>3, <2>4, SearchKeeps DEF Find
<1>. QED
  BY <1>1, <1>2

\* Interrupts come on, and handlers come and go.
LEMMA HandlersKeep ==
    ASSUME IInv, ~Disturbed, Activate \/ HandlerEnters \/ HandlerReturns \/ UNCHANGED vars
    PROVE  Sound'
<1>1. UNCHANGED <<first, chunk, held, call>>
  BY DEF Activate, HandlerEnters, HandlerReturns, vars
<1>2. Freeing' <=> Freeing
  BY <1>1 DEF Freeing
<1>3. /\ Fresh' /\ ListIsHeldThenFree' /\ Ascending' /\ Accounted'
      /\ Top' = Top
      /\ \A i \in 1 .. Len(held) : ChunkOf(i)' = ChunkOf(i)
      /\ \A size : Reasonable(size)' = Reasonable(size)
      /\ \A c, size : Fits(c, size)' = Fits(c, size)
  BY <1>1, <1>2, ListUntouched
<1>4. {ChunkOf(i)' : i \in 1 .. Len(held')} = {ChunkOf(i) : i \in 1 .. Len(held)}
  BY <1>1, <1>3
<1>5. Searching'
  BY <1>1, <1>3, <1>4 DEF IInv, Sound, Searching, InSearch
<1>6. FreesLast'
  BY <1>1 DEF IInv, Sound, FreesLast, ChunkOf
<1>7. Nested'
  BY <1>1 DEF Activate, HandlerEnters, HandlerReturns, vars, IInv, Sound, Nested
<1>. QED
  BY <1>3, <1>5, <1>6, <1>7 DEF Sound
-----------------------------------------------------------------------------
\* A search takes the free chunk at the top and never another; there is room to
\* cut it, and the rest of it becomes the new top.
LEMMA TakeFacts ==
    ASSUME IInv, ~Disturbed, NEW p \in Callers, Take(p), ~Disturbed'
    PROVE  /\ call[p].cursor = Top
           /\ call[p].size \in Nat /\ call[p].size # 0
           /\ Splits(Top, call[p].size)
           /\ Remainder(Top, call[p].size) \in Memory
           /\ Top < Remainder(Top, call[p].size)
           /\ \A q \in Callers : q # p => call[q].pc = "idle"
           /\ ~Freeing
<1>. DEFINE c == call[p].cursor
            size == call[p].size
<1>1. /\ c # Null /\ Fits(c, size) /\ InSearch(p) /\ Runs(p) /\ call[p].pc = "found"
      /\ c \in {Null, Top} \cup {ChunkOf(i) : i \in 1 .. Len(held)}
      /\ size \in Nat /\ size # 0
      /\ IF held = << >> THEN size = BootSize ELSE Reasonable(size)
  BY DEF Take, InSearch, IInv, TypeOK, Sound, Searching
<1>2. p = "main" \/ call["main"].pc = "idle"
  BY DEF Take, DisturbedIf, Disturbed, Callers
<1>3. \A q \in Callers : q # p => call[q].pc = "idle"
  BY <1>1, <1>2, OtherIsIdle
<1>4. ~Freeing
  BY <1>1, <1>3 DEF Freeing
<1>5. c = Top
  <2>1. \A i \in 1 .. Len(held) : c # ChunkOf(i)
    BY <1>1, <1>4, BlockFacts DEF Fits
  <2>. QED
    BY <1>1, <2>1
<1>6. chunk[Top].size = HeapSize - HeaderSize - Outstanding /\ Outstanding \in Nat
  BY TopFacts DEF IInv, Sound, Accounted
<1>7. chunk[Top].size > size
  BY <1>1, <1>5 DEF Fits
<1>8. Remainder(Top, size) <= MaxAddress
  BY <1>5 DEF Take
<1>9. Top \in Nat /\ 1 <= Top
  BY TopFacts, AddressFacts
<1>. HIDE DEF size
<1>10. Outstanding + size + 2 * HeaderSize + 1 < HeapSize
  <2>1. CASE held = << >>
    BY <1>1, <2>1, HeapAssumption DEF Outstanding
  <2>2. CASE held # << >>
    <3>1. Outstanding + size + 2 * HeaderSize + 1 < HeapSize \/ size >= HeapSize
      BY <1>1, <2>2 DEF Reasonable
    <3>. QED
      BY <1>1, <1>6, <1>7, <3>1, HeapAssumption
  <2>. QED
    BY <2>1, <2>2
<1>11. Splits(Top, size)
  BY <1>1, <1>6, <1>10, HeapAssumption DEF Splits
<1>12. Remainder(Top, size) \in Nat /\ Top < Remainder(Top, size)
  BY <1>1, <1>9, HeapAssumption DEF Remainder
<1>13. Remainder(Top, size) \in Memory
  BY <1>8, <1>9, <1>12, AddressFacts
<1>. QED
  BY <1>1, <1>3, <1>4, <1>5, <1>11, <1>12, <1>13 DEF size

\* The headers after the cut: two of them change.
LEMMA TakeHeaders ==
    ASSUME IInv, ~Disturbed, NEW p \in Callers, Take(p), ~Disturbed'
    PROVE  LET n == Remainder(Top, call[p].size) IN
           /\ chunk' \in [Memory -> Chunk]
           /\ chunk'[n] = [next |-> Null, prev |-> Top, allocated |-> FALSE,
                           size |-> chunk[Top].size - HeaderSize - call[p].size]
           /\ chunk'[Top] = [next |-> n, prev |-> chunk[Top].prev, allocated |-> TRUE,
                             size |-> call[p].size]
           /\ \A a \in Memory \ {n, Top} : chunk'[a] = chunk[a]
<1>. DEFINE size == call[p].size
            n == Remainder(Top, size)
            rest == [next |-> Null, prev |-> Top, allocated |-> FALSE,
                     size |-> chunk[Top].size - HeaderSize - size]
            kept == [next |-> n, prev |-> chunk[Top].prev, allocated |-> TRUE,
                     size |-> size]
<1>1. chunk' = [chunk EXCEPT ![n] = rest, ![Top] = kept]
  BY TakeFacts, TopFacts DEF Take, HandOut, LinkBack
<1>2. n \in Memory /\ Top \in Memory /\ n # Top
  <2>1. Top \in Nat
    BY TopFacts, AddressFacts
  <2>. QED
    BY <2>1, TakeFacts, TopFacts
<1>3. rest \in Chunk /\ kept \in Chunk
  <2>1. chunk[Top].size \in Nat /\ chunk[Top].prev \in Memory \cup {Null}
    BY TopFacts DEF Chunk
  <2>2. size \in Nat /\ chunk[Top].size > size + HeaderSize + 1
    BY TakeFacts DEF Splits
  <2>. HIDE DEF size, n
  <2>3. chunk[Top].size - HeaderSize - size \in Nat
    BY <2>1, <2>2, HeapAssumption
  <2>. QED
    BY <1>2, <2>1, <2>2, <2>3 DEF Chunk
<1>4. chunk \in [Memory -> Chunk]
  BY DEF IInv, TypeOK
<1>. HIDE DEF rest, kept, n
<1>5. chunk' \in [Memory -> Chunk]
  BY <1>1, <1>2, <1>3, <1>4
<1>6. chunk'[n] = rest /\ chunk'[Top] = kept
  BY <1>1, <1>2, <1>4
<1>7. \A a \in Memory \ {n, Top} : chunk'[a] = chunk[a]
  BY <1>1, <1>2, <1>4
<1>. QED
  BY <1>5, <1>6, <1>7 DEF rest, kept, n

\* The block that is handed out, and the blocks that were held before.
LEMMA TakeBlocks ==
    ASSUME IInv, ~Disturbed, NEW p \in Callers, Take(p), ~Disturbed'
    PROVE  /\ held' \in Seq(Block) /\ Len(held') = Len(held) + 1 /\ held' # << >>
           /\ held'[Len(held) + 1].at = Top + HeaderSize
           /\ held'[Len(held) + 1].size = call[p].size
           /\ held'[Len(held) + 1].below = Outstanding
           /\ held'[Len(held) + 1].owner \in OwnersFor(p)
           /\ \A i \in 1 .. Len(held) : held'[i] = held[i] /\ ChunkOf(i)' = ChunkOf(i)
           /\ held'[Len(held')].at - HeaderSize = Top
           /\ Top' = Remainder(Top, call[p].size)
           /\ Outstanding' = Outstanding + call[p].size + HeaderSize
<1>. DEFINE N == Len(held)
<1>1. held \in Seq(Block) /\ N \in Nat
  BY DEF IInv, TypeOK
<1>2. PICK o \in OwnersFor(p) :
        held' = Append(held, [at |-> Top + HeaderSize, size |-> call[p].size,
                              below |-> Outstanding, owner |-> o])
  BY TakeFacts DEF Take
<1>. DEFINE b == [at |-> Top + HeaderSize, size |-> call[p].size,
                  below |-> Outstanding, owner |-> o]
<1>3. Top \in Nat /\ call[p].size \in Nat /\ Outstanding \in Nat
  BY TakeFacts, TopFacts, AddressFacts
<1>4. b \in Block
  <2>1. Top + HeaderSize \in HeaderSize + 1 .. MaxAddress
    <3>1. Remainder(Top, call[p].size) <= MaxAddress /\ 1 <= Top
      BY TakeFacts, TopFacts, AddressFacts
    <3>. QED
      BY <1>3, <3>1, HeapAssumption DEF Remainder
  <2>2. o \in Callers \cup {"kept"}
    BY DEF OwnersFor, Callers
  <2>. QED
    BY <1>3, <2>1, <2>2 DEF Block
<1>. HIDE DEF b
<1>5. held' \in Seq(Block) /\ Len(held') = N + 1 /\ held'[N + 1] = b
  BY <1>1, <1>2, <1>4 DEF b
<1>6. \A i \in 1 .. N : held'[i] = held[i]
  BY <1>1, <1>2, <1>4 DEF b
<1>7. held'[Len(held')].at - HeaderSize = Top
  BY <1>3, <1>5, HeapAssumption DEF b
<1>8. held' # << >>
  BY <1>1, <1>5
<1>9. Top' = chunk'[Top].next
  BY <1>7, <1>8 DEF Top, ChunkOf
<1>10. Outstanding' = Outstanding + call[p].size + HeaderSize
  BY <1>5, <1>8 DEF Outstanding, b
<1>. QED
  <2>1. Top' = Remainder(Top, call[p].size)
    <3>1. PICK n : n = Remainder(Top, call[p].size)
      OBVIOUS
    <3>2. chunk'[Top] = [next |-> n, prev |-> chunk[Top].prev, allocated |-> TRUE,
                         size |-> call[p].size]
      BY <3>1, TakeHeaders
    <3>3. chunk'[Top].next = n
      BY <3>2
    <3>. QED
      BY <1>9, <3>1, <3>3
  <2>2. /\ b.at = Top + HeaderSize /\ b.size = call[p].size
        /\ b.below = Outstanding /\ b.owner = o
    BY DEF b
  <2>. QED
    BY <1>5, <1>6, <1>7, <1>8, <1>10, <2>1, <2>2 DEF ChunkOf

LEMMA TakeKeeps ==
    ASSUME IInv, ~Disturbed, NEW p \in Callers, Take(p), ~Disturbed'
    PROVE  Sound'
<1>. DEFINE N == Len(held)
            n == Remainder(Top, call[p].size)
            top == Top
            out == Outstanding
            size == call[p].size
<1>1. /\ held \in Seq(Block) /\ N \in Nat
      /\ held' \in Seq(Block) /\ Len(held') = N + 1 /\ held' # << >>
      /\ held'[N + 1].at = top + HeaderSize /\ held'[N + 1].size = size
      /\ held'[N + 1].below = out /\ held'[N + 1].owner \in OwnersFor(p)
      /\ \A i \in 1 .. N : held'[i] = held[i]
      /\ Top' = n
      /\ Outstanding' = out + size + HeaderSize
  BY TakeBlocks DEF IInv, TypeOK
<1>2. /\ top \in Nat /\ n \in Nat /\ top < n /\ size \in Nat /\ out \in Nat
      /\ HeapStart <= top /\ n = top + HeaderSize + size
      /\ top \in Memory /\ n \in Memory
  BY TakeFacts, TopFacts, AddressFacts DEF Remainder
<1>3. /\ chunk' \in [Memory -> Chunk]
      /\ chunk'[n] = [next |-> Null, prev |-> top, allocated |-> FALSE,
                      size |-> chunk[top].size - HeaderSize - size]
      /\ chunk'[top] = [next |-> n, prev |-> chunk[top].prev, allocated |-> TRUE,
                        size |-> size]
      /\ \A a \in Memory : a < top => chunk'[a] = chunk[a]
  BY <1>2, TakeHeaders
<1>4. \A i \in 1 .. N :
        /\ held[i] \in Block
        /\ ChunkOf(i) \in Memory /\ ChunkOf(i) < top
        /\ chunk'[ChunkOf(i)] = chunk[ChunkOf(i)]
  BY <1>3, BlockFacts
<1>5. /\ \A q \in Callers : call'[q].pc = "idle"
      /\ first' = first /\ ~Freeing' /\ ~Freeing
      /\ UNCHANGED <<active, inside>> /\ Runs(p)
  <2>1. \A q \in Callers : call'[q].pc = "idle"
    BY TakeFacts DEF Take, Idle, IInv, TypeOK
  <2>. QED
    BY <2>1, TakeFacts DEF Take, Freeing
<1>6. held'[N + 1].at - HeaderSize = top /\ held'[N + 1].size = size
      /\ held'[N + 1].below = out /\ held'[N + 1].at = top + HeaderSize
  BY <1>1, <1>2, HeapAssumption
<1>7. Fresh' /\ Searching' /\ FreesLast'
  BY <1>1, <1>5 DEF Fresh, Searching, InSearch, FreesLast
<1>8. Nested'
  <2>1. Nested
    BY DEF IInv, Sound
  <2>2. p = "handler" \/ (p = "main" /\ ~inside)
    BY <1>5 DEF Runs, Callers
  <2>3. held'[1].owner = "kept"
    <3>1. CASE N = 0
      <4>1. ~active /\ ~inside
        BY <1>1, <2>1, <3>1 DEF Nested
      <4>. QED
        BY <1>1, <2>2, <3>1, <4>1, <1>5 DEF OwnersFor, Runs
    <3>2. CASE N # 0
      BY <1>1, <2>1, <3>2 DEF Nested
    <3>. QED
      BY <3>1, <3>2
  <2>4. ASSUME ~inside, NEW i \in 1 .. N + 1
        PROVE  held'[i].owner # "handler"
    <3>1. p = "main"
      BY <1>5, <2>2, <2>4 DEF Runs
    <3>2. CASE i = N + 1
      BY <1>1, <3>1, <3>2 DEF OwnersFor
    <3>3. CASE i \in 1 .. N
      BY <1>1, <2>1, <2>4, <3>3 DEF Nested
    <3>. QED
      BY <1>1, <3>2, <3>3
  <2>. QED
    BY <1>1, <1>5, <2>1, <2>3, <2>4 DEF Nested, Callers
<1>9. ListIsHeldThenFree'
  <2>1. first = IF N = 0 THEN top ELSE ChunkOf(1)
    BY <1>1 DEF IInv, Sound, ListIsHeldThenFree, Top
  <2>2. held'[1].at - HeaderSize = first
    BY <1>1, <1>6, <2>1 DEF ChunkOf
  <2>3. chunk'[first].prev = Null
    <3>1. CASE N = 0
      BY <1>1, <1>3, <2>1, <3>1, TopFacts
    <3>2. CASE N # 0
      BY <1>1, <1>4, <2>1, <3>2 DEF IInv, Sound, ListIsHeldThenFree
    <3>. QED
      BY <3>1, <3>2
  <2>4. ASSUME NEW i \in 1 .. N
        PROVE  LET c == chunk'[held'[i].at - HeaderSize] IN
               /\ c.allocated /\ c.size = held'[i].size
               /\ c.next # Null /\ chunk'[c.next].prev = held'[i].at - HeaderSize
               /\ c.next = held'[i + 1].at - HeaderSize
    <3>1. /\ held'[i] = held[i] /\ held'[i].at - HeaderSize = ChunkOf(i)
          /\ chunk'[ChunkOf(i)] = chunk[ChunkOf(i)]
      BY <1>1, <1>4 DEF ChunkOf
    <3>2. /\ chunk[ChunkOf(i)].allocated /\ chunk[ChunkOf(i)].size = held[i].size
          /\ chunk[ChunkOf(i)].next # Null
          /\ chunk[chunk[ChunkOf(i)].next].prev = ChunkOf(i)
          /\ i < N => chunk[ChunkOf(i)].next = ChunkOf(i + 1)
      BY <1>1, <1>5 DEF IInv, Sound, ListIsHeldThenFree
    <3>3. CASE i < N
      <4>1. i + 1 \in 1 .. N
        BY <1>1, <3>3
      <4>2. chunk'[ChunkOf(i + 1)] = chunk[ChunkOf(i + 1)]
        BY <1>4, <4>1
      <4>3. held'[i + 1].at - HeaderSize = ChunkOf(i + 1)
        BY <1>1, <4>1 DEF ChunkOf
      <4>. QED
        BY <3>1, <3>2, <3>3, <4>2, <4>3
    <3>4. CASE i = N
      <4>1. held # << >> /\ chunk[ChunkOf(N)].next = top
        BY <1>1, <3>4 DEF Top
      <4>2. chunk'[top].prev = ChunkOf(N)
        BY <1>3, <4>1, TopFacts
      <4>. QED
        BY <1>6, <3>1, <3>2, <3>4, <4>1, <4>2
    <3>. QED
      BY <1>1, <3>3, <3>4
  <2>5. LET c == chunk'[held'[N + 1].at - HeaderSize] IN
        /\ c.allocated /\ c.size = held'[N + 1].size
        /\ c.next # Null /\ chunk'[c.next].prev = held'[N + 1].at - HeaderSize
        /\ ~chunk'[c.next].allocated /\ chunk'[c.next].next = Null
    BY <1>2, <1>3, <1>6, AddressFacts
  <2>6. ASSUME NEW i \in 1 .. N + 1
        PROVE  LET c == chunk'[held'[i].at - HeaderSize] IN
               /\ c.allocated /\ c.size = held'[i].size
               /\ c.next # Null /\ chunk'[c.next].prev = held'[i].at - HeaderSize
               /\ IF i < N + 1 THEN c.next = held'[i + 1].at - HeaderSize
                  ELSE ~chunk'[c.next].allocated /\ chunk'[c.next].next = Null
    <3>1. CASE i = N + 1
      BY <1>1, <2>5, <3>1
    <3>2. CASE i # N + 1
      <4>1. i \in 1 .. N /\ i < N + 1
        BY <1>1, <3>2
      <4>. QED
        BY <2>4, <4>1
    <3>. QED
      BY <3>1, <3>2
  <2>. QED
    BY <1>1, <1>5, <2>2, <2>3, <2>6 DEF ListIsHeldThenFree, ChunkOf
<1>10. Ascending'
  <2>1. ASSUME NEW i \in 1 .. N + 1
        PROVE  /\ HeapStart <= held'[i].at - HeaderSize
               /\ held'[i].at + held'[i].size <= n
    <3>1. CASE i = N + 1
      <4>1. held'[i].at = top + HeaderSize /\ held'[i].size = size
        BY <1>6, <3>1
      <4>. HIDE DEF top, n, size
      <4>2. held'[i].at - HeaderSize = top /\ held'[i].at + held'[i].size = n
        BY <1>2, <4>1, HeapAssumption
      <4>. QED
        BY <1>2, <4>2
    <3>2. CASE i \in 1 .. N
      <4>1. HeapStart <= ChunkOf(i) /\ held[i].at + held[i].size <= top
        BY <3>2 DEF IInv, Sound, Ascending
      <4>2. held[i].at \in Nat /\ held[i].size \in Nat
        BY <3>2, BlockFacts
      <4>3. held'[i] = held[i]
        BY <1>1, <3>2
      <4>4. held[i].at + held[i].size <= n
        BY <1>2, <4>1, <4>2
      <4>. QED
        BY <4>1, <4>3, <4>4 DEF ChunkOf
    <3>. QED
      BY <1>1, <3>1, <3>2
  <2>2. ASSUME NEW i \in 1 .. N + 1, NEW j \in 1 .. N + 1, i < j
        PROVE  held'[i].at + held'[i].size <= held'[j].at - HeaderSize
    <3>1. i \in 1 .. N
      BY <1>1, <2>2
    <3>2. CASE j = N + 1
      BY <1>1, <1>6, <3>1, <3>2 DEF IInv, Sound, Ascending
    <3>3. CASE j \in 1 .. N
      BY <1>1, <2>2, <3>1, <3>3 DEF IInv, Sound, Ascending, ChunkOf
    <3>. QED
      BY <1>1, <3>2, <3>3
  <2>. QED
    BY <1>1, <2>1, <2>2 DEF Ascending, ChunkOf
<1>11. Accounted'
  <2>1. \A i \in 1 .. N :
          held[i].below = IF i = 1 THEN 0
                          ELSE held[i - 1].below + held[i - 1].size + HeaderSize
    BY DEF IInv, Sound, Accounted
  <2>2. out = IF N = 0 THEN 0 ELSE held[N].below + held[N].size + HeaderSize
    BY <1>1 DEF Outstanding
  <2>3. ASSUME NEW i \in 1 .. N + 1
        PROVE  held'[i].below =
                 IF i = 1 THEN 0
                 ELSE held'[i - 1].below + held'[i - 1].size + HeaderSize
    <3>1. i # 1 => i - 1 \in 1 .. N /\ held'[i - 1] = held[i - 1]
      BY <1>1
    <3>2. CASE i = N + 1
      <4>1. N = 0 <=> i = 1
        BY <1>1, <3>2
      <4>2. i - 1 = N
        BY <1>1, <3>2
      <4>. QED
        BY <1>6, <2>2, <3>1, <3>2, <4>1, <4>2
    <3>3. CASE i \in 1 .. N
      <4>1. held'[i] = held[i]
        BY <1>1, <3>3
      <4>. QED
        BY <2>1, <3>1, <3>3, <4>1
    <3>. QED
      BY <1>1, <3>2, <3>3
  <2>4. chunk'[n].size = HeapSize - HeaderSize - (out + size + HeaderSize)
    BY <1>2, <1>3, HeapAssumption DEF IInv, Sound, Accounted
  <2>. QED
    BY <1>1, <2>3, <2>4 DEF Accounted
<1>. QED
  BY <1>7, <1>8, <1>9, <1>10, <1>11 DEF Sound
-----------------------------------------------------------------------------
\* The block that is freed is the last one, and none but it is worked on.
LEMMA MemFreeFacts ==
    ASSUME IInv, ~Disturbed, NEW p \in Callers, MemFree(p), ~Disturbed'
    PROVE  LET N == Len(held) IN
           /\ N \in Nat /\ N > 1 /\ Max(Buffers(p)) = N /\ held[N].owner = p
           /\ \A q \in Callers : q # p => call[q].pc = "idle"
           /\ ~Freeing
<1>. DEFINE N == Len(held)
            i == Max(Buffers(p))
<1>1. Runs(p) /\ call[p].pc = "idle" /\ Buffers(p) # {}
  BY DEF MemFree
<1>2. i \in 1 .. N /\ held[i].owner = p /\ N \in Nat /\ held # << >>
  BY <1>1, LastBuffer DEF IInv, TypeOK
<1>3. i = N
  BY DEF MemFree, DisturbedIf, Disturbed
<1>. HIDE DEF i
<1>4. held[1].owner = "kept" /\ p # "kept"
  BY <1>2 DEF IInv, Sound, Nested, Callers
<1>5. N > 1
  BY <1>2, <1>3, <1>4
<1>6. \A q \in Callers : q # p => call[q].pc = "idle"
  BY <1>1, <1>2, OtherIsIdle
<1>7. ~Freeing
  BY <1>1, <1>6 DEF Freeing
<1>. QED
  BY <1>2, <1>3, <1>5, <1>6, <1>7 DEF i

LEMMA MemFreeKeeps ==
    ASSUME IInv, ~Disturbed, NEW p \in Callers, MemFree(p), ~Disturbed'
    PROVE  Sound' /\ Top' = Top
<1>. DEFINE N == Len(held)
            c == ChunkOf(N)
<1>1. /\ N \in Nat /\ N > 1 /\ N \in 1 .. N /\ held[N].owner = p
      /\ \A q \in Callers : q # p => call[q].pc = "idle"
      /\ ~Freeing /\ Runs(p) /\ held # << >>
  <2>1. /\ N \in Nat /\ N > 1 /\ held[N].owner = p
        /\ \A q \in Callers : q # p => call[q].pc = "idle"
        /\ ~Freeing
    BY MemFreeFacts
  <2>2. N \in 1 .. N /\ held # << >>
    BY <2>1
  <2>3. Runs(p)
    BY DEF MemFree
  <2>. QED
    BY <2>1, <2>2, <2>3
<1>2. /\ chunk' = [chunk EXCEPT ![c].allocated = FALSE]
      /\ call' = [call EXCEPT ![p] = [pc |-> "freeing", size |-> 0, cursor |-> c]]
      /\ UNCHANGED <<first, held, active, inside>>
  BY MemFreeFacts DEF MemFree
<1>3. c \in Memory /\ chunk \in [Memory -> Chunk] /\ first \in Memory
  BY <1>1, BlockFacts DEF IInv, TypeOK
<1>. HIDE DEF c
<1>4. \A a \in Memory : /\ chunk'[a].next = chunk[a].next
                        /\ chunk'[a].prev = chunk[a].prev
                        /\ chunk'[a].size = chunk[a].size
                        /\ a # c => chunk'[a].allocated = chunk[a].allocated
  <2>1. \A a \in Memory : a # c => chunk'[a] = chunk[a]
    BY <1>2, <1>3
  <2>2. chunk'[c] = [chunk[c] EXCEPT !.allocated = FALSE]
    BY <1>2, <1>3
  <2>3. /\ chunk'[c].next = chunk[c].next /\ chunk'[c].prev = chunk[c].prev
        /\ chunk'[c].size = chunk[c].size
    BY <1>3, <2>2 DEF Chunk
  <2>. QED
    BY <2>1, <2>3
<1>5. chunk'[c].allocated = FALSE
  BY <1>2, <1>3 DEF Chunk
<1>6. /\ call'[p].pc = "freeing" /\ call'[p].cursor = c
      /\ \A q \in Callers : q # p => call'[q].pc = "idle"
      /\ Freeing'
  BY <1>1, <1>2 DEF IInv, TypeOK, Freeing
<1>7. /\ \A i \in 1 .. N : ChunkOf(i)' = ChunkOf(i) /\ ChunkOf(i) \in Memory
      /\ Outstanding' = Outstanding
  BY <1>2, BlockFacts DEF ChunkOf, Outstanding
<1>8. Top' = Top /\ Top \in Memory /\ Top # c
  <2>1. Top = chunk[c].next
    BY <1>1 DEF Top, c
  <2>2. Top' = chunk'[c].next
    BY <1>1, <1>2, <1>7 DEF Top, c
  <2>3. c < Top /\ c \in Nat /\ Top \in Memory
    BY <1>1, <1>3, BlockFacts, TopFacts, AddressFacts DEF c
  <2>. QED
    BY <1>3, <1>4, <2>1, <2>2, <2>3, AddressFacts
<1>9. Fresh' /\ Ascending' /\ Accounted'
  <2>1. Fresh'
    BY <1>1, <1>2 DEF Fresh
  <2>2. Ascending'
    BY <1>2, <1>7, <1>8 DEF IInv, Sound, Ascending
  <2>3. Accounted'
    BY <1>2, <1>4, <1>7, <1>8 DEF IInv, Sound, Accounted
  <2>. QED
    BY <2>1, <2>2, <2>3
<1>10. ListIsHeldThenFree'
  <2>1. ListIsHeldThenFree
    BY DEF IInv, Sound
  <2>2. ChunkOf(1)' = first' /\ chunk'[first'].prev = Null
    BY <1>1, <1>2, <1>3, <1>4, <1>7, <2>1 DEF ListIsHeldThenFree
  <2>3. ASSUME NEW i \in 1 .. N
        PROVE  LET d == chunk'[ChunkOf(i)] IN
               /\ d.allocated <=> ~(i = N)
               /\ d.size = held[i].size
               /\ d.next # Null /\ chunk'[d.next].prev = ChunkOf(i)
               /\ IF i < N THEN d.next = ChunkOf(i + 1)
                  ELSE ~chunk'[d.next].allocated /\ chunk'[d.next].next = Null
    <3>1. /\ chunk[ChunkOf(i)].allocated
          /\ chunk[ChunkOf(i)].size = held[i].size
          /\ chunk[ChunkOf(i)].next # Null
          /\ chunk[chunk[ChunkOf(i)].next].prev = ChunkOf(i)
          /\ i < N => chunk[ChunkOf(i)].next = ChunkOf(i + 1)
          /\ i = N => chunk[ChunkOf(i)].next = Top
      BY <1>1, <2>1, BlockFacts DEF ListIsHeldThenFree
    <3>2. chunk[ChunkOf(i)].next \in Memory
      BY <1>3, <1>7, <3>1 DEF Chunk
    <3>3. ~chunk[Top].allocated /\ chunk[Top].next = Null
      BY TopFacts
    <3>4. CASE i = N
      BY <1>4, <1>5, <1>7, <1>8, <3>1, <3>2, <3>3, <3>4 DEF c
    <3>5. CASE i < N
      <4>1. ChunkOf(i) < c /\ ChunkOf(i) # c
        BY <1>1, <1>3, <1>7, <3>5, ChunksAscend, AddressFacts DEF c
      <4>. QED
        BY <1>4, <1>7, <3>1, <3>2, <3>5, <4>1
    <3>. QED
      BY <1>1, <3>4, <3>5
  <2>4. \A i \in 1 .. N : i < N => i + 1 \in 1 .. N /\ ChunkOf(i + 1)' = ChunkOf(i + 1)
    BY <1>1, <1>7
  <2>5. ASSUME NEW i \in 1 .. N
        PROVE  LET d == chunk'[ChunkOf(i)'] IN
               /\ d.allocated <=> ~(i = N /\ Freeing')
               /\ d.size = held[i].size
               /\ d.next # Null /\ chunk'[d.next].prev = ChunkOf(i)'
               /\ IF i < N THEN d.next = ChunkOf(i + 1)'
                  ELSE ~chunk'[d.next].allocated /\ chunk'[d.next].next = Null
    BY <1>6, <1>7, <2>3, <2>4
  <2>6. held' = held
    BY <1>2
  <2>. QED
    BY <2>2, <2>5, <2>6 DEF ListIsHeldThenFree
<1>11. Nested'
  <2>1. Nested
    BY DEF IInv, Sound
  <2>2. CASE p = "main"
    <3>1. ~inside
      BY <1>1, <2>2 DEF Runs
    <3>. QED
      BY <1>2, <1>6, <2>1, <2>2, <3>1 DEF Nested, Callers
  <2>3. CASE p = "handler"
    <3>1. inside
      BY <1>1, <2>3 DEF Runs
    <3>. QED
      BY <1>2, <1>6, <2>1, <2>3, <3>1 DEF Nested, Callers
  <2>. QED
    BY <2>2, <2>3 DEF Callers
<1>12. Searching'
  BY <1>6 DEF Searching, InSearch
<1>13. FreesLast'
  <2>1. ASSUME NEW q \in Callers, call'[q].pc = "freeing" PROVE q = p
    BY <1>6, <2>1
  <2>2. ChunkOf(N)' = c
    BY <1>2 DEF c, ChunkOf
  <2>. QED
    BY <1>1, <1>2, <1>6, <2>1, <2>2 DEF FreesLast
<1>. QED
  BY <1>8, <1>9, <1>10, <1>11, <1>12, <1>13 DEF Sound
-----------------------------------------------------------------------------
\* The chunk that is linked lies just below the free chunk and just above a block
\* that is held, so that it is the chunk after it that takes its bytes.
LEMMA MergeFacts ==
    ASSUME IInv, ~Disturbed, NEW q \in Callers, Merge(q)
    PROVE  LET N == Len(held)
               c == ChunkOf(N)
               p == ChunkOf(N - 1)
           IN /\ N \in Nat /\ N > 1
              /\ p \in Memory /\ p < c /\ c \in Memory /\ c < Top
              /\ chunk[p].next = c
              /\ chunk[c].prev = p /\ chunk[c].next = Top
              /\ chunk[c].size = held[N].size
              /\ chunk' = IntoNext(c) /\ first' = first
              /\ held' = RemoveAt(held, N) /\ held[N].owner = q
              /\ \A r \in Callers : call'[r].pc = "idle"
<1>. DEFINE N == Len(held)
            c == ChunkOf(N)
            p == ChunkOf(N - 1)
<1>1. /\ Runs(q) /\ call[q].pc = "freeing" /\ call[q].cursor = c
      /\ N \in Nat /\ N > 1 /\ held[N].owner = q /\ held \in Seq(Block)
  BY DEF Merge, IInv, TypeOK, Sound, FreesLast
<1>2. N \in 1 .. N /\ N - 1 \in 1 .. N /\ held # << >> /\ N - 1 < N /\ (N - 1) + 1 = N
  BY <1>1
<1>3. \A r \in Callers : r # q => call[r].pc = "idle"
  BY <1>1, <1>2, OtherIsIdle
<1>4. c \in Memory /\ c < Top /\ p \in Memory /\ chunk[p].allocated /\ p < c
  <2>. HIDE DEF N
  <2>1. PICK k \in 1 .. N : k = N - 1 /\ k < N /\ k # N
    BY <1>1, <1>2
  <2>. USE DEF N
  <2>2. ChunkOf(k) \in Memory /\ chunk[ChunkOf(k)].allocated
    BY <2>1, BlockFacts
  <2>3. c \in Memory /\ c < Top
    BY <1>2, BlockFacts
  <2>4. ChunkOf(k) < c
    BY <1>2, <2>1, ChunksAscend
  <2>. QED
    BY <2>1, <2>2, <2>3, <2>4
<1>5. chunk[p].next = c /\ chunk[c].prev = p
  <2>1. chunk[p].next = c /\ chunk[chunk[p].next].prev = p
    BY <1>2 DEF IInv, Sound, ListIsHeldThenFree
  <2>. QED
    BY <2>1
<1>6. chunk[c].next = Top /\ chunk[c].size = held[N].size
  BY <1>2, BlockFacts
<1>7. ~IsFree(p) /\ IsFree(Top)
  BY <1>4, TopFacts, AddressFacts DEF IsFree
<1>8. chunk' = IntoNext(c) /\ first' = first
  BY <1>1, <1>5, <1>6, <1>7 DEF Merge
<1>9. Max(Buffers(q)) = N
  <2>1. N \in Buffers(q)
    BY <1>1, <1>2 DEF Buffers
  <2>2. Max(Buffers(q)) \in 1 .. N /\ N <= Max(Buffers(q))
    BY <1>1, <2>1, LastBuffer
  <2>. QED
    BY <1>1, <2>2
<1>10. held' = RemoveAt(held, N)
  BY <1>9 DEF Merge
<1>11. \A r \in Callers : call'[r].pc = "idle"
  BY <1>3 DEF Merge, Idle, IInv, TypeOK
<1>. QED
  BY <1>1, <1>4, <1>5, <1>6, <1>8, <1>10, <1>11

\* The headers after it: the freed chunk's own no longer matters.
LEMMA MergeHeaders ==
    ASSUME IInv, ~Disturbed, NEW q \in Callers, Merge(q)
    PROVE  LET N == Len(held)
               c == ChunkOf(N)
               p == ChunkOf(N - 1)
           IN /\ chunk' \in [Memory -> Chunk]
              /\ chunk'[Top] = [next |-> Null, prev |-> p, allocated |-> FALSE,
                                size |-> chunk[Top].size + held[N].size + HeaderSize]
              /\ chunk'[p] = [next |-> Top, prev |-> chunk[p].prev,
                              allocated |-> chunk[p].allocated, size |-> chunk[p].size]
              /\ \A a \in Memory \ {p, c, Top} : chunk'[a] = chunk[a]
<1>. DEFINE N == Len(held)
            c == ChunkOf(N)
            p == ChunkOf(N - 1)
            grown == [next |-> Null, prev |-> p, allocated |-> FALSE,
                      size |-> chunk[Top].size + held[N].size + HeaderSize]
            merged == [chunk EXCEPT ![Top] = grown]
<1>1. /\ p \in Memory /\ c \in Memory /\ Top \in Memory
      /\ p # c /\ c # Top /\ p # Top /\ p # Null
  BY MergeFacts, TopFacts, AddressFacts
<1>2. chunk \in [Memory -> Chunk]
  BY DEF IInv, TypeOK
<1>3. chunk' = [merged EXCEPT ![p].next = Top]
  BY <1>1, MergeFacts, TopFacts DEF IntoNext, LinkOn
<1>4. held[N].size \in Nat
  BY MergeFacts, BlockFacts DEF Block
<1>5. grown \in Chunk
  BY <1>1, <1>4, TopFacts, HeapAssumption DEF Chunk
<1>. HIDE DEF p, c, N, grown
<1>6. /\ merged \in [Memory -> Chunk] /\ merged[Top] = grown
      /\ \A a \in Memory \ {Top} : merged[a] = chunk[a]
  BY <1>1, <1>2, <1>5
<1>. HIDE DEF merged
<1>7. /\ chunk' \in [Memory -> Chunk] /\ chunk'[Top] = grown
      /\ \A a \in Memory \ {p, c, Top} : chunk'[a] = chunk[a]
      /\ chunk'[p] = [chunk[p] EXCEPT !.next = Top]
  BY <1>1, <1>3, <1>6 DEF Chunk
<1>8. chunk'[p] = [next |-> Top, prev |-> chunk[p].prev,
                   allocated |-> chunk[p].allocated, size |-> chunk[p].size]
  BY <1>1, <1>2, <1>7 DEF Chunk
<1>. QED
  BY <1>7, <1>8 DEF p, c, N, grown

LEMMA MergeKeeps ==
    ASSUME IInv, ~Disturbed, NEW q \in Callers, Merge(q)
    PROVE  /\ Sound' /\ Top' = Top
           /\ held' \in Seq(Block) /\ Len(held') = Len(held) - 1
           /\ \A i \in 1 .. Len(held) - 1 : held'[i] = held[i]
<1>. DEFINE N == Len(held)
            M == N - 1
            c == ChunkOf(N)
            p == ChunkOf(M)
            top == Top
<1>1. /\ held \in Seq(Block) /\ N \in Nat /\ N > 1 /\ M \in Nat /\ 1 <= M /\ M < N
      /\ N \in 1 .. N /\ held' = RemoveAt(held, N)
  <2>1. N \in Nat /\ N > 1 /\ held' = RemoveAt(held, N)
    BY MergeFacts
  <2>. QED
    BY <2>1 DEF IInv, TypeOK
<1>2. /\ held' \in Seq(Block) /\ Len(held') = M /\ held' # << >>
      /\ \A i \in 1 .. M : held'[i] = held[i]
  BY <1>1, RemoveAtFacts
<1>3. /\ p \in Memory /\ c \in Memory /\ top \in Memory
      /\ p \in Nat /\ c \in Nat /\ top \in Nat /\ p < c /\ c < top
      /\ first' = first /\ \A r \in Callers : call'[r].pc = "idle"
  BY MergeFacts, TopFacts, AddressFacts
<1>4. /\ chunk' \in [Memory -> Chunk]
      /\ chunk'[top] = [next |-> Null, prev |-> p, allocated |-> FALSE,
                        size |-> chunk[top].size + held[N].size + HeaderSize]
      /\ chunk'[p] = [next |-> top, prev |-> chunk[p].prev,
                      allocated |-> chunk[p].allocated, size |-> chunk[p].size]
      /\ \A a \in Memory \ {p, c, top} : chunk'[a] = chunk[a]
  BY MergeHeaders
<1>5. Top' = top
  BY <1>1, <1>2, <1>4 DEF Top, ChunkOf
<1>6. \A i \in 1 .. M :
        /\ i \in 1 .. N /\ ChunkOf(i) \in Memory
        /\ held'[i].at - HeaderSize = ChunkOf(i)
        /\ i < M => chunk'[ChunkOf(i)] = chunk[ChunkOf(i)]
  <2>1. ASSUME NEW i \in 1 .. M
        PROVE  /\ i \in 1 .. N /\ ChunkOf(i) \in Memory
               /\ held'[i].at - HeaderSize = ChunkOf(i)
    BY <1>1, <1>2, BlockFacts DEF ChunkOf
  <2>2. ASSUME NEW i \in 1 .. M, i < M
        PROVE  chunk'[ChunkOf(i)] = chunk[ChunkOf(i)]
    <3>1. held[i].at + held[i].size <= p
      BY <1>1, <2>1, <2>2 DEF IInv, Sound, Ascending
    <3>3. held[i].at \in Nat /\ held[i].size \in Nat
      BY <2>1, BlockFacts
    <3>4. ChunkOf(i) = held[i].at - HeaderSize
      BY DEF ChunkOf
    <3>5. ChunkOf(i) < p
      <4>1. p \in Nat
        BY <1>3
      <4>. HIDE DEF p, N
      <4>. QED
        BY <3>1, <3>3, <3>4, <4>1, HeapAssumption
    <3>6. ChunkOf(i) \in Memory /\ ChunkOf(i) \in Nat
      BY <2>1, AddressFacts
    <3>7. ChunkOf(i) \in Memory \ {p, c, top}
      <4>. HIDE DEF p, c, top
      <4>. QED
        BY <1>3, <3>5, <3>6
    <3>. QED
      BY <1>4, <3>7
  <2>. QED
    BY <2>1, <2>2
<1>7. Fresh' /\ Searching' /\ FreesLast' /\ ~Freeing'
  BY <1>2, <1>3 DEF Fresh, Searching, InSearch, FreesLast, Freeing
<1>8. Nested'
  <2>1. Nested /\ UNCHANGED <<active, inside>>
    BY DEF IInv, Sound, Merge
  <2>2. 1 \in 1 .. M /\ \A i \in 1 .. M : i \in 1 .. N
    BY <1>1
  <2>. HIDE DEF M
  <2>3. held'[1].owner = "kept" /\ held # << >>
    BY <1>1, <1>2, <2>1, <2>2 DEF Nested
  <2>4. ~inside => \A i \in 1 .. M : held'[i].owner # "handler"
    BY <1>2, <2>1, <2>2 DEF Nested
  <2>. QED
    BY <1>2, <1>3, <2>1, <2>3, <2>4 DEF Nested, Callers
<1>9. ListIsHeldThenFree'
  <2>1. /\ ChunkOf(1) = first /\ chunk[first].prev = Null
        /\ \A i \in 1 .. N :
             /\ i < N => chunk[ChunkOf(i)].allocated
             /\ chunk[ChunkOf(i)].size = held[i].size
             /\ chunk[ChunkOf(i)].next # Null
             /\ chunk[chunk[ChunkOf(i)].next].prev = ChunkOf(i)
             /\ i < N => chunk[ChunkOf(i)].next = ChunkOf(i + 1)
    BY <1>1 DEF IInv, Sound, ListIsHeldThenFree
  <2>2. held'[1].at - HeaderSize = first /\ chunk'[first].prev = Null
    <3>1. 1 \in 1 .. M /\ (M = 1 \/ 1 < M)
      <4>. HIDE DEF M, N
      <4>. QED
        BY <1>1
    <3>. QED
      BY <1>4, <1>6, <2>1, <3>1
  <2>3. \A i \in 1 .. M : /\ chunk'[ChunkOf(i)].allocated = chunk[ChunkOf(i)].allocated
                          /\ chunk'[ChunkOf(i)].size = chunk[ChunkOf(i)].size
                          /\ chunk'[ChunkOf(i)].prev = chunk[ChunkOf(i)].prev
    <3>1. ASSUME NEW i \in 1 .. M
          PROVE  /\ chunk'[ChunkOf(i)].allocated = chunk[ChunkOf(i)].allocated
                 /\ chunk'[ChunkOf(i)].size = chunk[ChunkOf(i)].size
                 /\ chunk'[ChunkOf(i)].prev = chunk[ChunkOf(i)].prev
      <4>1. CASE i < M
        BY <1>6, <4>1
      <4>2. CASE i = M
        BY <1>4, <4>2
      <4>. QED
        BY <1>1, <4>1, <4>2
    <3>. QED
      BY <3>1
  <2>4. ASSUME NEW i \in 1 .. M, i < M
        PROVE  /\ chunk'[ChunkOf(i)].next = held'[i + 1].at - HeaderSize
               /\ chunk'[ChunkOf(i)].next # Null
               /\ chunk'[chunk'[ChunkOf(i)].next].prev = ChunkOf(i)
    <3>1. i + 1 \in 1 .. M /\ i < N /\ i \in 1 .. N
      BY <1>1, <2>4
    <3>2. chunk'[ChunkOf(i)].next = chunk[ChunkOf(i)].next
      BY <1>6, <2>4
    <3>3. chunk[ChunkOf(i)].next = ChunkOf(i + 1)
      BY <2>1, <3>1
    <3>4. chunk'[ChunkOf(i + 1)].prev = chunk[ChunkOf(i + 1)].prev
      BY <2>3, <3>1
    <3>5. held'[i + 1].at - HeaderSize = ChunkOf(i + 1)
      BY <1>6, <3>1
    <3>. QED
      BY <2>1, <3>1, <3>2, <3>3, <3>4, <3>5
  <2>5. /\ chunk'[p].next = top /\ top # Null /\ chunk'[top].prev = p
        /\ ~chunk'[top].allocated /\ chunk'[top].next = Null
    BY <1>3, <1>4, AddressFacts
  <2>6. ASSUME NEW i \in 1 .. M
        PROVE  LET d == chunk'[held'[i].at - HeaderSize] IN
               /\ d.allocated /\ d.size = held'[i].size
               /\ d.next # Null /\ chunk'[d.next].prev = held'[i].at - HeaderSize
               /\ IF i < M THEN d.next = held'[i + 1].at - HeaderSize
                  ELSE ~chunk'[d.next].allocated /\ chunk'[d.next].next = Null
    <3>1. /\ held'[i].at - HeaderSize = ChunkOf(i) /\ held'[i] = held[i]
          /\ chunk'[ChunkOf(i)].allocated /\ chunk'[ChunkOf(i)].size = held'[i].size
      <4>1. i < N /\ i \in 1 .. N
        BY <1>1
      <4>. QED
        BY <1>2, <1>6, <2>1, <2>3, <4>1
    <3>2. CASE i < M
      BY <2>4, <3>1, <3>2
    <3>3. CASE i = M
      BY <2>5, <3>1, <3>3
    <3>4. i < M \/ i = M
      <4>. HIDE DEF M, N
      <4>. QED
        BY <1>1
    <3>. QED
      BY <3>2, <3>3, <3>4
  <2>. QED
    BY <1>2, <1>3, <1>7, <2>2, <2>6 DEF ListIsHeldThenFree, ChunkOf
<1>10. Ascending'
  <2>1. ASSUME NEW i \in 1 .. M
        PROVE  /\ HeapStart <= held'[i].at - HeaderSize
               /\ held'[i].at + held'[i].size <= top
    BY <1>2, <1>6 DEF IInv, Sound, Ascending
  <2>2. ASSUME NEW i \in 1 .. M, NEW j \in 1 .. M, i < j
        PROVE  held'[i].at + held'[i].size <= held'[j].at - HeaderSize
    BY <1>2, <1>6, <2>2 DEF IInv, Sound, Ascending
  <2>. QED
    BY <1>2, <1>5, <2>1, <2>2 DEF Ascending, ChunkOf
<1>11. Accounted'
  <2>1. \A i \in 1 .. N :
          held[i].below = IF i = 1 THEN 0
                          ELSE held[i - 1].below + held[i - 1].size + HeaderSize
    BY DEF IInv, Sound, Accounted
  <2>2. \A i \in 1 .. M :
          held'[i].below = IF i = 1 THEN 0
                           ELSE held'[i - 1].below + held'[i - 1].size + HeaderSize
    <3>1. ASSUME NEW i \in 1 .. M
          PROVE  held'[i].below =
                   IF i = 1 THEN 0
                   ELSE held'[i - 1].below + held'[i - 1].size + HeaderSize
      <4>1. i # 1 => i - 1 \in 1 .. M
        BY <1>1
      <4>. QED
        BY <1>2, <1>6, <2>1, <4>1
    <3>. QED
      BY <3>1
  <2>3. Outstanding' = held[N].below
    <3>1. N \in 1 .. N /\ N # 1 /\ M \in 1 .. M
      <4>. HIDE DEF N, M
      <4>. QED
        BY <1>1
    <3>. QED
      BY <1>2, <2>1, <3>1 DEF Outstanding
  <2>4. Outstanding = held[N].below + held[N].size + HeaderSize
    BY <1>1 DEF Outstanding
  <2>5. held[N].below \in Nat /\ held[N].size \in Nat /\ chunk[top].size \in Nat
    <3>1. N \in 1 .. N
      BY <1>1
    <3>. QED
      BY <3>1, BlockFacts, TopFacts DEF Block, Chunk
  <2>6. chunk'[top].size = HeapSize - HeaderSize - Outstanding'
    <3>1. chunk[top].size = HeapSize - HeaderSize - Outstanding
      BY DEF IInv, Sound, Accounted
    <3>2. chunk'[top].size = chunk[top].size + held[N].size + HeaderSize
      BY <1>4
    <3>. HIDE DEF top, N
    <3>. QED
      BY <2>3, <2>4, <2>5, <3>1, <3>2, HeapAssumption
  <2>. QED
    BY <1>2, <1>5, <2>2, <2>6 DEF Accounted
<1>. QED
  BY <1>1, <1>2, <1>5, <1>7, <1>8, <1>9, <1>10, <1>11 DEF Sound
-----------------------------------------------------------------------------
\* IInv is inductive.
LEMMA NextKeeps == IInv /\ [Next]_vars => IInv'
<1>. SUFFICES ASSUME IInv, [Next]_vars PROVE IInv'
  OBVIOUS
<1>1. Typed'
  BY TypedKeeps DEF IInv, Typed
<1>2. ASSUME ~Disturbed' PROVE Sound'
  <2>1. ~Disturbed
    BY <1>2, WasUndisturbed DEF IInv
  <2>2. ASSUME NEW p \in Callers, NEW size \in Sizes \cup {BootSize}, MemAllocate(p, size)
        PROVE  Sound'
    BY <2>1, <2>2, MemAllocateKeeps
  <2>3. ASSUME NEW p \in Callers, NextChunk(p) PROVE Sound'
    BY <2>1, <2>3, NextChunkKeeps
  <2>4. ASSUME NEW p \in Callers, NoneFits(p) \/ Find(p) PROVE Sound'
    BY <2>1, <2>4, FindOrNoneKeeps
  <2>5. ASSUME NEW p \in Callers, Take(p) PROVE Sound'
    BY <1>2, <2>1, <2>5, TakeKeeps
  <2>6. ASSUME NEW p \in Callers, MemFree(p) PROVE Sound'
    BY <1>2, <2>1, <2>6, MemFreeKeeps
  <2>7. ASSUME NEW p \in Callers, Merge(p) PROVE Sound'
    BY <2>1, <2>7, MergeKeeps
  <2>8. CASE Activate \/ HandlerEnters \/ HandlerReturns \/ UNCHANGED vars
    BY <2>1, <2>8, HandlersKeep
  <2>. QED
    BY <2>2, <2>3, <2>4, <2>5, <2>6, <2>7, <2>8 DEF Next, InCall
<1>. QED
  BY <1>1, <1>2 DEF IInv, Typed

\* In every reachable state of the undisturbed heap the list is what its callers hold
\* and the free chunk above, and who is inside it follows the nesting of its callers
\* (MemoryManagement.cpp:52-125); its types hold in the disturbed heap too.
THEOREM Invariance == Spec => []IInv
BY InitIInv, NextKeeps, PTL DEF Spec

\* The headers, the calls and the blocks keep their types, whatever the callers do.
THEOREM TypeCorrect == Spec => []TypeOK
<1>1. IInv => TypeOK
  BY DEF IInv
<1>. QED
  BY <1>1, Invariance, PTL

\* MemFree's unlinking leaves exactly the held blocks and one free chunk in the
\* list, linked the same way in both directions, until a handler gets a block inside
\* kernelMain's call or a block is freed that is not the last.
THEOREM ListCorrect == Spec => []ListIsHeldThenFree
<1>1. IInv => ListIsHeldThenFree
  BY DEF IInv, Sound, ListIsHeldThenFree
<1>. QED
  BY <1>1, Invariance, PTL

\* No byte is in two blocks at once, header included, until then.  A block runs from
\* the address MemAllocate returned over the size that was asked for
\* (MemoryManagement.cpp:88-125).
HeldDisjoint ==
    ~Disturbed =>
      \A i, j \in 1 .. Len(held) :
        i < j => held[i].at + held[i].size + HeaderSize <= held[j].at

\* No byte that MemAllocate has given out is given out again before it is freed, to
\* kernelMain or to a handler, as long as the heap is not disturbed.
THEOREM Disjoint == Spec => []HeldDisjoint
<1>1. IInv => HeldDisjoint
  <2>. SUFFICES ASSUME IInv, ~Disturbed,
                       NEW i \in 1 .. Len(held), NEW j \in 1 .. Len(held), i < j
                PROVE  held[i].at + held[i].size + HeaderSize <= held[j].at
    BY DEF HeldDisjoint
  <2>1. held[i].at + held[i].size <= held[j].at - HeaderSize
    BY DEF IInv, Sound, Ascending, ChunkOf
  <2>2. held[i].at \in Nat /\ held[i].size \in Nat /\ held[j].at \in Nat
    BY BlockFacts
  <2>. QED
    BY <2>1, <2>2, HeapAssumption
<1>. QED
  BY <1>1, Invariance, PTL
-----------------------------------------------------------------------------
\* The blocks as the callers know them.
Handed == [at : Memory, size : Nat]

LEMMA BlocksType ==
    ASSUME held \in Seq(Block)
    PROVE  /\ Blocks \in Seq(Handed) /\ Len(Blocks) = Len(held)
           /\ \A i \in 1 .. Len(held) :
                Blocks[i] = [at |-> held[i].at, size |-> held[i].size]
<1>. DEFINE N == Len(held)
<1>1. N \in Nat /\ \A i \in 1 .. N : [at |-> held[i].at, size |-> held[i].size] \in Handed
  <2>1. N \in Nat /\ \A i \in 1 .. N : held[i] \in Block
    OBVIOUS
  <2>2. HeaderSize + 1 .. MaxAddress \subseteq Memory
    BY HeapAssumption DEF Memory
  <2>. QED
    BY <2>1, <2>2 DEF Block, Handed
<1>. HIDE DEF N
<1>2. [i \in 1 .. N |-> [at |-> held[i].at, size |-> held[i].size]] \in [1 .. N -> Handed]
  BY <1>1
<1>3. \A f \in [1 .. N -> Handed] : f \in Seq(Handed) /\ Len(f) = N
  BY <1>1, SeqDef
<1>. QED
  BY <1>1, <1>2, <1>3 DEF Blocks, N

LEMMA BlocksTypeNext ==
    ASSUME held' \in Seq(Block)
    PROVE  /\ Blocks' \in Seq(Handed) /\ Len(Blocks') = Len(held')
           /\ \A i \in 1 .. Len(held') :
                Blocks'[i] = [at |-> held'[i].at, size |-> held'[i].size]
<1>. DEFINE N == Len(held')
<1>1. N \in Nat
      /\ \A i \in 1 .. N : [at |-> held'[i].at, size |-> held'[i].size] \in Handed
  <2>1. N \in Nat /\ \A i \in 1 .. N : held'[i] \in Block
    OBVIOUS
  <2>2. HeaderSize + 1 .. MaxAddress \subseteq Memory
    BY HeapAssumption DEF Memory
  <2>. QED
    BY <2>1, <2>2 DEF Block, Handed
<1>. HIDE DEF N
<1>2. [i \in 1 .. N |-> [at |-> held'[i].at, size |-> held'[i].size]] \in [1 .. N -> Handed]
  BY <1>1
<1>3. \A f \in [1 .. N -> Handed] : f \in Seq(Handed) /\ Len(f) = N
  BY <1>1, SeqDef
<1>. QED
  BY <1>1, <1>2, <1>3 DEF Blocks, N

\* What Take and Merge do to them.
LEMMA BlocksTaken ==
    ASSUME IInv, ~Disturbed, NEW p \in Callers, Take(p), ~Disturbed'
    PROVE  Blocks' = Append(Blocks, [at |-> Top + HeaderSize, size |-> call[p].size])
<1>. DEFINE N == Len(held)
            b == [at |-> Top + HeaderSize, size |-> call[p].size]
            t == Append(Blocks, b)
<1>1. /\ held \in Seq(Block) /\ held' \in Seq(Block)
      /\ N \in Nat /\ Len(held') = N + 1
      /\ held'[N + 1].at = b.at /\ held'[N + 1].size = b.size
      /\ \A i \in 1 .. N : held'[i] = held[i]
  BY TakeBlocks DEF IInv, TypeOK
<1>2. /\ Blocks \in Seq(Handed) /\ Len(Blocks) = N
      /\ \A i \in 1 .. N : Blocks[i] = [at |-> held[i].at, size |-> held[i].size]
  BY <1>1, BlocksType
<1>3. /\ Blocks' \in Seq(Handed) /\ Len(Blocks') = N + 1
      /\ \A i \in 1 .. N + 1 : Blocks'[i] = [at |-> held'[i].at, size |-> held'[i].size]
  BY <1>1, BlocksTypeNext
<1>4. b \in Handed
  <2>1. N + 1 \in 1 .. N + 1 /\ Blocks'[N + 1] \in Handed
    BY <1>1, <1>3
  <2>. QED
    BY <1>1, <1>3, <2>1
<1>5. b = [at |-> held'[N + 1].at, size |-> held'[N + 1].size]
  BY <1>1
<1>. HIDE DEF b, N, t
<1>6. /\ t \in Seq(Handed) /\ Len(t) = N + 1 /\ t[N + 1] = b
      /\ \A i \in 1 .. N : t[i] = Blocks[i]
  BY <1>1, <1>2, <1>4, AppendProperties DEF t
<1>7. \A i \in 1 .. N + 1 : Blocks'[i] = t[i]
  <2>1. ASSUME NEW i \in 1 .. N PROVE Blocks'[i] = t[i]
    <3>1. i \in 1 .. N + 1
      BY <1>1
    <3>2. Blocks'[i] = [at |-> held'[i].at, size |-> held'[i].size]
      BY <1>3, <3>1
    <3>. QED
      BY <1>1, <1>2, <1>6, <3>2
  <2>2. Blocks'[N + 1] = t[N + 1]
    BY <1>1, <1>3, <1>5, <1>6
  <2>. QED
    BY <1>1, <2>1, <2>2
<1>8. Blocks' = t
  BY <1>1, <1>3, <1>6, <1>7, SeqEqual
<1>. QED
  BY <1>8 DEF b, t

LEMMA BlocksFreed ==
    ASSUME IInv, ~Disturbed, NEW q \in Callers, Merge(q)
    PROVE  Blocks # << >> /\ Blocks' = SubSeq(Blocks, 1, Len(Blocks) - 1)
<1>. DEFINE N == Len(held)
            t == SubSeq(Blocks, 1, N - 1)
<1>1. /\ N \in Nat /\ N > 1 /\ held \in Seq(Block) /\ held' \in Seq(Block)
  BY MergeFacts, MergeKeeps DEF IInv, TypeOK
<1>2. Len(held') = N - 1 /\ \A i \in 1 .. N - 1 : held'[i] = held[i]
  BY MergeKeeps
<1>3. /\ Blocks \in Seq(Handed) /\ Len(Blocks) = N
      /\ \A i \in 1 .. N : Blocks[i] = [at |-> held[i].at, size |-> held[i].size]
  BY <1>1, BlocksType
<1>4. /\ Blocks' \in Seq(Handed) /\ Len(Blocks') = N - 1
      /\ \A i \in 1 .. N - 1 : Blocks'[i] = [at |-> held'[i].at, size |-> held'[i].size]
  BY <1>1, <1>2, BlocksTypeNext
<1>. HIDE DEF N
<1>5. t \in Seq(Handed) /\ Len(t) = N - 1 /\ \A i \in 1 .. N - 1 : t[i] = Blocks[i]
  <2>1. \A i \in 1 .. N - 1 : Blocks[i] \in Handed
    BY <1>1, <1>3
  <2>. QED
    BY <1>1, <2>1, SubSeqProperties
<1>6. ASSUME NEW i \in 1 .. N - 1 PROVE Blocks'[i] = t[i]
  <2>1. i \in 1 .. N
    BY <1>1
  <2>2. Blocks[i] = [at |-> held[i].at, size |-> held[i].size]
    BY <1>3, <2>1
  <2>3. Blocks'[i] = [at |-> held'[i].at, size |-> held'[i].size] /\ held'[i] = held[i]
    BY <1>2, <1>4
  <2>. QED
    BY <1>5, <2>2, <2>3
<1>. HIDE DEF t
<1>7. Blocks' = t
  BY <1>1, <1>4, <1>5, <1>6, SeqEqual
<1>. QED
  BY <1>1, <1>3, <1>7 DEF t

\* Every step of the undisturbed heap is one of the promise, or nothing that callers
\* see.
LEMMA StepRefines ==
    ASSUME IInv, [Next]_vars
    PROVE  [Promise!Next]_(Promise!vars)
<1>. DEFINE asked == [p \in Callers |-> IF InSearch(p) THEN call[p].size ELSE 0]
<1>. SUFFICES ASSUME ~Disturbed' PROVE [Promise!Next]_(Promise!vars)
  BY DEF Promise!Next
<1>1. ~Disturbed
  BY WasUndisturbed DEF IInv
<1>2. /\ UNCHANGED <<first, chunk, held>> => UNCHANGED <<Blocks, Top>>
      /\ Disturbed' = Disturbed
  BY <1>1 DEF Blocks, Top, ChunkOf, Disturbed
<1>3. call \in [Callers -> Call]
  BY DEF IInv, TypeOK, Call
<1>4. ASSUME NEW p \in Callers, NEW r \in Call, call' = [call EXCEPT ![p] = r],
             NEW x, x = IF r.pc \in {"searching", "found"} THEN r.size ELSE 0
      PROVE  asked' = [asked EXCEPT ![p] = x]
  <2>1. call'[p] = r /\ \A q \in Callers : q # p => call'[q] = call[q]
    BY <1>3, <1>4
  <2>2. \A q \in Callers : asked'[q] = IF q = p THEN x ELSE asked[q]
    BY <1>4, <2>1 DEF InSearch
  <2>. QED
    BY <2>2
<1>5. ASSUME NEW p \in Callers, NEW size \in Sizes \cup {BootSize}, MemAllocate(p, size)
      PROVE  Promise!Ask(p)
  <2>. DEFINE r == [pc |-> "searching", size |-> size, cursor |-> first]
  <2>1. size \in Nat /\ size # 0
    BY HeapAssumption
  <2>2. r \in Call /\ r.pc = "searching" /\ r.size = size
    BY <2>1 DEF Call, IInv, TypeOK
  <2>3. call' = [call EXCEPT ![p] = r]
    BY <1>5 DEF MemAllocate
  <2>. HIDE DEF r
  <2>4. asked' = [asked EXCEPT ![p] = size]
    BY <1>4, <2>2, <2>3
  <2>5. asked[p] = 0 /\ asked'[p] = size
    BY <1>5, <2>4 DEF MemAllocate, InSearch
  <2>6. UNCHANGED <<Blocks, Top>>
    BY <1>2, <1>5 DEF MemAllocate
  <2>. QED
    BY <2>1, <2>4, <2>5, <2>6 DEF Promise!Ask
<1>6. ASSUME NEW p \in Callers, NextChunk(p) \/ Find(p)
      PROVE  UNCHANGED <<Blocks, asked, Top, Disturbed>>
  <2>1. call[p] \in Call /\ call[p].pc = "searching"
    BY <1>3, <1>6 DEF NextChunk, Find
  <2>2. PICK r : r = call'[p]
    OBVIOUS
  <2>3. r.pc \in {"searching", "found"} /\ r.size = call[p].size
    BY <1>3, <1>6, <2>1, <2>2 DEF NextChunk, Find, Call
  <2>4. \A q \in Callers : q # p => call'[q] = call[q]
    BY <1>3, <1>6 DEF NextChunk, Find
  <2>5. asked' = asked
    BY <2>1, <2>2, <2>3, <2>4 DEF InSearch
  <2>. HIDE DEF asked
  <2>. QED
    BY <1>2, <1>6, <2>5 DEF NextChunk, Find
<1>7. ASSUME NEW p \in Callers, NoneFits(p)
      PROVE  Promise!Refuse(p)
  <2>1. InSearch(p) /\ call[p].cursor = Null /\ call' = [call EXCEPT ![p] = Idle]
    BY <1>7 DEF NoneFits, InSearch
  <2>2. asked' = [asked EXCEPT ![p] = 0]
    BY <1>4, <2>1, IdleTyped
  <2>3. asked[p] = call[p].size /\ asked[p] # 0 /\ asked[p] >= HeapSize
    BY <1>1, <2>1 DEF IInv, Sound, Searching
  <2>. QED
    BY <1>2, <1>7, <2>2, <2>3 DEF NoneFits, Promise!Refuse
<1>8. ASSUME NEW p \in Callers, Take(p)
      PROVE  Promise!Grant(p)
  <2>1. InSearch(p) /\ call' = [call EXCEPT ![p] = Idle]
    BY <1>8 DEF Take, InSearch
  <2>2. asked' = [asked EXCEPT ![p] = 0]
    BY <1>4, <2>1, IdleTyped
  <2>3. asked[p] = call[p].size /\ asked[p] # 0
    BY <1>1, <1>8, <2>1, TakeFacts
  <2>4. /\ Top \in Nat /\ call[p].size \in Nat /\ Top + HeaderSize \in Memory
        /\ Top' = Top + HeaderSize + call[p].size
    <3>1. /\ Top \in Nat /\ 1 <= Top /\ call[p].size \in Nat
          /\ Remainder(Top, call[p].size) <= MaxAddress
      BY <1>1, <1>8, TakeFacts, TopFacts, AddressFacts
    <3>2. Top + HeaderSize \in Nat /\ 1 <= Top + HeaderSize
          /\ Top + HeaderSize <= MaxAddress
      BY <3>1, HeapAssumption DEF Remainder
    <3>. QED
      BY <1>1, <1>8, <3>1, <3>2, TakeBlocks, AddressFacts DEF Remainder
  <2>5. Top + HeaderSize >= Top
    BY <2>4, HeapAssumption
  <2>6. Blocks' = Append(Blocks, [at |-> Top + HeaderSize, size |-> asked[p]])
    BY <1>1, <1>8, <2>3, BlocksTaken
  <2>. HIDE DEF asked
  <2>. QED
    BY <2>2, <2>3, <2>4, <2>5, <2>6 DEF Promise!Grant, asked
<1>9. ASSUME NEW p \in Callers, MemFree(p)
      PROVE  UNCHANGED <<Blocks, asked, Top, Disturbed>>
  <2>1. call[p].pc = "idle" /\ call'[p].pc = "freeing"
    BY <1>3, <1>9 DEF MemFree
  <2>2. \A q \in Callers : q # p => call'[q] = call[q]
    BY <1>3, <1>9 DEF MemFree
  <2>3. asked' = asked
    BY <2>1, <2>2 DEF InSearch
  <2>. HIDE DEF asked
  <2>4. Blocks' = Blocks
    BY <1>9 DEF MemFree, Blocks
  <2>. QED
    BY <1>1, <1>2, <1>9, <2>3, <2>4, MemFreeKeeps
<1>10. ASSUME NEW p \in Callers, Merge(p)
       PROVE  Promise!FreeLast
  <2>1. /\ call[p].pc = "freeing" /\ call'[p].pc = "idle"
        /\ \A q \in Callers : q # p => call'[q] = call[q]
    BY <1>3, <1>10 DEF Merge, Idle
  <2>2. \A q \in Callers : asked'[q] = asked[q]
    BY <2>1 DEF InSearch
  <2>. QED
    BY <1>1, <1>10, <2>2, BlocksFreed, MergeKeeps DEF Promise!FreeLast
<1>11. CASE Activate \/ HandlerEnters \/ HandlerReturns \/ UNCHANGED vars
  <2>1. UNCHANGED <<first, chunk, held, call>>
    BY <1>11 DEF Activate, HandlerEnters, HandlerReturns, vars
  <2>2. asked' = asked
    BY <2>1 DEF InSearch
  <2>3. UNCHANGED <<Blocks, asked, Top, Disturbed>>
    <3>. HIDE DEF asked
    <3>. QED
      BY <1>2, <2>1, <2>2
  <2>. QED
    BY <2>3 DEF Promise!vars
<1>. HIDE DEF asked
<1>. QED
  BY <1>1, <1>2, <1>5, <1>6, <1>7, <1>8, <1>9, <1>10, <1>11
     DEF Next, InCall, Promise!Next, Promise!Keeps, Promise!vars, asked

\* Undisturbed, first fit is a stack of blocks that only grows, whichever of its
\* callers asks (MemoryManagement.cpp:52-125); nothing is promised afterwards.
THEOREM Refinement == Spec => Implements
<1>1. Init => Promise!Init
  <2>. SUFFICES ASSUME Init PROVE Promise!Init
    OBVIOUS
  <2>1. Blocks = << >> /\ Top = HeapStart /\ ~Disturbed
    BY DEF Init, Blocks, Top, Disturbed
  <2>2. \A p \in Callers : ~InSearch(p)
    BY DEF Init, Idle, InSearch
  <2>. QED
    BY <2>1, <2>2 DEF Promise!Init
<1>. QED
  BY <1>1, StepRefines, Invariance, PTL DEF Spec, Implements, Promise!Spec
=============================================================================
