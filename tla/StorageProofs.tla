---------------------------- MODULE StorageProofs -----------------------------
(***************************************************************************)
(* Theorems about Storage, for any disks, sector size and names: what the  *)
(* commands ask of the drive, when it hears them, what lspt prints and     *)
(* what exec runs.                                                         *)
(***************************************************************************)
EXTENDS Storage, SequenceTheorems, WellFoundedInduction, TLAPS

(***************************************************************************)
(* The inductive invariant.                                                *)
(***************************************************************************)
Dirs == {d.dir : d \in Disks \cup Debris}

DriveStates == [phase : Phases, op : {"idle", "in", "out"}, words : 0 .. Words]

\* Types that TypeOK leaves out: the drive's record is whole.
MoreTypes == TypeOK /\ disk \in Disks /\ calls \in Nat /\ drive \in DriveStates

\* All of it but the drive and the read that was begun.
OtherTypes ==
    /\ pc \in Reads \cup {"prompt", "program", "stopped", "lost"}
    /\ clean \in BOOLEAN /\ strained \in BOOLEAN
    /\ left \in Nat /\ at \in Nat
    /\ sectorsPerCluster \in 0 .. 255 /\ offset \in 0 .. sectorsPerCluster
    /\ {buffer, entry} \subseteq Sectors \cup {Junk, Own}
    /\ Len(arg1) = NameLength /\ Len(name1) = NameLength
    /\ disk \in Disks /\ calls \in Nat
ReadStates == [begun : {"no", "heard", "unheard"}, sector : Sectors]

\* Until a program writes, the drive is ready between two reads, and during one it
\* is that read that it is busy with.
ReadsHeard ==
    ~strained /\ drive.phase # "absent" =>
        IF io.begun = "no" THEN drive.phase \in {"idle", "error"}
        ELSE /\ io.begun = "heard" /\ drive.phase \in {"busy", "in", "error"}
             /\ drive.phase = "busy" => drive.op = "in"

\* Where the commands are; lspt has an entry of some directory in hand.
Commands ==
    /\ pc \in {"mbr", "bpb", "root"} => cmd.is \in {"lspt", "ls", "exec"}
    /\ pc \in {"data", "fat"} =>
         cmd.is = "lspt" /\ dirent \in Dirs /\ at \in 1 .. Len(dirent)
    /\ pc = "data" => left > 0
    /\ pc = "sysread" => calls > 0

\* As long as the command knows the layout, its entry is the disk's.
Layout ==
    Trust =>
        /\ pc \in {"data", "fat", "load"} => dirent = disk.dir
        /\ pc \in {"data", "fat"} => cluster \in {0} \cup Clusters(disk.spc)
        /\ pc = "load" => dirent[at].cluster \in Clusters(disk.spc)
        /\ cmd.is = "lspt" /\ pc \in {"root", "data", "fat"} => sectorsPerCluster = disk.spc

\* exec has put its name over what arg1 held; then it has found an entry, and loads
\* that entry's first sector.
Executing ==
    cmd.is = "exec" =>
        /\ cmd.name \in Name
        /\ pc \in {"mbr", "bpb", "root"} => \E mem : arg1 = Overlay(mem, cmd.name)
        /\ Trust /\ (pc = "load" \/ (pc = "program" /\ calls = 0)) =>
             LET e == dirent[at] IN
             /\ Alike(e.name, cmd.name) /\ e.ext = cmd.ext
             /\ pc = "load" /\ io.begun # "no" => io.sector = FirstSector(e.cluster)
             /\ pc = "program" => entry = FirstSector(e.cluster)

IInv == MoreTypes /\ ReadsHeard /\ Commands /\ Layout /\ Executing
-----------------------------------------------------------------------------
(* The drive.                                                              *)

\* What the constants are.
LEMMA ConstantTypes ==
    /\ Words \in Nat \ {0} /\ Counts \subseteq Int /\ NameLength \in Nat
    /\ Cleared \in 0 .. NameLength /\ MaxErrors \in Nat /\ MaxCalls \in Nat
    /\ Typed \subseteq [name : Name, ext : STRING]
    /\ IndexSpace \in Nat \ {0}
    /\ Mbr = 0 /\ Start = 1 /\ FatStart = 2 /\ DataStart = 3 /\ RootCluster = 2
    /\ LastSector = 12 /\ Refused = -1 /\ Junk = -2 /\ Own = -3
BY StorageAssumption DEF Mbr, Start, FatStart, DataStart, RootCluster, LastSector, Refused,
   Junk, Own, IndexSpace

\* No count moves fewer than no words.
LEMMA WordsMovedType ==
    ASSUME NEW count \in Int
    PROVE  WordsMoved(count) \in Nat
<1>. USE ConstantTypes
<1>1. WordsUpTo(count) \in Nat
  BY DEF WordsUpTo
<1>2. Odd(count) \in Int
  BY DEF Odd
<1>3. WordsFrom(count) \in Nat
  <2>. DEFINE i == (count + Odd(count)) % IndexSpace
  <2>1. i \in 0 .. IndexSpace - 1
    BY <1>2
  <2>. HIDE DEF i
  <2>2. WordsFrom(count) = IF i >= 2 * Words THEN 0 ELSE Words - i \div 2
    BY DEF WordsFrom, i
  <2>3. i < 2 * Words => Words - i \div 2 \in Nat
    BY <2>1
  <2>. QED
    BY <2>1, <2>2, <2>3
<1>. QED
  BY <1>1, <1>3 DEF WordsMoved

\* A read takes all the words of its sector out of the drive, the count of a boot
\* block's included (HDD-ATA.cpp:96, 109).
LEMMA ReadMovesAll ==
    ASSUME NEW place
    PROVE  WordsMoved(CountFor(place)) \in Nat /\ WordsMoved(CountFor(place)) >= Words
<1>. USE ConstantTypes
<1>1. ASSUME NEW count \in {2 * Words, 2 * Words - 2}
      PROVE  WordsMoved(count) \in Nat /\ WordsMoved(count) >= Words
  <2>1. WordsMoved(count) \in Nat /\ WordsUpTo(count) \in Nat
    BY WordsMovedType DEF WordsUpTo
  <2>2. Odd(count) = 0 /\ count \in Nat
    BY DEF Odd
  <2>3. CASE count = 2 * Words
    <3>1. WordsUpTo(count) = Words
      BY <2>3 DEF WordsUpTo
    <3>2. WordsFrom(count) \in Nat
      <4>. DEFINE i == count % IndexSpace
      <4>1. i \in 0 .. IndexSpace - 1 /\ WordsFrom(count) = IF i >= 2 * Words THEN 0 ELSE Words - i \div 2
        BY <2>2 DEF WordsFrom
      <4>. HIDE DEF i
      <4>. QED
        BY <4>1
    <3>. QED
      BY <2>1, <3>1, <3>2 DEF WordsMoved
  <2>4. CASE count = 2 * Words - 2
    <3>1. WordsUpTo(count) = Words - 1
      BY <2>4 DEF WordsUpTo
    <3>2. WordsFrom(count) >= 1 /\ WordsFrom(count) \in Int
      <4>. DEFINE i == count % IndexSpace
      <4>1. i \in 0 .. IndexSpace - 1 /\ WordsFrom(count) = IF i >= 2 * Words THEN 0 ELSE Words - i \div 2
        BY <2>2 DEF WordsFrom
      <4>2. i <= count
        BY <2>2
      <4>. HIDE DEF i
      <4>. QED
        BY <2>4, <4>1, <4>2
    <3>. QED
      BY <2>1, <3>1, <3>2 DEF WordsMoved
  <2>. QED
    BY <2>3, <2>4
<1>. QED
  BY <1>1 DEF CountFor

\* What the drive does stays one of its states; one that is not there stays away.
LEMMA DriveTypes ==
    ASSUME NEW d \in DriveStates, NEW n \in Nat
    PROVE  /\ \A op \in {"in", "out"} : Commanded(d, op) \in DriveStates
           /\ Taken(d, n) \in DriveStates /\ Given(d, n) \in DriveStates
           /\ d.phase = "absent" => Taken(d, n) = d /\ Given(d, n) = d /\ Commanded(d, "in") = d
           /\ d.phase \in {"in", "error"} /\ n >= Words => Taken(d, n).phase \in {"idle", "error"}
<1>. USE ConstantTypes DEF DriveStates, Phases
<1>1. \A op \in {"in", "out"} : Commanded(d, op) \in DriveStates
  BY DEF Commanded
<1>2. Taken(d, n) \in DriveStates
  <2>1. CASE d.phase = "in" /\ ~(n >= d.words)
    <3>1. d.words - n \in 0 .. Words
      BY <2>1
    <3>. QED
      BY <2>1, <3>1 DEF Taken
  <2>2. CASE d.phase = "in" /\ n >= d.words
    <3>1. [d EXCEPT !.phase = "idle"] \in DriveStates
      OBVIOUS
    <3>2. \A e \in DriveStates : [e EXCEPT !.words = 0] \in DriveStates
      OBVIOUS
    <3>. HIDE DEF DriveStates
    <3>. QED
      BY <2>2, <3>1, <3>2 DEF Taken
  <2>3. CASE d.phase # "in"
    BY <2>3 DEF Taken
  <2>. QED
    BY <2>1, <2>2, <2>3
<1>3. Given(d, n) \in DriveStates
  <2>1. CASE d.phase = "out" /\ ~(n >= d.words)
    <3>1. d.words - n \in 0 .. Words
      BY <2>1
    <3>. QED
      BY <2>1, <3>1 DEF Given
  <2>. QED
    BY <2>1 DEF Given
<1>4. d.phase = "absent" => Taken(d, n) = d /\ Given(d, n) = d /\ Commanded(d, "in") = d
  BY DEF Taken, Given, Commanded
<1>5. d.phase \in {"in", "error"} /\ n >= Words => Taken(d, n).phase \in {"idle", "error"}
  BY DEF Taken
<1>. QED
  BY <1>1, <1>2, <1>3, <1>4, <1>5
-----------------------------------------------------------------------------
(* Names in memory.                                                        *)

\* A non-empty set of naturals has a smallest element.
LEMMA Smallest ==
    ASSUME NEW S, S \subseteq Nat, S # {}
    PROVE  \E i \in S : \A j \in S : i <= j
<1>. DEFINE R == OpToRel(<, Nat)
<1>1. IsWellFoundedOn(R, Nat)
  BY NatLessThanWellFounded
<1>2. \A x, y \in Nat : y < x => <<y, x>> \in R
  BY DEF OpToRel
<1>. HIDE DEF R
<1>3. PICK i \in S : \A j \in S : <<j, i>> \notin R
  BY <1>1, WFMin
<1>4. ASSUME NEW j \in S PROVE i <= j
  <2>1. i \in Nat /\ j \in Nat
    OBVIOUS
  <2>2. ~(j < i)
    BY <1>2, <1>3, <2>1
  <2>. QED
    BY <2>1, <2>2
<1>. QED
  BY <1>4

\* So Least finds it.
LEMMA LeastIsIn ==
    ASSUME NEW S, S \subseteq Nat, S # {}
    PROVE  Least(S) \in S
BY Smallest DEF Least

\* The name that is left is laid over another, or nothing was.
LEMMA Name1AfterFacts ==
    ASSUME NEW d, NEW n \in Nat
    PROVE  IF n = 0 THEN Name1After(d, n) = name1
           ELSE \E mem : Name1After(d, n) = Overlay(mem, d[n].name)
<1>. DEFINE Walk(f, m) ==
              f = [i \in 0 .. m |-> IF i = 0 THEN name1 ELSE Overlay(f[i - 1], d[i].name)]
            mem == CHOOSE f : Walk(f, n)
<1>1. \A m \in Nat : \E f : Walk(f, m)
  <2>. DEFINE S == {m \in Nat : ~ \E f : Walk(f, m)}
  <2>1. CASE S # {}
    <3>1. PICK m \in S : \A j \in S : m <= j
      BY <2>1, Smallest
    <3>2. CASE m = 0
      <4>. DEFINE g == [i \in 0 .. 0 |-> name1]
      <4>1. Walk(g, 0)
        OBVIOUS
      <4>. QED
        BY <3>1, <3>2, <4>1
    <3>3. CASE m # 0
      <4>. HIDE DEF Walk
      <4>1. PICK f : Walk(f, m - 1)
        <5>1. m - 1 \in Nat /\ m - 1 \notin S
          BY <3>1, <3>3
        <5>. QED
          BY <5>1
      <4>. USE DEF Walk
      <4>. DEFINE g == [i \in 0 .. m |-> IF i = m THEN Overlay(f[m - 1], d[m].name) ELSE f[i]]
      <4>2. \A i \in 0 .. m - 1 :
              f[i] = IF i = 0 THEN name1 ELSE Overlay(f[i - 1], d[i].name)
        BY <4>1
      <4>3. \A i \in 0 .. m :
              g[i] = IF i = 0 THEN name1 ELSE Overlay(g[i - 1], d[i].name)
        BY <3>1, <3>3, <4>2
      <4>4. Walk(g, m)
        BY <4>3
      <4>. QED
        BY <3>1, <4>4
    <3>. QED
      BY <3>2, <3>3
  <2>. QED
    BY <2>1
<1>2. Walk(mem, n)
  BY <1>1
<1>3. Name1After(d, n) = mem[n]
  BY DEF Name1After
<1>. HIDE DEF mem
<1>4. mem[n] = IF n = 0 THEN name1 ELSE Overlay(mem[n - 1], d[n].name)
  BY <1>2
<1>. QED
  BY <1>3, <1>4

\* Memory has as many letters as a name.
LEMMA MemoryLength ==
    ASSUME NEW mem, mem = [i \in 1 .. NameLength |-> mem[i]]
    PROVE  Len(mem) = NameLength
<1>. DEFINE S == {mem[i] : i \in 1 .. NameLength}
<1>1. mem \in [1 .. NameLength -> S] /\ NameLength \in Nat
  BY ConstantTypes
<1>2. mem \in Seq(S)
  BY <1>1, SeqDef
<1>. HIDE DEF S
<1>3. 1 .. Len(mem) = 1 .. NameLength /\ Len(mem) \in Nat
  BY <1>1, <1>2, LenProperties
<1>. QED
  BY <1>1, <1>3

\* A name laid over memory leaves as much memory.
LEMMA OverlayLength ==
    ASSUME NEW mem, NEW w
    PROVE  Len(Overlay(mem, w)) = NameLength
BY MemoryLength DEF Overlay

\* Names that read the same in memory are alike (FATFS.cpp:219, string.cpp:95).
LEMMA SameNames ==
    ASSUME NEW a \in Name, NEW b \in Name, NEW m, NEW k,
           SameText(Overlay(m, a), Overlay(k, b))
    PROVE  Alike(a, b)
<1>. DEFINE x == Overlay(m, a)
            y == Overlay(k, b)
<1>1. /\ NameLength \in Nat /\ Cleared \in 0 .. NameLength
      /\ Len(a) \in Nat /\ \A i \in 1 .. Len(a) : a[i] # "nul"
      /\ Len(b) \in Nat /\ \A i \in 1 .. Len(b) : b[i] # "nul"
  BY ConstantTypes, LenProperties, ElementOfSeq DEF Name
<1>2. \A i \in 1 .. NameLength :
        /\ x[i] = IF i <= Len(a) THEN a[i] ELSE IF i <= Cleared THEN "nul" ELSE m[i]
        /\ y[i] = IF i <= Len(b) THEN b[i] ELSE IF i <= Cleared THEN "nul" ELSE k[i]
  BY DEF Overlay
<1>3. \A i \in 1 .. NameLength : (\A j \in 1 .. i - 1 : x[j] # "nul") => x[i] = y[i]
  BY DEF SameText
<1>. HIDE DEF x, y
<1>4. \A i \in 1 .. NameLength : i <= Len(a) + 1 => x[i] = y[i]
  BY <1>1, <1>2, <1>3
<1>5. CASE Len(a) < Cleared
  <2>1. Len(b) <= Len(a)
    BY <1>1, <1>2, <1>4, <1>5
  <2>2. Len(b) >= Len(a)
    <3>1. SUFFICES ASSUME Len(b) < Len(a) PROVE FALSE
      BY <1>1
    <3>2. Len(b) + 1 \in 1 .. NameLength /\ Len(b) + 1 <= Len(a) /\ Len(b) + 1 <= Cleared
      BY <1>1, <1>5, <3>1
    <3>3. y[Len(b) + 1] = "nul" /\ x[Len(b) + 1] = a[Len(b) + 1]
      BY <1>1, <1>2, <3>2
    <3>. QED
      BY <1>1, <1>4, <3>2, <3>3
  <2>3. Len(a) = Len(b) /\ \A i \in 1 .. Len(a) : a[i] = b[i]
    BY <1>1, <1>2, <1>4, <1>5, <2>1, <2>2
  <2>4. a = b
    BY <2>3, SeqEqual DEF Name
  <2>. QED
    BY <2>4 DEF Alike
<1>6. CASE Len(a) >= Cleared
  <2>1. Len(b) >= Cleared
    <3>1. SUFFICES ASSUME Len(b) < Cleared PROVE FALSE
      BY <1>1
    <3>2. Len(b) + 1 \in 1 .. NameLength /\ Len(b) + 1 <= Len(a) /\ Len(b) + 1 <= Cleared
      BY <1>1, <1>6, <3>1
    <3>3. y[Len(b) + 1] = "nul" /\ x[Len(b) + 1] = a[Len(b) + 1]
      BY <1>1, <1>2, <3>2
    <3>. QED
      BY <1>1, <1>4, <3>2, <3>3
  <2>2. \A i \in 1 .. Cleared : a[i] = b[i]
    BY <1>1, <1>2, <1>4, <1>6, <2>1
  <2>3. SubSeq(a, 1, Cleared) = SubSeq(b, 1, Cleared)
    BY <1>1, <1>6, <2>1, <2>2, SubSeqProperties DEF Name
  <2>. QED
    BY <1>6, <2>1, <2>3 DEF Alike
<1>. QED
  BY <1>1, <1>5, <1>6
-----------------------------------------------------------------------------
(* The disks.                                                              *)

\* MoreTypes in three parts.
LEMMA TypesSplit == MoreTypes <=> OtherTypes /\ drive \in DriveStates /\ io \in ReadStates
<1>1. drive \in DriveStates => drive.phase \in Phases /\ drive.words \in 0 .. Words
  BY DEF DriveStates
<1>. QED
  BY <1>1 DEF MoreTypes, TypeOK, OtherTypes, ReadStates

\* The same after a step.
LEMMA TypesSplitNext == MoreTypes' <=> OtherTypes' /\ drive' \in DriveStates /\ io' \in ReadStates
<1>1. drive' \in DriveStates => drive'.phase \in Phases /\ drive'.words \in 0 .. Words
  BY DEF DriveStates
<1>. QED
  BY <1>1 DEF MoreTypes, TypeOK, OtherTypes, ReadStates

Kinds == {"file", "dir", "init", "long", "end"}

\* What a directory and a FAT hold.
LEMMA DiskFacts ==
    ASSUME NEW d \in Disks
    PROVE  /\ d.spc \in 1 .. LastSector - DataStart
           /\ Len(d.dir) \in Nat
           /\ \A i \in 1 .. Len(d.dir) :
                /\ d.dir[i].name \in Name /\ d.dir[i].size \in Nat
                /\ d.dir[i].cluster \in {0} \cup Clusters(d.spc)
                /\ d.dir[i].size > 0 => d.dir[i].cluster # 0
           /\ \A c \in 1 .. LastSector : d.next[c] \in {0} \cup Clusters(d.spc)
<1>1. PICK spc \in 1 .. LastSector - DataStart : d \in DiskWith(spc)
  BY StorageAssumption
<1>. DEFINE E == {e \in [name : Name, ext : STRING, size : Nat,
                         cluster : {0} \cup Clusters(spc), kind : Kinds] :
                    e.size > 0 => e.cluster # 0}
<1>2. d.spc = spc /\ d.dir \in Seq(E) /\ d.next \in [1 .. LastSector -> {0} \cup Clusters(spc)]
  BY <1>1 DEF DiskWith, Directories, Kinds
<1>3. Len(d.dir) \in Nat /\ \A i \in 1 .. Len(d.dir) : d.dir[i] \in E
  BY <1>2, LenProperties, ElementOfSeq
<1>4. \A i \in 1 .. Len(d.dir) :
         /\ d.dir[i].name \in Name /\ d.dir[i].size \in Nat
         /\ d.dir[i].cluster \in {0} \cup Clusters(spc)
         /\ d.dir[i].size > 0 => d.dir[i].cluster # 0
  BY <1>3
<1>. HIDE DEF E
<1>. QED
  BY <1>2, <1>3, <1>4

\* What a directory holds, the disk's or one that was never read.
LEMMA DirFacts ==
    ASSUME NEW d \in Dirs
    PROVE  Len(d) \in Nat
           /\ \A i \in 1 .. Len(d) : d[i].name \in Name /\ d[i].size \in Nat
<1>1. CASE \E dsk \in Disks : d = dsk.dir
  BY <1>1, DiskFacts
<1>2. CASE \E e \in Debris : d = e.dir
  <2>. DEFINE E == {e \in [name : Name, ext : STRING, size : Nat, cluster : Nat, kind : Kinds] :
                      e.size > 0 => e.cluster # 0}
  <2>1. d \in Seq(E)
    BY <1>2, StorageAssumption DEF Directories, Kinds
  <2>2. Len(d) \in Nat /\ \A i \in 1 .. Len(d) : d[i] \in E
    BY <2>1, LenProperties, ElementOfSeq
  <2>. QED
    BY <2>2
<1>. QED
  BY <1>1, <1>2 DEF Dirs

\* The sectors of a cluster, and the one behind it, are on the drive.
LEMMA SectorsFit ==
    ASSUME disk \in Disks, NEW c \in Clusters(disk.spc), NEW o \in 0 .. disk.spc
    PROVE  FirstSector(c) + o \in Sectors /\ FirstSector(c) \in Sectors
<1>. DEFINE spc == disk.spc
<1>1. spc \in 1 .. LastSector - DataStart
  BY DiskFacts
<1>2. /\ c \in RootCluster .. LastSector
      /\ DataStart + spc * (c - RootCluster + 1) <= LastSector
  BY DEF Clusters
<1>. HIDE DEF spc
<1>3. spc * (c - RootCluster + 1) = spc * (c - RootCluster) + spc
      /\ spc * (c - RootCluster) \in Nat
  BY <1>1, <1>2, ConstantTypes
<1>4. o \in 0 .. spc /\ spc \in Nat
  BY <1>1, ConstantTypes DEF spc
<1>5. FirstSector(c) = DataStart + spc * (c - RootCluster)
  BY DEF FirstSector, spc
<1>. DEFINE p == spc * (c - RootCluster)
<1>. HIDE DEF p
<1>6. p \in Nat /\ DataStart + (p + spc) <= LastSector /\ FirstSector(c) = DataStart + p
  BY <1>2, <1>3, <1>5 DEF p
<1>. QED
  BY <1>4, <1>6, ConstantTypes DEF Sectors

\* What a command asks for is on the drive when it was computed from what the disk
\* holds; a number computed from junk stands for any.
LEMMA WantedFits ==
    ASSUME IInv, pc \in Reads
    PROVE  Wanted \subseteq Sectors \cup {Refused}
<1>. USE ConstantTypes
<1>1. /\ disk \in Disks /\ disk.spc \in 1 .. LastSector - DataStart
      /\ Trust /\ pc = "data" => offset \in 0 .. disk.spc
  BY DiskFacts DEF IInv, MoreTypes, TypeOK, Commands, Layout
<1>2. {Mbr, Start, FatStart, LastSector} \subseteq Sectors
  BY DEF Sectors
<1>3. FirstSector(RootCluster) \in Sectors
  <2>1. disk.spc * 0 = 0
    BY <1>1
  <2>. QED
    BY <2>1 DEF FirstSector, Sectors
<1>4. Trust /\ pc = "data" /\ cluster # 0 => FirstSector(cluster) + offset \in Sectors
  <2>1. Trust /\ pc = "data" /\ cluster # 0 => cluster \in Clusters(disk.spc)
    BY DEF IInv, Layout
  <2>. QED
    BY <1>1, <2>1, SectorsFit
<1>5. Trust /\ pc = "load" => FirstSector(dirent[at].cluster) \in Sectors
  <2>1. Trust /\ pc = "load" => dirent[at].cluster \in Clusters(disk.spc)
    BY DEF IInv, Layout
  <2>2. 0 \in 0 .. disk.spc
    BY <1>1
  <2>. QED
    BY <1>1, <2>1, <2>2, SectorsFit
<1>. HIDE DEF FirstSector, Sectors
<1>6. Trust /\ ~(pc = "data" /\ cluster = 0) /\ pc \in {"root", "data", "fat", "load"}
        => LaidOutAt \in Sectors
  BY <1>2, <1>3, <1>4, <1>5 DEF LaidOutAt
<1>7. CASE pc \in {"identify", "mbr", "bpb", "sysread"}
  BY <1>2, <1>7 DEF Wanted
<1>8. CASE pc \in {"root", "data", "fat", "load"}
  BY <1>2, <1>6, <1>8 DEF Wanted
<1>. QED
  BY <1>7, <1>8 DEF Reads
-----------------------------------------------------------------------------
(* What follows a read.                                                    *)

\* Least partition or not, ReadPartitions goes on or ends.
LEMMA PartitionGoals ==
    ASSUME NEW p, GoToPartition(p)
    PROVE  pc' \in {"prompt", "bpb", "lost"}
BY DEF GoToPartition

\* lspt goes on with an entry that has something to print, or with a partition.
LEMMA EntryGoals ==
    ASSUME NEW d \in Dirs, NEW i \in Nat, GoToEntry(d, i + 1)
    PROVE  /\ left' \in Nat /\ at' \in Nat /\ offset' = 0 /\ buffer' \in {Junk, buffer}
           /\ sectorsPerCluster' \in {0, sectorsPerCluster}
           /\ \/ pc' \in {"prompt", "bpb", "lost"}
              \/ /\ pc' = "data" /\ dirent' = d /\ at' \in 1 .. Len(d) /\ left' > 0
                 /\ cluster' = d[at'].cluster /\ part' = part
                 /\ sectorsPerCluster' = sectorsPerCluster
<1>. DEFINE stop == Stops(d, i + 1)
            j == Least(stop)
<1>2. Len(d) \in Nat /\ \A k \in 1 .. Len(d) : d[k].size \in Nat
  BY DirFacts
<1>3. stop \subseteq 1 .. Len(d)
  BY <1>2 DEF Stops
<1>4. CASE stop = {} \/ d[j].kind = "end"
  <2>1. GoToPartition(part) /\ left' = 0 /\ at' = 0 /\ buffer' = Junk /\ offset' = 0
        /\ sectorsPerCluster' = 0
    BY <1>4 DEF GoToEntry
  <2>. QED
    BY <2>1, PartitionGoals
<1>5. CASE ~(stop = {} \/ d[j].kind = "end")
  <2>1. j \in stop
    BY <1>2, <1>3, <1>5, LeastIsIn
  <2>2. d[j].size > 0
    BY <1>5, <2>1 DEF Stops
  <2>3. /\ pc' = "data" /\ dirent' = d /\ at' = j /\ left' = d[j].size
        /\ cluster' = d[j].cluster /\ offset' = 0 /\ UNCHANGED <<part, buffer, sectorsPerCluster>>
    BY <1>5 DEF GoToEntry
  <2>. HIDE DEF j, stop
  <2>. QED
    BY <1>2, <1>3, <2>1, <2>2, <2>3
<1>. QED
  BY <1>4, <1>5

\* What a read that has ended leaves: the invariant's parts that do not depend on the
\* drive.
AfterGoal == OtherTypes' /\ Commands' /\ Layout' /\ Executing'

\* r is what a read brought, s the sector that was asked for.
Ends(r, s) ==
    /\ After(r, s) /\ io'.begun = "no"
    /\ r = "sector" => io.begun = "heard" /\ io.sector = s /\ s \in Sectors

\* What every read leaves alone.
LEMMA AfterLeaves ==
    ASSUME IInv, NEW r, NEW s, Ends(r, s)
    PROVE  /\ UNCHANGED <<disk, errors, cmd, arg1, calls, strained>>
           /\ clean' = (clean /\ r = "sector") /\ clean' \in BOOLEAN
           /\ Trust' /\ part' = part => Trust /\ r = "sector"
           /\ OtherTypes /\ io'.begun = "no"
           /\ r = "sector" => io.begun = "heard" /\ io.sector = s /\ s \in Sectors
<1>1. UNCHANGED <<disk, errors, cmd, arg1, calls, strained>>
      /\ clean' = (clean /\ r = "sector") /\ clean' \in BOOLEAN
  BY DEF Ends, After
<1>2. Trust' /\ part' = part => Trust /\ r = "sector"
  BY <1>1 DEF Trust
<1>. QED
  BY <1>1, <1>2, TypesSplit DEF Ends, IInv

\* The partition table was read.
LEMMA MbrKeeps ==
    ASSUME IInv, NEW r, NEW s, Ends(r, s), pc = "mbr"
    PROVE  AfterGoal
<1>. USE AfterLeaves
<1>1. AfterMbr(r)
  BY DEF Ends, After
<1>2. /\ pc' \in {"prompt", "bpb", "lost"} /\ (pc' = "bpb" => cmd.is \in {"lspt", "ls", "exec"})
      /\ UNCHANGED <<dirent, at, left, cluster, offset, buffer, sectorsPerCluster, out,
                     name1, entry>>
  BY <1>1, PartitionGoals DEF AfterMbr, IInv, Commands
<1>3. OtherTypes'
  BY <1>2 DEF OtherTypes, Reads
<1>4. Commands' /\ Layout'
  BY <1>2 DEF Commands, Layout
<1>5. Executing'
  BY <1>2 DEF IInv, Executing
<1>. QED
  BY <1>3, <1>4, <1>5 DEF AfterGoal

\* A boot block was read.
LEMMA BpbKeeps ==
    ASSUME IInv, NEW r, NEW s, Ends(r, s), pc = "bpb"
    PROVE  AfterGoal
<1>. USE AfterLeaves
<1>1. AfterBpb(r)
  BY DEF Ends, After
<1>2. pc' = "root" /\ UNCHANGED <<part, dirent, at, left, cluster, buffer, out, name1, entry>>
  BY <1>1 DEF AfterBpb
<1>3. OtherTypes' /\ (Trust' /\ cmd.is = "lspt" => sectorsPerCluster' = disk.spc)
  <2>1. CASE cmd.is = "lspt"
    <3>1. offset' = 0 /\ sectorsPerCluster' \in IF Trust /\ r = "sector" THEN {disk.spc}
                                               ELSE {d.spc : d \in Debris}
      BY <1>1, <2>1 DEF AfterBpb
    <3>2. disk.spc \in 0 .. 255
      <4>1. disk.spc \in 1 .. LastSector - DataStart
        BY DiskFacts DEF OtherTypes
      <4>. QED
        BY <4>1, ConstantTypes
    <3>3. \A d \in Debris : d.spc \in 0 .. 255
      BY StorageAssumption
    <3>4. sectorsPerCluster' \in 0 .. 255 /\ offset' \in 0 .. sectorsPerCluster'
      BY <3>1, <3>2, <3>3
    <3>5. Trust' => Trust /\ r = "sector"
      BY <1>2
    <3>. QED
      BY <1>2, <3>1, <3>4, <3>5 DEF OtherTypes, Reads
  <2>2. CASE cmd.is # "lspt"
    <3>1. UNCHANGED <<sectorsPerCluster, offset>>
      BY <1>1, <2>2 DEF AfterBpb
    <3>. QED
      BY <1>2, <2>2, <3>1 DEF OtherTypes, Reads
  <2>. QED
    BY <2>1, <2>2
<1>5. Commands' /\ Layout'
  BY <1>2, <1>3 DEF IInv, Commands, Layout
<1>4. Executing'
  BY <1>2 DEF IInv, Executing
<1>. QED
  BY <1>3, <1>4, <1>5 DEF AfterGoal

\* exec finds an entry of the directory that it has read.
LEMMA ExecFinds ==
    ASSUME IInv, NEW d \in Dirs, NEW m \in Matches(d), cmd.is = "exec", pc = "root"
    PROVE  /\ m \in 1 .. Len(d) /\ d[m].size > 0
           /\ Alike(d[m].name, cmd.name) /\ d[m].ext = cmd.ext
<1>2. m \in 1 .. Len(d) /\ Len(d) \in Nat /\ d[m].name \in Name
  BY DirFacts DEF Matches
<1>3. d[m].size > 0 /\ d[m].ext = cmd.ext /\ SameText(Name1After(d, m), arg1)
  BY DEF Matches
<1>4. PICK mem : arg1 = Overlay(mem, cmd.name)
  BY DEF IInv, Executing
<1>5. PICK was : Name1After(d, m) = Overlay(was, d[m].name)
  BY <1>2, Name1AfterFacts
<1>6. cmd.name \in Name
  BY DEF IInv, Executing
<1>7. Alike(d[m].name, cmd.name)
  BY <1>2, <1>3, <1>4, <1>5, <1>6, SameNames
<1>. QED
  BY <1>2, <1>3, <1>7

\* The root directory was read.
LEMMA RootKeeps ==
    ASSUME IInv, NEW r, NEW s, Ends(r, s), pc = "root"
    PROVE  AfterGoal
<1>. USE AfterLeaves
<1>1. PICK d \in (IF Trust /\ r = "sector" THEN {disk.dir} ELSE {e.dir : e \in Debris}) :
        CASE cmd.is = "ls" ->
               pc' \in {"prompt", "lost"} /\ UNCHANGED <<listing, name1, entry>>
          [] cmd.is = "lspt" -> GoToEntry(d, 1) /\ UNCHANGED <<name1, entry>>
          [] cmd.is = "exec" ->
               LET m == Matches(d) IN
               /\ at' = IF m = {} THEN 0 ELSE Least(m)
               /\ dirent' = IF m = {} THEN << >> ELSE d
               /\ name1' = Name1After(d, IF m = {} THEN Len(d) ELSE Least(m))
               /\ pc' = IF m = {} THEN "prompt" ELSE "load"
               /\ UNCHANGED <<part, left, cluster, offset, buffer, sectorsPerCluster, out, entry>>
  BY DEF Ends, After, AfterRoot
<1>2. disk \in Disks /\ d \in Dirs /\ (Trust /\ r = "sector" => d = disk.dir)
  BY <1>1 DEF OtherTypes, Dirs
<1>3. cmd.is \in {"lspt", "ls", "exec"}
  BY DEF IInv, Commands
<1>4. CASE cmd.is = "ls"
  <2>1. pc' \in {"prompt", "lost"} /\ UNCHANGED <<listing, name1, entry>>
    BY <1>1, <1>4
  <2>2. OtherTypes'
    BY <2>1 DEF OtherTypes, listing
  <2>3. Commands' /\ Layout' /\ Executing'
    BY <1>4, <2>1 DEF Commands, Layout, Executing
  <2>. QED
    BY <2>2, <2>3 DEF AfterGoal
<1>5. CASE cmd.is = "lspt"
  <2>1. GoToEntry(d, 0 + 1) /\ UNCHANGED <<name1, entry>>
    BY <1>1, <1>5
  <2>2. /\ left' \in Nat /\ at' \in Nat /\ offset' = 0 /\ buffer' \in {Junk, buffer}
        /\ sectorsPerCluster' \in {0, sectorsPerCluster}
        /\ \/ pc' \in {"prompt", "bpb", "lost"}
           \/ /\ pc' = "data" /\ dirent' = d /\ at' \in 1 .. Len(d) /\ left' > 0
              /\ cluster' = d[at'].cluster /\ part' = part
              /\ sectorsPerCluster' = sectorsPerCluster
    BY <1>2, <2>1, EntryGoals
  <2>3. OtherTypes'
    <3>1. sectorsPerCluster' \in 0 .. 255 /\ 0 \in 0 .. sectorsPerCluster'
      <4>1. sectorsPerCluster \in 0 .. 255
        BY DEF OtherTypes
      <4>2. sectorsPerCluster' \in {0, sectorsPerCluster}
        BY <2>2
      <4>. QED
        BY ONLY <4>1, <4>2
    <3>2. {buffer', entry'} \subseteq Sectors \cup {Junk, Own}
      BY <2>1, <2>2 DEF OtherTypes
    <3>3. pc' \in Reads \cup {"prompt", "program", "stopped", "lost"}
      BY <2>2 DEF Reads
    <3>. QED
      BY <2>1, <2>2, <3>1, <3>2, <3>3 DEF OtherTypes
  <2>4. Commands'
    BY <1>2, <1>5, <2>2 DEF Commands, Dirs
  <2>5. Layout'
    <3>1. Trust /\ r = "sector" => sectorsPerCluster = disk.spc
      BY <1>5 DEF IInv, Layout
    <3>. QED
      BY <1>2, <2>2, <3>1, DiskFacts DEF Layout
  <2>6. Executing'
    BY <1>5 DEF Executing
  <2>. QED
    BY <2>3, <2>4, <2>5, <2>6 DEF AfterGoal
<1>6. CASE cmd.is = "exec"
  <2>. DEFINE m == Matches(d)
  <2>1. /\ at' = IF m = {} THEN 0 ELSE Least(m)
        /\ dirent' = IF m = {} THEN << >> ELSE d
        /\ name1' = Name1After(d, IF m = {} THEN Len(d) ELSE Least(m))
        /\ pc' = IF m = {} THEN "prompt" ELSE "load"
        /\ UNCHANGED <<part, left, cluster, offset, buffer, sectorsPerCluster, out, entry>>
    BY <1>1, <1>6
  <2>3. Len(d) \in Nat
    BY <1>2, DirFacts
  <2>4. m \subseteq 1 .. Len(d) /\ (m # {} => Least(m) \in m)
    <3>1. m \subseteq 1 .. Len(d)
      BY DEF Matches
    <3>. QED
      BY <2>3, <3>1, LeastIsIn
  <2>5. m # {} => /\ Least(m) \in 1 .. Len(d) /\ d[Least(m)].size > 0
                  /\ Alike(d[Least(m)].name, cmd.name) /\ d[Least(m)].ext = cmd.ext
    BY <1>2, <1>6, <2>4, ExecFinds
  <2>. HIDE DEF m
  <2>6. Len(name1') = NameLength
    <3>. DEFINE n == IF m = {} THEN Len(d) ELSE Least(m)
    <3>1. n \in Nat /\ name1' = Name1After(d, n)
      BY <2>1, <2>3, <2>4
    <3>. HIDE DEF n
    <3>2. name1' = name1 \/ \E mem : name1' = Overlay(mem, d[n].name)
      BY <3>1, Name1AfterFacts
    <3>. QED
      BY <3>2, OverlayLength DEF OtherTypes
  <2>7. at' \in Nat
    BY <2>1, <2>3, <2>5
  <2>8. OtherTypes'
    BY <2>1, <2>6, <2>7 DEF OtherTypes, Reads
  <2>9. Commands'
    BY <2>1 DEF Commands
  <2>10. Layout'
    <3>1. ASSUME Trust', pc' = "load"
          PROVE  dirent' = disk.dir /\ disk.dir[at'].cluster \in Clusters(disk.spc)
      <4>1. m # {} /\ d = disk.dir /\ at' = Least(m) /\ dirent' = d
        BY <1>2, <2>1, <3>1
      <4>. QED
        BY <1>2, <2>5, <4>1, DiskFacts
    <3>. QED
      BY <1>6, <2>1, <3>1 DEF Layout
  <2>11. Executing'
    <3>1. cmd.name \in Name
      BY <1>6 DEF IInv, Executing
    <3>2. pc' = "load" => Alike(dirent'[at'].name, cmd.name) /\ dirent'[at'].ext = cmd.ext
      BY <2>1, <2>5
    <3>3. pc' \in {"load", "prompt"}
      BY <2>1
    <3>. QED
      BY <3>1, <3>2, <3>3 DEF Executing
  <2>. QED
    BY <2>8, <2>9, <2>10, <2>11 DEF AfterGoal
<1>. QED
  BY <1>3, <1>4, <1>5, <1>6

\* A sector of a file was read, or the one behind a cluster.
LEMMA DataKeeps ==
    ASSUME IInv, NEW r, NEW s, Ends(r, s), pc = "data"
    PROVE  AfterGoal
<1>. USE AfterLeaves
<1>. DEFINE b == CASE r = "sector" /\ Trust -> s [] r = "nothing" -> buffer [] OTHER -> Junk
            over == TooFar(offset + 1)
            rest == IF over THEN left ELSE left - 1
<1>1. AfterData(r, s)
  BY DEF Ends, After
<1>2. left \in Nat \ {0} /\ offset \in 0 .. sectorsPerCluster /\ cmd.is = "lspt"
  BY DEF OtherTypes, IInv, Commands
<1>3. sectorsPerCluster \in 0 .. 255
  BY DEF OtherTypes
<1>4. CASE dirent[at].kind = "init"
  <2>1. pc' = "stopped" /\ UNCHANGED <<listing, name1, entry>>
    BY <1>1, <1>4 DEF AfterData
  <2>2. OtherTypes'
    BY <2>1 DEF OtherTypes, listing
  <2>3. Commands' /\ Layout' /\ Executing'
    BY <2>1 DEF Commands, Layout, IInv, Executing
  <2>. QED
    BY <2>2, <2>3 DEF AfterGoal
<1>5. CASE dirent[at].kind # "init"
  <2>1. /\ buffer' = b /\ left' = rest
        /\ offset' = IF over \/ rest = 0 THEN 0 ELSE offset + 1
        /\ pc' = IF over \/ rest = 0 THEN "fat" ELSE "data"
        /\ UNCHANGED <<part, dirent, at, cluster, sectorsPerCluster, name1, entry>>
    BY <1>1, <1>5 DEF AfterData
  <2>2. b \in Sectors \cup {Junk, Own}
    BY DEF OtherTypes
  <2>3. ~over => offset + 1 \in 0 .. sectorsPerCluster
    BY <1>2, <1>3 DEF TooFar
  <2>. HIDE DEF b, over
  <2>4. rest \in Nat
    BY <1>2
  <2>5. left' \in Nat /\ offset' \in 0 .. sectorsPerCluster /\ pc' \in {"fat", "data"}
        /\ (pc' = "data" => left' > 0)
    BY <1>2, <1>3, <2>1, <2>3, <2>4
  <2>6. OtherTypes'
    BY <2>1, <2>2, <2>5 DEF OtherTypes, Reads
  <2>7. Commands'
    BY <1>2, <2>1, <2>5 DEF IInv, Commands
  <2>8. Layout'
    BY <2>1, <2>5 DEF IInv, Layout
  <2>9. Executing'
    BY <1>2 DEF Executing
  <2>. QED
    BY <2>6, <2>7, <2>8, <2>9 DEF AfterGoal
<1>. QED
  BY <1>4, <1>5

\* The FAT was read.
LEMMA FatKeeps ==
    ASSUME IInv, NEW r, NEW s, Ends(r, s), pc = "fat"
    PROVE  AfterGoal
<1>. USE AfterLeaves
<1>1. AfterFat(r)
  BY DEF Ends, After
<1>2. left \in Nat /\ at \in Nat /\ disk \in Disks /\ cmd.is = "lspt"
      /\ dirent \in Dirs /\ at \in 1 .. Len(dirent)
  BY DEF OtherTypes, IInv, Commands
<1>3. Executing'
  BY <1>2 DEF Executing
<1>4. CASE left = 0
  <2>1. GoToEntry(dirent, at + 1) /\ UNCHANGED <<name1, entry>>
    BY <1>1, <1>4 DEF AfterFat
  <2>2. /\ left' \in Nat /\ at' \in Nat /\ offset' = 0 /\ buffer' \in {Junk, buffer}
        /\ sectorsPerCluster' \in {0, sectorsPerCluster}
        /\ \/ pc' \in {"prompt", "bpb", "lost"}
           \/ /\ pc' = "data" /\ dirent' = dirent /\ at' \in 1 .. Len(dirent) /\ left' > 0
              /\ cluster' = dirent[at'].cluster /\ part' = part
              /\ sectorsPerCluster' = sectorsPerCluster
    BY <1>2, <2>1, EntryGoals
  <2>3. OtherTypes'
    <3>1. sectorsPerCluster' \in 0 .. 255 /\ 0 \in 0 .. sectorsPerCluster'
      <4>1. sectorsPerCluster \in 0 .. 255
        BY DEF OtherTypes
      <4>2. sectorsPerCluster' \in {0, sectorsPerCluster}
        BY <2>2
      <4>. QED
        BY ONLY <4>1, <4>2
    <3>2. {buffer', entry'} \subseteq Sectors \cup {Junk, Own}
      BY <2>1, <2>2 DEF OtherTypes
    <3>3. pc' \in Reads \cup {"prompt", "program", "stopped", "lost"}
      BY <2>2 DEF Reads
    <3>. QED
      BY <2>1, <2>2, <3>1, <3>2, <3>3 DEF OtherTypes
  <2>4. Commands'
    BY <1>2, <2>2 DEF Commands, Dirs
  <2>5. Layout'
    <3>1. Trust => dirent = disk.dir /\ sectorsPerCluster = disk.spc
      BY <1>2 DEF IInv, Layout
    <3>. QED
      BY <1>2, <2>2, <3>1, DiskFacts DEF Layout
  <2>. QED
    BY <1>3, <2>3, <2>4, <2>5 DEF AfterGoal
<1>5. CASE left # 0
  <2>1. /\ pc' = "data"
        /\ cluster' = IF Trust /\ r = "sector" /\ cluster # 0 THEN disk.next[cluster] ELSE 0
        /\ UNCHANGED <<part, dirent, at, left, offset, buffer, sectorsPerCluster, out, name1,
                       entry>>
    BY <1>1, <1>5 DEF AfterFat
  <2>2. Trust => /\ cluster \in {0} \cup Clusters(disk.spc) /\ dirent = disk.dir
                 /\ sectorsPerCluster = disk.spc
    BY <1>2 DEF IInv, Layout
  <2>3. \A c \in Clusters(disk.spc) : c \in 1 .. LastSector
    BY ConstantTypes DEF Clusters
  <2>4. Trust => cluster' \in {0} \cup Clusters(disk.spc)
    BY <1>2, <2>1, <2>2, <2>3, DiskFacts
  <2>5. OtherTypes'
    BY <2>1 DEF OtherTypes, Reads
  <2>6. Commands'
    BY <1>2, <1>5, <2>1 DEF Commands, Dirs
  <2>7. Layout'
    BY <2>1, <2>2, <2>4 DEF Layout
  <2>. QED
    BY <1>3, <2>5, <2>6, <2>7 DEF AfterGoal
<1>. QED
  BY <1>4, <1>5

\* The first sector of a program was read.
LEMMA LoadKeeps ==
    ASSUME IInv, NEW r, NEW s, Ends(r, s), pc = "load"
    PROVE  AfterGoal
<1>. USE AfterLeaves
<1>. DEFINE code == CASE r = "sector" /\ Trust -> s [] r = "nothing" -> entry [] OTHER -> Junk
<1>1. /\ entry' = code /\ pc' \in {"prompt", "program", "lost"}
      /\ UNCHANGED <<listing, name1>>
  BY DEF Ends, After, AfterLoad
<1>2. code \in Sectors \cup {Junk, Own} /\ (r = "sector" /\ Trust => code = s)
  BY DEF OtherTypes
<1>. HIDE DEF code
<1>3. OtherTypes'
  BY <1>1, <1>2 DEF OtherTypes, listing
<1>4. Commands' /\ Layout'
  BY <1>1 DEF Commands, Layout
<1>5. Executing'
  <2>1. ASSUME cmd.is = "exec", Trust'
        PROVE  /\ Alike(dirent[at].name, cmd.name) /\ dirent[at].ext = cmd.ext
               /\ entry' = FirstSector(dirent[at].cluster)
    <3>1. Trust /\ r = "sector"
      BY <1>1, <2>1 DEF listing
    <3>2. io.begun # "no" /\ io.sector = s
      BY <3>1
    <3>3. code = s /\ entry' = s
      BY <1>1, <1>2, <3>1
    <3>. QED
      BY <2>1, <3>1, <3>2, <3>3 DEF IInv, Executing
  <2>2. cmd.is = "exec" => cmd.name \in Name
    BY DEF IInv, Executing
  <2>3. FirstSector(dirent[at].cluster)' = FirstSector(dirent[at].cluster)
    BY <1>1 DEF FirstSector, listing
  <2>4. pc' \in {"prompt", "program", "lost"} /\ UNCHANGED <<dirent, at>>
    BY <1>1 DEF listing
  <2>. QED
    BY <2>1, <2>2, <2>3, <2>4 DEF Executing
<1>. QED
  BY <1>3, <1>4, <1>5 DEF AfterGoal

\* Identify, and the system call 6, only read.
LEMMA OthersKeep ==
    ASSUME IInv, NEW r, NEW s, Ends(r, s), pc \in {"identify", "sysread"}
    PROVE  AfterGoal
<1>. USE AfterLeaves
<1>1. /\ pc' = IF pc = "identify" THEN "prompt" ELSE "program"
      /\ UNCHANGED <<listing, name1, entry>>
  BY DEF Ends, After
<1>2. OtherTypes'
  BY <1>1 DEF OtherTypes, listing
<1>3. Commands' /\ Layout'
  BY <1>1 DEF Commands, Layout
<1>4. Executing'
  <2>1. pc' = "program" => calls # 0 /\ pc = "sysread"
    BY <1>1 DEF IInv, Commands, OtherTypes
  <2>2. cmd.is = "exec" => cmd.name \in Name
    BY DEF IInv, Executing
  <2>3. pc' \in {"prompt", "program"}
    BY <1>1
  <2>. QED
    BY <2>1, <2>2, <2>3 DEF Executing
<1>. QED
  BY <1>2, <1>3, <1>4 DEF AfterGoal

\* Whatever was read.
LEMMA AfterKeeps ==
    ASSUME IInv, NEW r, NEW s, Ends(r, s), pc \in Reads
    PROVE  AfterGoal
BY MbrKeeps, BpbKeeps, RootKeeps, DataKeeps, FatKeeps, LoadKeeps, OthersKeep DEF Reads
-----------------------------------------------------------------------------
(* The steps keep the invariant.                                           *)

\* The invariant holds when the kernel starts.
LEMMA InitInv == Init => IInv
<1>. SUFFICES ASSUME Init PROVE IInv
  OBVIOUS
<1>. USE ConstantTypes
<1>1. disk \in Disks /\ disk.spc \in 1 .. LastSector - DataStart
  BY DiskFacts DEF Init
<1>2. PICK c : arg1 = [i \in 1 .. NameLength |-> c] /\ name1 = arg1
  BY DEF Init
<1>3. Len(arg1) = NameLength /\ Len(name1) = NameLength
  BY <1>2, MemoryLength
<1>4. OtherTypes
  <2>1. 0 \in 0 .. 0 /\ 0 \in 0 .. 255
    OBVIOUS
  <2>. QED
    BY <1>1, <1>3, <2>1 DEF Init, OtherTypes
<1>5. drive \in DriveStates /\ io \in ReadStates
  <2>1. 0 \in 0 .. Words /\ Mbr \in Sectors
    BY DEF Sectors
  <2>2. drive \in DriveStates
    <3>1. \A p \in {"idle", "absent"} : [phase |-> p, op |-> "idle", words |-> 0] \in DriveStates
      BY <2>1 DEF DriveStates, Phases
    <3>. QED
      BY <3>1 DEF Init
  <2>3. io \in ReadStates
    BY <2>1 DEF Init, ReadStates, NotBegun
  <2>. QED
    BY <2>2, <2>3
<1>6. ReadsHeard /\ Commands /\ Layout
  <2>1. io.begun = "no" /\ drive.phase \in {"idle", "absent"}
    <3>1. NotBegun.begun = "no"
      BY DEF NotBegun
    <3>2. \A p \in {"idle", "absent"} : [phase |-> p, op |-> "idle", words |-> 0].phase = p
      OBVIOUS
    <3>. QED
      BY <3>1, <3>2 DEF Init
  <2>. HIDE DEF Init
  <2>3. ReadsHeard
    BY <2>1 DEF ReadsHeard
  <2>2. Commands /\ Layout
    BY DEF Init, Commands, Layout
  <2>. QED
    BY <2>2, <2>3
<1>7. Executing
  BY DEF Init, Executing
<1>. QED
  BY <1>4, <1>5, <1>6, <1>7, TypesSplit DEF IInv

\* A read has begun, was refused, or ends.
LEMMA ReadKeeps ==
    ASSUME IInv, Command \/ RefuseSector \/ Transfer
    PROVE  IInv'
<1>1. OtherTypes /\ drive \in DriveStates /\ io \in ReadStates
  BY TypesSplit DEF IInv
<1>2. CASE Command
  <2>1. PICK s \in Wanted \ {Refused} :
          io' = [begun |-> IF drive.phase \in {"idle", "error"} THEN "heard" ELSE "unheard",
                 sector |-> s]
    BY <1>2 DEF Command
  <2>2. /\ pc \in Reads /\ io.begun = "no" /\ drive' = Commanded(drive, "in")
        /\ UNCHANGED <<disk, errors, cmd, pc, clean, listing, memory, program>>
    BY <1>2 DEF Command
  <2>3. s \in Sectors
    BY <2>2, WantedFits
  <2>4. io' \in ReadStates /\ drive' \in DriveStates
    BY <1>1, <2>1, <2>2, <2>3, DriveTypes DEF ReadStates
  <2>5. OtherTypes'
    BY <1>1, <2>2 DEF OtherTypes, listing, memory, program
  <2>6. Commands' /\ Layout'
    BY <2>2 DEF IInv, Commands, Layout, Trust, listing, program
  <2>7. Executing'
    <3>1. pc = "load" /\ Trust => s = FirstSector(dirent[at].cluster)
      BY <2>1 DEF Wanted, LaidOutAt
    <3>2. io'.sector = s
      BY <2>1
    <3>. QED
      BY <2>2, <3>1, <3>2 DEF IInv, Executing, Trust, FirstSector, listing, memory, program
  <2>8. ReadsHeard'
    <3>1. strained' = strained
      BY <2>2 DEF program
    <3>2. drive'.phase # "absent" => drive.phase # "absent"
      BY <1>1, <2>2, DriveTypes
    <3>3. drive.phase \in {"idle", "error"} =>
             drive'.phase = "busy" /\ drive'.op = "in" /\ io'.begun = "heard"
      BY <2>1, <2>2 DEF Commanded
    <3>. QED
      BY <2>2, <3>1, <3>2, <3>3 DEF IInv, ReadsHeard
  <2>. QED
    BY <2>4, <2>5, <2>6, <2>7, <2>8, TypesSplitNext DEF IInv
<1>3. CASE RefuseSector
  <2>1. pc \in Reads /\ io.begun = "no" /\ After("nothing", Refused) /\ UNCHANGED <<drive, io>>
    BY <1>3 DEF RefuseSector
  <2>2. Ends("nothing", Refused)
    BY <2>1 DEF Ends
  <2>3. AfterGoal /\ strained' = strained
    BY <2>1, <2>2, AfterKeeps, AfterLeaves
  <2>4. ReadsHeard'
    BY <2>1, <2>3 DEF IInv, ReadsHeard
  <2>. QED
    BY <1>1, <2>1, <2>3, <2>4, TypesSplitNext DEF IInv, AfterGoal
<1>4. CASE Transfer
  <2>1. PICK r \in Brings(drive, io.begun = "heard") :
          /\ After(r, io.sector)
          /\ drive' = IF r = "nothing" THEN drive
                      ELSE Taken(drive, WordsMoved(CountFor(pc)))
    BY <1>4 DEF Transfer
  <2>2. pc \in Reads /\ io.begun # "no" /\ drive.phase # "busy" /\ io' = NotBegun
    BY <1>4 DEF Transfer
  <2>3. r = "sector" => io.begun = "heard"
    BY <2>1 DEF Brings
  <2>4. Ends(r, io.sector)
    BY <1>1, <2>1, <2>2, <2>3 DEF Ends, NotBegun, ReadStates
  <2>5. AfterGoal /\ strained' = strained
    BY <2>2, <2>4, AfterKeeps, AfterLeaves
  <2>. DEFINE n == WordsMoved(CountFor(pc))
  <2>6. n \in Nat /\ n >= Words
    BY ReadMovesAll
  <2>. HIDE DEF n
  <2>7. drive' = drive \/ drive' = Taken(drive, n)
    BY <2>1 DEF n
  <2>8. /\ drive' \in DriveStates
        /\ drive'.phase # "absent" => drive.phase # "absent"
        /\ drive.phase \in {"in", "error"} => drive'.phase \in {"idle", "error", "in"}
        /\ drive.phase = "in" /\ drive' # drive => drive'.phase # "in"
    BY <1>1, <2>6, <2>7, DriveTypes
  <2>9. drive.phase = "in" => drive'.phase \in {"idle", "error"}
    <3>1. drive.phase = "in" => r # "nothing"
      BY <2>1 DEF Brings
    <3>2. drive.phase = "in" => drive' = Taken(drive, n)
      BY <2>1, <3>1 DEF n
    <3>. QED
      BY <1>1, <2>6, <3>2, DriveTypes
  <2>10. drive.phase = "error" => drive'.phase \in {"idle", "error"}
    BY <1>1, <2>6, <2>7, DriveTypes
  <2>11. ReadsHeard'
    BY <2>2, <2>5, <2>8, <2>9, <2>10 DEF IInv, ReadsHeard, NotBegun
  <2>12. io' \in ReadStates
    BY <2>2, ConstantTypes DEF ReadStates, NotBegun, Sectors
  <2>. QED
    BY <2>5, <2>8, <2>11, <2>12, TypesSplitNext DEF IInv, AfterGoal
<1>. QED
  BY <1>2, <1>3, <1>4

\* A command is typed.
LEMMA TypeKeeps ==
    ASSUME IInv, NEW is, NEW name, NEW ext, NEW place, Type(is, name, ext, place),
           \/ is \in {"lspt", "ls"} /\ place = "mbr" /\ UNCHANGED arg1
           \/ is = "identify" /\ place = "identify" /\ UNCHANGED arg1
           \/ is = "exec" /\ place = "mbr" /\ name \in Name /\ arg1' = Overlay(arg1, name)
    PROVE  IInv'
<1>1. OtherTypes /\ drive \in DriveStates /\ io \in ReadStates
  BY TypesSplit DEF IInv
<1>2. /\ cmd' = [is |-> is, name |-> name, ext |-> ext] /\ pc' = place /\ clean' = TRUE
      /\ UNCHANGED <<disk, device, io, listing, name1, entry, program>>
  BY DEF Type
<1>3. Len(arg1') = NameLength
  BY <1>1, OverlayLength DEF OtherTypes
<1>4. OtherTypes'
  BY <1>1, <1>2, <1>3 DEF OtherTypes, Reads, listing, program
<1>5. Commands' /\ Layout'
  BY <1>2 DEF Commands, Layout
<1>6. Executing'
  <2>1. cmd'.is = "exec" => name \in Name /\ arg1' = Overlay(arg1, name)
    BY <1>2
  <2>2. pc' \in {"mbr", "identify"}
    BY <1>2
  <2>. QED
    BY <1>2, <2>1, <2>2 DEF Executing
<1>7. ReadsHeard'
  BY <1>2 DEF IInv, ReadsHeard, device, program
<1>8. drive' \in DriveStates /\ io' \in ReadStates
  BY <1>1, <1>2 DEF device
<1>. QED
  BY <1>4, <1>5, <1>6, <1>7, <1>8, TypesSplitNext DEF IInv

\* A program runs.
LEMMA ProgramKeeps ==
    ASSUME IInv, SysRead \/ Return \/ \E count \in Counts : SysWrite(count)
    PROVE  IInv'
<1>1. OtherTypes /\ drive \in DriveStates /\ io \in ReadStates
  BY TypesSplit DEF IInv
<1>2. CASE SysRead
  <2>1. /\ pc = "program" /\ pc' = "sysread" /\ calls' = calls + 1
        /\ UNCHANGED <<disk, device, cmd, io, clean, listing, memory, strained>>
    BY <1>2 DEF SysRead
  <2>2. OtherTypes'
    BY <1>1, <2>1 DEF OtherTypes, Reads, listing, memory
  <2>3. Commands' /\ Layout'
    BY <1>1, <2>1 DEF Commands, Layout, OtherTypes
  <2>4. Executing'
    BY <2>1 DEF IInv, Executing
  <2>5. ReadsHeard'
    BY <2>1 DEF IInv, ReadsHeard, device
  <2>. QED
    BY <1>1, <2>1, <2>2, <2>3, <2>4, <2>5, TypesSplitNext DEF IInv, device
<1>3. CASE Return
  <2>1. /\ pc = "program" /\ pc' = "prompt"
        /\ UNCHANGED <<disk, device, cmd, io, clean, listing, memory, program>>
    BY <1>3 DEF Return
  <2>2. OtherTypes'
    BY <1>1, <2>1 DEF OtherTypes, listing, memory, program
  <2>3. Commands' /\ Layout'
    BY <2>1 DEF Commands, Layout
  <2>4. Executing'
    BY <2>1 DEF IInv, Executing
  <2>5. ReadsHeard'
    BY <2>1 DEF IInv, ReadsHeard, device, program
  <2>. QED
    BY <1>1, <2>1, <2>2, <2>3, <2>4, <2>5, TypesSplitNext DEF IInv, device
<1>4. ASSUME NEW count \in Counts, SysWrite(count) PROVE IInv'
  <2>. DEFINE n == WordsMoved(count)
              ready == [phase |-> "out", op |-> "out", words |-> Words]
  <2>1. /\ pc = "program" /\ calls' = calls + 1
        /\ UNCHANGED <<disk, errors, command, listing, memory>>
        /\ \/ UNCHANGED <<drive, strained>>
           \/ /\ strained' = TRUE
              /\ \/ drive' = Given(drive, n)
                 \/ drive' = Commanded(drive, "out")
                 \/ \E lost \in 0 .. n - 1 : drive' = Given(ready, n - lost)
    BY <1>4 DEF SysWrite
  <2>2. n \in Nat /\ ready \in DriveStates
    BY WordsMovedType, ConstantTypes DEF DriveStates, Phases
  <2>. HIDE DEF n, ready
  <2>3. \A lost \in 0 .. n - 1 : n - lost \in Nat
    BY <2>2
  <2>4. drive' \in DriveStates
    BY <1>1, <2>1, <2>2, <2>3, DriveTypes
  <2>5. OtherTypes'
    <3>1. calls' \in Nat /\ strained' \in BOOLEAN
      <4>1. calls \in Nat /\ strained \in BOOLEAN
        BY <1>1 DEF OtherTypes
      <4>2. calls' = calls + 1 /\ (strained' = strained \/ strained' = TRUE)
        BY <2>1, Zenon
      <4>3. calls' \in Nat
        BY <4>1, <4>2
      <4>4. strained' \in BOOLEAN
        BY <4>1, <4>2, Zenon
      <4>. QED
        BY <4>3, <4>4
    <3>2. UNCHANGED <<disk, command, listing, memory>>
      BY <2>1
    <3>. QED
      BY <1>1, <3>1, <3>2 DEF OtherTypes, command, listing, memory
  <2>6. Commands' /\ Layout'
    BY <2>1 DEF Commands, Layout, command
  <2>7. Executing'
    <3>1. calls' # 0 /\ pc' = "program" /\ cmd' = cmd
      BY <1>1, <2>1 DEF OtherTypes, command
    <3>. QED
      BY <3>1 DEF IInv, Executing
  <2>8. ReadsHeard'
    BY <2>1 DEF IInv, ReadsHeard, command
  <2>. QED
    BY <1>1, <2>1, <2>4, <2>5, <2>6, <2>7, <2>8, TypesSplitNext DEF IInv, command
<1>. QED
  BY <1>2, <1>3, <1>4

\* The drive has what it was asked for, or cannot get it.
LEMMA ReadyKeeps ==
    ASSUME IInv, DriveGetsReady
    PROVE  IInv'
<1>1. OtherTypes /\ drive \in DriveStates /\ io \in ReadStates
  BY TypesSplit DEF IInv
<1>2. drive.phase = "busy" /\ UNCHANGED <<disk, command, listing, memory, program>>
  BY DEF DriveGetsReady
<1>3. \/ drive' = [drive EXCEPT !.phase = drive.op,
                                !.words = IF drive.op = "idle" THEN 0 ELSE Words]
      \/ drive' = [drive EXCEPT !.phase = "error"]
  BY DEF DriveGetsReady
<1>4. drive' \in DriveStates
  <2>1. 0 \in 0 .. Words /\ Words \in 0 .. Words
    BY ConstantTypes
  <2>2. drive.op \in {"idle", "in", "out"}
    BY <1>1 DEF DriveStates
  <2>3. \A p \in {"idle", "in", "out", "error"} : [drive EXCEPT !.phase = p] \in DriveStates
    BY <1>1 DEF DriveStates, Phases
  <2>4. \A d \in DriveStates, w \in {0, Words} : [d EXCEPT !.words = w] \in DriveStates
    BY <2>1 DEF DriveStates
  <2>. QED
    BY <1>3, <2>2, <2>3, <2>4
<1>5. drive'.phase \in {drive.op, "error"}
  BY <1>1, <1>3 DEF DriveStates
<1>6. ReadsHeard'
  BY <1>2, <1>5 DEF IInv, ReadsHeard, command, program
<1>7. OtherTypes' /\ io' \in ReadStates
  BY <1>1, <1>2 DEF OtherTypes, command, listing, memory, program
<1>8. Commands' /\ Layout'
  BY <1>2 DEF IInv, Commands, Layout, Trust, command, listing, program
<1>9. Executing'
  BY <1>2 DEF IInv, Executing, Trust, FirstSector, command, listing, memory, program
<1>. QED
  BY <1>4, <1>6, <1>7, <1>8, <1>9, TypesSplitNext DEF IInv

\* Every step keeps it.
LEMMA StepInv == IInv /\ [Next]_vars => IInv'
<1>. SUFFICES ASSUME IInv, [Next]_vars PROVE IInv'
  OBVIOUS
<1>1. CASE List
  <2>1. PICK is \in {"lspt", "ls"} : Type(is, << >>, "", "mbr") /\ UNCHANGED arg1
    BY <1>1 DEF List
  <2>. QED
    BY <2>1, TypeKeeps
<1>2. CASE Identify
  BY <1>2, TypeKeeps DEF Identify
<1>3. ASSUME NEW a \in Typed, Exec(a) PROVE IInv'
  <2>1. a.name \in Name
    BY ConstantTypes
  <2>. QED
    BY <1>3, <2>1, TypeKeeps DEF Exec
<1>4. CASE Command \/ RefuseSector \/ Transfer
  BY <1>4, ReadKeeps
<1>5. CASE SysRead \/ Return \/ \E count \in Counts : SysWrite(count)
  BY <1>5, ProgramKeeps
<1>6. CASE DriveGetsReady
  BY <1>6, ReadyKeeps
<1>7. CASE UNCHANGED vars
  <2>1. OtherTypes /\ drive \in DriveStates /\ io \in ReadStates
    BY TypesSplit DEF IInv
  <2>2. UNCHANGED <<disk, device, command, listing, memory, program>>
    BY <1>7 DEF vars
  <2>3. OtherTypes' /\ drive' \in DriveStates /\ io' \in ReadStates
    BY <2>1, <2>2 DEF OtherTypes, device, command, listing, memory, program
  <2>4. ReadsHeard' /\ Commands' /\ Layout'
    BY <2>2 DEF IInv, ReadsHeard, Commands, Layout, Trust, device, command, listing, program
  <2>5. Executing'
    BY <2>2 DEF IInv, Executing, Trust, FirstSector, command, listing, memory, program
  <2>. QED
    BY <2>3, <2>4, <2>5, TypesSplitNext DEF IInv
<1>. QED
  BY <1>1, <1>2, <1>3, <1>4, <1>5, <1>6, <1>7 DEF Next, Reading, Program

\* It holds all the time.
LEMMA Invariance == Spec => []IInv
BY InitInv, StepInv, PTL DEF Spec
-----------------------------------------------------------------------------
(* Clusters, and places in what is printed of them.                         *)

\* Products grow with their factors.
LEMMA TimesGrows ==
    ASSUME NEW a \in Nat, NEW b \in Nat, a <= b, NEW p \in Nat
    PROVE  a * p <= b * p
OBVIOUS

\* Quotient and remainder of a multiple and something less.
LEMMA Divides ==
    ASSUME NEW a \in Nat, NEW p \in Nat \ {0}, NEW o \in 0 .. p - 1
    PROVE  (a * p + o) \div p = a /\ (a * p + o) % p = o
<1>. DEFINE x == a * p + o
            q == x \div p
<1>1. x \in Nat /\ a * p \in Nat
  OBVIOUS
<1>2. q \in Nat /\ x % p \in 0 .. p - 1 /\ x = p * q + (x % p)
  BY <1>1
<1>3. q = a
  <2>1. CASE q < a
    <3>1. (q + 1) * p <= a * p
      BY <1>2, <2>1, TimesGrows
    <3>2. (q + 1) * p = p * q + p
      BY <1>2
    <3>. QED
      BY <1>1, <1>2, <3>1, <3>2
  <2>2. CASE a < q
    <3>1. (a + 1) * p <= q * p
      BY <1>2, <2>2, TimesGrows
    <3>2. (a + 1) * p = a * p + p /\ q * p = p * q
      BY <1>2
    <3>. QED
      BY <1>1, <1>2, <3>1, <3>2
  <2>. QED
    BY <1>2, <2>1, <2>2
<1>4. p * q = a * p
  BY <1>3
<1>. QED
  BY <1>1, <1>2, <1>3, <1>4

\* A file needs its k-th cluster if those before it do not hold all of it.
LEMMA ClustersOfFacts ==
    ASSUME NEW size \in Nat, NEW spc \in Nat \ {0}
    PROVE  /\ ClustersOf(size, spc) \in Nat
           /\ \A k \in Nat : k < ClustersOf(size, spc) <=> k * spc < size
<1>. DEFINE x == size + spc - 1
            n == x \div spc
<1>1. x \in Nat /\ n \in Nat /\ x % spc \in 0 .. spc - 1 /\ x = spc * n + (x % spc)
  OBVIOUS
<1>2. ClustersOf(size, spc) = n
  BY DEF ClustersOf
<1>3. ASSUME NEW k \in Nat PROVE k < n <=> k * spc < size
  <2>0. k * spc \in Nat /\ n * spc \in Nat /\ n * spc = spc * n /\ (k + 1) * spc = k * spc + spc
    BY <1>1
  <2>1. CASE k < n
    <3>1. (k + 1) * spc <= n * spc
      BY <1>1, <2>1, TimesGrows
    <3>. QED
      BY <1>1, <2>0, <2>1, <3>1
  <2>2. CASE n <= k
    <3>1. n * spc <= k * spc
      BY <1>1, <2>2, TimesGrows
    <3>. QED
      BY <1>1, <2>0, <2>2, <3>1
  <2>. QED
    BY <1>1, <2>1, <2>2
<1>. QED
  BY <1>1, <1>2, <1>3

\* A chain begins with its first cluster and goes on as the FAT says.
LEMMA ChainFromFacts ==
    ASSUME NEW d, NEW c, NEW n \in Nat
    PROVE  \A k \in 1 .. n :
             ChainFrom(d, c, n)[k] = IF k = 1 THEN c ELSE d.next[ChainFrom(d, c, n)[k - 1]]
<1>. DEFINE Walk(f, m) == f = [k \in 1 .. m |-> IF k = 1 THEN c ELSE d.next[f[k - 1]]]
            chain == CHOOSE f : Walk(f, n)
<1>1. \A m \in Nat : \E f : Walk(f, m)
  <2>. DEFINE S == {m \in Nat : ~ \E f : Walk(f, m)}
  <2>1. CASE S # {}
    <3>1. PICK m \in S : \A j \in S : m <= j
      BY <2>1, Smallest
    <3>2. CASE m = 0
      <4>. DEFINE g == [k \in 1 .. 0 |-> c]
      <4>1. Walk(g, 0)
        OBVIOUS
      <4>. QED
        BY <3>1, <3>2, <4>1
    <3>3. CASE m # 0
      <4>. HIDE DEF Walk
      <4>1. PICK f : Walk(f, m - 1)
        <5>1. m - 1 \in Nat /\ m - 1 \notin S
          BY <3>1, <3>3
        <5>. QED
          BY <5>1
      <4>. USE DEF Walk
      <4>. DEFINE g == [k \in 1 .. m |-> IF k = m /\ m # 1 THEN d.next[f[m - 1]]
                                         ELSE IF k = 1 THEN c ELSE f[k]]
      <4>2. \A k \in 1 .. m - 1 : f[k] = IF k = 1 THEN c ELSE d.next[f[k - 1]]
        BY <4>1
      <4>3. \A k \in 1 .. m : g[k] = IF k = 1 THEN c ELSE d.next[g[k - 1]]
        BY <3>1, <3>3, <4>2
      <4>4. Walk(g, m)
        BY <4>3
      <4>. QED
        BY <3>1, <4>4
    <3>. QED
      BY <3>2, <3>3
  <2>. QED
    BY <2>1
<1>2. Walk(chain, n)
  BY <1>1
<1>3. ChainFrom(d, c, n) = chain
  BY DEF ChainFrom
<1>. HIDE DEF chain
<1>4. \A k \in 1 .. n : chain[k] = IF k = 1 THEN c ELSE d.next[chain[k - 1]]
  BY <1>2
<1>. QED
  BY <1>3, <1>4

\* Of a file, len sectors were printed and left are to come when sector o of cluster
\* k is read next.
AtPlace(size, spc, k, o, left0, len) ==
    len = (k - 1) * (spc + 1) + o /\ left0 = size - (k - 1) * spc - o

\* The walk through the file e, of n clusters, is in the k-th of them.
InCluster(e, size, spc, n, k) ==
    /\ cluster = ChainFrom(disk, e.cluster, n)[k]
    /\ pc = "data" =>
         /\ AtPlace(size, spc, k, offset, left, Len(out))
         /\ io.begun # "no" => io.sector = FirstSector(cluster) + offset
    /\ pc = "fat" =>
         /\ offset = 0
         /\ left = 0 => Len(out) = size + n - 1
         /\ left # 0 => Len(out) = k * (spc + 1) /\ left = size - k * spc

\* What has been printed is what FileAndStrays says, as far as it goes.
Agrees(e) ==
    /\ out \in Seq(Int) /\ Len(out) <= Len(FileAndStrays(e))
    /\ \A m \in 1 .. Len(out) : out[m] = FileAndStrays(e)[m]

PrintingOf(e, size, spc, n) ==
    /\ size > 0 /\ e.kind \in {"file", "init"} /\ Agrees(e)
    /\ \E k \in 1 .. n : InCluster(e, size, spc, n, k)

Printing ==
    pc \in {"data", "fat"} /\ Trust =>
        LET e == dirent[at]
        IN  PrintingOf(e, e.size, disk.spc, ClustersOf(e.size, disk.spc))

\* Where in the print a cluster's sectors are: spc of them and one more.
Place(k, o, spc) == (k - 1) * (spc + 1) + o + 1

\* It is in the cluster's part of the print.
LEMMA PlaceFacts ==
    ASSUME NEW spc \in Nat \ {0}, NEW k \in Nat \ {0}, NEW o \in 0 .. spc
    PROVE  /\ (Place(k, o, spc) - 1) \div (spc + 1) + 1 = k
           /\ (Place(k, o, spc) - 1) % (spc + 1) = o
           /\ Place(k, o, spc) \in Nat \ {0}
<1>. DEFINE p == (k - 1) * (spc + 1)
<1>1. k - 1 \in Nat /\ spc + 1 \in Nat \ {0} /\ o \in 0 .. (spc + 1) - 1
  OBVIOUS
<1>2. (p + o) \div (spc + 1) = k - 1 /\ (p + o) % (spc + 1) = o
  BY <1>1, Divides
<1>3. p \in Nat
  BY <1>1
<1>4. Place(k, o, spc) = p + o + 1
  BY DEF Place
<1>. HIDE DEF p
<1>5. Place(k, o, spc) - 1 = p + o /\ Place(k, o, spc) \in Nat \ {0}
  BY <1>3, <1>4
<1>. QED
  BY <1>2, <1>5

\* Every place in the print of n clusters is in one of them.
LEMMA Positions ==
    ASSUME NEW spc \in Nat \ {0}, NEW size \in Nat, NEW n \in Nat \ {0},
           \A k \in Nat : k < n <=> k * spc < size, NEW m \in 1 .. size + n - 1
    PROVE  (m - 1) \div (spc + 1) + 1 \in 1 .. n /\ (m - 1) % (spc + 1) \in 0 .. spc
<1>. DEFINE q == (m - 1) \div (spc + 1)
            r == (m - 1) % (spc + 1)
<1>1. m - 1 \in Nat /\ spc + 1 \in Nat \ {0}
  OBVIOUS
<1>2. q \in Nat /\ r \in 0 .. spc /\ m - 1 = (spc + 1) * q + r
  BY <1>1
<1>3. q < n
  <2>1. SUFFICES ASSUME n <= q PROVE FALSE
    BY <1>2
  <2>2. n * (spc + 1) <= q * (spc + 1)
    BY <1>1, <1>2, <2>1, TimesGrows
  <2>3. n * spc \in Nat /\ n * spc >= size
    <3>1. n * spc \in Nat /\ ~(n < n)
      OBVIOUS
    <3>. QED
      BY <3>1
  <2>4. n * (spc + 1) = n * spc + n /\ q * (spc + 1) = (spc + 1) * q
    BY <1>2
  <2>. HIDE DEF q, r
  <2>. QED
    BY <1>1, <1>2, <2>2, <2>3, <2>4
<1>. QED
  BY <1>2, <1>3

\* What a file's print is, cluster by cluster.
LaidOut(e, size, spc, n) ==
    /\ n \in Nat \ {0} /\ size \in Nat /\ spc \in Nat \ {0}
    /\ FileAndStrays(e) \in Seq(Int) /\ Len(FileAndStrays(e)) = size + n - 1
    /\ \A k \in 1 .. n : ChainFrom(disk, e.cluster, n)[k] \in Clusters(spc)
    /\ \A k \in Nat : k < n <=> k * spc < size
    /\ \A k \in 1 .. n, o \in 0 .. spc :
         Place(k, o, spc) <= size + n - 1 =>
           FileAndStrays(e)[Place(k, o, spc)]
             = FirstSector(ChainFrom(disk, e.cluster, n)[k]) + o

\* Every file is laid out so.
LEMMA FileShape ==
    ASSUME disk \in Disks, NEW i \in 1 .. Len(disk.dir), ChainsWhole,
           NEW e, e = disk.dir[i], NEW size, size = e.size, NEW spc, spc = disk.spc,
           NEW n, n = ClustersOf(size, spc), size > 0, e.kind \in {"file", "init"}
    PROVE  LaidOut(e, size, spc, n)
<1>. DEFINE chain == ChainFrom(disk, e.cluster, n)
            F(m) == FirstSector(chain[(m - 1) \div (spc + 1) + 1]) + ((m - 1) % (spc + 1))
            len == size + n - 1
<1>1. spc \in 1 .. LastSector - DataStart /\ size \in Nat
  BY DiskFacts
<1>2. spc \in Nat \ {0} /\ size \in Nat
  BY ONLY <1>1, ConstantTypes
<1>3. n \in Nat \ {0} /\ \A k \in Nat : k < n <=> k * spc < size
  <2>1. n \in Nat /\ \A k \in Nat : k < n <=> k * spc < size
    BY <1>2, ClustersOfFacts
  <2>. QED
    BY ONLY <1>2, <2>1, size > 0, 0 \in Nat
<1>4. \A k \in 1 .. n : chain[k] \in Clusters(spc)
  BY DEF ChainsWhole
<1>5. \A c \in Clusters(spc), o \in 0 .. spc : FirstSector(c) + o \in Int
  BY SectorsFit, ConstantTypes DEF Sectors
<1>6. FileAndStrays(e) = [m \in 1 .. len |-> F(m)]
  BY DEF FileAndStrays
<1>7. \A m \in 1 .. len :
        (m - 1) \div (spc + 1) + 1 \in 1 .. n /\ (m - 1) % (spc + 1) \in 0 .. spc
  BY <1>2, <1>3, Positions
<1>8. \A m \in 1 .. len : F(m) \in Int
  BY <1>4, <1>5, <1>7
<1>9. len \in Nat
  BY <1>2, <1>3
<1>10. FileAndStrays(e) \in Seq(Int) /\ Len(FileAndStrays(e)) = len
  <2>. HIDE DEF F, len
  <2>1. FileAndStrays(e) \in [1 .. len -> Int]
    BY <1>6, <1>8
  <2>2. FileAndStrays(e) \in Seq(Int)
    BY <1>9, <2>1, SeqDef
  <2>3. DOMAIN FileAndStrays(e) = 1 .. len
    BY <2>1
  <2>4. DOMAIN FileAndStrays(e) = 1 .. Len(FileAndStrays(e)) /\ Len(FileAndStrays(e)) \in Nat
    BY <2>2, LenProperties
  <2>. QED
    BY <1>9, <2>2, <2>3, <2>4
<1>11. ASSUME NEW k \in 1 .. n, NEW o \in 0 .. spc, Place(k, o, spc) <= len
       PROVE  FileAndStrays(e)[Place(k, o, spc)] = FirstSector(chain[k]) + o
  <2>. DEFINE m == Place(k, o, spc)
  <2>1. (m - 1) \div (spc + 1) + 1 = k /\ (m - 1) % (spc + 1) = o /\ m \in Nat \ {0}
    <3>1. k \in Nat \ {0}
      BY <1>3
    <3>. QED
      BY ONLY <1>2, <3>1, o \in 0 .. spc, PlaceFacts
  <2>2. m <= len
    BY <1>11
  <2>. HIDE DEF m
  <2>3. m \in 1 .. len
    BY <1>9, <2>1, <2>2
  <2>4. F(m) = FirstSector(chain[k]) + o
    BY <2>1
  <2>5. FileAndStrays(e)[m] = FirstSector(chain[k]) + o
    BY <1>6, <2>3, <2>4
  <2>. QED
    BY <2>5 DEF m
<1>. QED
  BY <1>2, <1>3, <1>4, <1>10, <1>11 DEF LaidOut

\* The same, of an entry.
LEMMA FileFacts ==
    ASSUME disk \in Disks, ChainsWhole, NEW i \in 1 .. Len(disk.dir), disk.dir[i].size > 0,
           disk.dir[i].kind \in {"file", "init"}
    PROVE  LaidOut(disk.dir[i], disk.dir[i].size, disk.spc,
                   ClustersOf(disk.dir[i].size, disk.spc))
BY FileShape

\* What one more sector does to the counts: it is the cluster's last or the stray one
\* behind it, the file's last, or one before others of its cluster.
OneMore(size, spc, n, k, o, left0, len) ==
    /\ len \in Nat /\ len + 1 = Place(k, o, spc) /\ len + 1 <= size + n - 1
    /\ o + 1 > spc => k < n /\ len + 1 = k * (spc + 1) /\ left0 = size - k * spc
    /\ ~(o + 1 > spc) /\ left0 - 1 = 0 => len + 1 = size + n - 1
    /\ ~(o + 1 > spc) /\ left0 - 1 # 0 =>
         o + 1 \in 0 .. spc /\ AtPlace(size, spc, k, o + 1, left0 - 1, len + 1)

\* So the counts go on.
LEMMA Counting ==
    ASSUME NEW spc \in Nat \ {0}, NEW size \in Nat, NEW n \in Nat \ {0},
           \A k \in Nat : k < n <=> k * spc < size, NEW k \in 1 .. n, NEW o \in 0 .. spc,
           NEW left0, left0 > 0, NEW len, AtPlace(size, spc, k, o, left0, len)
    PROVE  OneMore(size, spc, n, k, o, left0, len)
<1>. DEFINE a == (k - 1) * spc
            b == k * spc
            c == (k - 1) * (spc + 1)
            d == k * (spc + 1)
<1>1. a \in Nat /\ b = a + spc /\ c = a + k - 1 /\ d = b + k /\ k \in Nat /\ k >= 1
  OBVIOUS
<1>2. k < n <=> b < size
  BY <1>1
<1>3. Place(k, o, spc) = c + o + 1
  BY DEF Place
<1>. HIDE DEF a, b, c, d
<1>4. left0 = size - a - o /\ len = c + o
  BY DEF a, c, AtPlace
<1>5. len \in Nat /\ len + 1 = Place(k, o, spc) /\ len + 1 <= size + n - 1
  BY <1>1, <1>3, <1>4
<1>6. o + 1 > spc => k < n /\ len + 1 = d /\ left0 = size - b
  BY <1>1, <1>2, <1>4
<1>7. ~(o + 1 > spc) /\ left0 - 1 = 0 => len + 1 = size + n - 1
  BY <1>1, <1>2, <1>4
<1>8. ~(o + 1 > spc) =>
        o + 1 \in 0 .. spc /\ len + 1 = c + (o + 1) /\ left0 - 1 = size - a - (o + 1)
  BY <1>1, <1>4
<1>. QED
  BY <1>5, <1>6, <1>7, <1>8 DEF a, b, c, d, OneMore, AtPlace

-----------------------------------------------------------------------------
(* Printing a file.                                                        *)

\* The file that lspt prints is one of the disk's.
LEMMA FileInHand ==
    ASSUME IInv, pc \in {"data", "fat"}, Trust
    PROVE  disk \in Disks /\ dirent = disk.dir /\ at \in 1 .. Len(disk.dir)
BY DEF IInv, MoreTypes, Commands, Layout

\* A file that has something to print begins with nothing printed.
LEMMA FileBegins ==
    ASSUME ChainsWhole, disk \in Disks, UNCHANGED disk, io'.begun = "no",
           dirent' = disk.dir, at' \in 1 .. Len(disk.dir), pc' = "data",
           left' = disk.dir[at'].size, left' > 0, cluster' = disk.dir[at'].cluster,
           out' = << >>, offset' = 0, disk.dir[at'].kind \in {"file", "init"}
    PROVE  Printing'
<1>1. PICK i : i = at'
  OBVIOUS
<1>2. PICK e : e = disk.dir[i]
  OBVIOUS
<1>3. PICK size : size = e.size
  OBVIOUS
<1>4. PICK spc : spc = disk.spc
  OBVIOUS
<1>5. PICK n : n = ClustersOf(size, spc)
  OBVIOUS
<1>6. LaidOut(e, size, spc, n)
  BY <1>1, <1>2, <1>3, <1>4, <1>5, FileFacts
<1>7. n \in Nat \ {0} /\ size \in Nat /\ spc \in Nat \ {0}
      /\ FileAndStrays(e) \in Seq(Int) /\ Len(FileAndStrays(e)) = size + n - 1
  BY <1>6 DEF LaidOut
<1>8. FileAndStrays(e)' = FileAndStrays(e)
  BY DEF FileAndStrays, FirstSector
<1>9. size + n - 1 \in Nat /\ (1 - 1) * (spc + 1) + 0 = 0 /\ size = size - (1 - 1) * spc - 0
      /\ 1 \in 1 .. n
  BY ONLY <1>7
<1>10. Agrees(e)'
  <2>1. out' \in Seq(Int) /\ Len(out') = 0
    OBVIOUS
  <2>2. Len(out') <= Len(FileAndStrays(e)')
    BY ONLY <1>7, <1>8, <1>9, <2>1
  <2>3. \A m \in 1 .. Len(out') : FALSE
    BY ONLY <2>1
  <2>. QED
    BY <2>1, <2>2, <2>3 DEF Agrees
<1>11. ChainFrom(disk, e.cluster, n)[1] = e.cluster
  BY <1>7, ChainFromFacts
<1>12. InCluster(e, size, spc, n, 1)'
  <2>1. left' = size /\ cluster' = e.cluster
    BY <1>1, <1>2, <1>3
  <2>2. Len(out') = 0
    OBVIOUS
  <2>. QED
    BY <1>9, <1>11, <2>1, <2>2 DEF InCluster, AtPlace
<1>13. PrintingOf(e, size, spc, n)'
  <2>1. size > 0 /\ e.kind \in {"file", "init"}
    BY <1>1, <1>2, <1>3
  <2>. QED
    BY <1>9, <1>10, <1>12, <2>1 DEF PrintingOf
<1>14. e = dirent'[at'] /\ spc = disk'.spc
  BY <1>1, <1>2, <1>4
<1>. QED
  BY <1>3, <1>5, <1>13, <1>14 DEF Printing

\* lspt goes on with an entry: then a file begins.
LEMMA EntryBegins ==
    ASSUME ChainsWhole, disk \in Disks, UNCHANGED disk, io'.begun = "no", NEW i \in Nat,
           NEW d, GoToEntry(d, i + 1), Trust' => d = disk.dir,
           d \in Dirs
    PROVE  Printing'
<1>. DEFINE stop == Stops(d, i + 1)
            j == Least(stop)
<1>1. CASE stop = {} \/ d[j].kind = "end"
  <2>1. GoToPartition(part)
    BY <1>1 DEF GoToEntry
  <2>. QED
    BY <2>1, PartitionGoals DEF Printing
<1>2. CASE ~(stop = {} \/ d[j].kind = "end")
  <2>1. /\ pc' = "data" /\ dirent' = d /\ at' = j /\ left' = d[j].size
        /\ cluster' = d[j].cluster /\ out' = << >> /\ offset' = 0
    BY <1>2 DEF GoToEntry
  <2>2. at' \in 1 .. Len(d) /\ left' > 0
    BY <2>1, EntryGoals
  <2>3. d[at'].kind \in {"file", "init"}
    <3>1. stop \subseteq Nat
      BY DEF Stops
    <3>2. j \in stop
      BY <1>2, <3>1, LeastIsIn
    <3>. QED
      BY <1>2, <2>1, <3>2 DEF Stops
  <2>4. ASSUME Trust' PROVE Printing'
    BY <2>1, <2>2, <2>3, <2>4, FileBegins
  <2>. QED
    BY <2>4 DEF Printing
<1>. QED
  BY <1>1, <1>2

\* A sector of the file was read, or the one behind a cluster.
LEMMA DataPrints ==
    ASSUME ChainsWhole, IInv, Printing, pc = "data", NEW r, NEW s, Ends(r, s), Trust'
    PROVE  Printing'
<1>1. PICK i : i = at
  OBVIOUS
<1>2. PICK e : e = disk.dir[i]
  OBVIOUS
<1>3. PICK size : size = e.size
  OBVIOUS
<1>4. PICK spc : spc = disk.spc
  OBVIOUS
<1>5. PICK n : n = ClustersOf(size, spc)
  OBVIOUS
<1>. DEFINE over == TooFar(offset + 1)
            rest == IF over THEN left ELSE left - 1
<1>6. AfterData(r, s) /\ UNCHANGED disk /\ io'.begun = "no" /\ clean
  BY AfterLeaves DEF Ends, After, Trust
<1>7. CASE dirent[at].kind = "init"
  BY <1>6, <1>7 DEF AfterData, Printing
<1>8. CASE dirent[at].kind # "init"
  <2>1. /\ out' = IF Trust THEN Append(out, CASE r = "sector" /\ Trust -> s
                                                [] r = "nothing" -> buffer [] OTHER -> Junk)
                  ELSE out
        /\ left' = rest
        /\ offset' = IF over \/ rest = 0 THEN 0 ELSE offset + 1
        /\ pc' = IF over \/ rest = 0 THEN "fat" ELSE "data"
        /\ UNCHANGED <<part, dirent, at, cluster, sectorsPerCluster>>
    BY <1>6, <1>8 DEF AfterData
  <2>2. Trust /\ r = "sector" /\ io.begun # "no" /\ io.sector = s
    BY <2>1, AfterLeaves
  <2>3. out' = Append(out, s)
    BY <2>1, <2>2
  <2>4. /\ disk \in Disks /\ dirent = disk.dir /\ i \in 1 .. Len(disk.dir)
        /\ left > 0 /\ left \in Nat /\ sectorsPerCluster = spc /\ offset \in 0 .. spc
    BY <1>1, <1>4, <2>2, FileInHand DEF IInv, MoreTypes, TypeOK, Commands, Layout
  <2>5. PrintingOf(e, size, spc, n)
    BY <1>1, <1>2, <1>3, <1>4, <1>5, <2>2, <2>4 DEF Printing
  <2>6. PICK k \in 1 .. n : InCluster(e, size, spc, n, k)
    BY <2>5 DEF PrintingOf
  <2>7. PICK l : l = left
    OBVIOUS
  <2>8. PICK o : o = offset
    OBVIOUS
  <2>9. PICK len : len = Len(out)
    OBVIOUS
  <2>10. /\ cluster = ChainFrom(disk, e.cluster, n)[k] /\ AtPlace(size, spc, k, o, l, len)
         /\ s = FirstSector(cluster) + o
         /\ o \in 0 .. spc /\ l > 0 /\ l \in Nat
    BY <2>2, <2>4, <2>6, <2>7, <2>8, <2>9 DEF InCluster
  <2>11. size > 0 /\ e.kind \in {"file", "init"}
    BY <2>5 DEF PrintingOf
  <2>. HIDE DEF over, rest
  <2>12. LaidOut(e, size, spc, n)
    BY <1>2, <1>3, <1>4, <1>5, <2>4, <2>11, FileFacts
  <2>13. /\ n \in Nat \ {0} /\ size \in Nat /\ spc \in Nat \ {0}
         /\ FileAndStrays(e) \in Seq(Int) /\ Len(FileAndStrays(e)) = size + n - 1
         /\ \A j \in Nat : j < n <=> j * spc < size
    BY <2>12 DEF LaidOut
  <2>14. OneMore(size, spc, n, k, o, l, len)
    BY ONLY <2>10, <2>13, k \in 1 .. n, Counting
  <2>15. FileAndStrays(e)[len + 1] = s
    <3>1. FileAndStrays(e)[Place(k, o, spc)] = FirstSector(ChainFrom(disk, e.cluster, n)[k]) + o
      <4>1. Place(k, o, spc) <= size + n - 1
        BY ONLY <2>14 DEF OneMore
      <4>. QED
        BY <2>10, <2>12, <4>1 DEF LaidOut
    <3>. QED
      BY <2>10, <2>14, <3>1 DEF OneMore
  <2>16. /\ FileAndStrays(e)' = FileAndStrays(e)
         /\ ChainFrom(disk, e.cluster, n)' = ChainFrom(disk, e.cluster, n)
    BY <1>6 DEF FileAndStrays, FirstSector, ChainFrom
  <2>17. out' \in Seq(Int) /\ Len(out') = len + 1 /\ Agrees(e)'
    <3>1. out \in Seq(Int) /\ \A m \in 1 .. Len(out) : out[m] = FileAndStrays(e)[m]
      BY <2>5 DEF PrintingOf, Agrees
    <3>2. s \in Int
      BY <2>2, AfterLeaves, ConstantTypes DEF Sectors
    <3>3. /\ Append(out, s) \in Seq(Int) /\ Len(Append(out, s)) = len + 1
          /\ \A m \in 1 .. len : Append(out, s)[m] = out[m]
          /\ Append(out, s)[len + 1] = s
      BY <2>9, <3>1, <3>2, AppendProperties
    <3>4. \A m \in 1 .. len + 1 : m = len + 1 \/ m \in 1 .. len
      BY ONLY <2>14 DEF OneMore
    <3>5. \A m \in 1 .. len + 1 : out'[m] = FileAndStrays(e)[m]
      BY <2>3, <2>9, <2>15, <3>1, <3>3, <3>4
    <3>6. len + 1 <= Len(FileAndStrays(e))
      BY <2>13, <2>14 DEF OneMore
    <3>7. out' \in Seq(Int) /\ Len(out') = len + 1
      BY <2>3, <3>3
    <3>. QED
      BY <2>16, <3>5, <3>6, <3>7 DEF Agrees
  <2>18. InCluster(e, size, spc, n, k)'
    <3>0. cluster' = ChainFrom(disk, e.cluster, n)'[k]
      BY <2>1, <2>10, <2>16
    <3>1. CASE over
      <4>1. o + 1 > spc /\ l - 0 = l
        BY <1>4, <2>8, <2>10, <2>4, <3>1 DEF over, TooFar
      <4>2. left' = l /\ offset' = 0 /\ pc' = "fat"
        BY <2>1, <2>7, <3>1 DEF rest
      <4>3. left' # 0 /\ Len(out') = k * (spc + 1) /\ left' = size - k * spc
        BY ONLY <2>10, <2>14, <2>17, <4>1, <4>2 DEF OneMore
      <4>. QED
        BY <3>0, <4>2, <4>3 DEF InCluster
    <3>2. CASE ~over /\ rest = 0
      <4>1. ~(o + 1 > spc) /\ l - 1 = 0
        BY <1>4, <2>7, <2>8, <2>10, <2>4, <3>2 DEF over, rest, TooFar
      <4>2. left' = 0 /\ offset' = 0 /\ pc' = "fat"
        BY <2>1, <3>2
      <4>3. Len(out') = size + n - 1
        BY ONLY <2>14, <2>17, <4>1 DEF OneMore
      <4>. QED
        BY <3>0, <4>2, <4>3 DEF InCluster
    <3>3. CASE ~over /\ rest # 0
      <4>1. ~(o + 1 > spc) /\ l - 1 # 0
        BY <1>4, <2>7, <2>8, <2>10, <2>4, <3>3 DEF over, rest, TooFar
      <4>2. left' = l - 1 /\ offset' = o + 1 /\ pc' = "data"
        BY <2>1, <2>7, <2>8, <3>3 DEF rest
      <4>3. AtPlace(size, spc, k, offset', left', Len(out'))
        BY <2>14, <2>17, <4>1, <4>2 DEF OneMore
      <4>. QED
        BY <1>6, <3>0, <4>2, <4>3 DEF InCluster
    <3>. QED
      BY <3>1, <3>2, <3>3
  <2>19. PrintingOf(e, size, spc, n)'
    BY <2>11, <2>17, <2>18 DEF PrintingOf
  <2>20. e = dirent'[at'] /\ spc = disk'.spc
    BY <1>1, <1>2, <1>4, <1>6, <2>1, <2>4
  <2>. QED
    BY <1>3, <1>5, <2>19, <2>20 DEF Printing
<1>. QED
  BY <1>7, <1>8

\* The FAT was read: the next cluster, or the next file.
LEMMA FatPrints ==
    ASSUME ChainsWhole, IInv, Printing, pc = "fat", NEW r, NEW s, Ends(r, s), Trust'
    PROVE  Printing'
<1>1. PICK i : i = at
  OBVIOUS
<1>2. PICK e : e = disk.dir[i]
  OBVIOUS
<1>3. PICK size : size = e.size
  OBVIOUS
<1>4. PICK spc : spc = disk.spc
  OBVIOUS
<1>5. PICK n : n = ClustersOf(size, spc)
  OBVIOUS
<1>6. AfterFat(r) /\ UNCHANGED disk /\ io'.begun = "no"
  BY AfterLeaves DEF Ends, After
<1>7. CASE left = 0
  <2>1. GoToEntry(dirent, at + 1)
    BY <1>6, <1>7 DEF AfterFat
  <2>2. disk \in Disks /\ at \in Nat /\ dirent \in Dirs
    BY DEF IInv, MoreTypes, TypeOK, Commands
  <2>3. CASE part' = part
    <3>1. Trust
      BY <2>3, AfterLeaves
    <3>2. dirent = disk.dir
      BY <3>1, FileInHand
    <3>. QED
      BY <1>6, <2>1, <2>2, <3>2, EntryBegins
  <2>4. CASE part' # part
    BY <2>1, <2>2, <2>4, EntryGoals DEF Printing
  <2>. QED
    BY <2>3, <2>4
<1>8. CASE left # 0
  <2>1. /\ pc' = "data"
        /\ cluster' = IF Trust /\ r = "sector" /\ cluster # 0 THEN disk.next[cluster] ELSE 0
        /\ UNCHANGED <<part, dirent, at, left, offset, buffer, sectorsPerCluster, out, name1,
                       entry>>
    BY <1>6, <1>8 DEF AfterFat
  <2>2. Trust /\ r = "sector"
    BY <2>1, AfterLeaves
  <2>3. /\ disk \in Disks /\ dirent = disk.dir /\ i \in 1 .. Len(disk.dir) /\ left \in Nat
    BY <1>1, <2>2, FileInHand DEF IInv, MoreTypes, TypeOK
  <2>4. PrintingOf(e, size, spc, n)
    BY <1>1, <1>2, <1>3, <1>4, <1>5, <2>2, <2>3 DEF Printing
  <2>5. PICK k \in 1 .. n : InCluster(e, size, spc, n, k)
    BY <2>4 DEF PrintingOf
  <2>6. PICK l : l = left
    OBVIOUS
  <2>7. PICK len : len = Len(out)
    OBVIOUS
  <2>8. /\ cluster = ChainFrom(disk, e.cluster, n)[k] /\ offset = 0
        /\ len = k * (spc + 1) /\ l = size - k * spc /\ l > 0
    BY <1>8, <2>3, <2>5, <2>6, <2>7 DEF InCluster
  <2>9. size > 0 /\ e.kind \in {"file", "init"}
    BY <2>4 DEF PrintingOf
  <2>10. LaidOut(e, size, spc, n)
    BY <1>2, <1>3, <1>4, <1>5, <2>3, <2>9, FileFacts
  <2>11. /\ n \in Nat \ {0} /\ size \in Nat /\ spc \in Nat \ {0}
         /\ \A j \in Nat : j < n <=> j * spc < size
    BY <2>10 DEF LaidOut
  <2>12. k < n /\ k + 1 \in 1 .. n /\ (k + 1) - 1 = k /\ k \in Nat
    <3>1. k * spc \in Nat /\ k \in Nat
      BY ONLY <2>11, k \in 1 .. n
    <3>2. k * spc < size
      BY ONLY <2>8, <2>11, <3>1
    <3>. QED
      BY ONLY <2>11, <3>1, <3>2, k \in 1 .. n
  <2>13. cluster # 0
    <3>1. cluster \in Clusters(spc)
      BY <2>8, <2>10 DEF LaidOut
    <3>. QED
      BY <3>1, ConstantTypes DEF Clusters
  <2>14. cluster' = ChainFrom(disk, e.cluster, n)[k + 1]
    <3>1. cluster' = disk.next[cluster]
      BY <2>1, <2>2, <2>13
    <3>2. ChainFrom(disk, e.cluster, n)[k + 1] = disk.next[ChainFrom(disk, e.cluster, n)[k]]
      BY <2>11, <2>12, ChainFromFacts
    <3>. QED
      BY <2>8, <3>1, <3>2
  <2>15. /\ FileAndStrays(e)' = FileAndStrays(e)
         /\ ChainFrom(disk, e.cluster, n)' = ChainFrom(disk, e.cluster, n)
    BY <1>6 DEF FileAndStrays, FirstSector, ChainFrom
  <2>16. Agrees(e)'
    BY <2>1, <2>4, <2>15 DEF Agrees, PrintingOf
  <2>17. InCluster(e, size, spc, n, k + 1)'
    <3>1. k * (spc + 1) \in Nat /\ k * spc \in Nat
      BY ONLY <2>11, <2>12
    <3>2. len = ((k + 1) - 1) * (spc + 1) + 0 /\ l = size - ((k + 1) - 1) * spc - 0
      BY ONLY <2>8, <2>11, <2>12, <3>1
    <3>3. pc' = "data" /\ Len(out') = len /\ left' = l /\ offset' = 0 /\ io'.begun = "no"
      BY <1>6, <2>1, <2>6, <2>7, <2>8
    <3>. QED
      BY <2>14, <2>15, <3>2, <3>3 DEF InCluster, AtPlace
  <2>18. PrintingOf(e, size, spc, n)'
    BY <2>9, <2>12, <2>16, <2>17 DEF PrintingOf
  <2>19. e = dirent'[at'] /\ spc = disk'.spc
    BY <1>1, <1>2, <1>4, <1>6, <2>1, <2>3
  <2>. QED
    BY <1>3, <1>5, <2>18, <2>19 DEF Printing
<1>. QED
  BY <1>7, <1>8

\* Whatever was read, or was not.
LEMMA AfterPrints ==
    ASSUME ChainsWhole, IInv, Printing, pc \in Reads, NEW r, NEW s, Ends(r, s)
    PROVE  Printing'
<1>1. disk \in Disks /\ UNCHANGED disk /\ io'.begun = "no"
  BY AfterLeaves DEF IInv, MoreTypes
<1>2. CASE pc = "data"
  BY <1>2, DataPrints DEF Printing
<1>3. CASE pc = "fat"
  BY <1>3, FatPrints DEF Printing
<1>4. CASE pc = "root"
  <2>1. PICK d \in (IF Trust /\ r = "sector" THEN {disk.dir} ELSE {e.dir : e \in Debris}) :
          CASE cmd.is = "ls" ->
                 pc' \in {"prompt", "lost"} /\ UNCHANGED <<listing, name1, entry>>
            [] cmd.is = "lspt" -> GoToEntry(d, 1) /\ UNCHANGED <<name1, entry>>
            [] cmd.is = "exec" ->
                 LET m == Matches(d) IN
                 /\ at' = IF m = {} THEN 0 ELSE Least(m)
                 /\ dirent' = IF m = {} THEN << >> ELSE d
                 /\ name1' = Name1After(d, IF m = {} THEN Len(d) ELSE Least(m))
                 /\ pc' = IF m = {} THEN "prompt" ELSE "load"
                 /\ UNCHANGED <<part, left, cluster, offset, buffer, sectorsPerCluster, out, entry>>
    BY <1>4 DEF Ends, After, AfterRoot
  <2>2. d \in Dirs /\ (Trust /\ r = "sector" => d = disk.dir)
    BY <1>1, <2>1 DEF Dirs
  <2>3. cmd.is \in {"lspt", "ls", "exec"}
    BY <1>4 DEF IInv, Commands
  <2>4. CASE cmd.is = "lspt"
    <3>1. GoToEntry(d, 0 + 1)
      BY <2>1, <2>4
    <3>2. CASE part' = part
      BY <1>1, <2>2, <3>1, <3>2, EntryBegins, AfterLeaves
    <3>3. CASE part' # part
      BY <2>2, <3>1, <3>3, EntryGoals DEF Printing
    <3>. QED
      BY <3>2, <3>3
  <2>5. CASE cmd.is \in {"ls", "exec"}
    BY <2>1, <2>5 DEF Printing
  <2>. QED
    BY <2>3, <2>4, <2>5
<1>5. CASE pc = "mbr"
  <2>1. pc' \in {"prompt", "bpb", "lost"}
    BY <1>5, PartitionGoals DEF Ends, After, AfterMbr
  <2>. QED
    BY <2>1 DEF Printing
<1>6. CASE pc = "bpb"
  BY <1>6 DEF Ends, After, AfterBpb, Printing
<1>7. CASE pc = "load"
  <2>1. pc' \in {"prompt", "program", "lost"}
    BY <1>7 DEF Ends, After, AfterLoad
  <2>. QED
    BY <2>1 DEF Printing
<1>8. CASE pc \in {"identify", "sysread"}
  BY <1>8 DEF Ends, After, Printing
<1>. QED
  BY <1>2, <1>3, <1>4, <1>5, <1>6, <1>7, <1>8 DEF Reads

\* A read has begun: it asks for the sector that comes next in the file.
LEMMA BegunPrints ==
    ASSUME ChainsWhole, IInv, Printing, Command
    PROVE  Printing'
<1>1. /\ pc \in Reads /\ io.begun = "no"
      /\ UNCHANGED <<disk, errors, cmd, pc, clean, listing, memory, program>>
  BY DEF Command
<1>2. PICK s \in Wanted \ {Refused} :
        io' = [begun |-> IF drive.phase \in {"idle", "error"} THEN "heard" ELSE "unheard",
               sector |-> s]
  BY DEF Command
<1>3. UNCHANGED <<part, dirent, at, left, cluster, offset, out>> /\ io'.sector = s
  BY <1>1, <1>2 DEF listing
<1>4. ASSUME pc \in {"data", "fat"}, Trust
      PROVE  PrintingOf(dirent[at], dirent[at].size, disk.spc,
                        ClustersOf(dirent[at].size, disk.spc))'
  <2>1. PICK e : e = dirent[at]
    OBVIOUS
  <2>2. PICK size : size = e.size
    OBVIOUS
  <2>3. PICK spc : spc = disk.spc
    OBVIOUS
  <2>4. PICK n : n = ClustersOf(size, spc)
    OBVIOUS
  <2>5. PrintingOf(e, size, spc, n)
    BY <1>4, <2>1, <2>2, <2>3, <2>4 DEF Printing
  <2>6. PICK k \in 1 .. n : InCluster(e, size, spc, n, k)
    BY <2>5 DEF PrintingOf
  <2>7. LaidOut(e, size, spc, n)
    <3>1. disk \in Disks /\ dirent = disk.dir /\ at \in 1 .. Len(disk.dir)
      BY <1>4, FileInHand
    <3>2. size > 0 /\ e.kind \in {"file", "init"}
      BY <2>5 DEF PrintingOf
    <3>. QED
      BY <2>1, <2>2, <2>3, <2>4, <3>1, <3>2, FileFacts
  <2>8. s = LaidOutAt
    <3>1. cluster \in Clusters(spc)
      BY <2>6, <2>7 DEF LaidOut, InCluster
    <3>2. cluster # 0
      BY <3>1, ConstantTypes DEF Clusters
    <3>. QED
      BY <1>2, <1>4, <3>2 DEF Wanted
  <2>9. pc = "data" => s = FirstSector(cluster) + offset
    BY <2>8 DEF LaidOutAt
  <2>10. /\ FileAndStrays(e)' = FileAndStrays(e)
        /\ ChainFrom(disk, e.cluster, n)' = ChainFrom(disk, e.cluster, n)
        /\ FirstSector(cluster)' = FirstSector(cluster)
    BY <1>1, <1>3 DEF FileAndStrays, FirstSector, ChainFrom
  <2>11. Agrees(e)'
    BY <1>3, <2>5, <2>10 DEF Agrees, PrintingOf
  <2>12. InCluster(e, size, spc, n, k)'
    BY <1>1, <1>3, <2>6, <2>9, <2>10 DEF InCluster
  <2>13. PrintingOf(e, size, spc, n)'
    BY <2>5, <2>11, <2>12 DEF PrintingOf
  <2>. QED
    BY <1>1, <1>3, <2>1, <2>2, <2>3, <2>4, <2>13
<1>. QED
  BY <1>1, <1>3, <1>4 DEF Printing, Trust

\* What leaves the listing and the read alone leaves the print.
LEMMA PrintingFrame ==
    ASSUME Printing, UNCHANGED <<disk, command, listing>>
    PROVE  Printing'
<1>1. UNCHANGED <<disk, pc, io, clean, part, dirent, at, left, cluster, offset, out>>
  BY DEF command, listing
<1>2. \A e : FileAndStrays(e)' = FileAndStrays(e)
  BY <1>1 DEF FileAndStrays, FirstSector
<1>3. \A e : Agrees(e) => Agrees(e)'
  BY <1>1, <1>2 DEF Agrees
<1>4. \A e, size, spc, n, k :
        InCluster(e, size, spc, n, k) => InCluster(e, size, spc, n, k)'
  BY <1>1 DEF InCluster, FirstSector
<1>5. \A e, size, spc, n : PrintingOf(e, size, spc, n) => PrintingOf(e, size, spc, n)'
  BY <1>3, <1>4 DEF PrintingOf
<1>. QED
  BY <1>1, <1>5 DEF Printing, Trust

\* Every step keeps it.
LEMMA PrintingStep ==
    ASSUME ChainsWhole, IInv, Printing, [Next]_vars
    PROVE  Printing'
<1>1. CASE List \/ Identify \/ \E a \in Typed : Exec(a)
  <2>1. pc' \in {"mbr", "identify"}
    BY <1>1 DEF List, Identify, Exec, Type
  <2>. QED
    BY <2>1 DEF Printing
<1>2. CASE Command
  BY <1>2, BegunPrints
<1>3. CASE RefuseSector
  <2>1. Ends("nothing", Refused) /\ pc \in Reads
    BY <1>3 DEF RefuseSector, Ends
  <2>. QED
    BY <2>1, AfterPrints
<1>4. CASE Transfer
  <2>1. PICK r \in Brings(drive, io.begun = "heard") : After(r, io.sector)
    BY <1>4 DEF Transfer
  <2>2. pc \in Reads /\ io.begun # "no" /\ io' = NotBegun
    BY <1>4 DEF Transfer
  <2>3. r = "sector" => io.begun = "heard"
    BY <2>1 DEF Brings
  <2>4. io \in ReadStates
    BY TypesSplit DEF IInv
  <2>5. Ends(r, io.sector)
    BY <2>1, <2>2, <2>3, <2>4 DEF Ends, NotBegun, ReadStates
  <2>. QED
    BY <2>2, <2>5, AfterPrints
<1>5. CASE SysRead \/ Return
  BY <1>5 DEF SysRead, Return, Printing
<1>6. CASE \E count \in Counts : SysWrite(count)
  BY <1>6, PrintingFrame DEF SysWrite
<1>7. CASE DriveGetsReady
  BY <1>7, PrintingFrame DEF DriveGetsReady
<1>8. CASE UNCHANGED vars
  BY <1>8, PrintingFrame DEF vars
<1>. QED
  BY <1>1, <1>2, <1>3, <1>4, <1>5, <1>6, <1>7, <1>8 DEF Next, Reading, Program

\* The first so many of a sequence are a prefix of it.
LEMMA PrefixByPlace ==
    ASSUME NEW s \in Seq(Int), NEW t \in Seq(Int), Len(s) <= Len(t),
           \A m \in 1 .. Len(s) : s[m] = t[m]
    PROVE  IsPrefix(s, t) /\ (Len(s) = Len(t) => s = t)
<1>1. Len(s) \in Nat /\ Len(t) \in Nat
  BY LenProperties
<1>2. /\ SubSeq(s, 1, Len(s)) \in Seq(Int) /\ SubSeq(t, 1, Len(s)) \in Seq(Int)
      /\ Len(SubSeq(s, 1, Len(s))) = Len(s) /\ Len(SubSeq(t, 1, Len(s))) = Len(s)
      /\ \A m \in 1 .. Len(s) : SubSeq(s, 1, Len(s))[m] = s[m] /\ SubSeq(t, 1, Len(s))[m] = t[m]
  BY <1>1, SubSeqProperties
<1>3. SubSeq(s, 1, Len(s)) = SubSeq(t, 1, Len(s))
  BY <1>1, <1>2, SeqEqual
<1>4. Len(s) = Len(t) => s = t
  BY <1>1, SeqEqual
<1>. QED
  BY <1>3, <1>4 DEF IsPrefix

-----------------------------------------------------------------------------
(* The theorems.                                                           *)

\* The variables keep their types, on any disk and with sectors of any size: the
\* loop of ReadBiosBlock never steps further into a cluster than one sector behind
\* it (FATFS.cpp:117-162), and a command that knows the layout asks for sectors of
\* the drive (FATFS.cpp:119, 214-241).
THEOREM TypeCorrect == Spec => []TypeOK
<1>1. IInv => TypeOK
  BY DEF IInv, MoreTypes
<1>. QED
  BY <1>1, Invariance, PTL

\* A command finds the drive busy, or with words left, only after a program has
\* written, with sectors of any size (HDD-ATA.cpp:79-112, 127-146).
THEOREM UnheardOnlyAfterWriteHolds == Spec => []UnheardOnlyAfterWrite
<1>1. IInv => UnheardOnlyAfterWrite
  BY DEF IInv, ReadsHeard, UnheardOnlyAfterWrite
<1>. QED
  BY <1>1, Invariance, PTL

\* exec runs the first sector of a file whose name is the one that was typed, or is
\* as good for the code, whatever names were in memory before (FATFS.cpp:208-247).
THEOREM ExecRunsAlikeHolds == Spec => []ExecRunsAlike
<1>1. IInv => ExecRunsAlike
  BY DEF IInv, Executing, ExecRunsAlike
<1>. QED
  BY <1>1, Invariance, PTL

\* lspt prints every file in order, with one stray sector behind each full cluster
\* that another follows, whatever the drive does, on any disks whose files have all
\* the clusters that their sizes need (FATFS.cpp:117-162).
THEOREM PrintsFileAndStraysHolds == ChainsWhole => (Spec => []PrintsFileAndStrays)
<1>. SUFFICES ASSUME ChainsWhole PROVE Spec => []PrintsFileAndStrays
  OBVIOUS
<1>1. Init => Printing
  BY DEF Init, Printing
<1>2. IInv /\ Printing /\ [Next]_vars => Printing'
  BY PrintingStep
<1>3. IInv /\ Printing => PrintsFileAndStrays
  <2>. SUFFICES ASSUME IInv, Printing, pc \in {"data", "fat"}, Trust
                PROVE  /\ IsPrefix(out, FileAndStrays(dirent[at]))
                       /\ left = 0 => out = FileAndStrays(dirent[at])
    BY DEF PrintsFileAndStrays
  <2>1. PICK e : e = dirent[at]
    OBVIOUS
  <2>2. PICK size : size = e.size
    OBVIOUS
  <2>3. PICK spc : spc = disk.spc
    OBVIOUS
  <2>4. PICK n : n = ClustersOf(size, spc)
    OBVIOUS
  <2>5. PrintingOf(e, size, spc, n)
    BY <2>1, <2>2, <2>3, <2>4 DEF Printing
  <2>6. PICK k \in 1 .. n : InCluster(e, size, spc, n, k)
    BY <2>5 DEF PrintingOf
  <2>7. Agrees(e) /\ size > 0 /\ e.kind \in {"file", "init"}
    BY <2>5 DEF PrintingOf
  <2>8. LaidOut(e, size, spc, n)
    <3>1. disk \in Disks /\ dirent = disk.dir /\ at \in 1 .. Len(disk.dir)
      BY FileInHand
    <3>. QED
      BY <2>1, <2>2, <2>3, <2>4, <2>7, <3>1, FileFacts
  <2>9. IsPrefix(out, FileAndStrays(e)) /\ (Len(out) = Len(FileAndStrays(e)) => out = FileAndStrays(e))
    BY <2>7, <2>8, PrefixByPlace DEF Agrees, LaidOut
  <2>10. left = 0 => Len(out) = Len(FileAndStrays(e))
    <3>1. pc = "data" => left > 0
      BY DEF IInv, Commands
    <3>. QED
      BY <2>6, <2>8, <3>1 DEF InCluster, LaidOut
  <2>. QED
    BY <2>1, <2>9, <2>10
<1>. QED
  BY <1>1, <1>2, <1>3, Invariance, PTL DEF Spec
=============================================================================
