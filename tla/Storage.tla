------------------------------ MODULE Storage -------------------------------
(***************************************************************************)
(* Drivers/HDD-ATA.cpp, Filesystem/MSDOSPT.cpp and Filesystem/FATFS.cpp:   *)
(* the shell's "lspt", "ls", "exec" and "sysinfo -D", and the system calls *)
(* of a program that exec has started, on one drive.                       *)
(*                                                                         *)
(* All of it runs with interrupts off; what goes on beside it is the drive *)
(* (external: the emulated one that the Makefile starts), which is busy    *)
(* for a while after a command, and ignores one that comes while it is     *)
(* busy or still has words to give or to get.  A read is two steps, the    *)
(* command and the transfer; its caller is never told how it went.  A file *)
(* system is laid out as in the code: boot block, FAT, data.  A sector's   *)
(* content is its number, sizes are in sectors, and a file is as long as   *)
(* its chain of clusters.                                                  *)
(***************************************************************************)
EXTENDS Integers, Sequences, SequencesExt

CONSTANTS Disks,       \* file systems that may be on the drive, see DiskWith
          Debris,      \* what the stack may hold where a table was not read
          Typed,       \* what may follow "exec": [name, ext]
          Words,       \* 16-bit words in a sector: 256
          Counts,      \* the counts of bytes that a program writes
          NameLength,  \* letters of a name: 8
          Cleared,     \* letters that memset clears: 4, the size of a pointer
          MaxErrors,   \* BOUND on the errors of the drive
          MaxCalls     \* BOUND on the system calls of programs

Mbr == 0
Start == 1          \* where a partition's boot block is
FatStart == 2
DataStart == 3
RootCluster == 2
LastSector == 12
Refused == -1       \* a number of more than 28 bits
Junk == -2          \* content that is no sector's
Own == -3           \* the kernel's own code

Name == Seq(STRING \ {"nul"})

\* The clusters that fit on the drive, in front of its last sector.
Clusters(spc) ==
    {c \in RootCluster .. LastSector : DataStart + spc * (c - RootCluster + 1) <= LastSector}

\* Directories: what ReadBiosBlock takes an entry for is its kind.
Directories(numbers) ==
    Seq({e \in [name : Name, ext : STRING, size : Nat, cluster : numbers,
                kind : {"file", "dir", "init", "long", "end"}] :
           e.size > 0 => e.cluster # 0})

\* parts: what each of the table's partitions holds.  spc: sectorsPerCluster.
\* dir: the root directory.  next: the FAT.
DiskWith(spc) ==
    [parts : Seq({"none", "fat", "other"}), spc : {spc},
     dir : Directories({0} \cup Clusters(spc)),
     next : [1 .. LastSector -> {0} \cup Clusters(spc)]]

ASSUME StorageAssumption ==
    /\ \A d \in Disks : \E spc \in 1 .. LastSector - DataStart : d \in DiskWith(spc)
    /\ Debris \subseteq [spc : 0 .. 255, dir : Directories(Nat)] /\ Debris # {}
    /\ Typed \subseteq [name : Name, ext : STRING]
    /\ Words \in Nat \ {0} /\ Counts \subseteq Int
    /\ NameLength \in Nat /\ Cleared \in 0 .. NameLength
    /\ MaxErrors \in Nat /\ MaxCalls \in Nat

\* What the drive is doing.  "in" and "out": it has words to give or to get.
Phases == {"absent", "idle", "busy", "in", "out", "error"}

VARIABLES
    disk,     \* the drive's file system
    drive,    \* external: [phase, op, words]
    errors, calls,
    cmd,      \* the command that runs: [is, name, ext]
    pc,       \* what it reads or does next
    io,       \* the read that was begun: whether the drive heard it, its sector
    clean,    \* ghost: every read of this command brought its sector
    part,     \* the partition that lspt looks at
    dirent, at, left, cluster, offset, buffer,   \* ReadBiosBlock's own
    sectorsPerCluster,                           \* of its boot block, on the stack
    arg1, name1,  \* the memory at 0x550 and 0x510
    entry,    \* the code at Entry: the kernel's own, a sector, or junk
    out,      \* ghost: the sectors that were printed of the file
    strained  \* ghost: a program has written

command == <<cmd, pc, io, clean>>
listing == <<part, dirent, at, left, cluster, offset, buffer, sectorsPerCluster, out>>
memory  == <<arg1, name1, entry>>
device  == <<drive, errors>>
program == <<calls, strained>>
vars == <<disk, device, command, listing, memory, program>>

Reads == {"identify", "mbr", "bpb", "root", "data", "fat", "load", "sysread"}
Sectors == 0 .. LastSector

TypeOK ==
    /\ drive.phase \in Phases /\ drive.words \in 0 .. Words
    /\ pc \in Reads \cup {"prompt", "program", "stopped", "lost"}
    /\ io \in [begun : {"no", "heard", "unheard"}, sector : Sectors]
    /\ clean \in BOOLEAN /\ strained \in BOOLEAN
    /\ left \in Nat /\ at \in Nat
    /\ sectorsPerCluster \in 0 .. 255 /\ offset \in 0 .. sectorsPerCluster
    /\ {buffer, entry} \subseteq Sectors \cup {Junk, Own}
    /\ Len(arg1) = NameLength /\ Len(name1) = NameLength
-----------------------------------------------------------------------------
(* HDD-ATA.cpp.                                                            *)

\* The values of the loops' index, which is unsigned, 16 bits wide.
IndexSpace == 256 * 256

\* 16-bit words that the two loops of Read28 or Write28 move: up to count, and
\* from there to the sector's end.
WordsUpTo(count) == IF count <= 0 THEN 0 ELSE (count + 1) \div 2
Odd(count) == IF count >= 0 THEN count % 2 ELSE -((-count) % 2)
WordsFrom(count) ==
    LET i == (count + Odd(count)) % IndexSpace
    IN  IF i >= 2 * Words THEN 0 ELSE Words - i \div 2

\* The rest of the sector is left in the drive.
WordsMovedNoRest(count) == WordsUpTo(count)

WordsMoved(count) == WordsUpTo(count) + WordsFrom(count)

\* The bytes asked for: a boot block is less than a sector.
CountFor(place) == IF place = "bpb" THEN 2 * Words - 2 ELSE 2 * Words

\* The drive gets a command.
Commanded(d, op) ==
    IF d.phase \in {"idle", "error"} THEN [phase |-> "busy", op |-> op, words |-> 0]
    ELSE d

\* n words are read from the data port, or written to it.  The drive stores a
\* sector when it has all of its words.
Taken(d, n) ==
    IF d.phase # "in" THEN d
    ELSE IF n >= d.words THEN [d EXCEPT !.phase = "idle", !.words = 0]
    ELSE [d EXCEPT !.words = @ - n]

Given(d, n) ==
    IF d.phase # "out" \/ n = 0 THEN d
    ELSE IF n >= d.words THEN [phase |-> "busy", op |-> "idle", words |-> 0]
    ELSE [d EXCEPT !.words = @ - n]

\* The drive finishes what it is busy with.
DriveGetsReady ==
    /\ drive.phase = "busy"
    /\ \/ /\ drive' = [drive EXCEPT !.phase = drive.op,
                                    !.words = IF drive.op = "idle" THEN 0 ELSE Words]
          /\ UNCHANGED errors
       \/ /\ errors < MaxErrors /\ drive.op = "in"                   \* BOUND
          /\ drive' = [drive EXCEPT !.phase = "error"] /\ errors' = errors + 1
    /\ UNCHANGED <<disk, command, listing, memory, program>>

\* What a read brings, after the loop of line 82: the sector, something else, or
\* nothing.  A drive that is not there reads as 0 or as 0xFF.
Brings(d, heard) ==
    CASE d.phase = "in"     -> {IF heard THEN "sector" ELSE "junk"}
      [] d.phase = "error"  -> {"nothing"}
      [] d.phase = "absent" -> {"junk", "nothing"}
      [] OTHER              -> {"junk"}
-----------------------------------------------------------------------------
(* MSDOSPT.cpp and FATFS.cpp.                                              *)

\* What the command knows of the layout is what the disk holds.
Trust == clean /\ disk.parts[part] = "fat"

FirstSector(c) == DataStart + disk.spc * (c - RootCluster)

\* The sector of a directory, a file or the FAT.
LaidOutAt ==
    CASE pc = "root" -> FirstSector(RootCluster)
      [] pc = "data" -> FirstSector(cluster) + offset
      [] pc = "fat"  -> FatStart
      [] pc = "load" -> FirstSector(dirent[at].cluster)

\* The sectors that Read28 may be asked for.  Numbers that were computed from
\* junk may be any; what they hold is junk all the same.
Wanted ==
    CASE pc \in {"identify", "mbr"} -> {Mbr}
      [] pc = "bpb"  -> {IF disk.parts[part] = "fat" THEN Start ELSE LastSector}
      [] pc = "sysread" -> {LastSector, Refused}
      [] OTHER -> IF Trust /\ ~(pc = "data" /\ cluster = 0) THEN {LaidOutAt}
                  ELSE {LastSector, Refused}

\* Nothing is cleared.
OverlayUncleared(mem, w) ==
    [i \in 1 .. NameLength |-> IF i <= Len(w) THEN w[i] ELSE mem[i]]

\* memset of a pointer's size and strncpy without the final zero (string.cpp:67).
Overlay(mem, w) ==
    [i \in 1 .. NameLength |-> IF i <= Len(w) THEN w[i]
                               ELSE IF i <= Cleared THEN "nul" ELSE mem[i]]

\* strcmp: the same letters up to a zero; the byte behind the name is taken to be one.
SameText(mem, other) ==
    \A i \in 1 .. NameLength : (\A j \in 1 .. i - 1 : mem[j] # "nul") => mem[i] = other[i]

\* ExecutePRG's name1 after it has looked at n entries of directory d.
Name1After(d, n) ==
    LET mem[i \in 0 .. n] == IF i = 0 THEN name1 ELSE Overlay(mem[i - 1], d[i].name)
    IN  mem[n]

\* The entries that ExecutePRG takes for the program: name, EXT, a size.
Matches(d) ==
    {i \in 1 .. Len(d) : /\ d[i].size > 0 /\ d[i].ext = cmd.ext
                         /\ SameText(Name1After(d, i), arg1)}

Least(s) == CHOOSE i \in s : \A j \in s : i <= j

\* Entries of directory d from i on that end ReadBiosBlock's walk or print a file.
Stops(d, i) ==
    {j \in i .. Len(d) : \/ d[j].kind = "end"
                         \/ d[j].kind \in {"file", "init"} /\ d[j].size > 0}

\* ReadPartitions goes on behind partition p.  ReadBiosBlock's code lies where a
\* program has been loaded over it.
GoToPartition(p) ==
    LET more == {q \in p + 1 .. Len(disk.parts) : disk.parts[q] # "none"} IN
    IF more = {} THEN pc' = "prompt" /\ part' = 1
    ELSE pc' = (IF entry = Own THEN "bpb" ELSE "lost") /\ part' = Least(more)

\* ReadBiosBlock goes on with entry i of directory d.
GoToEntry(d, i) ==
    LET stop == Stops(d, i) IN
    IF stop = {} \/ d[Least(stop)].kind = "end"
    THEN /\ GoToPartition(part)
         /\ left' = 0 /\ at' = 0 /\ dirent' = << >> /\ cluster' = 0
         /\ out' = << >> /\ buffer' = Junk /\ offset' = 0 /\ sectorsPerCluster' = 0
    ELSE LET j == Least(stop) IN
         /\ pc' = "data" /\ dirent' = d /\ at' = j
         /\ left' = d[j].size /\ cluster' = d[j].cluster
         /\ out' = << >> /\ offset' = 0
         /\ UNCHANGED <<part, buffer, sectorsPerCluster>>

(* What follows each read; r is what it brought, s the sector asked for.   *)

\* A table on the stack that was not filled may look like a table or not.
AfterMbr(r) ==
    /\ \/ r # "sector" /\ cmd.is = "lspt" /\ pc' = "prompt" /\ UNCHANGED part
       \/ cmd.is = "lspt" /\ GoToPartition(0)
       \/ cmd.is # "lspt" /\ pc' = "bpb" /\ UNCHANGED part
    /\ UNCHANGED <<dirent, at, left, cluster, offset, buffer, sectorsPerCluster, out,
                   name1, entry>>

\* A boot block that was not read, or that is none, says anything: 0 too.
AfterBpb(r) ==
    /\ pc' = "root"
    /\ IF cmd.is = "lspt"
       THEN /\ sectorsPerCluster' \in IF Trust /\ r = "sector" THEN {disk.spc}
                                      ELSE {d.spc : d \in Debris}
            /\ offset' = 0
       ELSE UNCHANGED <<sectorsPerCluster, offset>>
    /\ UNCHANGED <<part, dirent, at, left, cluster, buffer, out, name1, entry>>

\* "ls" prints through a pointer that was never set (FATFS.cpp:187-190).
AfterRoot(r) ==
    \E d \in (IF Trust /\ r = "sector" THEN {disk.dir} ELSE {e.dir : e \in Debris}) :
      CASE cmd.is = "ls" ->
             pc' \in {"prompt", "lost"} /\ UNCHANGED <<listing, name1, entry>>
        [] cmd.is = "lspt" -> GoToEntry(d, 1) /\ UNCHANGED <<name1, entry>>
        [] cmd.is = "exec" ->
             LET m == Matches(d) IN
             /\ at' = IF m = {} THEN 0 ELSE Least(m)
             /\ dirent' = IF m = {} THEN << >> ELSE d
             /\ name1' = Name1After(d, IF m = {} THEN Len(d) ELSE Least(m))
             /\ pc' = IF m = {} THEN "prompt" ELSE "load"
             /\ UNCHANGED <<part, left, cluster, offset, buffer, sectorsPerCluster, out,
                            entry>>

\* The break at the cluster's end, and one yet another sector later.
TooFarAtCluster(n) == n >= sectorsPerCluster
TooFarTwice(n) == n > sectorsPerCluster + 1

\* The code's comes a sector late, and before SIZE is counted down.
TooFar(n) == n > sectorsPerCluster

AfterData(r, s) ==
    LET b == CASE r = "sector" /\ Trust -> s [] r = "nothing" -> buffer
               [] OTHER -> Junk
        over == TooFar(offset + 1)
        rest == IF over THEN left ELSE left - 1
    IN  IF dirent[at].kind = "init"
        THEN pc' = "stopped" /\ UNCHANGED <<listing, name1, entry>>
        ELSE /\ buffer' = b
             /\ out' = IF Trust THEN Append(out, b) ELSE out
             /\ left' = rest
             /\ offset' = IF over \/ rest = 0 THEN 0 ELSE offset + 1
             /\ pc' = IF over \/ rest = 0 THEN "fat" ELSE "data"
             /\ UNCHANGED <<part, dirent, at, cluster, sectorsPerCluster, name1, entry>>

AfterFat(r) ==
    IF left = 0 THEN GoToEntry(dirent, at + 1) /\ UNCHANGED <<name1, entry>>
    ELSE /\ pc' = "data"
         /\ cluster' = IF Trust /\ r = "sector" /\ cluster # 0 THEN disk.next[cluster]
                       ELSE 0
         /\ UNCHANGED <<part, dirent, at, left, offset, buffer, sectorsPerCluster, out,
                        name1, entry>>

\* The first sector of the file is loaded, or is not, and Entry is called.  Junk
\* may do anything.
AfterLoad(r, s) ==
    LET code == CASE r = "sector" /\ Trust -> s [] r = "nothing" -> entry
                  [] OTHER -> Junk
    IN  /\ entry' = code
        /\ \/ code = Own /\ pc' = "prompt"
           \/ code # Own /\ pc' = "program"
           \/ code = Junk /\ pc' = "lost"
        /\ UNCHANGED <<listing, name1>>

After(r, s) ==
    /\ clean' = (clean /\ r = "sector")
    /\ CASE pc = "mbr" -> AfterMbr(r)      [] pc = "bpb" -> AfterBpb(r)
         [] pc = "root" -> AfterRoot(r)    [] pc = "data" -> AfterData(r, s)
         [] pc = "fat" -> AfterFat(r)      [] pc = "load" -> AfterLoad(r, s)
         [] pc = "identify" -> pc' = "prompt" /\ UNCHANGED <<listing, name1, entry>>
         [] pc = "sysread" -> pc' = "program" /\ UNCHANGED <<listing, name1, entry>>
    /\ UNCHANGED <<disk, errors, cmd, arg1, calls, strained>>
-----------------------------------------------------------------------------
NotBegun == [begun |-> "no", sector |-> Mbr]

Init ==
    /\ disk \in Disks
    /\ drive = [phase |-> "idle", op |-> "idle", words |-> 0]
         \/ drive = [phase |-> "absent", op |-> "idle", words |-> 0]
    /\ errors = 0 /\ calls = 0 /\ strained = FALSE
    /\ cmd = [is |-> "none", name |-> << >>, ext |-> ""]
    /\ pc = "prompt" /\ io = NotBegun /\ clean = TRUE
    /\ part = 1 /\ dirent = << >> /\ at = 0 /\ left = 0 /\ cluster = 0 /\ offset = 0
    /\ buffer = Junk /\ sectorsPerCluster = 0 /\ out = << >>
    /\ \E c \in {"nul", "z"} : arg1 = [i \in 1 .. NameLength |-> c] /\ name1 = arg1
    /\ entry = Own

\* A command is typed.
Type(is, name, ext, place) ==
    /\ pc = "prompt"
    /\ cmd' = [is |-> is, name |-> name, ext |-> ext]
    /\ pc' = place /\ clean' = TRUE
    /\ UNCHANGED <<disk, device, io, listing, name1, entry, program>>

\* Keyboard.cpp:511-515, 610-615 and 485: "lspt", "ls", "sysinfo -D".
List == \E is \in {"lspt", "ls"} : Type(is, << >>, "", "mbr") /\ UNCHANGED arg1

Identify == Type("identify", << >>, "", "identify") /\ UNCHANGED arg1

\* "exec", from where its arguments were taken from the line (Keyboard.cpp:627).
Exec(a) == Type("exec", a.name, a.ext, "mbr") /\ arg1' = Overlay(arg1, a.name)

\* Read28 up to the command, line 79, or Identify up to line 40.
Command ==
    /\ pc \in Reads /\ io.begun = "no"
    /\ \E s \in Wanted \ {Refused} :
         io' = [begun |-> IF drive.phase \in {"idle", "error"} THEN "heard" ELSE "unheard",
                sector |-> s]
    /\ drive' = Commanded(drive, "in")
    /\ UNCHANGED <<disk, errors, cmd, pc, clean, listing, memory, program>>

\* Read28's first test, line 67.
RefuseSector ==
    /\ pc \in Reads /\ io.begun = "no" /\ Refused \in Wanted
    /\ After("nothing", Refused)
    /\ UNCHANGED <<drive, io>>

\* The rest of Read28 or Identify, from the loop that waits for the drive on.
Transfer ==
    /\ pc \in Reads /\ io.begun # "no" /\ drive.phase # "busy"
    /\ \E r \in Brings(drive, io.begun = "heard") :
         /\ After(r, io.sector)
         /\ drive' = IF r = "nothing" THEN drive
                     ELSE Taken(drive, WordsMoved(CountFor(pc)))
    /\ io' = NotBegun

\* What runs at Entry reads a sector: system call 6.
SysRead ==
    /\ pc = "program" /\ calls < MaxCalls                            \* BOUND
    /\ pc' = "sysread" /\ calls' = calls + 1
    /\ UNCHANGED <<disk, device, cmd, io, clean, listing, memory, strained>>

\* It writes one: system call 5, Write28.  The words go out right behind the
\* command, and those that find the drive still busy are lost.
SysWrite(count) ==
    LET n == WordsMoved(count)
        ready == [phase |-> "out", op |-> "out", words |-> Words]
    IN  /\ pc = "program" /\ calls < MaxCalls                        \* BOUND
        /\ calls' = calls + 1
        /\ IF count > 2 * Words THEN UNCHANGED <<drive, strained>>
           ELSE /\ strained' = TRUE
                /\ IF drive.phase \notin {"idle", "error"} THEN drive' = Given(drive, n)
                   ELSE \/ drive' = Commanded(drive, "out")
                        \/ \E lost \in 0 .. n - 1 : drive' = Given(ready, n - lost)
        /\ UNCHANGED <<disk, errors, command, listing, memory>>

\* It returns to the shell.
Return ==
    /\ pc = "program" /\ pc' = "prompt"
    /\ UNCHANGED <<disk, device, cmd, io, clean, listing, memory, program>>

Reading == Command \/ RefuseSector \/ Transfer

Program == SysRead \/ Return \/ \E count \in Counts : SysWrite(count)

Next ==
    \/ List \/ Identify \/ \E a \in Typed : Exec(a)
    \/ Reading \/ Program
    \/ DriveGetsReady

\* The kernel's own code runs on and the drive does not stay busy.  Programs owe
\* nothing: one may never call and never return.
Spec == Init /\ [][Next]_vars /\ WF_vars(Reading) /\ WF_vars(DriveGetsReady)
-----------------------------------------------------------------------------
\* A command that the drive does not hear, since it is busy or has words left,
\* comes only after a program wrote: Write28 waits neither before its words nor
\* after them (HDD-ATA.cpp:127-146), while every read leaves the drive idle,
\* whatever count it was given (109).
UnheardOnlyAfterWrite == io.begun = "unheard" /\ drive.phase # "absent" => strained

\* Two names that the stale letters of a longer one may make the same.
Alike(a, b) ==
    \/ a = b
    \/ /\ Len(a) >= Cleared /\ Len(b) >= Cleared
       /\ SubSeq(a, 1, Cleared) = SubSeq(b, 1, Cleared)

\* exec runs the first sector of a file with the extension and the name that were
\* typed or, if that name has four letters or more, of one that shares its first
\* four: memset clears as many bytes as a pointer has (FATFS.cpp:219,
\* Keyboard.cpp:628), and the rest is what an earlier name left.
ExecRunsAlike ==
    pc = "program" /\ cmd.is = "exec" /\ Trust /\ io.begun = "no" /\ calls = 0 =>
        LET e == dirent[at] IN
        /\ Alike(e.name, cmd.name) /\ e.ext = cmd.ext
        /\ entry = FirstSector(e.cluster)

\* The n clusters of a file on disk d that begins with c.
ChainFrom(d, c, n) ==
    LET chain[k \in 1 .. n] == IF k = 1 THEN c ELSE d.next[chain[k - 1]]
    IN  chain

\* The clusters that a file needs.
ClustersOf(size, spc) == (size + spc - 1) \div spc

\* The sectors of a file, and behind each of its clusters but the last the sector
\* that happens to lie there.
FileAndStrays(e) ==
    LET n == ClustersOf(e.size, disk.spc)
        printed == disk.spc + 1    \* of a cluster that another follows
    IN  [m \in 1 .. e.size + n - 1 |->
           FirstSector(ChainFrom(disk, e.cluster, n)[(m - 1) \div printed + 1])
             + ((m - 1) % printed)]

\* Every file has as many clusters as its size needs.
ChainsWhole ==
    \A d \in Disks : \A i \in 1 .. Len(d.dir) :
        LET e == d.dir[i]
            n == ClustersOf(e.size, d.spc)
        IN  e.kind \in {"file", "init"} =>
              \A k \in 1 .. n : ChainFrom(d, e.cluster, n)[k] \in Clusters(d.spc)

\* lspt prints all of a file in order, with one stray sector behind each full
\* cluster that another follows, and nothing else (FATFS.cpp:117-162).
PrintsFileAndStrays ==
    pc \in {"data", "fat"} /\ Trust =>
        /\ IsPrefix(out, FileAndStrays(dirent[at]))
        /\ left = 0 => out = FileAndStrays(dirent[at])

\* A file of lspt's that is never counted down: its clusters have no sectors, so
\* each sector breaks the loop first (FATFS.cpp:154).
NeverCountedDown ==
    cmd.is = "lspt" /\ pc \in {"data", "fat"} /\ left > 0 /\ sectorsPerCluster = 0

\* A command comes back to the prompt or starts a program, which owes nothing: the
\* walks over table, directory and chain all end (FATFS.cpp:79, 117, 216), with
\* whatever the drive brings.  But ls writes where nothing was reserved, lspt does
\* not survive a program (Entry's 512 bytes reach into ReadBiosBlock, 51-60), it
\* stops at what it takes for INIT, and it prints for ever where a boot block that
\* it could not read, or that is none, gives clusters of no sectors.
CommandReturns ==
    pc # "prompt" ~> \/ pc = "prompt"
                     \/ pc = "program" /\ entry # Own
                     \/ pc = "lost" /\ (cmd.is = "ls" \/ entry # Own)
                     \/ pc = "stopped" /\ cmd.is = "lspt"
                     \/ NeverCountedDown /\ ~Trust
=============================================================================
