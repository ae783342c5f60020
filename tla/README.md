# SectorOS in TLA+

SectorOS is a small 32-bit kernel in C++ and assembly: no processes, no tests,
one processor, devices that interrupt, and a shell that runs inside the
keyboard's interrupt handler. What can go wrong in it is mostly a question of
who runs between which two lines. This directory states what its parts promise,
checks it with TLC on small instances, and proves with TLAPS, for every instance,
what matters most about the heap, the interrupts, the network objects, TCP, the
network card, the shell, the disk commands and the clock.

Run things from this directory:

    tlc -workers 2 -config MCHeap.cfg MCHeap     # any run listed below
    tlapm HeapProofs.tla                         # the proofs about Heap; likewise the others

## 1. The system's parts

| part | source | state it keeps | operations | talks to |
|---|---|---|---|---|
| heap | `Memory/MemoryManagement.cpp` | doubly linked chunk list, `first` | MemAllocate, MemFree, MemReallocate | every part that buffers |
| interrupts | `CPU/Interrupts.cpp`, `interruptstab.s` | IDT, `handlers[256]`, `ActiveInterruptManager`, the 8259s' in-service lines | Activate, Deactivate, HandleInterrupt | all drivers, system calls |
| tasks, system calls | `kernel/MultiTask.cpp`, `CPU/syscall.cpp` | `tasks[256]`, `numTasks`, `currentTask` | AddTask, SwitchTask, Schedule, int 0x80 | the interrupt's stack frame |
| boot | `kernel/kernel.cpp:2126-2337` | where kernelMain is; the network objects on its stack | the stages, the network block, the prompt | everything |
| network card | `Drivers/AM79C973.cpp` | two rings of 8 descriptors, two indices, CSR0 | send, receive, HandleInterrupt | the card by shared memory; EtherFrame |
| EtherFrame, ARP, IPv4, ICMP | `Network/` | handler tables, the ARP cache | constructors and destructors that register, On...Received, Resolve, Send | the card's driver below, TCP and UDP above |
| TCP | `Network/tcp.cpp` | table of sockets, `freePort` | Connect, Listen, Send, Disconnect, OnInternetProtocolReceived | IPv4; the web server's handler |
| web server | `kernel/kernel.cpp:2057-2115` | none | answer a GET, disconnect; the shell's `wserver` | TCP |
| UDP | `Network/udp.cpp` | table of sockets | Connect, Listen, Send, Disconnect, receive | IPv4 |
| keyboard and shell | `Drivers/Keyboard.cpp`, `Shell/` | `key_buffer[256]`, shift, text mode, environment | one key, one command line | console, tasks, web server, disk |
| console | `kernel/kernel.cpp:1529-1760` | cursor, screen, colours | printf, scrolling | screen memory |
| JD1618 | `loaders/JD1618.cpp` | registers, flags, memory | load, run, one instruction | console; nothing in the kernel starts it yet |
| FAT, partitions, ATA | `Filesystem/`, `Drivers/HDD-ATA.cpp` | boot parameters; the drive's registers | list, read; identify, Read28, Write28, Flush | the shell |
| drivers, PCI | `Drivers/Driver.cpp`, `Hardcom/pci.cpp` | `drivers[255]` | AddDriver, activateall, SelectDrivers | boot |
| clock, mouse | `Drivers/RTC.cpp`, `Drivers/Mouse.cpp` | last time read; packet offset | read_rtc; one byte | console |

What is hard to test in it: handlers that interleave with kernelMain (the
second `Activate`, a preempted `send`, objects built and destroyed with
interrupts on), loops that wait for something only an interrupt could bring
(`Resolve`, `Socket::Send`, `wserver`), long sequences of calls (the heap's
list), and segments lost, repeated or reordered. `PROJECT.json` lists each
hazard at its line, with the properties that watch over it.

What makes the parts correct:

* heap: blocks never overlap, lie in the heap, and the list always ends, until the
  handler's calls and kernelMain's get into each other's;
* interrupts: no two handlers are in their bodies at once but the clock's over a
  shell command that plays a sound; every interrupt is acknowledged once;
* tasks: a switch goes to a task that exists;
* card: frames are handled and sent in order, once, and none is stranded;
* protocol objects: a frame reaches only objects that are whole, by an index in their table;
* TCP: what is delivered is a prefix of what was sent, no segment takes a state back,
  no connection is reset without a cause, a request is answered;
* keyboard, shell, console: Enter runs what the screen shows, an option is the
  line's own, no loop over the keys leaves the buffer;
* disk, file system: the drive hears every command, a walk over a directory or a
  chain of clusters ends, and what is read, printed and run is the file's;
* emulator: a run leaves nothing behind for the next, and the loader returns;
* clock: what is printed is what the clock showed, but for the zeros.

## 2. Modules

| module | models | how |
|---|---|---|
| `Heap` | `MemoryManager` | `chunk` is the header at every address, `first` the list's head. `MemAllocate` starts a search, `NextChunk`, `NoneFits` and `Find` are the turns and exits of its loop, so that a cyclic list is a search that never ends; `Take` cuts the chunk it found. `MemFree` marks the chunk and `Merge` links it, in the code's three ways (`IntoPrevious`, `IntoNext`, `ToFront`). Each caller, kernelMain and the handler that interrupts it (`HandlerEnters`, `HandlerReturns`), has its place in them in `call`; `since` tells whether they have disturbed each other. |
| `Allocator` | what the heap promises its callers | the abstract specification: each caller's request is granted above all that was ever granted, or refused if it is too large, and only the last block is freed; nothing more is said once it is broken. `Heap` implements it with the blocks held, the requests searched for, the address behind all blocks and `Disturbed` (`Promise`). |
| `HeapProofs`, `KernelProofs`, `NetStackProofs`, `TCPProofs`, `NicProofs`, `StorageProofs`, `ClockProofs`, `ShellProofs` | | the proofs about the module each is named after |
| `TCP` | `tcp.cpp`, and the web server's handler | two hosts, each with the code's socket table; one action per public operation (the client may send once its socket is open, and disconnect in any state, as often as it likes up to `MaxDisconnects`) and one operator per branch of the receive handler's switch. The network (external) keeps a sequence of segments for each host and may lose, repeat or reorder `MaxFaults` of them. |
| `Nic` | `AM79C973.cpp` | the rings shared by card (external) and driver. The interrupt handler is split where the card can act (entry, each turn of the receive loop, the acknowledgement); a `send` of the main line is split at lines 151 and 152. |
| `Kernel` | interrupts, tasks, boot after the first `Activate`, sounds (`wait` turns interrupts on and halts), the shell's `tsk`, the commands that halt the machine and those that keep the processor (`wserver`, `spi`, a program, a loop past the line) | who runs is a stack of handlers over kernelMain or a task; a handler is in its body until `Acknowledge` and on its way out until `HandlerReturns`. The 8259s (external) deliver the most urgent pending line if nothing as urgent is in service. |
| `NetStack` | the network block of kernelMain with EtherFrame, ARP, IPv4 and ICMP | each object goes from *base* (registered, base class's virtual functions) over *raw* (own functions, fields unset) to *ready*, and back to *base* and *dead*. A frame is one step through the tables; the card's handler is split where frames can arrive. |
| `Shell` | keyboard, key buffer, command line, prompt, and the console as the shell uses it | a key is one action, as it is one interrupt. Command names and file names are one cell and one column. `row` and `x` are the cursor's row, on which `Alt` and `OthersPrint` (the card's handler, kernelMain before its prompt) write what is not stored; the ghosts `line` and `rubbed` are what the user believes to have typed. A command is where its loop over the cells starts (`LoopsFrom`), which cells it follows as pointers (`Followed`), and what it leaves (`Finish`). |
| `Storage` | `HDD-ATA.cpp`, `MSDOSPT.cpp`, `FATFS.cpp`, the shell's `lspt`, `ls`, `exec`, `sysinfo -D`, and the system calls of a program that `exec` started | `pc` is the read that comes next. A read is two steps, `Command` and `Transfer`, between which the drive (external) may get ready or fail; what the caller does with the answer is part of `Transfer` (one operator per place, `AfterMbr` to `AfterLoad`). `arg1` and `name1` are the memory at 0x550 and 0x510 with the letters earlier commands left there, `entry` the code that is run. A table that was not read holds what the stack had (`Debris`): either disk's tables, or zeros. |
| `JD1618` | `loaders/JD1618.cpp` | a turn of the instruction loop or of the loader's loop is an action, one action per group of instructions. |
| `Clock` | `RTC.cpp`, `PrintDate`, `printTime`, `INTTOCHARPOINT` | kernelMain's reading is split between the index port and the data port; the timer's goes through without kernelMain in between. `literal` is the byte whose digits stand in the one array `"00"` that `INTTOCHARPOINT` returns and `printHex` writes. The clock (external) raises its flag and then changes all registers. The shell's prompt, which prints the date too, is read with interrupts off or, after a sound, under the same interrupts as kernelMain's. |
| `MCHeap`, `MCTCP`, `MCKernel`, `MCShell`, `MCStorage`, `MCJD1618`, `MCClock` | | the values of the constants for TLC |

`Nic` is the lower half of `NetStack`'s `inbox`: `Nic` shows that the frames
the handler is given are the sound ones in order of arrival, and `NetStack`
takes them one at a time. `TCP` stands on `NetStack` the same way: a segment is
one step because the whole receive path runs in one interrupt with interrupts
off. The one exception that `Kernel`'s `OnlyTheClockNests` leaves is the clock's
handler over a shell command that sounds, and neither touches the card's tables.

Some definitions stand next to one of a similar name with a comment that begins
by saying what it does differently, for instance `HandOutUnmarked` beside
`HandOut`, or `DeliverableUnmasked` beside `Deliverable`. They are plausible
mistakes in the same place of the code. No specification uses them; put in
place of the real definition, each makes a run report the property that
`PROJECT.json` pairs it with. They are how we know that a property notices
something.

## 3. Runs

| run | shows | bounds |
|---|---|---|
| `heap` | with a handler that comes in anywhere, and until the heap is disturbed: it implements `Allocator` (blocks lie above all that was ever given out, and only giants are refused), the list is the held blocks and one free chunk, every search ends | a heap of 11 units with one-unit headers, requests of 1, 2 or more than the heap, addresses up to 15: the free chunk can creep four units past the end, through several rounds of allocation and free; one request after the heap was disturbed, enough for a search that goes round a cycle |
| `heap_bounds` | **finding**: a block beyond the heap's end | the same |
| `tcp` | delivery in order, resets only for a cause, states never go back, the spin in `Socket::Send`, a lone request is answered | one connection, two listeners, three sends, two faults; sequence numbers start two below the wrap |
| `tcp_two` | one socket per connection; the server's end opens after the client's | two connections, two listeners, one fault |
| `tcp_zeros` | **finding**: in-order data refused after trailing zeros | one connection, no faults |
| `nic` | handling in order, which frames stay whole, what strands a frame, that a sent frame leaves | rings of 3, four arrivals and one send of the main line beside the answers: the ring wraps, fills and overruns |
| `kernel` | which handlers nest, where acknowledgements go astray, who is served | timer, keyboard, a card on the slave; task numbers -1 to 3; two hlts in a sound; one handler interrupted on its way out |
| `netstack` | frames meet only whole objects except in one window and behind two tables, tables never name the dead, through which layers an answer goes, when `Resolve` ends | a cache of 2, one address and the broadcast address, three stray frames |
| `shell` | Enter runs what is shown, what sends the shell astray, whose options a command takes | a buffer of 5 cells, a prompt of at most 2 cells, a name of 3 columns, 7 columns; one key without a character in a line; a program's output ends in column 2. The buffer is filled, a line wraps, a prompt overflows, and "exec" with all its arguments still fits |
| `storage` | which commands the drive misses, which file `exec` runs, what `lspt` prints, that a command returns | disks with up to five directory entries and clusters of one or two sectors; a sector of 2 words, names of 3 letters of which 2 are cleared, one error of the drive, two system calls by a program |
| `emulator` | what one run leaves for the next, when the loader does not return | a memory of 512 bytes, so that addresses wrap and the offset register reaches beyond a byte; programs that use every instruction; three runs; an offset register of 0 or 3 at first |
| `clock` | the time and the date on the screen are ones the clock showed, with zeros as the byte last printed in hex, or interrupts struck between two port accesses | the clock's 12- and 24-hour modes; the last seconds of a month and the noon of a 27th; two interrupts of the timer; two bytes that `printHex` prints, one with a letter |

All runs but the heap's turn deadlock checking off: the inputs are bounded, so
a run may come to an end, and a kernel whose stack is lost or whose server
spins does stop.

The findings:

* `heap_bounds`: `MemFree` merges a block into the free chunk behind it by
  adding its size there (`MemoryManagement.cpp:70`), but the chunk's header
  stays up where it was. Its end moves past the heap by what was freed, and so
  do the blocks taken from it.
* `tcp_zeros`: trailing zero bytes are not acknowledged (`tcp.cpp:203-207`), and
  the next segment is refused as "data in wrong order" (line 213).

Two more disagreements have no run of their own. The loop of `StartWEBServer`
(`kernel.cpp:2108`) holds the processor in the keyboard's interrupt with
interrupts off, so that the server started by "wserver" hears no card; in
`LineIsServed` it is one of the ways in which the processor is lost. And
`INTTOCHARPOINT`, which "Can Support up to number 400" (`kernel.cpp:135`), prints 27
as 26, 134 and 144 to 149 as NaN, and 0 as whatever byte `printHex` printed last, since
both use the one literal "00" (lines 142 and 1781); `LooksLike` in `Clock` names the
first and the last, and a clock's time has both.

The other hazards are stated as properties that say exactly when the bad thing
can happen. `OrphanHasACause` (an acknowledgement is lost in two ways only) and
`StrandedOnlyWhenLate` would fail if a third way existed. `OptionIsTheLines` allows
one exception: "sd" whose option was typed and rubbed out still takes it.
`ExecRunsAlike` says which other file `exec` may run, and `PrintsFileAndStrays` which
other sectors `lspt` prints. `DateWasShown` says what it takes to print a date that
never was: one interrupt in a window with the clock going on, or two.
`LostHasACause` lists five ways to lose the shell, each of them a loop or a copy
without a bound.

### Bounds that are not the code's

`MaxAddress`, `MaxLater` (Heap), `MaxListens`, `MaxConnects`, `MaxSends`,
`MaxDisconnects`, `MaxFaults` (TCP), `MaxArrivals`, `MaxSends` (Nic), `MaxTails`
(Kernel), `MaxStrays` (NetStack), `OutputEnds` and the two guards on keys (Shell),
`MaxErrors`, `MaxCalls` (Storage), `MaxRuns` (JD1618), `MaxInterrupts` and the length
of a history (Clock). Each stands in a guard marked `BOUND`. The heap's header is
one unit instead of 16 bytes, the ring has
3 descriptors instead of 8, the ARP cache 2 entries instead of 128, a sound two
hlts instead of 16 or 6, the key buffer 5 entries instead of 256 and the prompt 2
instead of 30, with the boot's prompt one column wider than that as in the code,
sequence numbers have 32 values instead of 2^32, a sector has 2 words instead of 256,
a name 3 letters of which memset clears 2 instead of 8 and 4, the emulator's memory
512 bytes instead of 65536: none of the code compares these with
anything else, and the smaller ones make wrapping and filling frequent.

### What the heap's callers do

The heap has no lock and two callers. kernelMain takes its own block and its drivers'
with interrupts off and keeps them; with interrupts on (`kernel.cpp:2205`) it takes and
frees a buffer for each frame it sends (`EtherFrame.cpp:68-82`; above that `IPV4::Send`
and `TCP::Send` hold theirs, so that each caller frees its own last block). A handler can
come in between any two of its steps and runs to its end before kernelMain goes on. It
sends frames as kernelMain does, and it keeps blocks: the socket of "wserver", and the
list that "ls" makes and forgets (`FATFS.cpp:182`, `list.cpp:9`).

Nothing orders the two, and two things break the heap; the ghost `since` marks them:

* a handler is given a block while kernelMain is inside `MemAllocate` or `MemFree`. If
  kernelMain had found its chunk, both get the same one; if it had marked a chunk free,
  that chunk is given out or is no longer the last.
* a block is freed that is not the last one: "ls" typed between the two calls of a send
  is enough. Its neighbours are all held, so `MemFree` takes `ToFront`, which puts the
  chunk at the head without taking it out of its place, and the list is a cycle.

Until then the heap keeps its promise, with handlers that come, allocate, free and return
at every other point; afterwards nothing but the types is claimed, and a search may
indeed run for ever. An undisturbed heap never takes `IntoPrevious` or `ToFront`; a
disturbed one takes both. Handlers inside a handler, which only a sound lets in, are not
told apart from it.

`MCShell` has a view: it leaves out the row once a stray key, a wrap or other output has
spoiled it, the line after a stray key or outside the shell, and of the options rubbed
out all but the one whose cell is left. No property asks for them there, and no step
depends on them but for what else spoils the row.

## 4. Fairness

* `Heap`: weak fairness of a handler's search and strong fairness of kernelMain's, which
  every handler stops: the loop is straight-line code. Nothing is assumed of the handlers'
  return, so that kernelMain's search is only said to end if they always do return.
* `TCP`: a segment that is on its way and not lost arrives. Nothing is assumed
  of the applications.
* `Nic`: the card sends what it owns, an interrupt that is raised is served and
  its handler runs on, and a `send` that began goes on.
* `Kernel`: strong fairness of the code at each depth of the stack and of each
  line's delivery, since interrupts switch them off and on again: devices do not
  interrupt so fast that nothing else ever runs. Weak fairness of the timer's
  ticks, which are what ends a hlt. A shell command that need not return is an action
  of its own (`StartWEBServer`, `CommandSpins`, `StopForGood`, `RunsAway`), and nothing
  is assumed of `SpinEnds`; `Acknowledge` is the end of all other handlers, which are
  loops over tables, the line or the screen. Of kernelMain only the code around the two
  Activates is taken to go on (`Activating`), since `Resolve` between them may not. An
  `exec`'d program is taken to leave the interrupt flag as it finds it, off.
* `Storage`: the kernel's reads go on (`Reading`), and the drive does not stay busy.
  Nothing is assumed of a program: it may never call and never return.
* `JD1618`: the loader's loop runs on. Nothing is assumed of the caller, of a program
  that runs, nor of what wakes the host from a hlt.
* `Clock`: none; it has no liveness property.
* `NetStack`: kernelMain and the card's handler run on, and an interrupt that is
  raised is taken; the network answers or loses a request. That a frame is handled is
  not assumed: one that comes behind the handler's last look waits for another
  (`Stranded`).

## 5. What is proved

`HeapProofs` proves, for every heap size, header size and set of requests that
satisfy `HeapAssumption`: `TypeOK` in every reachable state, and until the heap is
disturbed `ListIsHeldThenFree`, that held blocks are disjoint (`HeldDisjoint`), and that
`Heap` implements `Allocator` (`Refinement`).

`ListIsHeldThenFree` is not inductive by itself: nothing in it says that the
header made by splitting the free chunk does not fall on another chunk's, or that the
chunk which is cut is still the free one. The invariant `IInv` adds

* `Ascending`: held chunks lie in the order they were taken, each behind the end
  of the one before, and the free chunk's header behind them all;
* `Accounted`: what was outstanding when each block was taken fits the sizes, so
  that a request that passes the callers' test always leaves room for a split;
* `Fresh`: before the first block the list is the constructor's one chunk;
* `Searching`: each caller's cursor stands on a chunk of the list, or past its end for a
  request larger than the heap, and a chunk that was found still fits;
* `Nested`: a handler that is not running is inside no call and has nothing to free, nor
  has one that came inside kernelMain's call; the first block is never freed;
* `FreesLast`: `MemFree` works on the last block, which is its caller's.

From `Nested` it follows (`OtherIsIdle`) that every step that changes the list without
disturbing it finds the other caller outside, so that what is known of a cursor cannot go
stale. The types, with `FreesItsOwn`, are an invariant of their own (`TypedKeeps`), which
holds in the disturbed heap too. Each action's preservation is a lemma
(`MemAllocateKeeps`, `NextChunkKeeps`, `FindOrNoneKeeps`, `TakeKeeps`, `MemFreeKeeps`,
`MergeKeeps`, `HandlersKeep`), with what it does to the headers proved first
(`TakeHeaders`, `MergeHeaders`); `Invariance` puts them together. TLC has checked `IInv`
on the instance of `heap` as well.

In `Refinement` a chunk that is handed out is the free one, whose header lies at or above
`top` by `IInv` (`BlocksTaken`); `Merge` only shortens the list (`BlocksFreed`); a search
that passes the free chunk asks for more than the heap has (`OnlyGiantsPass`); a search's
turns are stutters. `StepRefines` has one step per action.

`KernelProofs` proves, for any lines, sounds, task numbers and `MaxTails` that satisfy
`KernelAssumption`: `TypeOK`, `OnlyTheClockNests` and `OrphanHasACause`. Neither of the
last two is inductive: a line that is delivered is compared with what the controllers
take to be in service, not with the handlers on the stack. The invariant ties the two
together:

* `OnlyKeyboardIsInterrupted`: only the keyboard's handler ever runs with interrupts on,
  so that every handler but the last on the stack is the keyboard's;
* `Nested`: a handler is more urgent than those in their bodies that it interrupted;
* `OpenInService` and `MoreUrgentAbove`: the line of a handler in its body is in service,
  and what else is as urgent is the line of a handler above it. Hence one
  end-of-interrupt command ends exactly the line of the handler that sends it
  (`OneCommandOneLine`), although the command names no line;
* `Explained`: what is in service without a handler was lost in one of the two ways;
* `AloneUnmanaged`: no handler is on the stack while Activate has no manager;
* `SpinsInHandler`: a command that spins is the keyboard's handler's, still in its body
  and with interrupts off, so that what ends it acknowledges the keyboard's line.

A sound's beats and `halted` do not matter to any of these, so that most
steps are one lemma (`StackKept`); those that push, pop or acknowledge have their own.
With `Nested`, the only line more urgent than the keyboard's is the timer's, and all but
the last handler are the keyboard's: `ClockNests` follows.

`NetStackProofs` proves, for any size of the cache, any addresses and any `MaxStrays`:
`TypeOK`, `NoTableNamesTheDead`, `WildHasACause` and `AnswersNeedTheirLayers`.
The invariant says that an object is in its table from the first step of its
construction to the last of its destruction (`TablesNameTheLiving`), and that all below
an object that is begun, and not yet gone, are whole (`BuiltFromBelow`, `AllWhole`,
`DestroyedFromAbove`, `AllGone`, one for each part of the block). What a frame comes to
is then a matter of the layers it passes (`WildNeedsACause`, `AnswerNeedsLayers`).

`TCPProofs` proves, for any payloads, bounds and size of the sequence numbers' space:
`TypeOK`, `OneSocketPerClient`, `SpinsOnLaterRequest`, `OpenOnBothEnds`,
`NoResetWithoutCause`, `DeliveredIsPrefix` and, of every step, `NeverGoesBack`. It
assumes that `freePort`, which has 16 bits, does not wrap: no more than 64512 calls of
`Connect`. The invariant says what each side may take a segment or a socket to mean:

* `ClientTable`: a client's port is its socket's place in the table, so that a port
  names one socket;
* `ToServer`, `ToClient`: a segment with ACK and without FIN, however old, comes from or
  goes to a client's socket that has been opened (a FIN may come from one that was not:
  `Disconnect` tests no state); a request goes to the server only;
* `ServerTable`: hence the server's end opens only after the client's, and it is in
  FIN_WAIT only if a request was handed up;
* `ListenersLast`: whoever takes a listening socket takes the first one. The lookup
  takes the first match, and a socket that serves the client comes before those that
  still listen; so a repeated SYN never gets a second socket.

`NeverGoesBack` is that invariant and a walk over the receive handler's cases
(`Forward`): a case that would go back needs a segment that cannot come. It is said of
segments. The client's own `Disconnect` sets FIN_WAIT1 whatever the state was
(`tcp.cpp:322`), so the usual close of a connection that the other end has closed does
go back, and waits for a second FIN; the property names that one exception. A call of
`Disconnect` before the connection is open is also one of the causes for a reset that
`NoResetWithoutCause` lists: its FIN meets a socket in SYN_RECEIVED, or the SYN and ACK
a socket in FIN_WAIT1, and either is answered with RST (lines 144 and 172).

`NoResetWithoutCause` needs a second invariant on top of that one, `Quiet`: while
`NoCause` holds (nothing lost or repeated, each client has sent at most once and has not
left before it was open), the
conversation of every client's port is calm (`CalmOn`). Its segments stay in line
(`InLine`): all but plain ACKs and FINs come once, and no data comes behind a FIN. The
sockets have the numbers that the next segment carries (`ClientCalm`, `ServerCalm`), and
each segment under way fits the sockets it finds (`ToServerCalm`, `ToClientCalm`). While
the client has opened and the server's socket is still SYN_RECEIVED, the handshake's ACK
is on its way, before any FIN (`Acked`). One lemma for each step of a conversation
(`ServerAcked`, `ClientTold` and the like) speaks of one port alone; the rest is that the
other ports' segments are not touched. A cause does not go away (`NoCauseBefore`), so
that where there is none now there was none a step before.

`DeliveredIsPrefix` holds whatever the network loses, repeats and brings late, but not for
every value of the constants. With too few sequence numbers an old segment is taken for a
new one; and the code moves the acknowledgement to behind the last byte that is not zero
(lines 203-207), so that a payload of zeros only takes it back, to before bytes that were
handed up. `NumbersSuffice` says what it takes: no payload is all zeros, and a
connection has more sequence numbers than bytes and FINs (a client that disconnects
again and again counts every FIN it is then sent). With the code's 32 bits these are
connections of less than 4 GB. `MCTCP` has TLC evaluate it for the constants of the three
runs.

The invariant, `AllInStep`, says of each port where in the sequence numbers the payloads
of its client stand: payload `k` starts with byte `b[k]`, and no two of the bytes that are
or may be sent have the same number (`Starts`, `AtFacts`). A data segment, however old,
starts where its payload starts (`ToServerInStep`). A socket that may still hand something
up waits for the byte behind what it has handed up, without the zeros at the end of the
last payload (`Behind`): the number is the start of the next payload, or lies inside the
last, and then no segment fits any more (`NextPayload`). The server answers
once and leaves, so that in the other direction there is one payload (`Answered`).
`HandlerDoes` sorts the receive handler's cases by what they do to a socket (`Opens`,
`IsOpened`, `GoesOn`, `TakesText`, `TakesRequest`), and one lemma for each says that the
conversation stays in step.

TLC has checked `Quiet` and `AllInStep` on the instance of the `tcp` run.

`NicProofs` proves, for rings of any size and any number of frames: `TypeOK`,
`HandledInOrder` and `StrandedOnlyWhenLate`. The descriptors that wait are an arc of the
ring from the driver's index to the card's (`CardAhead`), and hold the frames behind those
taken, in order (`FlagsFollow`); a frame that waits is either in front of the handler's
next look, or its interrupt is still to come, or it came late (`WillLook`).
`OnlyNewestIntact` needs one more hypothesis, `RowsOverlap`: a frame laid into any row
reaches over all others. With the code's 8 rows of 8 bytes (`AM79C973.h:64`) this is
so for frames of more than 64 bytes; one of 64 leaves the first row alone when it is laid
into the last.

`StorageProofs` proves, for any disks, sector sizes and names that satisfy
`StorageAssumption`: `TypeOK`, `UnheardOnlyAfterWrite`, `ExecRunsAlike` and
`PrintsFileAndStrays`. A read takes
all its words out of the drive, so that until a program has written the drive is ready
between two reads (`ReadsHeard`, `ReadMovesAll`). `exec` lays the name over what the
memory at 0x550 held and compares what lies there with the directory's names, which are
laid over memory likewise: up to its end a name hides what was there before
(`SameNames`), so what `exec` takes is a name that the code cannot tell from the one
typed (`Executing`). `TypeOK` needs that a command's sectors are the drive's, which holds
as long as all it has read so far was read (`Layout`, under `Trust`).

`CommandReturns` names one way for `lspt` never to end (`NeverCountedDown`): the boot block
was not read, or is another file system's, and has 0 where the sectors per cluster should
be. With a FAT file system's own boot block the number is the disk's (`Layout`), and the
walk ends.

`PrintsFileAndStrays` is for disks whose files have all the clusters that their sizes need
(`ChainsWhole`, which `MCStorage` has TLC evaluate for its disks); without that `lspt`
follows the table into whatever it holds. What is printed is given by place: place `m`
belongs to the cluster `(m - 1) \div (spc + 1) + 1` of the chain, and the last place of
each cluster is the stray sector. The invariant `Printing` says in which cluster `lspt` is
and how far (`InCluster`), that `left` and the sectors printed add up, and that what has
been printed is right at every place so far.

`ClockProofs` proves `TimeWasShown` and `DateWasShown` for clocks of any mode, any bytes
printed in hex, and histories of any length in which no field comes back to a value it
has left (`NeverReturns`): a reading within a stretch of less than a minute. Without that the two
passes could agree on a moment that never was. Some moment lies between a reader's two
passes (`ReadsRight`); what a register held before that moment and after it, it held then.
If the timer's reader has struck between a port's selection and its reading, what comes is
the timer's last port (`Disturbed`); with the clock standing still that spoils one field
of one pass, and of each field one of the two passes is right (`OneIsRight`); since they
must agree, both are.

`ShellProofs` proves, for any commands, keys, leftovers and sizes that satisfy
`ShellAssumption`: `TypeOK`, `ShownIsRun`, `LostHasACause` and, of every step,
`OptionIsTheLines`. `ShownIsRun` is inductive only in two halves with different
conditions. `BufferIsLine` holds even after the line has wrapped, and keeps what was
rubbed out where an option stands, whatever is printed; `RowIsLine` needs one row that
only keys with a character write on and a prompt that is at least as wide as it has
cells. Backspace takes a column from the row exactly when it takes a cell from the
line, but for an empty line, where the row may lose some of the
prompt. When Enter is pressed the cells are the line's and then Enter (`CellsAreLine`),
so that a loop that starts inside the line ends there and follows only characters
(`LoopInLine`); `LostHasACause` lists the lines in which a command's loop starts behind
the end.

TLC has checked the inductive invariants of these five modules on the instances of
their runs too; the clock's histories there satisfy `NeverReturns`. `MCShell` has TLC
compare `PutAll`, which says at once where a text ends up on the row, with the code's loop over
its characters.

Only model-checked are:

* all liveness properties (`SearchReturns`, `RequestIsAnswered`, `SentReachesWire`,
  `LineIsServed`, `ResolveReturns`, `LoadReturns`, `CommandReturns`): the prover handles
  neither fairness nor ENABLED;
* `TypeOK` and `RunIsRepeatable` of `JD1618`: no proof was attempted. The kernel links the
  emulator and does not call it yet, so that what runs came first; and that two runs with
  the same start have the same outcome is a comparison of two histories of any length.

## 6. Plan

In this order; the first part was done first because everything allocates and
everything interrupts.

1. Done: `Heap`, `Nic`, `TCP`, `Kernel`, `NetStack`, `Shell`, `Storage`, `JD1618`, `Clock`;
   `Allocator` and the refinement; the proofs about all of them but `JD1618`.
2. Left of `Shell`: shift, the rows above the cursor's, scrolling, and text mode's
   own cursor. Left of `Storage`: which of the four drives is asked.
3. Proofs: `TypeOK` of `JD1618`, and that a turn of its loop is a function of what the run
   was given, the step that `RunIsRepeatable` rests on.

Not modelled, and why:

* `Flush`, `MemReallocate`, `Schedule`, `GetMBR`, the custom shell and the list's
  operations but its constructor have no caller, and kernelMain makes no provider for
  UDP. Their code does not run in this program.
* The mouse's driver is made and added (`kernel.cpp:2183-2188`); what it keeps, the offset
  in a packet and the cursor's place, meets nothing else but the screen.
* The driver table and the PCI scan run once, before interrupts are on, over constant
  tables; their outcome is `hasCard` in `Kernel`.
* Segment descriptors, port wrappers, VGA and serial set-up, power control and the
  exception screens are fixed sequences of register writes without a state of their
  own.
* Checksums and the layout of frames, and the text of what is printed: no property
  is about them.
