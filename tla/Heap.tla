-------------------------------- MODULE Heap --------------------------------
(***************************************************************************)
(* Memory/MemoryManagement.cpp: the kernel's first-fit heap.               *)
(*                                                                         *)
(* Chunks are doubly linked headers placed in front of the bytes they      *)
(* describe.  An address is a number, 0 the null pointer, and a header     *)
(* takes HeaderSize bytes.  The search of MemAllocate is taken one loop    *)
(* iteration at a time, so that a list that has become cyclic shows as a   *)
(* search that never ends; the cut of the chunk it found is a step of its  *)
(* own, and so is MemFree's work on the links after it has marked the      *)
(* chunk.                                                                  *)
(*                                                                         *)
(* Two callers share the heap without a lock.  kernelMain takes BootSize   *)
(* bytes before anything else (kernel/kernel.cpp:2164) and its drivers'    *)
(* blocks, all with interrupts off and for ever, and then, with interrupts *)
(* on (line 2205), a buffer for each frame it sends, which it frees.  An   *)
(* interrupt's handler may come in between any two of its steps and runs   *)
(* to its end before kernelMain goes on: it too takes buffers and frees    *)
(* them, the innermost first, and it keeps blocks for ever: the list of    *)
(* "ls" (FATFS.cpp:182), the socket of "wserver".                          *)
(***************************************************************************)
EXTENDS Integers, SequencesExt

CONSTANTS HeaderSize,   \* sizeof(MemoryChunk)
          HeapStart,    \* the constructor's start
          HeapSize,     \* the constructor's size
          BootSize,     \* kernelMain's own block
          Sizes,        \* the sizes the callers ask for
          MaxAddress,   \* BOUND: the last address the model looks at
          MaxLater      \* BOUND: requests after the heap was disturbed

ASSUME HeapAssumption ==
    /\ HeaderSize \in Nat \ {0}
    /\ HeapStart \in Nat \ {0}
    /\ HeapSize \in Nat
    /\ BootSize \in Nat \ {0}
    /\ Sizes \subseteq Nat \ {0}
    /\ MaxAddress \in Nat /\ MaxLater \in Nat
    /\ BootSize + 2 * HeaderSize + 1 < HeapSize
    /\ HeapStart + HeaderSize + BootSize <= MaxAddress

Null == 0
Memory == 1 .. MaxAddress
HeapEnd == HeapStart + HeapSize

Chunk == [next : Memory \cup {Null}, prev : Memory \cup {Null},
          size : Nat, allocated : BOOLEAN]

Callers == {"main", "handler"}

Idle == [pc |-> "idle", size |-> 0, cursor |-> Null]

VARIABLES first,        \* MemoryManager::first
          chunk,        \* the header found at each address
          held,         \* the callers' blocks, the last one taken at the end
          call,         \* where each caller is inside the heap's routines
          active,       \* interrupts are on
          inside,       \* a handler runs, and kernelMain does not
          since         \* ghost: 0 until the heap is disturbed, then counts requests

vars == <<first, chunk, held, call, active, inside, since>>

\* below: ghost, what was outstanding when the block was taken.
Block == [at : HeaderSize + 1 .. MaxAddress, size : Nat, below : Nat,
          owner : Callers \cup {"kept"}]

\* A free chunk that is alone in the list; memory without a header is zero.
Alone(size) == [next |-> Null, prev |-> Null, size |-> size, allocated |-> FALSE]

TypeOK ==
    /\ first \in Memory
    /\ chunk \in [Memory -> Chunk]
    /\ held \in Seq(Block)
    /\ call \in [Callers -> [pc : {"idle", "searching", "found", "freeing"}, size : Nat,
                             cursor : Memory \cup {Null}]]
    /\ \A p \in Callers : call[p].pc \in {"found", "freeing"} => call[p].cursor # Null
    /\ active \in BOOLEAN /\ inside \in BOOLEAN
    /\ since \in Nat
-----------------------------------------------------------------------------
\* result->size > size + sizeof(MemoryChunk) + 1
Splits(c, size) == chunk[c].size > size + HeaderSize + 1

\* chunk->size > size && !chunk->allocated
Fits(c, size) == chunk[c].size > size /\ ~chunk[c].allocated

\* Where the rest of chunk c begins once size bytes are cut off it.
Remainder(c, size) == c + HeaderSize + size

\* if(c != 0) c->prev = p, in the headers m.
LinkBack(m, c, p) == IF c = Null THEN m ELSE [m EXCEPT ![c].prev = p]

\* if(c != 0) c->next = n, in the headers m.
LinkOn(m, c, n) == IF c = Null THEN m ELSE [m EXCEPT ![c].next = n]

\* The chunk is not marked; the size of the rest is taken the wrong way round.
HandOutUnmarked(c, size) ==
    LET n == Remainder(c, size) IN
    [chunk EXCEPT ![n] = [next |-> chunk[c].next, prev |-> c, allocated |-> FALSE,
                          size |-> chunk[c].size - HeaderSize - size],
                  ![c] = [@ EXCEPT !.next = n, !.size = size]]
HandOutSwapped(c, size) ==
    [chunk EXCEPT ![Remainder(c, size)] =
                     [next |-> chunk[c].next, prev |-> c, allocated |-> FALSE,
                      size |-> size - chunk[c].size - HeaderSize],
                  ![c] = [@ EXCEPT !.next = Remainder(c, size), !.allocated = TRUE]]

\* The headers after c has been handed out for a request of size bytes.
HandOut(c, size) ==
    LET n == Remainder(c, size)
        rest == [next |-> chunk[c].next, prev |-> c, allocated |-> FALSE,
                 size |-> chunk[c].size - HeaderSize - size]
        kept == [next |-> n, prev |-> chunk[c].prev, allocated |-> TRUE,
                 size |-> size]
    IN IF Splits(c, size)
       THEN LinkBack([chunk EXCEPT ![n] = rest, ![c] = kept], chunk[c].next, n)
       ELSE [chunk EXCEPT ![c].allocated = TRUE]

\* The predecessor keeps pointing at the freed chunk.
IntoNextUnlinked(c) ==
    LET n == chunk[c].next IN
    [chunk EXCEPT ![n].prev = chunk[c].prev, ![n].size = @ + chunk[c].size + HeaderSize]

\* MemFree of a chunk c that is marked free: into the chunk before if that is free,
\* else into the chunk after if that is free, else to the head of the list.  The
\* header of the chunk after stays where it is when the freed bytes are added to its
\* size; nobody takes the chunk out of its place when it goes to the head.
IntoPrevious(c) ==
    LET p == chunk[c].prev IN
    LinkBack([chunk EXCEPT ![p].next = chunk[c].next,
                           ![p].size = @ + chunk[c].size + HeaderSize],
             chunk[c].next, p)

IntoNext(c) ==
    LET n == chunk[c].next
        grown == [next |-> chunk[n].next, prev |-> chunk[c].prev,
                  allocated |-> chunk[n].allocated,
                  size |-> chunk[n].size + chunk[c].size + HeaderSize]
    IN LinkOn([chunk EXCEPT ![n] = grown], chunk[c].prev, n)

ToFront(c) ==
    [chunk EXCEPT ![c] = [@ EXCEPT !.prev = Null, !.next = first],
                  ![first].prev = c]

\* The last chunk of the list is taken for no chunk.
IsFreeNotLast(c) == c # Null /\ ~chunk[c].allocated /\ chunk[c].next # Null

IsFree(c) == c # Null /\ ~chunk[c].allocated
-----------------------------------------------------------------------------
Init ==
    /\ first = HeapStart
    /\ chunk = [a \in Memory |->
                  Alone(IF a = HeapStart THEN HeapSize - HeaderSize ELSE 0)]
    /\ held = << >>
    /\ call = [p \in Callers |-> Idle]
    /\ active = FALSE /\ inside = FALSE
    /\ since = 0

\* The bytes the callers hold, headers included.
Outstanding == IF held = << >> THEN 0
               ELSE held[Len(held)].below + held[Len(held)].size + HeaderSize

\* Callers never come near the 10 MB of the heap: a request leaves room to
\* spare, or is larger than the whole heap.
Reasonable(size) ==
    \/ Outstanding + size + 2 * HeaderSize + 1 < HeapSize
    \/ size >= HeapSize

\* BOUND: whichever chunk is cut for it, the rest has a header in the model's memory.
Room(size) == \A c \in Memory : Fits(c, size) => Remainder(c, size) <= MaxAddress

\* Where the last block's chunk points: the free end of the list.
ChunkOf(i) == held[i].at - HeaderSize
Top == IF held = << >> THEN first ELSE chunk[ChunkOf(Len(held))].next

\* A handler runs to its end; kernelMain runs while no handler does.
Runs(p) == inside <=> p = "handler"

\* What the callers do to each other that the heap does not stand.
Disturbed == since # 0
DisturbedIf(bad) == since' = IF bad /\ since = 0 THEN 1 ELSE since
-----------------------------------------------------------------------------
\* interrupts.Activate(), between two calls of kernelMain.
Activate ==
    /\ ~active /\ held # << >> /\ call["main"].pc = "idle"
    /\ active' = TRUE
    /\ UNCHANGED <<first, chunk, held, call, inside, since>>

\* An interrupt, wherever kernelMain is.
HandlerEnters ==
    /\ active /\ ~inside
    /\ inside' = TRUE
    /\ UNCHANGED <<first, chunk, held, call, active, since>>

\* Whatever the handler took and does not keep has been freed.
HandlerReturns ==
    /\ inside /\ call["handler"].pc = "idle"
    /\ \A i \in 1 .. Len(held) : held[i].owner # "handler"
    /\ inside' = FALSE
    /\ UNCHANGED <<first, chunk, held, call, active, since>>

\* MemAllocate(size) is called: kernelMain's block first, then any other.
MemAllocate(p, size) ==
    /\ Runs(p) /\ call[p].pc = "idle"
    /\ IF held = << >> THEN size = BootSize ELSE size \in Sizes /\ Reasonable(size)
    /\ Room(size)                                          \* BOUND
    /\ since <= MaxLater                                   \* BOUND
    /\ since' = IF Disturbed THEN since + 1 ELSE 0
    /\ call' = [call EXCEPT ![p] = [pc |-> "searching", size |-> size, cursor |-> first]]
    /\ UNCHANGED <<first, chunk, held, active, inside>>

\* chunk = chunk->next
NextChunk(p) ==
    LET c == call[p].cursor IN
    /\ Runs(p) /\ call[p].pc = "searching" /\ c # Null /\ ~Fits(c, call[p].size)
    /\ call' = [call EXCEPT ![p].cursor = chunk[c].next]
    /\ UNCHANGED <<first, chunk, held, active, inside, since>>

\* return 0
NoneFits(p) ==
    /\ Runs(p) /\ call[p].pc = "searching" /\ call[p].cursor = Null
    /\ call' = [call EXCEPT ![p] = Idle]
    /\ UNCHANGED <<first, chunk, held, active, inside, since>>

\* result = chunk
Find(p) ==
    LET c == call[p].cursor IN
    /\ Runs(p) /\ call[p].pc = "searching" /\ c # Null /\ Fits(c, call[p].size)
    /\ call' = [call EXCEPT ![p].pc = "found"]
    /\ UNCHANGED <<first, chunk, held, active, inside, since>>

\* Who frees the block: kernelMain's own and its drivers' are kept, its later ones are
\* buffers; a handler's may be either.
OwnersFor(p) == IF p = "handler" THEN {"handler", "kept"}
                ELSE IF active THEN {"main"} ELSE {"kept"}

\* The chunk is split, marked and returned.  A handler that gets a block while
\* kernelMain is inside one of the heap's routines disturbs it.
Take(p) ==
    LET c == call[p].cursor
        size == call[p].size
    IN /\ Runs(p) /\ call[p].pc = "found"
       /\ Remainder(c, size) <= MaxAddress                 \* BOUND
       /\ chunk' = HandOut(c, size)
       /\ \E owner \in OwnersFor(p) :
            held' = Append(held, [at |-> c + HeaderSize, size |-> size,
                                  below |-> Outstanding, owner |-> owner])
       /\ call' = [call EXCEPT ![p] = Idle]
       /\ DisturbedIf(p = "handler" /\ call["main"].pc # "idle")
       /\ UNCHANGED <<first, active, inside>>

Buffers(p) == {i \in 1 .. Len(held) : held[i].owner = p}

\* MemFree of the caller's own last block: the chunk is marked free.  That it is not
\* the last block of all disturbs the heap.
MemFree(p) ==
    LET i == Max(Buffers(p)) IN
    /\ Runs(p) /\ call[p].pc = "idle" /\ Buffers(p) # {}
    /\ chunk' = [chunk EXCEPT ![ChunkOf(i)].allocated = FALSE]
    /\ call' = [call EXCEPT ![p] = [pc |-> "freeing", size |-> 0, cursor |-> ChunkOf(i)]]
    /\ DisturbedIf(i # Len(held))
    /\ UNCHANGED <<first, held, active, inside>>

\* The chunk is joined to one beside it, or put at the head of the list.
Merge(p) ==
    LET c == call[p].cursor IN
    /\ Runs(p) /\ call[p].pc = "freeing"
    /\ chunk' = IF IsFree(chunk[c].prev) THEN IntoPrevious(c)
                ELSE IF IsFree(chunk[c].next) THEN IntoNext(c)
                ELSE ToFront(c)
    /\ first' = IF IsFree(chunk[c].prev) \/ IsFree(chunk[c].next) THEN first ELSE c
    /\ held' = RemoveAt(held, Max(Buffers(p)))
    /\ call' = [call EXCEPT ![p] = Idle]
    /\ UNCHANGED <<active, inside, since>>

InCall(p) ==
    \/ \E size \in Sizes \cup {BootSize} : MemAllocate(p, size)
    \/ NextChunk(p) \/ NoneFits(p) \/ Find(p) \/ Take(p)
    \/ MemFree(p) \/ Merge(p)

Next ==
    \/ Activate \/ HandlerEnters \/ HandlerReturns
    \/ \E p \in Callers : InCall(p)

Search(p) == NextChunk(p) \/ NoneFits(p) \/ Find(p) \/ Take(p)

\* The search is a loop of the caller's own code: it runs until it returns.  Between
\* two interrupts kernelMain gets on.
Spec == Init /\ [][Next]_vars /\ WF_vars(Search("handler")) /\ SF_vars(Search("main"))
-----------------------------------------------------------------------------
\* A caller is between the mark and the links of MemFree.
Freeing == \E p \in Callers : call[p].pc = "freeing"

\* The list is exactly the held blocks in the order they were taken and then one
\* free chunk, linked the same way in both directions, whatever was freed in
\* between (MemFree's three ways of unlinking, lines 57-83): until a handler is given
\* a block inside one of kernelMain's calls, or a block is freed that is not the
\* last one taken.
ListIsHeldThenFree ==
    ~Disturbed /\ held # << >> =>
      /\ ChunkOf(1) = first /\ chunk[first].prev = Null
      /\ \A i \in 1 .. Len(held) :
           LET c == chunk[ChunkOf(i)] IN
           /\ c.allocated <=> ~(i = Len(held) /\ Freeing)
           /\ c.size = held[i].size
           /\ c.next # Null /\ chunk[c.next].prev = ChunkOf(i)
           /\ IF i < Len(held) THEN c.next = ChunkOf(i + 1)
              ELSE ~chunk[c.next].allocated /\ chunk[c.next].next = Null

\* The callers' blocks, without the account of what was outstanding.
Blocks == [i \in 1 .. Len(held) |-> [at |-> held[i].at, size |-> held[i].size]]

InSearch(p) == call[p].pc \in {"searching", "found"}

\* The heap as its callers see it: its top is the free chunk, and a search in
\* progress is a request that waits.  Nothing is promised of a disturbed heap.
Promise == INSTANCE Allocator WITH
    blocks <- Blocks, top <- Top, broken <- Disturbed,
    asked <- [p \in Callers |-> IF InSearch(p) THEN call[p].size ELSE 0],
    Addresses <- Memory, Start <- HeapStart, Capacity <- HeapSize

\* First fit comes to this: a block is cut from the end of all that was ever given
\* out, and no request is refused that the heap has bytes for.  MemFree adds the
\* freed bytes to the free chunk's size and leaves its header where it is (line
\* 70), so that no byte is given out twice.
Implements == Promise!Spec

\* Every search returns: the list it follows has an end (line 92), as long as the
\* heap is not disturbed; kernelMain's, if the handlers that come return.
SearchReturns ==
    /\ InSearch("handler") ~> (~InSearch("handler") \/ Disturbed)
    /\ []<>~inside => (InSearch("main") ~> (~InSearch("main") \/ Disturbed))

\* What "Malloc" (MemoryManagement.cpp:88) promises: a block lies in the heap.
HeldInHeap ==
    ~Disturbed =>
      \A i \in 1 .. Len(held) :
          HeapStart <= held[i].at /\ held[i].at + held[i].size <= HeapEnd
=============================================================================
