--------------------------------- MODULE Nic ---------------------------------
(***************************************************************************)
(* Drivers/AM79C973.cpp: the network card's driver and the card.           *)
(*                                                                         *)
(* The card and the processor share the two descriptor rings and the       *)
(* status register CSR0.  The processor runs either the kernel's main line *)
(* or, with interrupts off, the card's interrupt handler; the card acts    *)
(* between any two of their steps.  The card is modelled from what the     *)
(* driver expects of it: it fills the receive descriptors it owns in order,*)
(* sends the transmit descriptors it owns in order, sets RINT or TINT, and *)
(* a bit written to CSR0 clears that bit.                                  *)
(***************************************************************************)
EXTENDS Integers, Sequences, SequencesExt, FiniteSets

CONSTANTS RingSize,    \* descriptors in a ring: 8 in the code
          RowBytes,    \* bytes from one row of sendBuffers to the next: 8
          AlignBytes,  \* the buffers' alignment: 16
          FrameBytes,  \* the bytes of a frame
          MaxArrivals, \* BOUND: frames that arrive from outside
          MaxSends     \* BOUND: frames the main line sends

ASSUME NicAssumption ==
    /\ RingSize \in Nat \ {0, 1}
    /\ {RowBytes, AlignBytes, FrameBytes} \subseteq Nat \ {0}
    /\ {MaxArrivals, MaxSends} \subseteq Nat

Slots == 0 .. RingSize - 1

\* The index runs on past the ring.
NextSlotUnwrapped(i) == i + 1

NextSlot(i) == (i + 1) % RingSize

\* Frames are numbered: those from outside as they arrive, from 1 on, and then
\* those of the main line.  A buffer holds a frame's number, or Torn when the
\* bytes of several frames are mixed in it.
Torn == 0
Frames == 1 .. MaxArrivals + MaxSends

VARIABLES
    rxOwned,   \* the receive descriptors the card owns (bit 31 of flags)
    rxFlags,   \* the frame each receive descriptor is for, and whether it is sound
    rxData,    \* what the receive buffers hold
    cardRx,    \* the descriptor the card fills next
    currentRecvBuffer,
    txOwned,   \* the transmit descriptors the card owns
    txFlags,   \* the frame each transmit descriptor is for
    txData,    \* what the send buffers hold
    cardTx,    \* the descriptor the card sends next
    currentSendBuffer,
    csr0,      \* the bits RINT and TINT
    irq,       \* where the interrupt handler is, and its local temp
    main,      \* where the main line's send is, and its local sendDescriptor
    arrived,   \* ghost: for each frame the card has stored, whether it was sound
    handled,   \* ghost: the frames given to the handler and what it found in them
    sent,      \* ghost: the frames given to send, in the order it took their slots
    wire,      \* ghost: the frames the card has sent and what was in them
    marks      \* ghost: which of the driver's windows have been hit

rxVars == <<rxOwned, rxFlags, rxData, cardRx, currentRecvBuffer, arrived, handled>>
txVars == <<txOwned, txFlags, txData, cardTx, currentSendBuffer, sent, wire>>
vars == <<rxVars, txVars, csr0, irq, main, marks>>

Windows == {"late",     \* a frame came between the last look and the acknowledgement
            "collided", \* two sends took the same descriptor
            "overrun"}  \* a send took a descriptor that an earlier one still had

TypeOK ==
    /\ rxOwned \subseteq Slots /\ txOwned \subseteq Slots
    /\ rxFlags \in [Slots -> [n : Frames \cup {Torn}, good : BOOLEAN]]
    /\ txFlags \in [Slots -> Frames \cup {Torn}]
    /\ {rxData, txData} \subseteq [Slots -> Frames \cup {Torn}]
    /\ {cardRx, cardTx, currentRecvBuffer, currentSendBuffer} \subseteq Slots
    /\ csr0 \subseteq {"RINT", "TINT"}
    /\ irq \in [at : {"idle", "look", "ack"}, temp : SUBSET {"RINT", "TINT"}]
    /\ main \in [at : {"idle", "took", "advanced"}, slot : Slots]
    /\ arrived \in Seq(BOOLEAN) /\ sent \in Seq(Frames)
    /\ {handled, wire} \subseteq Seq([n : Frames, data : Frames \cup {Torn}])
    /\ marks \subseteq Windows
-----------------------------------------------------------------------------
\* Buffers a whole frame apart.
BufferAtOwnRow(i) == i * (FrameBytes + AlignBytes)

\* The address of buffer i: &sendBuffers[i] and &recvBuffers[i] are rows of
\* RowBytes bytes (AM79C973.h:59), rounded up to the alignment (lines 73, 78).
BufferAt(i) == ((RowBytes * i + AlignBytes - 1) \div AlignBytes) * AlignBytes

Overlap(i, j) == BufferAt(i) - BufferAt(j) \in 1 - FrameBytes .. FrameBytes - 1

\* The buffers after data has been written to buffer i.
Written(buffers, i, data) ==
    [j \in Slots |-> IF BufferAt(i) = BufferAt(j) THEN data
                     ELSE IF Overlap(i, j) THEN Torn ELSE buffers[j]]

\* send, lines 154-173, once its descriptor is known: the copy, the flags that
\* give the descriptor to the card, and CSR0 is written without touching RINT
\* or TINT.  Whether the card still owns the descriptor is not looked at.
Post(i, n, data) ==
    /\ txData' = Written(txData, i, data)
    /\ txFlags' = [txFlags EXCEPT ![i] = n]
    /\ txOwned' = txOwned \cup {i}

\* A send takes slot i though the card, or the main line's send, still has it.
OverrunMark(i) ==
    IF i \in txOwned \/ (main.at = "advanced" /\ main.slot = i) THEN {"overrun"} ELSE {}
-----------------------------------------------------------------------------
Init ==
    /\ rxOwned = Slots /\ txOwned = {}
    /\ rxFlags = [i \in Slots |-> [n |-> Torn, good |-> FALSE]]
    /\ txFlags = [i \in Slots |-> Torn]
    /\ rxData = [i \in Slots |-> Torn] /\ txData = [i \in Slots |-> Torn]
    /\ cardRx = 0 /\ cardTx = 0
    /\ currentRecvBuffer = 0 /\ currentSendBuffer = 0
    /\ csr0 = {}
    /\ irq = [at |-> "idle", temp |-> {}]
    /\ main = [at |-> "idle", slot |-> 0]
    /\ arrived = << >> /\ handled = << >> /\ sent = << >> /\ wire = << >>
    /\ marks = {}

(* The card.                                                               *)

\* A frame arrives and finds a descriptor the card owns.  The handler has looked
\* for the last time once it is about to write what it read to CSR0.
CardReceives(good) ==
    LET n == Len(arrived) + 1 IN
    /\ n <= MaxArrivals                     \* BOUND
    /\ cardRx \in rxOwned
    /\ rxFlags' = [rxFlags EXCEPT ![cardRx] = [n |-> n, good |-> good]]
    /\ rxData' = Written(rxData, cardRx, n)
    /\ rxOwned' = rxOwned \ {cardRx}
    /\ cardRx' = NextSlot(cardRx)
    /\ arrived' = Append(arrived, good)
    /\ csr0' = csr0 \cup {"RINT"}
    /\ marks' = IF irq.at = "ack" /\ "RINT" \in irq.temp THEN marks \cup {"late"} ELSE marks
    /\ UNCHANGED <<currentRecvBuffer, handled, txVars, irq, main>>

CardSends ==
    /\ cardTx \in txOwned
    /\ wire' = Append(wire, [n |-> txFlags[cardTx], data |-> txData[cardTx]])
    /\ txOwned' = txOwned \ {cardTx}
    /\ cardTx' = NextSlot(cardTx)
    /\ csr0' = csr0 \cup {"TINT"}
    /\ UNCHANGED <<rxVars, txFlags, txData, currentSendBuffer, sent, irq, main, marks>>

(* The interrupt handler.                                                  *)

\* HandleInterrupt, lines 124-136.
EnterInterrupt ==
    /\ irq.at = "idle" /\ csr0 # {}
    /\ irq' = [at |-> IF "RINT" \in csr0 THEN "look" ELSE "ack", temp |-> csr0]
    /\ UNCHANGED <<rxVars, txVars, csr0, main, marks>>

\* The descriptor's flags are not looked at.
SoundOrNot(i) == i \in Slots

\* Line 183: no error, and the frame starts and ends in this descriptor.
Sound(i) == rxFlags[i].good

\* One turn of receive's loop, lines 180-205: a sound frame goes to the handler,
\* which may want the frame sent back; then the descriptor is the card's again.
TakeFrame(sendBack) ==
    LET i == currentRecvBuffer
        n == rxFlags[i].n
        s == currentSendBuffer
    IN /\ irq.at = "look" /\ i \notin rxOwned
       /\ sendBack => Sound(i)
       /\ handled' = IF Sound(i)
                     THEN Append(handled, [n |-> n, data |-> rxData[i]]) ELSE handled
       /\ IF sendBack
          THEN /\ Post(s, n, rxData[i])
               /\ currentSendBuffer' = NextSlot(s)
               /\ sent' = Append(sent, n)
               /\ marks' = marks \cup OverrunMark(s)
                             \cup (IF main.at = "took" THEN {"collided"} ELSE {})
          ELSE UNCHANGED <<txFlags, txData, txOwned, currentSendBuffer, sent, marks>>
       /\ rxOwned' = rxOwned \cup {i}
       /\ currentRecvBuffer' = NextSlot(i)
       /\ UNCHANGED <<rxFlags, rxData, cardRx, arrived, cardTx, wire, csr0, irq, main>>

\* The loop's condition fails: the next descriptor is the card's.
NoMoreFrames ==
    /\ irq.at = "look" /\ currentRecvBuffer \in rxOwned
    /\ irq' = [irq EXCEPT !.at = "ack"]
    /\ UNCHANGED <<rxVars, txVars, csr0, main, marks>>

\* Every bit is cleared, and not only those that were read.
AcknowledgeAll ==
    /\ irq.at = "ack"
    /\ csr0' = {}
    /\ irq' = [at |-> "idle", temp |-> {}]
    /\ UNCHANGED <<rxVars, txVars, main, marks>>

\* Line 141: the bits that were read are cleared, set again since or not.
Acknowledge ==
    /\ irq.at = "ack"
    /\ csr0' = csr0 \ irq.temp
    /\ irq' = [at |-> "idle", temp |-> {}]
    /\ UNCHANGED <<rxVars, txVars, main, marks>>

(* The main line, with interrupts on (kernel/kernel.cpp:2205, 2282): it    *)
(* runs while no handler does.                                             *)

MainSent == Cardinality({k \in DOMAIN sent : sent[k] > MaxArrivals})

\* Line 151.
MainTakesSlot ==
    LET n == MaxArrivals + MainSent + 1 IN
    /\ irq.at = "idle" /\ main.at = "idle"
    /\ MainSent < MaxSends                  \* BOUND
    /\ main' = [at |-> "took", slot |-> currentSendBuffer]
    /\ sent' = Append(sent, n)
    /\ UNCHANGED <<rxVars, txOwned, txFlags, txData, cardTx, currentSendBuffer, wire,
                   csr0, irq, marks>>

\* Line 152.
MainAdvances ==
    /\ irq.at = "idle" /\ main.at = "took"
    /\ currentSendBuffer' = NextSlot(currentSendBuffer)
    /\ main' = [main EXCEPT !.at = "advanced"]
    /\ UNCHANGED <<rxVars, txOwned, txFlags, txData, cardTx, sent, wire, csr0, irq, marks>>

\* The frame is put where the index points by now.
MainPostsAtCurrent ==
    /\ irq.at = "idle" /\ main.at = "advanced"
    /\ Post(currentSendBuffer, MaxArrivals + MainSent, MaxArrivals + MainSent)
    /\ main' = [main EXCEPT !.at = "idle"]
    /\ UNCHANGED <<rxVars, cardTx, currentSendBuffer, sent, wire, csr0, irq, marks>>

\* Lines 154-173.
MainPosts ==
    /\ irq.at = "idle" /\ main.at = "advanced"
    /\ Post(main.slot, MaxArrivals + MainSent, MaxArrivals + MainSent)
    /\ marks' = IF main.slot \in txOwned THEN marks \cup {"overrun"} ELSE marks
    /\ main' = [main EXCEPT !.at = "idle"]
    /\ UNCHANGED <<rxVars, cardTx, currentSendBuffer, sent, wire, csr0, irq>>

HandlerStep ==
    \/ EnterInterrupt \/ NoMoreFrames \/ Acknowledge
    \/ \E sendBack \in BOOLEAN : TakeFrame(sendBack)

MainStep == MainTakesSlot \/ MainAdvances \/ MainPosts

Next ==
    \/ \E good \in BOOLEAN : CardReceives(good)
    \/ CardSends
    \/ HandlerStep
    \/ MainStep

\* The card sends what it owns, an interrupt that is raised is served and its
\* handler runs on, and a send that has begun goes on.
Spec == /\ Init /\ [][Next]_vars
        /\ WF_vars(CardSends) /\ WF_vars(HandlerStep)
        /\ WF_vars(MainAdvances \/ MainPosts)
-----------------------------------------------------------------------------
Waiting == Slots \ rxOwned
Taken == Len(arrived) - Cardinality(Waiting)
Numbers(seq) == [k \in DOMAIN seq |-> seq[k].n]

\* The handler is given exactly the sound frames among those taken from the ring,
\* in the order they arrived and once each: the driver's index follows the
\* card's (lines 180-205), however arrivals and interrupts interleave.
HandledInOrder ==
    /\ ToSet(Numbers(handled)) = {n \in 1 .. Taken : arrived[n]}
    /\ \A k, m \in DOMAIN handled : k < m => handled[k].n < handled[m].n

\* Of several frames that wait in the ring only the newest is whole: the rows of
\* recvBuffers lie RowBytes apart (AM79C973.h:64), so that the card writes each
\* frame over those before it.
OnlyNewestIntact ==
    \A i, j \in Waiting : i # j /\ rxFlags[i].n < rxFlags[j].n
                            => rxData[i] # rxFlags[i].n

\* A frame that waits while no interrupt is raised or served came after the
\* handler's last look and before it wrote CSR0 (lines 136-141), or is behind
\* one that did.
StrandedOnlyWhenLate ==
    Waiting # {} /\ "RINT" \notin csr0 /\ irq.at = "idle" => "late" \in marks

\* Two sends met: an interrupt's fell between lines 151 and 152 of the main line's,
\* or a send took a descriptor that was still in use.
SendsCollide == marks \cap {"collided", "overrun"} # {}

\* The two windows of send are the only ways to lose a frame that was sent: without
\* them the card never waits at a free descriptor with work behind it.
SentReachesWire ==
    \A n \in Frames :
        n \in ToSet(sent) ~> (n \in ToSet(Numbers(wire)) \/ SendsCollide)
=============================================================================
