------------------------------ MODULE NicProofs ------------------------------
(***************************************************************************)
(* Theorems about Nic, for rings of any size and any number of frames: what *)
(* the handler is given, what it finds in the buffers, and which frames    *)
(* may be left waiting.                                                    *)
(***************************************************************************)
EXTENDS Nic, SequenceTheorems, FiniteSetTheorems, TLAPS

(***************************************************************************)
(* The inductive invariant.  The descriptors that wait are the first Waits *)
(* ones from currentRecvBuffer on, and hold the frames behind those taken. *)
(***************************************************************************)
Waits == Cardinality(Waiting)

\* The slot n places behind slot i, and how far slot s is behind the driver's.
Ahead(i, n) == IF i + n < RingSize THEN i + n ELSE i + n - RingSize
Distance(i, s) == IF i <= s THEN s - i ELSE s - i + RingSize

CardAhead ==
    /\ Waits \in 0 .. RingSize /\ Waits <= Len(arrived) /\ Len(arrived) <= MaxArrivals
    /\ cardRx = Ahead(currentRecvBuffer, Waits)
    /\ \A s \in Slots : s \in Waiting <=> Distance(currentRecvBuffer, s) < Waits

FlagsFollow ==
    \A s \in Waiting :
        LET n == Taken + 1 + Distance(currentRecvBuffer, s) IN
        rxFlags[s] = [n |-> n, good |-> arrived[n]]

\* Frames are numbered as they are sent, and the card owns what was given to it.
SendsNumbered ==
    /\ MainSent <= MaxSends
    /\ main.at # "idle" => MainSent > 0
    /\ \A i \in txOwned : txFlags[i] \in Frames

\* While a frame waits, the handler will look again, or the card will interrupt it.
WillLook ==
    Waiting # {} /\ irq.at # "look" =>
        \/ "late" \in marks
        \/ "RINT" \in csr0 /\ (irq.at = "ack" => "RINT" \notin irq.temp)

IInv == /\ TypeOK /\ CardAhead /\ FlagsFollow /\ SendsNumbered
        /\ HandledInOrder /\ WillLook
-----------------------------------------------------------------------------
(* The operators.                                                          *)

\* The ring closes.
LEMMA NextSlotFacts ==
    ASSUME NEW i \in Slots
    PROVE  /\ NextSlot(i) \in Slots
           /\ NextSlot(i) = IF i = RingSize - 1 THEN 0 ELSE i + 1
<1>1. RingSize \in Nat \ {0, 1} /\ i \in 0 .. RingSize - 1
  BY NicAssumption DEF Slots
<1>2. CASE i = RingSize - 1
  <2>1. RingSize % RingSize = 0
    BY <1>1
  <2>. QED
    BY <1>1, <1>2, <2>1 DEF NextSlot, Slots
<1>3. CASE i # RingSize - 1
  <2>1. i + 1 \in 0 .. RingSize - 1
    BY <1>1, <1>3
  <2>2. (i + 1) % RingSize = i + 1
    BY <1>1, <2>1
  <2>. QED
    BY <1>1, <1>3, <2>1, <2>2 DEF NextSlot, Slots
<1>. QED
  BY <1>2, <1>3

\* Distances from one slot tell slots apart; from the next slot on they are one less.
LEMMA DistanceFacts ==
    ASSUME NEW i \in Slots, NEW s \in Slots
    PROVE  /\ Distance(i, s) \in 0 .. RingSize - 1
           /\ Distance(i, s) = 0 <=> s = i
           /\ s # i => Distance(NextSlot(i), s) = Distance(i, s) - 1
           /\ Distance(NextSlot(i), i) = RingSize - 1
           /\ \A n \in 0 .. RingSize - 1 : s = Ahead(i, n) <=> Distance(i, s) = n
<1>1. RingSize \in Nat \ {0, 1}
  BY NicAssumption
<1>. QED
  BY <1>1, NextSlotFacts DEF Slots, Distance, Ahead

\* A step of either end of the ring.
LEMMA AheadFacts ==
    ASSUME NEW i \in Slots
    PROVE  /\ \A n \in 0 .. RingSize - 1 : NextSlot(Ahead(i, n)) = Ahead(i, n + 1)
           /\ \A n \in 1 .. RingSize : Ahead(NextSlot(i), n - 1) = Ahead(i, n)
<1>1. RingSize \in Nat \ {0, 1}
  BY NicAssumption
<1>2. ASSUME NEW n \in 0 .. RingSize - 1 PROVE NextSlot(Ahead(i, n)) = Ahead(i, n + 1)
  <2>1. Ahead(i, n) \in Slots
    BY <1>1 DEF Ahead, Slots
  <2>. QED
    BY <1>1, <2>1, NextSlotFacts DEF Ahead, Slots
<1>3. ASSUME NEW n \in 1 .. RingSize PROVE Ahead(NextSlot(i), n - 1) = Ahead(i, n)
  BY <1>1, NextSlotFacts DEF Ahead, Slots
<1>. QED
  BY <1>2, <1>3

\* The waiting descriptors are finitely many.
LEMMA WaitingFinite == IsFiniteSet(Waiting)
<1>1. IsFiniteSet(Slots)
  BY NicAssumption, FS_Interval DEF Slots
<1>. QED
  BY <1>1, FS_Subset DEF Waiting

\* What a write to a buffer leaves in the others.
LEMMA WrittenFacts ==
    ASSUME NEW S, Torn \in S, NEW buffers \in [Slots -> S], NEW i \in Slots, NEW data \in S
    PROVE  /\ Written(buffers, i, data) \in [Slots -> S]
           /\ \A j \in Slots : Overlap(i, j) => Written(buffers, i, data)[j] \in {data, Torn}
BY DEF Written

\* The main line's frames are counted as they are appended.
LEMMA MainSentAppend ==
    ASSUME sent \in Seq(Frames), NEW n \in Frames, sent' = Append(sent, n)
    PROVE  /\ MainSent \in Nat
           /\ MainSent' = IF n > MaxArrivals THEN MainSent + 1 ELSE MainSent
<1>. DEFINE C == {k \in DOMAIN sent : sent[k] > MaxArrivals}
            D == {k \in DOMAIN sent' : sent'[k] > MaxArrivals}
<1>1. /\ Len(sent) \in Nat /\ DOMAIN sent = 1 .. Len(sent)
      /\ sent' \in Seq(Frames) /\ DOMAIN sent' = 1 .. Len(sent) + 1
      /\ \A k \in 1 .. Len(sent) : sent'[k] = sent[k]
      /\ sent'[Len(sent) + 1] = n
  BY LenProperties, AppendProperties
<1>2. IsFiniteSet(C)
  <2>1. IsFiniteSet(1 .. Len(sent))
    BY <1>1, FS_Interval
  <2>. QED
    BY <1>1, <2>1, FS_Subset
<1>3. D = IF n > MaxArrivals THEN C \cup {Len(sent) + 1} ELSE C
  BY <1>1
<1>4. Len(sent) + 1 \notin C
  BY <1>1
<1>5. MainSent = Cardinality(C) /\ MainSent' = Cardinality(D)
  BY DEF MainSent
<1>. HIDE DEF C, D
<1>. QED
  BY <1>2, <1>3, <1>4, <1>5, FS_AddElement, FS_CardinalityType
-----------------------------------------------------------------------------
(* The steps keep the invariant.                                           *)

Handled == [n : Frames, data : Frames \cup {Torn}]

\* TypeOK, one variable at a time.
LEMMA Types ==
    ASSUME TypeOK
    PROVE  /\ RingSize \in Nat \ {0, 1} /\ MaxArrivals \in Nat /\ MaxSends \in Nat
           /\ rxOwned \subseteq Slots /\ txOwned \subseteq Slots
           /\ rxFlags \in [Slots -> [n : Frames \cup {Torn}, good : BOOLEAN]]
           /\ txFlags \in [Slots -> Frames \cup {Torn}]
           /\ rxData \in [Slots -> Frames \cup {Torn}]
           /\ txData \in [Slots -> Frames \cup {Torn}]
           /\ cardRx \in Slots /\ cardTx \in Slots
           /\ currentRecvBuffer \in Slots /\ currentSendBuffer \in Slots
           /\ csr0 \subseteq {"RINT", "TINT"}
           /\ irq \in [at : {"idle", "look", "ack"}, temp : SUBSET {"RINT", "TINT"}]
           /\ main \in [at : {"idle", "took", "advanced"}, slot : Slots]
           /\ arrived \in Seq(BOOLEAN) /\ sent \in Seq(Frames)
           /\ handled \in Seq(Handled) /\ wire \in Seq(Handled)
           /\ marks \subseteq Windows
BY NicAssumption DEF TypeOK, Handled

\* Counts that the invariant is about.
LEMMA Counts ==
    ASSUME IInv
    PROVE  /\ Len(arrived) \in Nat /\ Waits \in 0 .. RingSize /\ Waits <= Len(arrived)
           /\ Taken = Len(arrived) - Waits /\ Taken \in Nat
           /\ Len(arrived) <= MaxArrivals
<1>1. Len(arrived) \in Nat
  BY Types, LenProperties DEF IInv
<1>2. Taken = Len(arrived) - Waits
  BY DEF Taken, Waits
<1>. QED
  BY <1>1, <1>2, Types DEF IInv, CardAhead

\* What is in the ring depends on the receive side only.
LEMMA RingUnchanged ==
    ASSUME IInv, UNCHANGED <<rxOwned, rxFlags, cardRx, currentRecvBuffer, arrived, handled>>
    PROVE  CardAhead' /\ FlagsFollow' /\ HandledInOrder'
<1>1. Waiting' = Waiting /\ Waits' = Waits /\ Taken' = Taken
  BY DEF Waiting, Waits, Taken
<1>. QED
  BY <1>1 DEF IInv, CardAhead, FlagsFollow, HandledInOrder

\* A frame that arrives waits behind the others.
LEMMA ReceiveKeepsRing ==
    ASSUME IInv, NEW good \in BOOLEAN, CardReceives(good)
    PROVE  CardAhead' /\ FlagsFollow' /\ HandledInOrder'
<1>. DEFINE c == cardRx
            cur == currentRecvBuffer
            n == Len(arrived) + 1
<1>1. c \in Slots /\ cur \in Slots /\ rxFlags \in [Slots -> [n : Frames \cup {Torn}, good : BOOLEAN]]
      /\ arrived \in Seq(BOOLEAN) /\ RingSize \in Nat \ {0, 1}
  BY Types DEF IInv
<1>2. /\ c \in rxOwned /\ n <= MaxArrivals
      /\ rxFlags' = [rxFlags EXCEPT ![c] = [n |-> n, good |-> good]]
      /\ rxOwned' = rxOwned \ {c} /\ cardRx' = NextSlot(c)
      /\ arrived' = Append(arrived, good)
      /\ UNCHANGED <<currentRecvBuffer, handled>>
  BY DEF CardReceives
<1>3. /\ Len(arrived') = Len(arrived) + 1 /\ arrived'[n] = good
      /\ \A m \in 1 .. Len(arrived) : arrived'[m] = arrived[m]
  BY <1>1, <1>2, AppendProperties
<1>4. c = Ahead(cur, Waits)
      /\ \A s \in Slots : s \in Waiting <=> Distance(cur, s) < Waits
  BY DEF IInv, CardAhead
<1>5. c \notin Waiting /\ Waiting' = Waiting \cup {c}
  BY <1>1, <1>2 DEF Waiting
<1>6. Waits' = Waits + 1
  BY <1>5, WaitingFinite, FS_AddElement DEF Waits
<1>7. Taken' = Taken
  BY <1>3, <1>6, Counts DEF Taken, Waits
<1>. HIDE DEF c, cur, n
<1>8. Waits \in 0 .. RingSize - 1 /\ Distance(cur, c) = Waits
  <2>1. ~(Distance(cur, c) < Waits) /\ Distance(cur, c) \in 0 .. RingSize - 1
    BY <1>1, <1>4, <1>5, DistanceFacts
  <2>2. Waits \in 0 .. RingSize - 1
    BY <1>1, <2>1, Counts
  <2>. QED
    BY <1>1, <1>4, <2>2, DistanceFacts
<1>9. CardAhead'
  <2>1. cardRx' = Ahead(cur, Waits + 1)
    BY <1>1, <1>2, <1>4, <1>8, AheadFacts
  <2>2. \A s \in Slots : s \in Waiting' <=> Distance(cur, s) < Waits + 1
    <3>1. ASSUME NEW s \in Slots PROVE s \in Waiting' <=> Distance(cur, s) < Waits + 1
      <4>1. Distance(cur, s) \in 0 .. RingSize - 1
            /\ (s = Ahead(cur, Waits) <=> Distance(cur, s) = Waits)
        BY <1>1, <1>8, DistanceFacts
      <4>. QED
        BY <1>1, <1>4, <1>5, <1>8, <4>1
    <3>. QED
      BY <3>1
  <2>3. Waits + 1 \in 0 .. RingSize /\ Waits + 1 <= Len(arrived') /\ Len(arrived') <= MaxArrivals
    BY <1>1, <1>2, <1>3, <1>8, Counts DEF n
  <2>4. currentRecvBuffer' = cur
    BY <1>2 DEF cur
  <2>. QED
    BY <1>6, <2>1, <2>2, <2>3, <2>4 DEF CardAhead
<1>10. FlagsFollow'
  <2>1. ASSUME NEW s \in Waiting'
        PROVE  rxFlags'[s] = [n |-> Taken + 1 + Distance(cur, s),
                              good |-> arrived'[Taken + 1 + Distance(cur, s)]]
    <3>1. CASE s = c
      BY <1>1, <1>2, <1>3, <1>8, <3>1, Counts DEF n
    <3>2. CASE s \in Waiting /\ s # c
      <4>1. s \in Slots /\ Distance(cur, s) \in 0 .. RingSize - 1 /\ Distance(cur, s) < Waits
        BY <1>1, <1>4, <3>2, DistanceFacts DEF Waiting
      <4>2. Taken + 1 + Distance(cur, s) \in 1 .. Len(arrived)
        BY <1>1, <4>1, Counts
      <4>3. rxFlags[s] = [n |-> Taken + 1 + Distance(cur, s),
                          good |-> arrived[Taken + 1 + Distance(cur, s)]]
        BY <3>2 DEF IInv, FlagsFollow, cur
      <4>. QED
        BY <1>1, <1>2, <1>3, <3>2, <4>1, <4>2, <4>3
    <3>. QED
      BY <1>5, <2>1, <3>1, <3>2
  <2>. QED
    BY <1>2, <1>7, <2>1 DEF FlagsFollow, cur
<1>11. HandledInOrder'
  <2>1. \A m \in 1 .. Taken : m \in 1 .. Len(arrived)
    BY Counts
  <2>. QED
    BY <1>2, <1>3, <1>7, <2>1 DEF IInv, HandledInOrder
<1>. QED
  BY <1>9, <1>10, <1>11

\* The next frame that waits is the one behind those taken.
LEMMA NextFrame ==
    ASSUME IInv, Waiting # {}
    PROVE  /\ currentRecvBuffer \in Waiting /\ Waits > 0
           /\ Taken + 1 \in 1 .. Len(arrived)
           /\ rxFlags[currentRecvBuffer] = [n |-> Taken + 1, good |-> arrived[Taken + 1]]
<1>1. Waits # 0
  BY WaitingFinite, FS_EmptySet DEF Waits
<1>2. currentRecvBuffer \in Slots /\ Distance(currentRecvBuffer, currentRecvBuffer) = 0
  BY Types, DistanceFacts DEF IInv
<1>3. currentRecvBuffer \in Waiting /\ Waits > 0
  BY <1>1, <1>2, Counts DEF IInv, CardAhead
<1>4. rxFlags[currentRecvBuffer] = [n |-> Taken + 1 + 0, good |-> arrived[Taken + 1 + 0]]
  BY <1>2, <1>3 DEF IInv, FlagsFollow
<1>. QED
  BY <1>3, <1>4, Counts

\* A sound frame is handled behind those before it.
LEMMA HandledAppend ==
    ASSUME IInv, NEW frame, frame \in Handled, frame.n = Taken + 1, arrived[Taken + 1],
           handled' = Append(handled, frame), arrived' = arrived, Taken' = Taken + 1
    PROVE  HandledInOrder'
<1>. DEFINE h == Len(handled)
<1>1. handled \in Seq(Handled)
  BY Types DEF IInv
<1>2. /\ h \in Nat /\ DOMAIN handled = 1 .. h /\ DOMAIN handled' = 1 .. h + 1
      /\ \A k \in 1 .. h : handled'[k] = handled[k]
      /\ handled'[h + 1] = frame
  BY <1>1, AppendProperties, LenProperties
<1>3. Taken \in Nat
  BY Counts
<1>4. ToSet(Numbers(handled)) = {handled[k].n : k \in 1 .. h}
  BY <1>2 DEF ToSet, Numbers
<1>5. ToSet(Numbers(handled'))
        = {handled'[k].n : k \in 1 .. h + 1}
  BY <1>2 DEF ToSet, Numbers
<1>6. {handled'[k].n : k \in 1 .. h + 1} = {handled[k].n : k \in 1 .. h} \cup {Taken + 1}
  BY <1>2
<1>7. {handled[k].n : k \in 1 .. h} = {n \in 1 .. Taken : arrived[n]}
      /\ \A k, m \in 1 .. h : k < m => handled[k].n < handled[m].n
  BY <1>2, <1>4 DEF IInv, HandledInOrder
<1>8. \A k \in 1 .. h : handled[k].n \in 1 .. Taken
  BY <1>7
<1>. HIDE DEF h
<1>9. \A k, m \in 1 .. h + 1 : k < m => handled'[k].n < handled'[m].n
  <2>1. ASSUME NEW k \in 1 .. h + 1, NEW m \in 1 .. h + 1, k < m
        PROVE  handled'[k].n < handled'[m].n
    <3>1. k \in 1 .. h /\ (m \in 1 .. h \/ m = h + 1)
      BY <1>2, <2>1
    <3>2. CASE m \in 1 .. h
      BY <1>2, <1>7, <2>1, <3>1, <3>2
    <3>3. CASE m = h + 1
      BY <1>2, <1>3, <1>8, <3>1, <3>3
    <3>. QED
      BY <3>1, <3>2, <3>3
  <2>. QED
    BY <2>1
<1>10. {n \in 1 .. Taken : arrived[n]} \cup {Taken + 1} = {n \in 1 .. Taken + 1 : arrived[n]}
  BY <1>3
<1>11. ToSet(Numbers(handled')) = {n \in 1 .. Taken' : arrived'[n]}
  BY <1>5, <1>6, <1>7, <1>10
<1>. QED
  BY <1>2, <1>9, <1>11 DEF HandledInOrder

\* The driver takes the first frame that waits.
LEMMA TakeKeepsRing ==
    ASSUME IInv, NEW sendBack \in BOOLEAN, TakeFrame(sendBack)
    PROVE  /\ CardAhead' /\ FlagsFollow' /\ HandledInOrder'
           /\ Waiting' \subseteq Waiting
<1>. DEFINE cur == currentRecvBuffer
<1>1. cur \in Slots /\ rxFlags \in [Slots -> [n : Frames \cup {Torn}, good : BOOLEAN]]
      /\ rxData \in [Slots -> Frames \cup {Torn}]
      /\ arrived \in Seq(BOOLEAN) /\ RingSize \in Nat \ {0, 1}
      /\ MaxArrivals \in Nat /\ MaxSends \in Nat
  BY Types DEF IInv
<1>2. /\ cur \notin rxOwned
      /\ handled' = IF Sound(cur)
                    THEN Append(handled, [n |-> rxFlags[cur].n, data |-> rxData[cur]])
                    ELSE handled
      /\ rxOwned' = rxOwned \cup {cur} /\ currentRecvBuffer' = NextSlot(cur)
      /\ UNCHANGED <<rxFlags, rxData, cardRx, arrived>>
  BY DEF TakeFrame
<1>3. cur \in Waiting /\ Waiting' = Waiting \ {cur}
  BY <1>1, <1>2 DEF Waiting
<1>4. /\ Waits > 0 /\ Taken + 1 \in 1 .. Len(arrived)
      /\ rxFlags[cur] = [n |-> Taken + 1, good |-> arrived[Taken + 1]]
  BY <1>3, NextFrame
<1>5. Waits' = Waits - 1
  BY <1>3, WaitingFinite, FS_RemoveElement DEF Waits
<1>6. Taken' = Taken + 1
  BY <1>2, <1>5, Counts DEF Taken, Waits
<1>7. cardRx = Ahead(cur, Waits)
      /\ \A s \in Slots : s \in Waiting <=> Distance(cur, s) < Waits
  BY DEF IInv, CardAhead
<1>8. HandledInOrder'
  <2>1. Sound(cur) <=> arrived[Taken + 1]
    BY <1>4 DEF Sound
  <2>2. CASE Sound(cur)
    <3>. DEFINE frame == [n |-> rxFlags[cur].n, data |-> rxData[cur]]
    <3>1. Taken + 1 \in Frames
      BY <1>1, <1>4, Counts DEF Frames
    <3>2. frame \in Handled /\ frame.n = Taken + 1
      BY <1>1, <1>4, <3>1 DEF Handled
    <3>3. handled' = Append(handled, frame)
      BY <1>2, <2>2
    <3>. HIDE DEF frame
    <3>. QED
      BY <1>2, <1>6, <2>1, <2>2, <3>2, <3>3, HandledAppend
  <2>3. CASE ~Sound(cur)
    <3>1. ~arrived[Taken + 1] /\ handled' = handled
      BY <1>2, <2>1, <2>3
    <3>2. {n \in 1 .. Taken + 1 : arrived[n]} = {n \in 1 .. Taken : arrived[n]}
      BY <3>1, Counts
    <3>. QED
      BY <1>2, <1>6, <3>1, <3>2 DEF IInv, HandledInOrder
  <2>. QED
    BY <2>2, <2>3
<1>. HIDE DEF cur
<1>9. CardAhead'
  <2>1. cardRx' = Ahead(NextSlot(cur), Waits - 1)
    BY <1>1, <1>2, <1>4, <1>7, AheadFacts, Counts
  <2>2. ASSUME NEW s \in Slots
        PROVE  s \in Waiting' <=> Distance(NextSlot(cur), s) < Waits - 1
    <3>1. Waits \in 0 .. RingSize /\ Distance(cur, s) \in 0 .. RingSize - 1
      BY <1>1, DistanceFacts, Counts
    <3>2. CASE s = cur
      BY <1>1, <1>3, <3>1, <3>2, DistanceFacts
    <3>3. CASE s # cur
      BY <1>1, <1>3, <1>7, <3>1, <3>3, DistanceFacts
    <3>. QED
      BY <3>2, <3>3
  <2>3. Waits - 1 \in 0 .. RingSize /\ Waits - 1 <= Len(arrived') /\ Len(arrived') <= MaxArrivals
    BY <1>1, <1>2, <1>4, Counts
  <2>4. currentRecvBuffer' = NextSlot(cur)
    BY <1>2
  <2>. QED
    BY <1>5, <2>1, <2>2, <2>3, <2>4 DEF CardAhead
<1>10. FlagsFollow'
  <2>1. ASSUME NEW s \in Waiting'
        PROVE  rxFlags[s] = [n |-> Taken + 1 + 1 + Distance(NextSlot(cur), s),
                             good |-> arrived[Taken + 1 + 1 + Distance(NextSlot(cur), s)]]
    <3>1. s \in Slots /\ s # cur /\ s \in Waiting
      BY <1>3, <2>1 DEF Waiting
    <3>2. Distance(NextSlot(cur), s) = Distance(cur, s) - 1 /\ Distance(cur, s) \in Nat
      BY <1>1, <3>1, DistanceFacts
    <3>3. Taken + 1 + 1 + Distance(NextSlot(cur), s) = Taken + 1 + Distance(cur, s)
      BY <3>2, Counts
    <3>. QED
      BY <3>1, <3>3 DEF IInv, FlagsFollow, cur
  <2>. QED
    BY <1>2, <1>6, <2>1 DEF FlagsFollow
<1>. QED
  BY <1>3, <1>8, <1>9, <1>10

\* A frame is put where the card sends it from.
LEMMA PostFacts ==
    ASSUME IInv, NEW i \in Slots, NEW n \in Frames, NEW data \in Frames \cup {Torn},
           Post(i, n, data)
    PROVE  /\ txData' \in [Slots -> Frames \cup {Torn}]
           /\ txFlags' \in [Slots -> Frames \cup {Torn}]
           /\ txOwned' \subseteq Slots
           /\ \A j \in txOwned' : txFlags'[j] \in Frames
<1>1. /\ txData \in [Slots -> Frames \cup {Torn}] /\ txFlags \in [Slots -> Frames \cup {Torn}]
      /\ txOwned \subseteq Slots /\ \A j \in txOwned : txFlags[j] \in Frames
  BY Types DEF IInv, SendsNumbered
<1>2. txData' \in [Slots -> Frames \cup {Torn}]
  BY <1>1, WrittenFacts DEF Post
<1>. QED
  BY <1>1, <1>2 DEF Post

\* The invariant holds of empty rings.
LEMMA InitInv == Init => IInv
<1>. SUFFICES ASSUME Init PROVE IInv
  OBVIOUS
<1>1. RingSize \in Nat \ {0, 1} /\ MaxArrivals \in Nat /\ MaxSends \in Nat /\ 0 \in Slots
  BY NicAssumption DEF Slots
<1>2. Len(<< >>) = 0 /\ DOMAIN << >> = {}
  OBVIOUS
<1>3. TypeOK
  BY <1>1 DEF Init, TypeOK
<1>4. Waiting = {} /\ Waits = 0 /\ Taken = 0
  <2>1. Waiting = {}
    BY DEF Init, Waiting
  <2>2. Cardinality(Waiting) = 0
    BY <2>1, FS_EmptySet
  <2>. QED
    BY <1>2, <2>1, <2>2 DEF Init, Waits, Taken
<1>5. CardAhead
  BY <1>1, <1>2, <1>4 DEF Init, CardAhead, Ahead, Distance, Slots
<1>6. FlagsFollow /\ WillLook
  BY <1>4 DEF FlagsFollow, WillLook
<1>7. SendsNumbered
  <2>1. {k \in DOMAIN sent : sent[k] > MaxArrivals} = {}
    BY <1>2 DEF Init
  <2>2. MainSent = 0
    BY <2>1, FS_EmptySet DEF MainSent
  <2>. QED
    BY <1>1, <2>2 DEF Init, SendsNumbered
<1>8. HandledInOrder
  <2>1. ToSet(Numbers(handled)) = {}
    BY <1>2 DEF Init, ToSet, Numbers
  <2>. QED
    BY <1>2, <1>4, <2>1 DEF Init, HandledInOrder
<1>. QED
  BY <1>3, <1>5, <1>6, <1>7, <1>8 DEF IInv

\* The card stores a frame.
LEMMA ReceiveKeeps ==
    ASSUME IInv, NEW good \in BOOLEAN, CardReceives(good)
    PROVE  IInv'
<1>. DEFINE n == Len(arrived) + 1
<1>. USE Types
<1>1. TypeOK
  BY DEF IInv
<1>2. n \in Frames
  BY <1>1, Counts DEF CardReceives, Frames
<1>3. rxData' \in [Slots -> Frames \cup {Torn}]
  BY <1>1, <1>2, WrittenFacts DEF CardReceives
<1>4. cardRx' \in Slots /\ arrived' \in Seq(BOOLEAN)
  BY <1>1, NextSlotFacts, AppendProperties DEF CardReceives
<1>5. rxFlags' \in [Slots -> [n : Frames \cup {Torn}, good : BOOLEAN]]
  BY <1>1, <1>2 DEF CardReceives
<1>6. rxOwned' \subseteq Slots /\ csr0' \subseteq {"RINT", "TINT"} /\ marks' \subseteq Windows
  BY <1>1 DEF CardReceives, Windows
<1>7. TypeOK'
  BY <1>1, <1>3, <1>4, <1>5, <1>6 DEF CardReceives, TypeOK, txVars
<1>8. SendsNumbered'
  BY DEF IInv, CardReceives, txVars, SendsNumbered, MainSent
<1>9. WillLook'
  BY DEF CardReceives, WillLook
<1>. QED
  BY <1>7, <1>8, <1>9, ReceiveKeepsRing DEF IInv

\* The handler takes a frame, and may send it back.
LEMMA TakeKeeps ==
    ASSUME IInv, NEW sendBack \in BOOLEAN, TakeFrame(sendBack)
    PROVE  IInv'
<1>. DEFINE i == currentRecvBuffer
            n == rxFlags[i].n
            s == currentSendBuffer
<1>1. TypeOK
  BY DEF IInv
<1>2. i \in Slots /\ s \in Slots /\ MaxArrivals \in Nat /\ MaxSends \in Nat
      /\ NextSlot(i) \in Slots /\ NextSlot(s) \in Slots
      /\ rxData[i] \in Frames \cup {Torn}
  BY <1>1, Types, NextSlotFacts
<1>3. n \in Frames /\ ~(n > MaxArrivals)
  <2>1. i \in Waiting
    BY <1>2 DEF TakeFrame, Waiting
  <2>2. n = Taken + 1 /\ Taken + 1 \in 1 .. Len(arrived)
    BY <2>1, NextFrame
  <2>. QED
    BY <1>2, <2>2, Counts DEF Frames
<1>4. /\ irq.at = "look" /\ rxOwned' = rxOwned \cup {i} /\ currentRecvBuffer' = NextSlot(i)
      /\ handled' = IF Sound(i) THEN Append(handled, [n |-> n, data |-> rxData[i]]) ELSE handled
      /\ UNCHANGED <<rxFlags, rxData, cardRx, arrived, cardTx, wire, csr0, irq, main>>
  BY DEF TakeFrame
<1>5. \/ /\ Post(s, n, rxData[i]) /\ currentSendBuffer' = NextSlot(s)
         /\ sent' = Append(sent, n)
         /\ marks' = marks \cup OverrunMark(s)
                       \cup (IF main.at = "took" THEN {"collided"} ELSE {})
      \/ UNCHANGED <<txFlags, txData, txOwned, currentSendBuffer, sent, marks>>
  BY DEF TakeFrame
<1>. HIDE DEF i, n, s
<1>6. /\ txData' \in [Slots -> Frames \cup {Torn}]
      /\ txFlags' \in [Slots -> Frames \cup {Torn}]
      /\ txOwned' \subseteq Slots /\ \A j \in txOwned' : txFlags'[j] \in Frames
  <2>1. CASE Post(s, n, rxData[i])
    BY <1>2, <1>3, <2>1, PostFacts
  <2>2. CASE UNCHANGED <<txFlags, txData, txOwned>>
    BY <1>1, <2>2, Types DEF IInv, SendsNumbered
  <2>. QED
    BY <1>5, <2>1, <2>2
<1>7. sent \in Seq(Frames)
  BY <1>1, Types
<1>8. sent' \in Seq(Frames) /\ MainSent' = MainSent
  <2>1. CASE sent' = Append(sent, n)
    BY <1>3, <1>7, <2>1, AppendProperties, MainSentAppend
  <2>2. CASE sent' = sent
    BY <1>7, <2>2 DEF MainSent
  <2>. QED
    BY <1>5, <2>1, <2>2
<1>9. marks' \subseteq Windows /\ currentSendBuffer' \in Slots
  BY <1>1, <1>2, <1>5, Types DEF OverrunMark, Windows, s
<1>10. handled' \in Seq(Handled)
  <2>1. [n |-> n, data |-> rxData[i]] \in Handled
    BY <1>2, <1>3 DEF Handled
  <2>. QED
    BY <1>1, <1>4, <2>1, Types, AppendProperties
<1>11. TypeOK'
  BY <1>1, <1>2, <1>4, <1>6, <1>8, <1>9, <1>10, Types DEF TypeOK, Handled
<1>12. SendsNumbered'
  BY <1>4, <1>6, <1>8 DEF IInv, SendsNumbered
<1>13. WillLook'
  BY <1>4 DEF WillLook
<1>. QED
  BY <1>11, <1>12, <1>13, TakeKeepsRing DEF IInv

\* The main line's number for its frame.
LEMMA MainNumber ==
    ASSUME IInv
    PROVE  /\ MainSent \in Nat /\ MainSent <= MaxSends
           /\ MainSent < MaxSends => MaxArrivals + MainSent + 1 \in Frames
           /\ main.at # "idle" => MaxArrivals + MainSent \in Frames
<1>1. sent \in Seq(Frames) /\ MaxArrivals \in Nat /\ MaxSends \in Nat
  BY Types DEF IInv
<1>2. IsFiniteSet(DOMAIN sent)
  BY <1>1, LenProperties, FS_Interval
<1>3. MainSent \in Nat
  BY <1>2, FS_Subset, FS_CardinalityType DEF MainSent
<1>. QED
  BY <1>1, <1>3 DEF IInv, SendsNumbered, Frames

\* The main line takes a slot for its next frame.
LEMMA MainTakesKeeps ==
    ASSUME IInv, MainTakesSlot
    PROVE  IInv'
<1>. DEFINE n == MaxArrivals + MainSent + 1
<1>1. TypeOK /\ sent \in Seq(Frames) /\ MaxArrivals \in Nat
  BY Types DEF IInv
<1>2. n \in Frames /\ n > MaxArrivals /\ MainSent \in Nat /\ MainSent < MaxSends
  BY <1>1, MainNumber DEF MainTakesSlot
<1>3. sent' = Append(sent, n)
  BY DEF MainTakesSlot
<1>4. MainSent' = MainSent + 1 /\ sent' \in Seq(Frames)
  BY <1>1, <1>2, <1>3, MainSentAppend, AppendProperties
<1>5. TypeOK'
  BY <1>1, <1>4, Types DEF MainTakesSlot, rxVars, TypeOK
<1>6. SendsNumbered'
  BY <1>1, <1>2, <1>4, Types DEF IInv, MainTakesSlot, SendsNumbered
<1>7. WillLook'
  BY DEF IInv, MainTakesSlot, rxVars, WillLook, Waiting
<1>8. CardAhead' /\ FlagsFollow' /\ HandledInOrder'
  BY RingUnchanged DEF MainTakesSlot, rxVars
<1>. QED
  BY <1>5, <1>6, <1>7, <1>8 DEF IInv

\* It posts that frame.
LEMMA MainPostsKeeps ==
    ASSUME IInv, MainPosts
    PROVE  IInv'
<1>1. TypeOK /\ main.slot \in Slots
  BY Types DEF IInv
<1>2. MaxArrivals + MainSent \in Frames
  BY MainNumber DEF MainPosts
<1>3. /\ txData' \in [Slots -> Frames \cup {Torn}]
      /\ txFlags' \in [Slots -> Frames \cup {Torn}]
      /\ txOwned' \subseteq Slots /\ \A j \in txOwned' : txFlags'[j] \in Frames
  BY <1>1, <1>2, PostFacts DEF MainPosts
<1>4. TypeOK'
  <2>1. marks' \subseteq Windows
    BY <1>1, Types DEF MainPosts, Windows
  <2>. QED
    BY <1>1, <1>3, <2>1, Types DEF MainPosts, rxVars, TypeOK
<1>5. MainSent' = MainSent
  BY DEF MainPosts, MainSent
<1>6. SendsNumbered'
  BY <1>1, <1>3, <1>5, Types DEF IInv, MainPosts, SendsNumbered
<1>7. WillLook'
  <2>1. marks \subseteq marks'
    BY DEF MainPosts
  <2>. QED
    BY <2>1 DEF IInv, MainPosts, rxVars, WillLook, Waiting
<1>8. CardAhead' /\ FlagsFollow' /\ HandledInOrder'
  BY RingUnchanged DEF MainPosts, rxVars
<1>. QED
  BY <1>4, <1>6, <1>7, <1>8 DEF IInv

\* The card sends a frame that it owns.
LEMMA CardSendsKeeps ==
    ASSUME IInv, CardSends
    PROVE  IInv'
<1>1. TypeOK
  BY DEF IInv
<1>2. NextSlot(cardTx) \in Slots
  BY <1>1, Types, NextSlotFacts
<1>3. wire' \in Seq(Handled)
  <2>1. txFlags[cardTx] \in Frames /\ txData[cardTx] \in Frames \cup {Torn}
    BY <1>1, Types DEF IInv, CardSends, SendsNumbered
  <2>2. [n |-> txFlags[cardTx], data |-> txData[cardTx]] \in Handled
    BY <2>1 DEF Handled
  <2>. QED
    BY <1>1, <2>2, Types, AppendProperties DEF CardSends
<1>4. TypeOK'
  BY <1>1, <1>2, <1>3, Types DEF CardSends, rxVars, TypeOK, Handled
<1>5. SendsNumbered'
  BY DEF IInv, CardSends, SendsNumbered, MainSent
<1>6. WillLook'
  BY DEF IInv, CardSends, rxVars, WillLook, Waiting
<1>7. CardAhead' /\ FlagsFollow' /\ HandledInOrder'
  BY RingUnchanged DEF CardSends, rxVars
<1>. QED
  BY <1>4, <1>5, <1>6, <1>7 DEF IInv

\* A step that leaves the rings, and what was sent, alone.
LEMMA RingsUnchanged ==
    ASSUME IInv, UNCHANGED <<rxVars, txVars>>, UNCHANGED <<main, marks>>
    PROVE  CardAhead' /\ FlagsFollow' /\ HandledInOrder' /\ SendsNumbered'
<1>1. CardAhead' /\ FlagsFollow' /\ HandledInOrder'
  BY RingUnchanged DEF rxVars
<1>2. SendsNumbered'
  BY DEF IInv, SendsNumbered, MainSent, txVars
<1>. QED
  BY <1>1, <1>2

\* The steps of the handler between its frames.
LEMMA HandlerKeeps ==
    ASSUME IInv, EnterInterrupt \/ NoMoreFrames \/ Acknowledge
    PROVE  IInv'
<1>1. TypeOK
  BY DEF IInv
<1>2. UNCHANGED <<rxVars, txVars>> /\ UNCHANGED <<main, marks>>
  BY DEF EnterInterrupt, NoMoreFrames, Acknowledge
<1>3. TypeOK'
  <2>1. irq' \in [at : {"idle", "look", "ack"}, temp : SUBSET {"RINT", "TINT"}]
        /\ csr0' \subseteq {"RINT", "TINT"}
    <3>1. csr0 \subseteq {"RINT", "TINT"}
          /\ irq \in [at : {"idle", "look", "ack"}, temp : SUBSET {"RINT", "TINT"}]
      BY <1>1, Types
    <3>2. CASE EnterInterrupt
      BY <3>1, <3>2 DEF EnterInterrupt
    <3>3. CASE NoMoreFrames
      BY <3>1, <3>3 DEF NoMoreFrames
    <3>4. CASE Acknowledge
      BY <3>1, <3>4 DEF Acknowledge
    <3>. QED
      BY <3>2, <3>3, <3>4
  <2>. QED
    BY <1>1, <1>2, <2>1 DEF TypeOK, rxVars, txVars
<1>4. WillLook'
  <2>1. Waiting' = Waiting
    BY <1>2 DEF Waiting, rxVars
  <2>2. CASE EnterInterrupt
    BY <1>1, <2>1, <2>2, Types DEF IInv, EnterInterrupt, WillLook
  <2>3. CASE NoMoreFrames
    <3>1. Waiting = {}
      BY <2>3, NextFrame DEF NoMoreFrames, Waiting
    <3>. QED
      BY <2>1, <3>1 DEF WillLook
  <2>4. CASE Acknowledge
    BY <1>1, <2>1, <2>4, Types DEF IInv, Acknowledge, WillLook
  <2>. QED
    BY <2>2, <2>3, <2>4
<1>. QED
  BY <1>2, <1>3, <1>4, RingsUnchanged DEF IInv

\* The invariant is inductive.
LEMMA StepInv == IInv /\ [Next]_vars => IInv'
<1>. SUFFICES ASSUME IInv, [Next]_vars PROVE IInv'
  OBVIOUS
<1>1. ASSUME NEW good \in BOOLEAN, CardReceives(good) PROVE IInv'
  BY <1>1, ReceiveKeeps
<1>2. CASE CardSends
  BY <1>2, CardSendsKeeps
<1>3. CASE EnterInterrupt \/ NoMoreFrames \/ Acknowledge
  BY <1>3, HandlerKeeps
<1>4. ASSUME NEW sendBack \in BOOLEAN, TakeFrame(sendBack) PROVE IInv'
  BY <1>4, TakeKeeps
<1>5. CASE MainTakesSlot
  BY <1>5, MainTakesKeeps
<1>6. CASE MainAdvances
  <2>1. TypeOK'
    <3>1. currentSendBuffer' \in Slots /\ main' \in [at : {"idle", "took", "advanced"}, slot : Slots]
      BY <1>6, Types, NextSlotFacts DEF IInv, MainAdvances
    <3>. QED
      BY <1>6, <3>1 DEF IInv, MainAdvances, rxVars, TypeOK
  <2>2. SendsNumbered'
    BY <1>6 DEF IInv, MainAdvances, SendsNumbered, MainSent
  <2>3. WillLook'
    BY <1>6 DEF IInv, MainAdvances, rxVars, WillLook, Waiting
  <2>4. CardAhead' /\ FlagsFollow' /\ HandledInOrder'
    BY <1>6, RingUnchanged DEF MainAdvances, rxVars
  <2>. QED
    BY <2>1, <2>2, <2>3, <2>4 DEF IInv
<1>7. CASE MainPosts
  BY <1>7, MainPostsKeeps
<1>8. CASE UNCHANGED vars
  <2>1. TypeOK' /\ WillLook'
    BY <1>8 DEF IInv, vars, rxVars, txVars, TypeOK, WillLook, Waiting
  <2>. QED
    BY <1>8, <2>1, RingsUnchanged DEF vars, IInv
<1>. QED
  BY <1>1, <1>2, <1>3, <1>4, <1>5, <1>6, <1>7, <1>8 DEF Next, HandlerStep, MainStep

\* So it always holds.
LEMMA Invariance == Spec => []IInv
BY InitInv, StepInv, PTL DEF Spec

\* The driver's and the card's variables hold what their types allow, the numbers
\* of the frames on the wire included (AM79C973.h:52-66).
THEOREM TypeCorrect == Spec => []TypeOK
BY Invariance, PTL DEF IInv

\* Whatever the ring's size, the handler is given exactly the sound frames among
\* those taken, in order and once each (lines 180-205).
THEOREM HandledInOrderHolds == Spec => []HandledInOrder
BY Invariance, PTL DEF IInv

\* A frame is left waiting only by one that came between the handler's last look
\* and its acknowledgement (lines 136-141).
THEOREM StrandedOnlyWhenLateHolds == Spec => []StrandedOnlyWhenLate
<1>1. IInv => StrandedOnlyWhenLate
  BY DEF IInv, WillLook, StrandedOnlyWhenLate
<1>. QED
  BY <1>1, Invariance, PTL
-----------------------------------------------------------------------------
(* What the buffers hold.                                                  *)

\* The frames are as long as all rows that the ring uses: with the code's 8 rows of
\* 8 bytes, frames of more than 64 bytes.
RowsOverlap == \A i, j \in Slots : Overlap(i, j)

\* Each frame is written over those that wait.
LEMMA NewestStep ==
    ASSUME RowsOverlap, IInv, OnlyNewestIntact, [Next]_vars
    PROVE  OnlyNewestIntact'
<1>1. CASE UNCHANGED <<rxOwned, rxFlags, rxData>>
  BY <1>1 DEF OnlyNewestIntact, Waiting
<1>2. ASSUME NEW sendBack \in BOOLEAN, TakeFrame(sendBack) PROVE OnlyNewestIntact'
  <2>1. Waiting' \subseteq Waiting /\ UNCHANGED <<rxFlags, rxData>>
    BY <1>2, TakeKeepsRing DEF TakeFrame
  <2>. QED
    BY <2>1 DEF OnlyNewestIntact
<1>3. ASSUME NEW good \in BOOLEAN, CardReceives(good) PROVE OnlyNewestIntact'
  <2>. DEFINE c == cardRx
              n == Len(arrived) + 1
  <2>1. /\ c \in Slots /\ rxData \in [Slots -> Frames \cup {Torn}]
        /\ rxFlags \in [Slots -> [n : Frames \cup {Torn}, good : BOOLEAN]]
        /\ n \in Frames
    BY <1>3, Types, Counts DEF IInv, CardReceives, Frames
  <2>2. \A j \in Slots : rxData'[j] \in {n, Torn}
    <3>1. rxData' = Written(rxData, c, n)
      BY <1>3 DEF CardReceives
    <3>2. \A j \in Slots : Overlap(c, j)
      BY <2>1 DEF RowsOverlap
    <3>. DEFINE S == Frames \cup {Torn}
    <3>3. Torn \in S /\ rxData \in [Slots -> S] /\ c \in Slots /\ n \in S
      BY <2>1
    <3>. HIDE DEF c, n, S
    <3>4. \A j \in Slots : Overlap(c, j) => Written(rxData, c, n)[j] \in {n, Torn}
      BY <3>3, WrittenFacts
    <3>. QED
      BY <3>1, <3>2, <3>4
  <2>3. /\ rxFlags' = [rxFlags EXCEPT ![c] = [n |-> n, good |-> good]]
        /\ Waiting' \subseteq Waiting \cup {c} /\ Waiting' \subseteq Slots
    BY <1>3 DEF CardReceives, Waiting
  <2>4. \A s \in Waiting : rxFlags[s].n \in 1 .. Len(arrived)
    <3>1. ASSUME NEW s \in Waiting PROVE rxFlags[s].n \in 1 .. Len(arrived)
      <4>1. currentRecvBuffer \in Slots /\ s \in Slots
        BY Types DEF IInv, Waiting
      <4>2. Distance(currentRecvBuffer, s) \in 0 .. RingSize - 1
        BY <4>1, DistanceFacts
      <4>3. Distance(currentRecvBuffer, s) < Waits
        BY <4>1 DEF IInv, CardAhead
      <4>4. rxFlags[s].n = Taken + 1 + Distance(currentRecvBuffer, s)
        <5>. DEFINE m == Taken + 1 + Distance(currentRecvBuffer, s)
        <5>1. rxFlags[s] = [n |-> m, good |-> arrived[m]]
          BY DEF IInv, FlagsFollow
        <5>. HIDE DEF m
        <5>2. rxFlags[s].n = m
          BY <5>1
        <5>. QED
          BY <5>2 DEF m
      <4>5. RingSize \in Nat
        BY NicAssumption
      <4>. QED
        BY <4>2, <4>3, <4>4, <4>5, Counts
    <3>. QED
      BY <3>1
  <2>. HIDE DEF c
  <2>5. ASSUME NEW i \in Waiting', NEW j \in Waiting', i # j, rxFlags'[i].n < rxFlags'[j].n
        PROVE  rxData'[i] # rxFlags'[i].n
    <3>1. CASE i = c
      <4>1. rxFlags'[j].n \in 1 .. Len(arrived) /\ rxFlags'[i].n = n
        BY <2>1, <2>3, <2>4, <2>5, <3>1
      <4>. QED
        BY <2>5, <4>1, Counts
    <3>2. CASE i # c
      <4>1. rxFlags'[i].n \in 1 .. Len(arrived) /\ i \in Slots
        BY <2>1, <2>3, <2>4, <2>5, <3>2
      <4>. QED
        BY <2>2, <4>1, Counts DEF Torn
    <3>. QED
      BY <3>1, <3>2
  <2>. QED
    BY <2>5 DEF OnlyNewestIntact
<1>4. CASE CardSends \/ EnterInterrupt \/ NoMoreFrames \/ Acknowledge \/ MainStep \/ UNCHANGED vars
  BY <1>1, <1>4 DEF CardSends, EnterInterrupt, NoMoreFrames, Acknowledge, MainStep,
     MainTakesSlot, MainAdvances, MainPosts, vars, rxVars
<1>. QED
  BY <1>2, <1>3, <1>4 DEF Next, HandlerStep

\* When a frame is as long as the rows together, only the newest of the frames that
\* wait is whole (AM79C973.h:64).
THEOREM OnlyNewestIntactHolds ==
    ASSUME RowsOverlap
    PROVE  Spec => []OnlyNewestIntact
<1>1. Init => OnlyNewestIntact
  BY DEF Init, OnlyNewestIntact, Waiting
<1>2. IInv /\ OnlyNewestIntact /\ [Next]_vars => OnlyNewestIntact'
  BY NewestStep
<1>. QED
  BY <1>1, <1>2, Invariance, PTL DEF Spec
=============================================================================
