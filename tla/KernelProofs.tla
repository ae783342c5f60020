---------------------------- MODULE KernelProofs ----------------------------
(***************************************************************************)
(* What Kernel's run checks with three lines and two beats of a sound,     *)
(* proved for any lines, sounds and tasks.                                 *)
(*                                                                         *)
(* The argument: only the keyboard's handler ever runs with interrupts on, *)
(* so that every handler but the last on the stack is the keyboard's.  A   *)
(* line that is delivered is more urgent than all in service, so that one  *)
(* end-of-interrupt command ends the line of the handler that sends it.    *)
(***************************************************************************)
EXTENDS Kernel, SequenceTheorems, TLAPS

Open(i) == i \in 1 .. Len(handlers) /\ ~handlers[i].acked

\* Who can be interrupted.
OnlyKeyboardIsInterrupted ==
    /\ handlers # << >> /\ iflag => Running.line = Keyboard
    /\ \A i \in 1 .. Len(handlers) : i < Len(handlers) => handlers[i].line = Keyboard

\* A handler is more urgent than those in their bodies that it interrupted.
Nested ==
    \A i, j \in 1 .. Len(handlers) :
        i < j /\ ~handlers[i].acked => Urgency(handlers[j].line) < Urgency(handlers[i].line)

\* A line is in service as long as its handler is in its body.
OpenInService == \A i \in 1 .. Len(handlers) : ~handlers[i].acked => handlers[i].line \in inService

\* Only handlers above it have a line that is as urgent.
MoreUrgentAbove ==
    \A i \in 1 .. Len(handlers) : ~handlers[i].acked =>
        \A m \in inService :
            \/ Urgency(handlers[i].line) < Urgency(m)
            \/ \E j \in 1 .. Len(handlers) : i <= j /\ ~handlers[j].acked /\ handlers[j].line = m

\* What is in service has its handler, but for the two ways to lose it.
Explained ==
    \A m \in inService :
        \/ \E i \in 1 .. Len(handlers) : ~handlers[i].acked /\ handlers[i].line = m
        \/ "unmanaged" \in marks
        \/ "switched" \in marks /\ m = Keyboard

AloneUnmanaged == boot = "unmanaged" => handlers = << >>

\* A command that spins does so in the keyboard's handler, which nothing interrupts.
SpinsInHandler ==
    spinning # "none" =>
        /\ handlers # << >> /\ Running.line = Keyboard /\ ~Running.acked
        /\ ~iflag /\ ~halted

StackInv ==
    /\ TypeOK
    /\ OnlyKeyboardIsInterrupted
    /\ Nested
    /\ OpenInService
    /\ MoreUrgentAbove
    /\ Explained
    /\ AloneUnmanaged

IInv == StackInv /\ SpinsInHandler
-----------------------------------------------------------------------------
\* Lines and their urgency.
LEMMA LineFacts ==
    /\ Lines \subseteq Nat /\ Timer \in Lines /\ Keyboard \in Lines
    /\ \A n \in Nat : Urgency(n) \in Nat
    /\ \A n \in Nat : Urgency(n) < Urgency(Keyboard) => n = Timer
    /\ \A n \in Nat : Urgency(n) = Urgency(Keyboard) => n = Keyboard
BY KernelAssumption DEF Urgency, Timer, Keyboard

\* kernelMain's places as a set.
LEMMA PlacesFacts ==
    {Places[i] : i \in 1 .. Len(Places)} =
      {"off", "network", "unmanaged", "masked", "managed", "sounding", "ready"}
<1>1. Len(Places) = 7
  BY DEF Places
<1>2. \A i \in 1 .. 7 : i = 1 \/ i = 2 \/ i = 3 \/ i = 4 \/ i = 5 \/ i = 6 \/ i = 7
  OBVIOUS
<1>3. /\ Places[1] = "off" /\ Places[2] = "network" /\ Places[3] = "unmanaged"
      /\ Places[4] = "masked" /\ Places[5] = "managed" /\ Places[6] = "sounding"
      /\ Places[7] = "ready"
  BY DEF Places
<1>. HIDE DEF Places
<1>. QED
  BY <1>1, <1>2, <1>3

\* The stack: handlers are handlers, and there are as many as its length says.
LEMMA StackFacts ==
    ASSUME handlers \in Seq(Handler)
    PROVE  /\ Len(handlers) \in Nat
           /\ \A i \in 1 .. Len(handlers) :
                /\ handlers[i] \in Handler /\ handlers[i].line \in Lines
                /\ handlers[i].acked \in BOOLEAN /\ handlers[i].beats \in 0 .. Beats
           /\ handlers # << >> <=> Len(handlers) > 0
<1>1. Len(handlers) \in Nat /\ \A i \in 1 .. Len(handlers) : handlers[i] \in Handler
  BY LenProperties, ElementOfSeq
<1>2. handlers # << >> <=> Len(handlers) > 0
  BY <1>1, EmptySeq, SMT
<1>. QED
  BY <1>1, <1>2 DEF Handler

\* A handler is put on the stack.
LEMMA Pushed ==
    ASSUME handlers \in Seq(Handler), NEW h \in Handler
    PROVE  /\ Append(handlers, h) \in Seq(Handler)
           /\ Len(Append(handlers, h)) = Len(handlers) + 1
           /\ \A i \in 1 .. Len(handlers) : Append(handlers, h)[i] = handlers[i]
           /\ Append(handlers, h)[Len(handlers) + 1] = h
BY AppendProperties

\* The last handler leaves the stack.
LEMMA Popped ==
    ASSUME handlers \in Seq(Handler), handlers # << >>
    PROVE  /\ Finished \in Seq(Handler)
           /\ Len(Finished) = Len(handlers) - 1
           /\ \A i \in 1 .. Len(handlers) - 1 : Finished[i] = handlers[i]
<1>1. Len(handlers) \in Nat /\ Len(handlers) > 0
  BY StackFacts
<1>2. /\ 1 \in 1 .. Len(handlers) + 1 /\ Len(handlers) - 1 \in 0 .. Len(handlers)
  BY <1>1
<1>3. \A i \in 1 .. Len(handlers) - 1 : handlers[i] \in Handler
  BY <1>1, StackFacts
<1>4. /\ SubSeq(handlers, 1, Len(handlers) - 1) \in Seq(Handler)
      /\ Len(SubSeq(handlers, 1, Len(handlers) - 1)) =
           IF 1 <= Len(handlers) - 1 THEN (Len(handlers) - 1) - 1 + 1 ELSE 0
      /\ \A i \in 1 .. (Len(handlers) - 1) - 1 + 1 :
           SubSeq(handlers, 1, Len(handlers) - 1)[i] = handlers[1 + i - 1]
  <2>1. 1 \in Int /\ Len(handlers) - 1 \in Int
    BY <1>1
  <2>. QED
    BY <2>1, <1>3, SubSeqProperties
<1>5. \A i \in 1 .. Len(handlers) - 1 :
        SubSeq(handlers, 1, Len(handlers) - 1)[i] = handlers[i]
  <2>. SUFFICES ASSUME NEW i \in 1 .. Len(handlers) - 1
                PROVE  SubSeq(handlers, 1, Len(handlers) - 1)[i] = handlers[i]
    OBVIOUS
  <2>1. i \in 1 .. (Len(handlers) - 1) - 1 + 1 /\ 1 + i - 1 = i
    BY <1>1
  <2>. QED
    BY <2>1, <1>4
<1>6. (IF 1 <= Len(handlers) - 1 THEN (Len(handlers) - 1) - 1 + 1 ELSE 0) = Len(handlers) - 1
  <2>1. \A n \in Nat : n > 0 => (IF 1 <= n - 1 THEN (n - 1) - 1 + 1 ELSE 0) = n - 1
    OBVIOUS
  <2>. QED
    BY <1>1, <2>1
<1>. QED
  BY <1>4, <1>5, <1>6 DEF Finished

\* The last handler changes.
LEMMA Changed ==
    ASSUME handlers \in Seq(Handler), handlers # << >>, NEW h \in Handler
    PROVE  LET new == [handlers EXCEPT ![Len(handlers)] = h] IN
           /\ new \in Seq(Handler)
           /\ Len(new) = Len(handlers)
           /\ \A i \in 1 .. Len(handlers) : i < Len(handlers) => new[i] = handlers[i]
           /\ new[Len(handlers)] = h
<1>1. Len(handlers) \in 1 .. Len(handlers)
  BY StackFacts
<1>. QED
  BY <1>1, ExceptSeq, LenProperties, StackFacts
-----------------------------------------------------------------------------
\* Steps that change no handler's line, and acknowledge none.
LEMMA StackKept ==
    ASSUME StackInv, TypeOK',
           Len(handlers') = Len(handlers),
           \A i \in 1 .. Len(handlers) : /\ handlers'[i].line = handlers[i].line
                                         /\ handlers'[i].acked = handlers[i].acked,
           iflag' /\ ~iflag => handlers = << >> \/ Running.line = Keyboard,
           inService' = inService, marks \subseteq marks',
           boot' = "unmanaged" => handlers = << >>
    PROVE  StackInv'
<1>. USE StackFacts DEF StackInv, TypeOK
<1>0. handlers' \in Seq(Handler)
  BY DEF TypeOK
<1>1. handlers' = << >> <=> handlers = << >>
  BY <1>0, EmptySeq, LenProperties
<1>2. OnlyKeyboardIsInterrupted'
  BY <1>1 DEF OnlyKeyboardIsInterrupted, Running
<1>3. Nested'
  BY DEF Nested
<1>4. OpenInService'
  BY DEF OpenInService
<1>5. MoreUrgentAbove'
  <2>. SUFFICES ASSUME NEW i \in 1 .. Len(handlers), ~handlers[i].acked, NEW m \in inService,
                       ~(Urgency(handlers[i].line) < Urgency(m))
                PROVE  \E j \in 1 .. Len(handlers) :
                         i <= j /\ ~handlers'[j].acked /\ handlers'[j].line = m
    BY DEF MoreUrgentAbove
  <2>1. PICK j \in 1 .. Len(handlers) : i <= j /\ ~handlers[j].acked /\ handlers[j].line = m
    BY DEF MoreUrgentAbove
  <2>. QED
    BY <2>1
<1>6. Explained'
  BY SMTT(30) DEF Explained
<1>7. AloneUnmanaged'
  BY <1>1 DEF AloneUnmanaged
<1>. QED
  BY <1>2, <1>3, <1>4, <1>5, <1>6, <1>7

\* The running handler changes in its beats alone.
LEMMA RunningChanges ==
    ASSUME StackInv, TypeOK', handlers # << >>, NEW h, h.line = Running.line,
           h.acked = Running.acked, handlers' = [handlers EXCEPT ![Len(handlers)] = h],
           iflag' /\ ~iflag => Running.line = Keyboard,
           inService' = inService, marks' = marks, boot' = boot
    PROVE  StackInv'
<1>. USE DEF StackInv, TypeOK
<1>1. Len(handlers) \in Nat /\ DOMAIN handlers = 1 .. Len(handlers)
  BY StackFacts, LenProperties
<1>2. DOMAIN handlers' = 1 .. Len(handlers) /\ handlers' \in Seq(Handler)
  BY <1>1
<1>3. Len(handlers') = Len(handlers)
  BY <1>1, <1>2, LenProperties
<1>4. \A i \in 1 .. Len(handlers) : /\ handlers'[i].line = handlers[i].line
                                    /\ handlers'[i].acked = handlers[i].acked
  BY <1>1 DEF Running
<1>5. boot' = "unmanaged" => handlers = << >>
  BY DEF AloneUnmanaged
<1>. QED
  BY <1>3, <1>4, <1>5, StackKept

\* A line is delivered to the kernel's manager.
LEMMA DeliverKeeps ==
    ASSUME StackInv, TypeOK', NEW n \in Lines, Deliver(n)
    PROVE  StackInv'
<1>. DEFINE h == [line |-> n, acked |-> FALSE, beats |-> 0]
            L == Len(handlers)
<1>. USE DEF StackInv, TypeOK
<1>1. /\ L \in Nat /\ handlers \in Seq(Handler) /\ iflag
      /\ \A m \in inService : Urgency(n) < Urgency(m)
      /\ handlers' = Append(handlers, h) /\ inService' = inService \cup {n}
      /\ iflag' = FALSE /\ marks' = marks /\ boot' = boot /\ boot # "unmanaged"
  BY StackFacts DEF Deliver, Deliverable, main, fate
<1>2. h \in Handler
  BY KernelAssumption DEF Handler
<1>3. /\ handlers' \in Seq(Handler) /\ Len(handlers') = L + 1
      /\ \A i \in 1 .. L : handlers'[i] = handlers[i]
      /\ handlers'[L + 1] = h
  BY <1>1, <1>2, Pushed
<1>4. \A i \in 1 .. L + 1 : i \in 1 .. L \/ i = L + 1
  BY <1>1
<1>5. OnlyKeyboardIsInterrupted'
  BY <1>1, <1>3, <1>4, StackFacts DEF OnlyKeyboardIsInterrupted, Running
<1>6. \A i \in 1 .. L : ~handlers[i].acked => Urgency(n) < Urgency(handlers[i].line)
  BY <1>1 DEF OpenInService
<1>7. Nested'
  <2>. SUFFICES ASSUME NEW i \in 1 .. L + 1, NEW j \in 1 .. L + 1, i < j,
                       ~handlers'[i].acked
                PROVE  Urgency(handlers'[j].line) < Urgency(handlers'[i].line)
    BY <1>3 DEF Nested
  <2>1. i \in 1 .. L
    BY <1>1
  <2>2. CASE j \in 1 .. L
    BY <2>1, <2>2, <1>3 DEF Nested
  <2>3. CASE j = L + 1
    BY <2>1, <2>3, <1>3, <1>6, SMTT(30)
  <2>. QED
    BY <2>2, <2>3, <1>4
<1>8. OpenInService'
  BY <1>1, <1>3, <1>4 DEF OpenInService
<1>9. MoreUrgentAbove'
  <2>. SUFFICES ASSUME NEW i \in 1 .. L + 1, ~handlers'[i].acked,
                       NEW m \in inService \cup {n},
                       ~(Urgency(handlers'[i].line) < Urgency(m))
                PROVE  \E j \in 1 .. L + 1 :
                         i <= j /\ ~handlers'[j].acked /\ handlers'[j].line = m
    BY <1>1, <1>3 DEF MoreUrgentAbove
  <2>1. CASE m = n
    BY <2>1, <1>1, <1>3, SMTT(30)
  <2>2. CASE m \in inService /\ i = L + 1
    BY <2>2, <1>1, <1>3, SMTT(30)
  <2>3. CASE m \in inService /\ i \in 1 .. L
    <3>1. PICK j \in 1 .. L : i <= j /\ ~handlers[j].acked /\ handlers[j].line = m
      BY <2>3, <1>3 DEF MoreUrgentAbove
    <3>2. j \in 1 .. L + 1
      BY <1>1
    <3>. QED
      BY <3>1, <3>2, <1>3
  <2>. QED
    BY <2>1, <2>2, <2>3, <1>4
<1>10. Explained'
  <2>. SUFFICES ASSUME NEW m \in inService \cup {n}, "unmanaged" \notin marks,
                       ~("switched" \in marks /\ m = Keyboard)
                PROVE  \E i \in 1 .. L + 1 : ~handlers'[i].acked /\ handlers'[i].line = m
    BY <1>1, <1>3 DEF Explained
  <2>1. CASE m = n
    BY <2>1, <1>1, <1>3
  <2>2. CASE m \in inService
    <3>1. PICK i \in 1 .. L : ~handlers[i].acked /\ handlers[i].line = m
      BY <2>2 DEF Explained
    <3>2. i \in 1 .. L + 1
      BY <1>1
    <3>. QED
      BY <3>1, <3>2, <1>3
  <2>. QED
    BY <2>1, <2>2
<1>11. AloneUnmanaged'
  BY <1>1 DEF AloneUnmanaged
<1>. QED
  BY <1>5, <1>7, <1>8, <1>9, <1>10, <1>11

\* What one end-of-interrupt command leaves in service: all but the line of the
\* handler that sends it.
LEMMA OneCommandOneLine ==
    ASSUME StackInv, handlers # << >>, ~Running.acked
    PROVE  AfterEoi(Running.line) = inService \ {Running.line}
<1>. DEFINE L == Len(handlers)
            r == Running.line
<1>. USE DEF StackInv, TypeOK
<1>0. L \in Nat /\ L > 0
  BY StackFacts
<1>1. /\ L \in 1 .. L /\ L \in Nat /\ handlers[L] = Running /\ r \in inService /\ r \in Nat
  <2>1. L \in 1 .. L
    BY <1>0
  <2>. QED
    BY <1>0, <2>1, LineFacts DEF OpenInService, Running
<1>2. \A m \in inService : m \in Nat /\ Urgency(m) \in Nat
  BY LineFacts
<1>3. \A m \in inService : m = r \/ Urgency(r) < Urgency(m)
  <2>. SUFFICES ASSUME NEW m \in inService, ~(Urgency(r) < Urgency(m)) PROVE m = r
    OBVIOUS
  <2>1. PICK j \in 1 .. L : L <= j /\ ~handlers[j].acked /\ handlers[j].line = m
    BY <1>1 DEF MoreUrgentAbove
  <2>2. j = L
    BY <1>1, <2>1
  <2>. QED
    BY <2>1, <2>2, <1>1
<1>4. MostUrgent(inService) = {r}
  <2>1. ASSUME NEW m \in MostUrgent(inService) PROVE m = r
    <3>1. m \in inService /\ Urgency(m) <= Urgency(r)
      BY <2>1, <1>1 DEF MostUrgent
    <3>. QED
      BY <3>1, <1>1, <1>2, <1>3
  <2>2. r \in MostUrgent(inService)
    <3>1. \A m \in inService : Urgency(r) <= Urgency(m)
      BY <1>1, <1>2, <1>3
    <3>. QED
      BY <3>1, <1>1 DEF MostUrgent
  <2>. QED
    BY <2>1, <2>2
<1>. QED
  BY <1>4 DEF AfterEoi

\* A handler is done and acknowledges its line.
LEMMA AcknowledgeKeeps ==
    ASSUME StackInv, TypeOK', handlers # << >>, ~Running.acked, EndOfInterrupt
    PROVE  StackInv'
<1>. DEFINE L == Len(handlers)
            r == Running.line
            h == [handlers[L] EXCEPT !.acked = TRUE]
<1>. USE DEF StackInv, TypeOK
<1>1. /\ handlers # << >> /\ ~Running.acked /\ inService' = AfterEoi(r)
      /\ handlers' = [handlers EXCEPT ![L] = h]
      /\ iflag' = iflag /\ marks' = marks /\ boot' = boot
  BY DEF EndOfInterrupt, main
<1>2. L \in Nat /\ L \in 1 .. L /\ handlers[L] \in Handler /\ Running = handlers[L]
  BY <1>1, StackFacts DEF Running
<1>3. h \in Handler /\ h.acked = TRUE /\ h.line = r
  BY <1>2 DEF Handler
<1>4. /\ handlers' \in Seq(Handler) /\ Len(handlers') = L
      /\ \A i \in 1 .. L : i < L => handlers'[i] = handlers[i]
      /\ handlers'[L] = h
  BY <1>1, <1>3, Changed
<1>5. inService' = inService \ {r}
  BY <1>1, OneCommandOneLine
<1>6. \A i \in 1 .. L : i < L \/ i = L
  BY <1>2
<1>7. \A i \in 1 .. L : handlers'[i].line = handlers[i].line
  BY <1>2, <1>3, <1>4, <1>6
<1>8. \A i \in 1 .. L : ~handlers'[i].acked => i < L /\ ~handlers[i].acked
  BY <1>3, <1>4, <1>6
<1>9. \A i \in 1 .. L : i < L /\ ~handlers[i].acked => ~handlers'[i].acked
  BY <1>4
<1>10. handlers' # << >>
  BY <1>2, <1>4, EmptySeq, LenProperties
<1>11. OnlyKeyboardIsInterrupted'
  BY <1>1, <1>2, <1>3, <1>4, <1>7, <1>10 DEF OnlyKeyboardIsInterrupted, Running
<1>12. Nested'
  BY <1>4, <1>7, <1>8 DEF Nested
<1>13. \A i \in 1 .. L : ~handlers'[i].acked => handlers[i].line # r
  <2>. SUFFICES ASSUME NEW i \in 1 .. L, i < L, ~handlers[i].acked PROVE handlers[i].line # r
    BY <1>8
  <2>1. Urgency(r) < Urgency(handlers[i].line)
    BY <1>2 DEF Nested
  <2>2. Urgency(r) \in Nat
    BY <1>2, StackFacts, LineFacts
  <2>. QED
    BY <2>1, <2>2
<1>14. OpenInService'
  BY <1>4, <1>5, <1>7, <1>8, <1>13 DEF OpenInService
<1>15. MoreUrgentAbove'
  <2>. SUFFICES ASSUME NEW i \in 1 .. L, ~handlers'[i].acked, NEW m \in inService \ {r},
                       ~(Urgency(handlers'[i].line) < Urgency(m))
                PROVE  \E j \in 1 .. L :
                         i <= j /\ ~handlers'[j].acked /\ handlers'[j].line = m
    BY <1>4, <1>5 DEF MoreUrgentAbove
  <2>1. PICK j \in 1 .. L : i <= j /\ ~handlers[j].acked /\ handlers[j].line = m
    BY <1>7, <1>8 DEF MoreUrgentAbove
  <2>2. j < L
    BY <2>1, <1>2, <1>6
  <2>. QED
    BY <2>1, <2>2, <1>7, <1>9
<1>16. Explained'
  <2>. SUFFICES ASSUME NEW m \in inService \ {r}, "unmanaged" \notin marks,
                       ~("switched" \in marks /\ m = Keyboard)
                PROVE  \E i \in 1 .. L : ~handlers'[i].acked /\ handlers'[i].line = m
    BY <1>1, <1>4, <1>5 DEF Explained
  <2>1. PICK i \in 1 .. L : ~handlers[i].acked /\ handlers[i].line = m
    BY DEF Explained
  <2>2. i < L
    BY <2>1, <1>2, <1>6
  <2>. QED
    BY <2>1, <2>2, <1>7, <1>9
<1>17. AloneUnmanaged'
  BY <1>1 DEF AloneUnmanaged
<1>. QED
  BY <1>11, <1>12, <1>14, <1>15, <1>16, <1>17

\* A handler returns to what it interrupted.
LEMMA HandlerReturnsKeeps ==
    ASSUME StackInv, TypeOK', HandlerReturns
    PROVE  StackInv'
<1>. DEFINE L == Len(handlers)
<1>. USE DEF StackInv, TypeOK
<1>1. /\ handlers # << >> /\ Running.acked /\ handlers' = Finished
      /\ inService' = inService /\ marks' = marks /\ boot' = boot
  BY DEF HandlerReturns, InHandler, main, fate, pic
<1>2. L \in Nat /\ L > 0 /\ Running = handlers[L]
  BY <1>1, StackFacts DEF Running
<1>3. /\ Len(handlers') = L - 1 /\ handlers' \in Seq(Handler)
      /\ \A i \in 1 .. L - 1 : handlers'[i] = handlers[i]
  BY <1>1, Popped
<1>4. \A i \in 1 .. L - 1 : i \in 1 .. L /\ i < L
  BY <1>2
<1>5. \A i \in 1 .. L : ~handlers[i].acked => i \in 1 .. L - 1
  BY <1>1, <1>2
<1>6. OnlyKeyboardIsInterrupted'
  <2>1. \A i \in 1 .. L - 1 : handlers'[i].line = Keyboard
    BY <1>3, <1>4 DEF OnlyKeyboardIsInterrupted
  <2>2. handlers' # << >> => Len(handlers') \in 1 .. Len(handlers')
    BY <1>2, <1>3, EmptySeq, LenProperties
  <2>. QED
    BY <2>1, <2>2, <1>3 DEF OnlyKeyboardIsInterrupted, Running
<1>7. Nested'
  BY <1>3, <1>4, SMTT(30) DEF Nested
<1>8. OpenInService'
  BY <1>1, <1>3, <1>4 DEF OpenInService
<1>9. MoreUrgentAbove'
  <2>. SUFFICES ASSUME NEW i \in 1 .. L - 1, ~handlers'[i].acked, NEW m \in inService,
                       ~(Urgency(handlers'[i].line) < Urgency(m))
                PROVE  \E j \in 1 .. L - 1 :
                         i <= j /\ ~handlers'[j].acked /\ handlers'[j].line = m
    BY <1>1, <1>3 DEF MoreUrgentAbove
  <2>1. PICK j \in 1 .. L : i <= j /\ ~handlers[j].acked /\ handlers[j].line = m
    BY <1>3, <1>4 DEF MoreUrgentAbove
  <2>. QED
    BY <2>1, <1>3, <1>5
<1>10. Explained'
  <2>. SUFFICES ASSUME NEW m \in inService, "unmanaged" \notin marks,
                       ~("switched" \in marks /\ m = Keyboard)
                PROVE  \E i \in 1 .. L - 1 : ~handlers'[i].acked /\ handlers'[i].line = m
    BY <1>1, <1>3 DEF Explained
  <2>1. PICK i \in 1 .. L : ~handlers[i].acked /\ handlers[i].line = m
    BY DEF Explained
  <2>. QED
    BY <2>1, <1>3, <1>5
<1>11. AloneUnmanaged'
  BY <1>1 DEF AloneUnmanaged
<1>. QED
  BY <1>6, <1>7, <1>8, <1>9, <1>10, <1>11

\* The keyboard's handler is left for a task: the keyboard's is the only line that
\* loses its handler.
LEMMA SwitchTaskKeeps ==
    ASSUME StackInv, TypeOK', NEW k \in TaskNumbers, SwitchTask(k)
    PROVE  StackInv'
<1>. DEFINE L == Len(handlers)
<1>. USE DEF StackInv, TypeOK
<1>1. /\ handlers # << >> /\ Running.line = Keyboard /\ handlers' = << >>
      /\ inService' = inService /\ marks' = marks \cup {"switched"} /\ boot' = boot
  BY DEF SwitchTask, AtCommand, InHandler, pic
<1>2. Len(handlers') = 0 /\ ~(0 \in 1 .. 0) /\ 1 .. 0 = {}
  BY <1>1
<1>3. \A i \in 1 .. L : handlers[i].line = Keyboard
  <2>1. \A i \in 1 .. L : i < L \/ i = L
    BY StackFacts
  <2>. QED
    BY <2>1, <1>1 DEF OnlyKeyboardIsInterrupted, Running
<1>4. /\ OnlyKeyboardIsInterrupted' /\ Nested' /\ OpenInService' /\ MoreUrgentAbove'
  BY <1>1, <1>2 DEF OnlyKeyboardIsInterrupted, Nested, OpenInService, MoreUrgentAbove
<1>5. Explained'
  BY <1>1, <1>3 DEF Explained
<1>6. AloneUnmanaged'
  BY <1>1 DEF AloneUnmanaged
<1>. QED
  BY <1>4, <1>5, <1>6

\* An interrupt that came to no manager: kernelMain is alone then.
LEMMA DeliverUnmanagedKeeps ==
    ASSUME StackInv, TypeOK', NEW n \in Lines, DeliverUnmanaged(n)
    PROVE  StackInv'
<1>. USE DEF StackInv, TypeOK
<1>1. /\ handlers = << >> /\ handlers' = << >> /\ marks' = marks \cup {"unmanaged"}
      /\ boot' = boot
  BY DEF DeliverUnmanaged, AloneUnmanaged, main, cpu
<1>2. Len(handlers') = 0 /\ 1 .. 0 = {}
  BY <1>1
<1>3. /\ OnlyKeyboardIsInterrupted' /\ Nested' /\ OpenInService' /\ MoreUrgentAbove'
  BY <1>1, <1>2 DEF OnlyKeyboardIsInterrupted, Nested, OpenInService, MoreUrgentAbove
<1>4. Explained'
  BY <1>1 DEF Explained
<1>5. AloneUnmanaged'
  BY <1>1 DEF AloneUnmanaged
<1>. QED
  BY <1>3, <1>4, <1>5
-----------------------------------------------------------------------------
\* It holds before the first Activate.
LEMMA InitIInv == Init => IInv
<1>. SUFFICES ASSUME Init PROVE IInv
  OBVIOUS
<1>1. handlers = << >> /\ inService = {} /\ pending = {} /\ marks = {} /\ boot = "off"
  BY DEF Init
<1>2. TypeOK
  <2>1. boot \in {Places[i] : i \in 1 .. Len(Places)}
    BY <1>1, PlacesFacts
  <2>2. handlers \in Seq(Handler)
    BY <1>1, EmptySeq
  <2>3. mainBeats \in 0 .. Beats /\ numTasks \in 0 .. NumTasks
    BY KernelAssumption DEF Init, NumTasks
  <2>4. base \in {"kernelMain", "task"} /\ hasCard \in BOOLEAN
    BY DEF Init
  <2>5. iflag \in BOOLEAN /\ halted \in BOOLEAN /\ spinning = "none"
    BY DEF Init
  <2>6. pending \subseteq Lines /\ inService \subseteq Lines /\ marks \subseteq Marks
    BY <1>1
  <2>. QED
    BY <2>1, <2>2, <2>3, <2>4, <2>5, <2>6 DEF TypeOK
<1>3. Len(handlers) = 0 /\ 1 .. 0 = {}
  BY <1>1
<1>4. /\ OnlyKeyboardIsInterrupted /\ Nested /\ OpenInService /\ MoreUrgentAbove
  BY <1>1, <1>3 DEF OnlyKeyboardIsInterrupted, Nested, OpenInService, MoreUrgentAbove
<1>5. Explained /\ AloneUnmanaged
  BY <1>1 DEF Explained, AloneUnmanaged
<1>6. SpinsInHandler
  BY DEF Init, SpinsInHandler
<1>. QED
  BY <1>2, <1>4, <1>5, <1>6 DEF IInv, StackInv

\* The steps of kernelMain, of devices and of the shell that leave the stack alone.
LEMMA StackStays ==
    ASSUME StackInv, TypeOK', handlers' = handlers, inService' = inService,
           marks \subseteq marks', iflag' /\ ~iflag => handlers = << >>,
           boot' = "unmanaged" => handlers = << >>
    PROVE  StackInv'
BY StackKept

\* Every step keeps the types.
LEMMA TypeNext ==
    ASSUME TypeOK, AloneUnmanaged, SpinsInHandler, Next
    PROVE  TypeOK'
<1>. USE DEF TypeOK
<1>. DEFINE P == {"off", "network", "unmanaged", "masked", "managed", "sounding", "ready"}
<1>0. boot \in P /\ (boot' \in P => boot' \in {Places[i] : i \in 1 .. Len(Places)})
  BY PlacesFacts
<1>. HIDE DEF P
<1>1. CASE KernelMain
  <2>. USE <1>0, KernelAssumption DEF P, GoesOn, InMain, cpu, pic, fate, NumTasks
  <2>1. CASE ActivateForNetwork
    BY <2>1 DEF ActivateForNetwork
  <2>2. CASE ActivateFirst
    BY <2>2 DEF ActivateFirst
  <2>3. CASE Forget
    BY <2>3 DEF Forget
  <2>4. CASE Mask
    BY <2>4 DEF Mask
  <2>5. CASE ActivateAgain
    BY <2>5 DEF ActivateAgain
  <2>6. CASE BootSound
    BY <2>6 DEF BootSound
  <2>7. CASE AddTask
    BY <2>7 DEF AddTask
  <2>8. CASE MakeDefault
    BY <2>8 DEF MakeDefault
  <2>. QED
    BY <1>1, <2>1, <2>2, <2>3, <2>4, <2>5, <2>6, <2>7, <2>8 DEF KernelMain
<1>2. ASSUME NEW n \in Lines, Raise(n) PROVE TypeOK'
  BY <1>2 DEF Raise, main, cpu, fate
<1>3. ASSUME NEW n \in Lines, Deliver(n) PROVE TypeOK'
  <2>1. [line |-> n, acked |-> FALSE, beats |-> 0] \in Handler
    BY KernelAssumption DEF Handler
  <2>2. handlers' \in Seq(Handler)
    BY <1>3, <2>1, Pushed DEF Deliver
  <2>. QED
    BY <1>3, <2>2 DEF Deliver, main, fate
<1>4. ASSUME NEW n \in Lines, DeliverUnmanaged(n) PROVE TypeOK'
  BY <1>4 DEF DeliverUnmanaged, main, cpu, Marks
<1>5. CASE Acknowledge \/ SpinEnds
  <2>0. /\ handlers # << >> /\ EndOfInterrupt
        /\ spinning' = spinning \/ spinning' = "none"
    BY <1>5 DEF Acknowledge, SpinEnds, Spinners, InHandler, SpinsInHandler
  <2>1. handlers[Len(handlers)] \in Handler
    BY <2>0, StackFacts
  <2>2. [handlers[Len(handlers)] EXCEPT !.acked = TRUE] \in Handler
    BY <2>1 DEF Handler
  <2>3. handlers' \in Seq(Handler)
    BY <2>0, <2>2, Changed DEF EndOfInterrupt
  <2>4. inService' \subseteq Lines
    BY <2>0 DEF EndOfInterrupt, AfterEoi
  <2>. QED
    BY <2>0, <2>3, <2>4 DEF EndOfInterrupt, main
<1>6. CASE HandlerReturns
  <2>1. handlers' \in Seq(Handler)
    BY <1>6, Popped DEF HandlerReturns, InHandler
  <2>. QED
    BY <1>6, <2>1 DEF HandlerReturns, main, pic, fate
<1>7. CASE Halt
  <2>1. CASE handlers = << >> /\ mainBeats > 0 /\ mainBeats' = mainBeats - 1 /\ UNCHANGED handlers
    <3>1. mainBeats' \in 0 .. Beats
      BY <2>1, KernelAssumption
    <3>. QED
      BY <1>7, <2>1, <3>1 DEF Halt, pic, fate
  <2>2. CASE /\ handlers # << >> /\ Running.beats > 0 /\ UNCHANGED mainBeats
             /\ handlers' = [handlers EXCEPT ![Len(handlers)].beats = @ - 1]
    <3>1. Running \in Handler
      BY <2>2, StackFacts DEF Running
    <3>2. [Running EXCEPT !.beats = @ - 1] \in Handler
      <4>1. Running.beats \in 0 .. Beats /\ Beats \in Nat
        BY <3>1, KernelAssumption DEF Handler
      <4>2. Running.beats - 1 \in 0 .. Beats
        BY <2>2, <4>1
      <4>. QED
        BY <3>1, <4>2, Zenon DEF Handler
    <3>3. handlers' = [handlers EXCEPT ![Len(handlers)] = [Running EXCEPT !.beats = @ - 1]]
      BY <2>2 DEF Running
    <3>4. handlers' \in Seq(Handler)
      BY <2>2, <3>2, <3>3, Changed, SMTT(30)
    <3>. QED
      BY <1>7, <2>2, <3>4 DEF Halt, pic, fate
  <2>. QED
    BY <1>7, <2>1, <2>2 DEF Halt
<1>8. CASE Sound
  <2>1. Running \in Handler
    BY <1>8, StackFacts DEF Sound, AtCommand, InHandler, Running
  <2>2. [Running EXCEPT !.beats = Beats] \in Handler
    <3>1. Beats \in 0 .. Beats
      BY KernelAssumption
    <3>. QED
      BY <2>1, <3>1, Zenon DEF Handler
  <2>3. handlers' = [handlers EXCEPT ![Len(handlers)] = [Running EXCEPT !.beats = Beats]]
    BY <1>8 DEF Sound, Running
  <2>4. handlers # << >> /\ handlers \in Seq(Handler)
    BY <1>8 DEF Sound, AtCommand, InHandler
  <2>5. handlers' \in Seq(Handler)
    BY <2>2, <2>3, <2>4, Changed, SMTT(30)
  <2>. QED
    BY <1>8, <2>5 DEF Sound, main, pic, fate
<1>9. CASE StopForGood
  BY <1>9 DEF StopForGood, main, pic, Marks
<1>10. CASE StartWEBServer
  BY <1>10 DEF StartWEBServer, main, cpu, pic, Spinners
<1>11. ASSUME NEW k \in TaskNumbers, SwitchTask(k) PROVE TypeOK'
  BY <1>11, EmptySeq DEF SwitchTask, pic, Marks
<1>12. ASSUME NEW k \in TaskNumbers, SwitchTaskWild(k) PROVE TypeOK'
  BY <1>12 DEF SwitchTaskWild, main, cpu, pic, Marks
<1>13. ASSUME NEW c \in Spinners, CommandSpins(c) PROVE TypeOK'
  BY <1>13 DEF CommandSpins, main, cpu, pic
<1>14. CASE RunsAway
  BY <1>14 DEF RunsAway, main, cpu, pic, Marks
<1>. QED
  BY <1>1, <1>2, <1>3, <1>4, <1>5, <1>6, <1>7, <1>8, <1>9, <1>10, <1>11, <1>12,
     <1>13, <1>14 DEF Next

\* One step of anyone.
LEMMA StackNext ==
    ASSUME IInv, [Next]_vars
    PROVE  StackInv'
<1>. USE DEF IInv
<1>1. CASE UNCHANGED vars
  <2>1. /\ handlers' = handlers /\ inService' = inService /\ marks' = marks
        /\ iflag' = iflag /\ boot' = boot
    BY <1>1 DEF vars, main, cpu, pic, fate
  <2>2. TypeOK'
    BY <1>1 DEF StackInv, TypeOK, vars, main, cpu, pic, fate
  <2>. QED
    BY <2>1, <2>2, StackStays DEF StackInv, AloneUnmanaged
<1>2. CASE Next
  <2>0. TypeOK'
    BY <1>2, TypeNext DEF StackInv
  <2>1. CASE KernelMain
    <3>1. handlers = << >> /\ handlers' = handlers /\ inService' = inService /\ marks' = marks
      BY <2>1 DEF KernelMain, ActivateForNetwork, ActivateFirst, Forget, Mask, ActivateAgain,
                  BootSound, AddTask, MakeDefault, GoesOn, InMain, cpu, pic, fate
    <3>. QED
      BY <2>0, <3>1, StackStays
  <2>2. ASSUME NEW n \in Lines, Raise(n) PROVE StackInv'
    BY <2>0, <2>2, StackStays DEF Raise, main, cpu, fate, StackInv, AloneUnmanaged
  <2>3. ASSUME NEW n \in Lines, Deliver(n) PROVE StackInv'
    BY <2>0, <2>3, DeliverKeeps
  <2>4. ASSUME NEW n \in Lines, DeliverUnmanaged(n) PROVE StackInv'
    BY <2>0, <2>4, DeliverUnmanagedKeeps
  <2>5. CASE Acknowledge \/ SpinEnds
    <3>1. handlers # << >> /\ ~Running.acked /\ EndOfInterrupt
      BY <2>5 DEF Acknowledge, SpinEnds, Spinners, InHandler, SpinsInHandler
    <3>. QED
      BY <2>0, <3>1, AcknowledgeKeeps
  <2>6. CASE HandlerReturns
    BY <2>0, <2>6, HandlerReturnsKeeps
  <2>7. CASE Halt
    <3>1. /\ inService' = inService /\ marks' = marks /\ boot' = boot /\ iflag' = iflag
      BY <2>7 DEF Halt, pic, fate
    <3>2. CASE handlers' = handlers
      BY <2>0, <3>1, <3>2, StackStays DEF StackInv, AloneUnmanaged
    <3>3. CASE /\ handlers # << >>
               /\ handlers' = [handlers EXCEPT ![Len(handlers)].beats = @ - 1]
      <4>. DEFINE h == [Running EXCEPT !.beats = @ - 1]
      <4>1. Running \in Handler
        BY <3>3, StackFacts DEF Running, StackInv, TypeOK
      <4>2. h.line = Running.line /\ h.acked = Running.acked
        BY <4>1 DEF Handler
      <4>3. handlers' = [handlers EXCEPT ![Len(handlers)] = h]
        BY <3>3 DEF Running
      <4>. QED
        BY <2>0, <3>1, <3>3, <4>2, <4>3, RunningChanges DEF StackInv, AloneUnmanaged
    <3>. QED
      BY <2>7, <3>2, <3>3 DEF Halt
  <2>8. CASE Sound
    <3>. DEFINE h == [Running EXCEPT !.beats = Beats]
    <3>1. /\ inService' = inService /\ marks' = marks /\ boot' = boot
          /\ handlers # << >> /\ Running.line = Keyboard
          /\ handlers' = [handlers EXCEPT ![Len(handlers)].beats = Beats]
      BY <2>8 DEF Sound, AtCommand, InHandler, main, pic, fate
    <3>2. Running \in Handler
      BY <3>1, StackFacts DEF Running, StackInv, TypeOK
    <3>3. h.line = Running.line /\ h.acked = Running.acked
      BY <3>2 DEF Handler
    <3>4. handlers' = [handlers EXCEPT ![Len(handlers)] = h]
      BY <3>1 DEF Running
    <3>. QED
      BY <2>0, <3>1, <3>3, <3>4, RunningChanges DEF StackInv, AloneUnmanaged
  <2>9. CASE StopForGood
    BY <2>0, <2>9, StackStays DEF StopForGood, main, pic, StackInv, AloneUnmanaged
  <2>10. CASE StartWEBServer
    BY <2>0, <2>10, StackStays DEF StartWEBServer, main, cpu, pic, StackInv, AloneUnmanaged
  <2>11. ASSUME NEW k \in TaskNumbers, SwitchTask(k) PROVE StackInv'
    BY <2>0, <2>11, SwitchTaskKeeps
  <2>12. ASSUME NEW k \in TaskNumbers, SwitchTaskWild(k) PROVE StackInv'
    BY <2>0, <2>12, StackStays DEF SwitchTaskWild, main, cpu, pic, StackInv, AloneUnmanaged
  <2>13. ASSUME NEW c \in Spinners, CommandSpins(c) PROVE StackInv'
    BY <2>0, <2>13, StackStays DEF CommandSpins, main, cpu, pic, StackInv, AloneUnmanaged
  <2>14. CASE RunsAway
    BY <2>0, <2>14, StackStays DEF RunsAway, main, cpu, pic, StackInv, AloneUnmanaged
  <2>. QED
    BY <1>2, <2>1, <2>2, <2>3, <2>4, <2>5, <2>6, <2>7, <2>8, <2>9, <2>10, <2>11, <2>12,
       <2>13, <2>14 DEF Next
<1>. QED
  BY <1>1, <1>2

\* While a command spins, only devices ask and only it goes on.
LEMMA SpinsNext ==
    ASSUME IInv, [Next]_vars
    PROVE  SpinsInHandler'
<1>. USE DEF IInv, SpinsInHandler
<1>1. CASE UNCHANGED vars
  BY <1>1 DEF vars, main, cpu, pic, fate, Running
<1>2. CASE KernelMain
  BY <1>2 DEF KernelMain, ActivateForNetwork, ActivateFirst, Forget, Mask, ActivateAgain,
              BootSound, AddTask, MakeDefault, GoesOn, InMain, Executes, pic, fate
<1>3. ASSUME NEW n \in Lines, Raise(n) \/ Deliver(n) \/ DeliverUnmanaged(n)
      PROVE  SpinsInHandler'
  BY <1>3 DEF Raise, Deliver, DeliverUnmanaged, Deliverable, main, cpu, fate, Running
<1>4. CASE Acknowledge \/ HandlerReturns \/ Halt
  BY <1>4 DEF Acknowledge, HandlerReturns, Halt, InHandler, Executes, fate
<1>5. CASE SpinEnds
  BY <1>5 DEF SpinEnds
<1>6. CASE Sound \/ StopForGood
  BY <1>6 DEF Sound, StopForGood, AtCommand, InHandler, Executes, fate
<1>7. ASSUME StartWEBServer \/ RunsAway \/ \E c \in Spinners : CommandSpins(c)
      PROVE  SpinsInHandler'
  BY <1>7 DEF StartWEBServer, RunsAway, CommandSpins, AtCommand, InHandler, Executes,
              main, cpu, Running
<1>8. ASSUME NEW k \in TaskNumbers, SwitchTask(k) \/ SwitchTaskWild(k)
      PROVE  SpinsInHandler'
  BY <1>8 DEF SwitchTask, SwitchTaskWild, AtCommand, InHandler, Executes, main, cpu
<1>. QED
  BY <1>1, <1>2, <1>3, <1>4, <1>5, <1>6, <1>7, <1>8 DEF Next

LEMMA NextKeeps == IInv /\ [Next]_vars => IInv'
BY StackNext, SpinsNext DEF IInv

\* The invariant holds of every behaviour of the kernel.
THEOREM Invariance == Spec => []IInv
<1>1. Init => IInv
  BY InitIInv
<1>2. IInv /\ [Next]_vars => IInv'
  BY NextKeeps
<1>. QED
  BY <1>1, <1>2, PTL DEF Spec
-----------------------------------------------------------------------------
\* Every variable keeps its type, whatever interrupts what.
THEOREM TypeCorrect == Spec => []TypeOK
<1>1. IInv => TypeOK
  BY DEF IInv, StackInv
<1>. QED
  BY <1>1, Invariance, PTL

\* Two handlers are in their bodies at once in one case only: the timer's, over a
\* shell command that has played a sound (kernel.cpp:79, Interrupts.cpp:155).
THEOREM ClockNests == Spec => []OnlyTheClockNests
<1>1. IInv => OnlyTheClockNests
  <2>. DEFINE L == Len(handlers)
  <2>. SUFFICES ASSUME IInv, NEW i \in 1 .. L, NEW j \in 1 .. L, i < j, ~handlers[i].acked
                PROVE  /\ handlers[i].line = Keyboard /\ handlers[j].line = Timer
                       /\ j = L /\ i = j - 1
    BY DEF OnlyTheClockNests
  <2>0. L \in Nat
    BY StackFacts DEF IInv, StackInv, TypeOK
  <2>1. \A k \in 1 .. L : k < L => handlers[k].line = Keyboard
    BY DEF IInv, StackInv, OnlyKeyboardIsInterrupted
  <2>2. \A k \in 1 .. L : i < k => handlers[k].line = Timer
    <3>. SUFFICES ASSUME NEW k \in 1 .. L, i < k PROVE handlers[k].line = Timer
      OBVIOUS
    <3>1. handlers[i].line = Keyboard
      BY <2>0, <2>1
    <3>2. Urgency(handlers[k].line) < Urgency(handlers[i].line)
      BY DEF IInv, StackInv, Nested
    <3>3. handlers[k].line \in Nat
      BY StackFacts, LineFacts DEF IInv, StackInv, TypeOK
    <3>. QED
      BY <3>1, <3>2, <3>3, LineFacts
  <2>3. \A k \in 1 .. L : i < k => k = L
    BY <2>0, <2>1, <2>2 DEF Timer, Keyboard
  <2>4. i = j - 1
    <3>1. i + 1 \in 1 .. L /\ i < i + 1
      BY <2>0
    <3>. QED
      BY <2>3, <3>1
  <2>5. handlers[i].line = Keyboard
    BY <2>0, <2>1
  <2>. QED
    BY <2>2, <2>3, <2>4, <2>5
<1>. QED
  BY <1>1, Invariance, PTL

\* An acknowledgement goes astray in two ways only: the interrupt came while
\* Activate had no manager (Interrupts.cpp:147-148), or the keyboard's handler
\* was left by a task switch (Keyboard.cpp:574).
THEOREM OrphansExplained == Spec => []OrphanHasACause
<1>1. IInv => OrphanHasACause
  <2>. SUFFICES ASSUME IInv PROVE OrphanHasACause
    OBVIOUS
  <2>1. \A m \in Orphans : "unmanaged" \in marks \/ ("switched" \in marks /\ m = Keyboard)
    <3>. SUFFICES ASSUME NEW m \in Orphans
                  PROVE  "unmanaged" \in marks \/ ("switched" \in marks /\ m = Keyboard)
      OBVIOUS
    <3>1. m \in inService /\ m \notin Live
      BY DEF Orphans
    <3>2. \A i \in 1 .. Len(handlers) : ~(~handlers[i].acked /\ handlers[i].line = m)
      BY <3>1 DEF Live
    <3>. QED
      BY <3>1, <3>2 DEF IInv, StackInv, Explained
  <2>. QED
    BY <2>1 DEF OrphanHasACause
<1>. QED
  BY <1>1, Invariance, PTL
=============================================================================
