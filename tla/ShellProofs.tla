----------------------------- MODULE ShellProofs ------------------------------
(***************************************************************************)
(* Theorems about Shell, for any commands, keys, leftovers and sizes: what *)
(* the buffer and the row hold of the line, what makes the shell go        *)
(* astray, and whose option a command takes.                               *)
(***************************************************************************)
EXTENDS Shell, SequenceTheorems, FiniteSetTheorems, WellFoundedInduction, TLAPS

(***************************************************************************)
(* The inductive invariant.                                                *)
(***************************************************************************)

\* The buffer holds the line, wrapped or not; and where an option stands, once the line
\* is too short for one, what was rubbed out there.
BufferIsLine ==
    mode = "shell" /\ "stray" \notin odd =>
      /\ key_buffer_index = Len(line) /\ Len(line) <= BufferSize
      /\ \A i \in 1 .. Len(line) : line[i] = key_buffer[i - 1]
      /\ Len(line) <= OptionAt => key_buffer[OptionAt] \in rubbed \cup {"nul"}

\* The row holds it behind a column between the end of the prompt's cells and the end of
\* the prompt: Backspace in an empty line goes so far.
RowIsLine ==
    mode = "shell" /\ odd = {} /\ promptEnd >= SPIndex =>
      /\ x - Len(line) \in SPIndex .. promptEnd
      /\ \A i \in 1 .. Len(line) : line[i] = row[x - Len(line) + i - 1]

IInv == TypeOK /\ BufferIsLine /\ RowIsLine /\ LostHasACause
-----------------------------------------------------------------------------
(* The console.                                                            *)

LEMMA Sizes ==
    /\ BufferSize \in Nat /\ SPSize \in Nat /\ NameWidth \in Nat /\ Width \in Nat
    /\ BufferSize > SPSize + 1 /\ SPSize >= 2 /\ Width > SPSize /\ Width > NameWidth
BY ShellAssumption

LEMMA Characters ==
    /\ "nul" \notin Chars /\ "enter" \notin Chars
    /\ "enter" \notin Words
    /\ OutputEnds \subseteq Columns
BY ShellAssumption DEF Chars, Columns

\* A row and the cursor's column.
Screens == [row : [Columns -> Glyph], x : Columns]

\* A remainder, without division.
LEMMA Remainder ==
    ASSUME NEW e \in Nat
    PROVE  /\ e % Width \in Columns /\ e % Width \in Nat
           /\ e < Width => e % Width = e
           /\ e >= Width => e % Width <= e - Width
BY Sizes DEF Columns

LEMMA HereIsScreen ==
    ASSUME TypeOK
    PROVE  Here \in Screens /\ Here.row = row /\ Here.x = x
BY DEF TypeOK, Here, Screens

LEMMA BlankIsScreen ==
    Blank \in Screens
BY Sizes DEF Blank, Screens, Columns, Glyph

LEMMA PutIsScreen ==
    ASSUME NEW s \in Screens, NEW g \in Glyph
    PROVE  Put(s, g) \in Screens
<1>1. CASE s.x = Width - 1
  BY <1>1, BlankIsScreen DEF Put
<1>2. CASE s.x # Width - 1
  <2>1. s.x \in Columns /\ s.row \in [Columns -> Glyph]
    BY DEF Screens
  <2>2. s.x + 1 \in Columns
    BY <1>2, <2>1, Sizes DEF Columns
  <2>3. [s.row EXCEPT ![s.x] = g] \in [Columns -> Glyph]
    BY <2>1
  <2>. QED
    BY <1>2, <2>2, <2>3 DEF Put, Screens
<1>. QED
  BY <1>1, <1>2

LEMMA PutAllIsScreen ==
    ASSUME NEW s \in Screens, NEW text \in Seq(Glyph)
    PROVE  PutAll(s, text) \in Screens
<1>. DEFINE end == s.x + Len(text)
            over == end % Width
<1>1. s.x \in Columns /\ s.x \in Nat /\ s.x < Width /\ s.row \in [Columns -> Glyph]
  BY Sizes DEF Screens, Columns
<1>2. Len(text) \in Nat /\ end \in Nat
  BY <1>1, LenProperties
<1>3. /\ over \in Columns /\ over \in Nat /\ (end < Width => over = end)
      /\ end >= Width => over <= end - Width
  BY <1>2, Remainder
<1>. HIDE DEF over
<1>4. ASSUME NEW c \in Columns
      PROVE  /\ end < Width /\ c \in s.x .. end - 1 => text[c - s.x + 1] \in Glyph
             /\ s.row[c] \in Glyph
             /\ end >= Width /\ c < over => text[Len(text) - over + c + 1] \in Glyph
             /\ " " \in Glyph
  <2>1. c \in Nat
    BY DEF Columns
  <2>2. end < Width /\ c \in s.x .. end - 1 => c - s.x + 1 \in 1 .. Len(text)
    BY <1>1, <1>2, <2>1
  <2>3. ASSUME end >= Width, c < over
        PROVE  Len(text) - over + c + 1 \in 1 .. Len(text)
    <3>1. over <= Len(text)
      <4>1. over <= (s.x + Len(text)) - Width
        BY <1>3, <2>3, Zenon
      <4>. QED
        BY <1>1, <1>2, <1>3, <4>1, Sizes
    <3>2. \A n, o, d \in Nat : o <= n /\ d < o => n - o + d + 1 \in 1 .. n
      OBVIOUS
    <3>. QED
      BY <1>2, <1>3, <2>1, <2>3, <3>1, <3>2
  <2>4. s.row[c] \in Glyph /\ " " \in Glyph
    BY <1>1 DEF Glyph
  <2>. QED
    BY <2>2, <2>3, <2>4, ElementOfSeq
<1>5. \A c \in Columns : end < Width \/ end >= Width
  BY <1>2, Sizes
<1>. DEFINE r == [c \in Columns |->
                    CASE end < Width /\ c \in s.x .. end - 1 -> text[c - s.x + 1]
                      [] end < Width /\ c \notin s.x .. end - 1 -> s.row[c]
                      [] end >= Width /\ c < over -> text[Len(text) - over + c + 1]
                      [] end >= Width /\ c >= over -> " "]
<1>6. ASSUME NEW c \in Columns PROVE r[c] \in Glyph
  <2>1. CASE end < Width
    <3>1. ~(end >= Width)
      BY <1>2, <2>1, Sizes
    <3>. QED
      BY <1>4, <2>1, <3>1
  <2>2. CASE end >= Width
    <3>1. ~(end < Width) /\ (c < over \/ c >= over) /\ ~(c < over /\ c >= over)
      BY <1>2, <1>3, <2>2, Sizes DEF Columns
    <3>. QED
      BY <1>4, <2>2, <3>1
  <2>. QED
    BY <1>5, <2>1, <2>2
<1>7. r \in [Columns -> Glyph]
  BY <1>6
<1>8. PutAll(s, text) = [row |-> r, x |-> over]
  BY DEF PutAll, over
<1>. HIDE DEF r
<1>. QED
  BY <1>3, <1>7, <1>8 DEF Screens

LEMMA StepsAreScreens ==
    ASSUME TypeOK, NEW s \in Screens
    PROVE  StepLeft(s) \in Screens /\ StepRight(s) \in Screens /\ RubOut(s) \in Screens
<1>1. s.x \in Columns /\ s.row \in [Columns -> Glyph] /\ " " \in Glyph
  BY DEF Screens, Glyph
<1>2. /\ s.x # 0 => s.x - 1 \in Columns
      /\ s.x # Width - 1 => s.x + 1 \in Columns
  <2>1. \A y \in Columns : y # 0 => y - 1 \in Columns
    BY Sizes DEF Columns
  <2>2. \A y \in Columns : y # Width - 1 => y + 1 \in Columns
    BY Sizes DEF Columns
  <2>. QED
    BY <1>1, <2>1, <2>2
<1>3. \A y \in Columns : [s EXCEPT !.x = y] \in Screens
  BY DEF Screens
<1>4. StepLeft(s) \in Screens
  <2>1. CASE s.x = 0
    BY <2>1, BlankIsScreen DEF StepLeft
  <2>2. CASE s.x # 0
    BY <1>2, <1>3, <2>2 DEF StepLeft
  <2>. QED
    BY <2>1, <2>2
<1>5. StepRight(s) \in Screens
  <2>1. CASE s.x = Width - 1
    BY <2>1, BlankIsScreen DEF StepRight
  <2>2. CASE s.x # Width - 1
    BY <1>2, <1>3, <2>2 DEF StepRight
  <2>. QED
    BY <2>1, <2>2
<1>6. RubOut(s) \in Screens
  <2>1. CASE s.x = SPIndex
    <3>1. [s.row EXCEPT ![s.x] = " "] \in [Columns -> Glyph]
      BY <1>1
    <3>2. \A r \in [Columns -> Glyph] : [s EXCEPT !.row = r] \in Screens
      BY DEF Screens
    <3>. QED
      BY <2>1, <3>1, <3>2 DEF RubOut
  <2>2. CASE s.x # SPIndex /\ s.x = 0
    BY <2>2, BlankIsScreen DEF RubOut
  <2>3. CASE s.x # SPIndex /\ s.x # 0
    <3>1. [s.row EXCEPT ![s.x - 1] = " "] \in [Columns -> Glyph]
      BY <1>1
    <3>. QED
      BY <1>2, <2>3, <3>1 DEF RubOut, Screens
  <2>. QED
    BY <2>1, <2>2, <2>3
<1>. QED
  BY <1>4, <1>5, <1>6

\* The prompt is made of "prompt", and its index tells whether a name was last.
LEMMA PromptIsText ==
    ASSUME TypeOK, NEW sp, NEW n \in Nat
    PROVE  PromptText(sp, n).text \in Seq(Glyph) /\ PromptText(sp, n).skip \in BOOLEAN
<1>. DEFINE isName(i) == sp[i] = "%" /\ i + 1 < SPSize /\ sp[i + 1] = "h"
            skipped(i) == IF i = 0 THEN skip ELSE isName(i - 1)
            names == {i \in 0 .. n - 1 : isName(i)}
            letters == {i \in 0 .. n - 1 : sp[i] \notin {"%", "nul"} /\ ~skipped(i)}
            many == NameWidth * Cardinality(names) + Cardinality(letters)
<1>1. skipped(n) \in BOOLEAN
  BY Zenon DEF TypeOK
<1>2. IsFiniteSet(0 .. n - 1) /\ names \subseteq 0 .. n - 1 /\ letters \subseteq 0 .. n - 1
  BY FS_Interval
<1>. HIDE DEF names, letters
<1>3. Cardinality(names) \in Nat /\ Cardinality(letters) \in Nat
  BY <1>2, FS_Subset, FS_CardinalityType
<1>4. many \in Nat
  BY <1>3, Sizes
<1>. HIDE DEF many, skipped
<1>5. [c \in 1 .. many |-> "prompt"] \in Seq(Glyph)
  BY <1>4 DEF Glyph
<1>6. PromptText(sp, n) = [skip |-> skipped(n), text |-> [c \in 1 .. many |-> "prompt"]]
  BY DEF PromptText, skipped, many, names, letters
<1>. QED
  BY <1>1, <1>5, <1>6
-----------------------------------------------------------------------------
(* The steps keep the invariant.                                           *)

\* What the clear buffer is.
LEMMA ClearedFacts ==
    /\ Cleared \in [0 .. BufferSize - 1 -> Cell] /\ Cleared[OptionAt] = "nul"
<1>1. Cleared = [i \in 0 .. BufferSize - 1 |-> "nul"]
  BY DEF Cleared, Zeros
<1>2. OptionAt \in 0 .. BufferSize - 1
  BY Sizes DEF OptionAt
<1>3. "nul" \in Cell
  BY DEF Cell
<1>. QED
  BY <1>1, <1>2, <1>3

\* A command ends with a prompt and a clear buffer.
LEMMA FinishKeeps ==
    ASSUME TypeOK, NEW s \in Screens, NEW sp \in [0 .. SPSize - 1 -> Cell],
           NEW n \in 0 .. SPSize, Finish(s, sp, n)
    PROVE  IInv'
<1>. DEFINE p == PromptText(sp, n)
            u == PutAll(s, p.text)
<1>1. n \in Nat
  BY Sizes
<1>2. p.text \in Seq(Glyph) /\ p.skip \in BOOLEAN
  BY <1>1, PromptIsText
<1>3. u \in Screens
  BY <1>2, PutAllIsScreen
<1>4. /\ mode' = "shell" /\ row' = u.row /\ x' = u.x /\ SP' = sp /\ SPIndex' = n
      /\ skip' = p.skip /\ promptEnd' = u.x /\ key_buffer' = Cleared
      /\ key_buffer_index' = 0 /\ line' = << >> /\ rubbed' = {} /\ odd' = {}
  BY DEF Finish
<1>. HIDE DEF p, u
<1>5. u.row \in [Columns -> Glyph] /\ u.x \in Columns /\ u.x \in Nat
  BY <1>3, Sizes DEF Screens, Columns
<1>6. 0 \in 0 .. BufferSize + 1
  BY Sizes
<1>7. TypeOK'
  BY <1>2, <1>4, <1>5, <1>6, ClearedFacts DEF TypeOK
<1>8. Len(<< >>) = 0 /\ \A i : i \notin 1 .. 0
  OBVIOUS
<1>9. BufferIsLine'
  BY <1>4, <1>8, ClearedFacts, Sizes DEF BufferIsLine
<1>10. u.x >= n => u.x - 0 \in n .. u.x
  BY <1>1, <1>5
<1>11. RowIsLine'
  BY <1>4, <1>8, <1>10 DEF RowIsLine
<1>12. LostHasACause'
  BY <1>4 DEF LostHasACause
<1>. QED
  BY <1>7, <1>9, <1>11, <1>12 DEF IInv

\* A key without a character: nothing more is said of buffer and row.
LEMMA StrayKeeps ==
    ASSUME TypeOK, NEW c \in Leftovers, NEW by \in {0, 1, 2}, NEW s \in Screens,
           Stray(c, by, s), mode' \in {"shell", "lost"}
    PROVE  IInv'
<1>1. /\ key_buffer_index < BufferSize /\ key_buffer' = Stored(c)
      /\ key_buffer_index' = key_buffer_index + by /\ row' = s.row /\ x' = s.x
      /\ odd' = odd \cup {"stray"}
      /\ UNCHANGED <<SP, SPIndex, skip, promptEnd, line, rubbed>>
  BY DEF Stray, HasRoom, prompt
<1>2. s.row \in [Columns -> Glyph] /\ s.x \in Columns
  BY DEF Screens
<1>3. key_buffer_index \in 0 .. BufferSize + 1
  BY DEF TypeOK
<1>4. key_buffer_index + by \in 0 .. BufferSize + 1
  BY <1>1, <1>3, Sizes
<1>5. Stored(c) \in [0 .. BufferSize - 1 -> Cell]
  BY DEF TypeOK, Stored, Cell
<1>6. TypeOK'
  BY <1>1, <1>2, <1>4, <1>5 DEF TypeOK, Oddities
<1>7. "stray" \in odd'
  BY <1>1
<1>. QED
  BY <1>6, <1>7 DEF IInv, BufferIsLine, RowIsLine, LostHasACause

LEMMA UnmappedKeeps ==
    ASSUME TypeOK, NEW c \in Leftovers, Unmapped(c)
    PROVE  IInv'
<1>1. PICK shown \in {<< >>, <<"E">>, <<"output", "output">>} : Stray(c, 1, PutAll(Here, shown))
  BY DEF Unmapped
<1>2. shown \in Seq(Glyph)
  <2>1. "E" \in Glyph /\ "output" \in Glyph
    BY DEF Glyph
  <2>2. << >> \in Seq(Glyph) /\ <<"E">> \in Seq(Glyph) /\ <<"output", "output">> \in Seq(Glyph)
    BY <2>1
  <2>. QED
    BY <2>2
<1>3. PutAll(Here, shown) \in Screens
  BY <1>2, HereIsScreen, PutAllIsScreen
<1>4. mode' = "shell"
  BY <1>1 DEF Stray, Unmapped
<1>. QED
  BY <1>1, <1>3, <1>4, StrayKeeps

LEMMA ArrowsKeep ==
    ASSUME TypeOK, NEW c \in Leftovers, ArrowLeft(c) \/ ArrowRight(c)
    PROVE  IInv'
<1>1. StepLeft(Here) \in Screens /\ StepRight(Here) \in Screens
  BY HereIsScreen, StepsAreScreens
<1>2. mode' = "shell"
  BY DEF ArrowLeft, ArrowRight, Stray
<1>. QED
  BY <1>1, <1>2, StrayKeeps DEF ArrowLeft, ArrowRight

LEMMA RecallKeeps ==
    ASSUME TypeOK, NEW c \in Leftovers, Recall(c)
    PROVE  IInv'
<1>. DEFINE shown == [i \in 1 .. key_buffer_index |->
                        IF key_buffer[i - 1] \in Chars THEN key_buffer[i - 1] ELSE "output"]
<1>1. key_buffer_index \in Nat
  BY Sizes DEF TypeOK
<1>2. shown \in Seq(Glyph)
  <2>1. \A i \in 1 .. key_buffer_index : shown[i] \in Glyph
    BY DEF Glyph
  <2>. QED
    BY <1>1, <2>1
<1>3. Stray(c, 1, PutAll(Here, shown)) /\ mode' \in {"shell", "lost"}
  BY DEF Recall
<1>. HIDE DEF shown
<1>4. PutAll(Here, shown) \in Screens
  BY <1>2, HereIsScreen, PutAllIsScreen
<1>. QED
  BY <1>3, <1>4, StrayKeeps

\* NumLock is such a key too.
LEMMA NumLockKeeps ==
    ASSUME TypeOK, NumLock
    PROVE  IInv'
<1>1. /\ mode' = "shell" /\ "stray" \in odd' /\ odd' = odd \cup {"stray"}
      /\ key_buffer' = Cleared /\ key_buffer_index' = 0 /\ line' = << >> /\ rubbed' = {}
      /\ UNCHANGED <<SP, SPIndex, skip, promptEnd, row, x>>
  BY DEF NumLock, prompt, screen
<1>2. 0 \in 0 .. BufferSize + 1
  BY Sizes
<1>3. TypeOK'
  BY <1>1, <1>2, ClearedFacts DEF TypeOK, Oddities
<1>. QED
  BY <1>1, <1>3 DEF IInv, BufferIsLine, RowIsLine, LostHasACause

LEMMA OutputIsScreen ==
    ASSUME NEW c \in OutputEnds
    PROVE  Output(c) \in Screens
BY Characters DEF Output, Screens, Glyph

LEMMA MessagesAreText ==
    <<"output", "output">> \in Seq(Glyph) /\ <<"output">> \in Seq(Glyph)
<1>1. "output" \in Glyph
  BY DEF Glyph
<1>. QED
  BY <1>1

\* Alt, and what others print: the row is spoiled and the buffer is not.
LEMMA PrintedKeeps ==
    ASSUME IInv, Alt \/ OthersPrint
    PROVE  IInv'
<1>1. PICK s \in Screens : Printed(s)
  <2>1. /\ PutAll(Here, <<"output", "output">>) \in Screens
        /\ PutAll(Here, <<"output">>) \in Screens
    BY MessagesAreText, HereIsScreen, PutAllIsScreen DEF IInv
  <2>. QED
    BY <2>1, OutputIsScreen DEF Alt, OthersPrint
<1>2. /\ mode' = mode /\ mode = "shell" /\ row' = s.row /\ x' = s.x
      /\ odd' = odd \cup {"printed"}
      /\ UNCHANGED <<key_buffer, key_buffer_index, SP, SPIndex, skip, promptEnd, line, rubbed>>
  BY <1>1 DEF Printed, keys, prompt
<1>3. s.row \in [Columns -> Glyph] /\ s.x \in Columns
  BY DEF Screens
<1>4. TypeOK'
  BY <1>2, <1>3 DEF IInv, TypeOK, Oddities
<1>5. BufferIsLine'
  BY <1>2 DEF IInv, BufferIsLine
<1>6. RowIsLine' /\ LostHasACause'
  BY <1>2 DEF RowIsLine, LostHasACause
<1>. QED
  BY <1>4, <1>5, <1>6 DEF IInv

\* Outside the shell, and astray, nothing is promised but what holds of all.
LEMMA Away ==
    ASSUME mode' # "shell", mode' # "lost", TypeOK'
    PROVE  IInv'
BY DEF IInv, BufferIsLine, RowIsLine, LostHasACause

\* A key with a character.
LEMMA PressKeeps ==
    ASSUME IInv, NEW k \in Chars, Press(k)
    PROVE  IInv'
<1>1. /\ mode = "shell" /\ mode' = "shell" /\ key_buffer_index < BufferSize
      /\ key_buffer' = [key_buffer EXCEPT ![key_buffer_index] = k]
      /\ key_buffer_index' = key_buffer_index + 1
      /\ row' = Put(Here, k).row /\ x' = Put(Here, k).x /\ line' = Append(line, k)
      /\ odd' = odd \cup (IF x = Width - 1 THEN {"wrapped"} ELSE {})
      /\ UNCHANGED <<SP, SPIndex, skip, promptEnd, rubbed>>
  BY DEF Press, HasRoom, prompt, Stored
<1>2. /\ key_buffer_index \in 0 .. BufferSize - 1 /\ x \in Columns /\ x \in Nat
      /\ key_buffer \in [0 .. BufferSize - 1 -> Cell] /\ row \in [Columns -> Glyph]
      /\ line \in Seq(Chars) /\ Len(line) \in Nat /\ promptEnd \in Nat /\ SPIndex \in Nat
  <2>1. /\ key_buffer \in [0 .. BufferSize - 1 -> Cell] /\ row \in [Columns -> Glyph]
        /\ line \in Seq(Chars) /\ x \in Columns /\ promptEnd \in Columns
        /\ key_buffer_index \in 0 .. BufferSize + 1 /\ SPIndex \in 0 .. SPSize
    BY DEF IInv, TypeOK
  <2>2. key_buffer_index \in 0 .. BufferSize - 1
    BY <1>1, <2>1, Sizes
  <2>3. x \in Nat /\ promptEnd \in Nat /\ SPIndex \in Nat
    BY <2>1, Sizes DEF Columns
  <2>. QED
    BY <2>1, <2>2, <2>3, LenProperties
<1>3. /\ line' \in Seq(Chars) /\ Len(line') = Len(line) + 1 /\ line'[Len(line) + 1] = k
      /\ \A i \in 1 .. Len(line) : line'[i] = line[i]
  BY <1>1, <1>2, AppendProperties
<1>4. TypeOK'
  <2>1. Put(Here, k) \in Screens
    BY HereIsScreen, PutIsScreen DEF IInv, Glyph
  <2>2. row' \in [Columns -> Glyph] /\ x' \in Columns
    BY <1>1, <2>1 DEF Screens
  <2>3. key_buffer_index + 1 \in 0 .. BufferSize + 1
    BY <1>2, Sizes
  <2>4. key_buffer' \in [0 .. BufferSize - 1 -> Cell]
    BY <1>1, <1>2 DEF Cell
  <2>5. odd' \subseteq Oddities
    BY <1>1 DEF IInv, TypeOK, Oddities
  <2>. QED
    BY <1>1, <1>3, <2>2, <2>3, <2>4, <2>5 DEF IInv, TypeOK
<1>5. BufferIsLine'
  <2>1. SUFFICES ASSUME "stray" \notin odd'
        PROVE  /\ key_buffer_index' = Len(line') /\ Len(line') <= BufferSize
               /\ \A i \in 1 .. Len(line') : line'[i] = key_buffer'[i - 1]
               /\ Len(line') <= OptionAt => key_buffer'[OptionAt] \in rubbed \cup {"nul"}
    BY <1>1 DEF BufferIsLine
  <2>2. /\ key_buffer_index = Len(line) /\ Len(line) <= BufferSize
        /\ \A i \in 1 .. Len(line) : line[i] = key_buffer[i - 1]
        /\ Len(line) <= OptionAt => key_buffer[OptionAt] \in rubbed \cup {"nul"}
    BY <1>1, <2>1 DEF IInv, BufferIsLine
  <2>3. \A j \in 0 .. BufferSize - 1 :
          key_buffer'[j] = IF j = Len(line) THEN k ELSE key_buffer[j]
    BY <1>1, <1>2, <2>2
  <2>4. ASSUME NEW i \in 1 .. Len(line')
        PROVE  line'[i] = key_buffer'[i - 1]
    <3>1. i - 1 \in 0 .. BufferSize - 1
      <4>1. i \in 1 .. Len(line) + 1 /\ Len(line) \in 0 .. BufferSize - 1
        BY <1>2, <1>3, <2>2
      <4>. QED
        BY <4>1, Sizes
    <3>2. CASE i = Len(line) + 1
      <4>1. i - 1 = Len(line)
        BY <1>2, <3>2
      <4>. QED
        BY <1>3, <2>3, <3>1, <3>2, <4>1
    <3>3. CASE i # Len(line) + 1
      <4>1. i \in 1 .. Len(line) /\ i - 1 # Len(line)
        BY <1>2, <1>3, <3>3
      <4>. QED
        BY <1>3, <2>2, <2>3, <3>1, <4>1
    <3>. QED
      BY <3>2, <3>3
  <2>5. Len(line') <= OptionAt => key_buffer'[OptionAt] \in rubbed \cup {"nul"}
    <3>1. Len(line') <= OptionAt => Len(line) <= OptionAt /\ OptionAt # Len(line)
      BY <1>2, <1>3 DEF OptionAt
    <3>2. OptionAt \in 0 .. BufferSize - 1
      BY Sizes DEF OptionAt
    <3>. QED
      BY <2>2, <2>3, <3>1, <3>2
  <2>6. Len(line') <= BufferSize
    BY <1>1, <1>2, <1>3, <2>2, Sizes
  <2>. QED
    BY <1>1, <1>3, <2>2, <2>4, <2>5, <2>6
<1>6. RowIsLine'
  <2>1. SUFFICES ASSUME odd' = {}, promptEnd >= SPIndex
        PROVE  /\ x' - Len(line') \in SPIndex .. promptEnd
               /\ \A i \in 1 .. Len(line') : line'[i] = row'[x' - Len(line') + i - 1]
    BY <1>1 DEF RowIsLine
  <2>2. odd = {} /\ x # Width - 1
    BY <1>1, <2>1
  <2>3. /\ x - Len(line) \in SPIndex .. promptEnd
        /\ \A i \in 1 .. Len(line) : line[i] = row[x - Len(line) + i - 1]
    BY <1>1, <2>1, <2>2 DEF IInv, RowIsLine
  <2>4. row' = [row EXCEPT ![x] = k] /\ x' = x + 1
    BY <1>1, <2>2 DEF Put, Here
  <2>5. x' - Len(line') = x - Len(line)
    BY <1>2, <1>3, <2>4
  <2>6. PICK b \in SPIndex .. promptEnd : b = x - Len(line)
    BY <2>3
  <2>7. b \in Nat /\ b + Len(line) = x
    BY <1>2, <2>6
  <2>8. ASSUME NEW i \in 1 .. Len(line')
        PROVE  line'[i] = row'[b + i - 1]
    <3>1. CASE i = Len(line) + 1
      <4>1. b + i - 1 = x
        BY <1>2, <2>7, <3>1
      <4>. QED
        BY <1>2, <1>3, <2>4, <3>1, <4>1
    <3>2. CASE i # Len(line) + 1
      <4>1. i \in 1 .. Len(line) /\ b + i - 1 # x
        BY <1>2, <1>3, <2>7, <3>2
      <4>2. row'[b + i - 1] = row[b + i - 1]
        <5>1. b + i - 1 \in Columns
          BY <1>2, <2>7, <4>1, Sizes DEF Columns
        <5>. QED
          BY <1>2, <2>4, <4>1, <5>1
      <4>. QED
        BY <1>3, <2>3, <2>6, <4>1, <4>2
    <3>. QED
      BY <3>1, <3>2
  <2>. QED
    BY <2>3, <2>5, <2>6, <2>8
<1>7. LostHasACause'
  BY <1>1 DEF LostHasACause
<1>. QED
  BY <1>4, <1>5, <1>6, <1>7 DEF IInv

\* A key is rubbed out.
LEMMA BackspaceKeeps ==
    ASSUME IInv, Backspace
    PROVE  IInv'
<1>1. /\ mode = "shell" /\ mode' = "shell" /\ key_buffer_index' = Shorter
      /\ row' = RubOut(Here).row /\ x' = RubOut(Here).x
      /\ line' = (IF line = << >> THEN line ELSE Front(line))
      /\ rubbed' = (IF Len(line) = OptionAt + 1 THEN rubbed \cup {Last(line)} ELSE rubbed)
      /\ odd' = odd \cup (IF x = 0 /\ SPIndex # 0 THEN {"wrapped"} ELSE {})
      /\ UNCHANGED <<key_buffer, SP, SPIndex, skip, promptEnd>>
  BY DEF Backspace, prompt
<1>2. /\ key_buffer_index \in 0 .. BufferSize + 1 /\ x \in Columns /\ x \in Nat
      /\ row \in [Columns -> Glyph] /\ rubbed \subseteq Chars
      /\ line \in Seq(Chars) /\ Len(line) \in Nat /\ promptEnd \in Nat /\ SPIndex \in Nat
  <2>1. /\ row \in [Columns -> Glyph] /\ rubbed \subseteq Chars
        /\ line \in Seq(Chars) /\ x \in Columns /\ promptEnd \in Columns
        /\ key_buffer_index \in 0 .. BufferSize + 1 /\ SPIndex \in 0 .. SPSize
    BY DEF IInv, TypeOK
  <2>2. x \in Nat /\ promptEnd \in Nat /\ SPIndex \in Nat
    BY <2>1, Sizes DEF Columns
  <2>. QED
    BY <2>1, <2>2, LenProperties
<1>3. line = << >> => line' = << >> /\ Len(line) = 0 /\ Len(line') = 0
  BY <1>1
<1>4. line # << >> =>
        /\ line' \in Seq(Chars) /\ Len(line) >= 1 /\ Len(line') = Len(line) - 1
        /\ \A i \in 1 .. Len(line') : line'[i] = line[i]
        /\ Last(line) = line[Len(line)] /\ Last(line) \in Chars
  <2>1. SUFFICES ASSUME line # << >>
        PROVE  /\ line' \in Seq(Chars) /\ Len(line) >= 1 /\ Len(line') = Len(line) - 1
               /\ \A i \in 1 .. Len(line') : line'[i] = line[i]
               /\ Last(line) = line[Len(line)] /\ Last(line) \in Chars
    OBVIOUS
  <2>2. Len(line) >= 1
    BY <1>2, <2>1, EmptySeq
  <2>3. line' = SubSeq(line, 1, Len(line) - 1)
    BY <1>1, <2>1 DEF Front
  <2>4. /\ line' \in Seq(Chars) /\ Len(line') = Len(line) - 1
        /\ \A i \in 1 .. Len(line') : line'[i] = line[i]
    <3>0. Len(line) - 1 \in Nat /\ Len(line) - 1 <= Len(line)
      BY <1>2, <2>2
    <3>1. PICK n \in Nat : n = Len(line) - 1 /\ n <= Len(line)
      BY <3>0
    <3>2. /\ SubSeq(line, 1, n) \in Seq(Chars) /\ Len(SubSeq(line, 1, n)) = n
          /\ \A i \in 1 .. n : SubSeq(line, 1, n)[i] = line[i]
      BY <1>2, <3>1, SubSeqProperties
    <3>. QED
      BY <2>3, <3>1, <3>2
  <2>5. Last(line) = line[Len(line)] /\ Last(line) \in Chars
    BY <1>2, <2>2 DEF Last
  <2>. QED
    BY <2>2, <2>4, <2>5
<1>5. line' \in Seq(Chars) /\ Len(line') \in Nat
  BY <1>2, <1>3, <1>4, LenProperties
<1>6. TypeOK'
  <2>1. RubOut(Here) \in Screens
    BY HereIsScreen, StepsAreScreens DEF IInv
  <2>2. row' \in [Columns -> Glyph] /\ x' \in Columns
    BY <1>1, <2>1 DEF Screens
  <2>3. Shorter \in 0 .. BufferSize + 1
    BY <1>2, Sizes DEF Shorter
  <2>4. odd' \subseteq Oddities
    BY <1>1 DEF IInv, TypeOK, Oddities
  <2>5. rubbed' \subseteq Chars
    <3>1. CASE Len(line) = OptionAt + 1
      <4>1. line # << >>
        BY <1>3, <3>1 DEF OptionAt
      <4>. QED
        BY <1>1, <1>2, <1>4, <4>1
    <3>2. CASE Len(line) # OptionAt + 1
      BY <1>1, <1>2, <3>2
    <3>. QED
      BY <3>1, <3>2
  <2>. QED
    BY <1>1, <1>5, <2>2, <2>3, <2>4, <2>5 DEF IInv, TypeOK
<1>7. BufferIsLine'
  <2>1. SUFFICES ASSUME "stray" \notin odd'
        PROVE  /\ key_buffer_index' = Len(line') /\ Len(line') <= BufferSize
               /\ \A i \in 1 .. Len(line') : line'[i] = key_buffer[i - 1]
               /\ Len(line') <= OptionAt => key_buffer[OptionAt] \in rubbed' \cup {"nul"}
    BY <1>1 DEF BufferIsLine
  <2>2. /\ key_buffer_index = Len(line) /\ Len(line) <= BufferSize
        /\ \A i \in 1 .. Len(line) : line[i] = key_buffer[i - 1]
        /\ Len(line) <= OptionAt => key_buffer[OptionAt] \in rubbed \cup {"nul"}
    BY <1>1, <2>1 DEF IInv, BufferIsLine
  <2>3. rubbed \subseteq rubbed'
    BY <1>1
  <2>4. CASE line = << >>
    <3>1. Len(line) <= OptionAt
      BY <1>3, <2>4 DEF OptionAt
    <3>2. key_buffer_index' = 0
      BY <1>1, <1>3, <2>2, <2>4 DEF Shorter
    <3>3. \A i \in 1 .. 0 : FALSE
      OBVIOUS
    <3>4. Len(line') <= BufferSize
      BY <1>3, <2>2, <2>4
    <3>. QED
      BY <1>3, <2>2, <2>3, <2>4, <3>1, <3>2, <3>3, <3>4
  <2>5. CASE line # << >>
    <3>1. key_buffer_index' = Len(line) - 1
      BY <1>1, <1>2, <1>4, <2>2, <2>5 DEF Shorter
    <3>2. \A i \in 1 .. Len(line') : i \in 1 .. Len(line)
      BY <1>2, <1>4, <2>5
    <3>3. \A i \in 1 .. Len(line') : line'[i] = key_buffer[i - 1]
      BY <1>4, <2>2, <2>5, <3>2
    <3>4. Len(line') <= OptionAt => key_buffer[OptionAt] \in rubbed' \cup {"nul"}
      <4>1. CASE Len(line) = OptionAt + 1
        <5>1. Len(line) \in 1 .. Len(line) /\ Len(line) - 1 = OptionAt
          BY <4>1 DEF OptionAt
        <5>2. Last(line) = key_buffer[OptionAt]
          BY <1>4, <2>2, <2>5, <4>1, <5>1
        <5>. QED
          BY <1>1, <4>1, <5>2
      <4>2. CASE Len(line) # OptionAt + 1
        <5>1. Len(line') <= OptionAt => Len(line) <= OptionAt
          BY <1>2, <1>4, <2>5, <4>2 DEF OptionAt
        <5>. QED
          BY <2>2, <2>3, <5>1
      <4>. QED
        BY <4>1, <4>2
    <3>5. Len(line') <= BufferSize
      BY <1>2, <1>4, <2>2, <2>5, Sizes
    <3>. QED
      BY <1>4, <2>5, <3>1, <3>3, <3>4, <3>5
  <2>. QED
    BY <2>4, <2>5
<1>8. RowIsLine'
  <2>1. SUFFICES ASSUME odd' = {}, promptEnd >= SPIndex
        PROVE  /\ x' - Len(line') \in SPIndex .. promptEnd
               /\ \A i \in 1 .. Len(line') : line'[i] = row'[x' - Len(line') + i - 1]
    BY <1>1 DEF RowIsLine
  <2>2. odd = {} /\ (x = 0 => SPIndex = 0)
    BY <1>1, <2>1
  <2>3. /\ x - Len(line) \in SPIndex .. promptEnd
        /\ \A i \in 1 .. Len(line) : line[i] = row[x - Len(line) + i - 1]
    BY <1>1, <2>1, <2>2 DEF IInv, RowIsLine
  <2>4. CASE line = << >>
    <3>1. x' \in SPIndex .. promptEnd
      <4>1. CASE x = SPIndex
        <5>1. x' = x
          BY <1>1, <4>1 DEF RubOut, Here
        <5>. QED
          BY <1>2, <2>1, <4>1, <5>1
      <4>2. CASE x # SPIndex
        <5>1. x - 0 \in SPIndex .. promptEnd /\ x # 0
          BY <1>2, <1>3, <2>2, <2>3, <2>4, <4>2
        <5>2. x' = x - 1
          BY <1>1, <4>2, <5>1 DEF RubOut, Here
        <5>. QED
          BY <1>2, <4>2, <5>1, <5>2
      <4>. QED
        BY <4>1, <4>2
    <3>2. x' - Len(line') = x'
      <4>1. PICK y \in SPIndex .. promptEnd : y = x'
        BY <3>1
      <4>2. y - 0 = y
        BY <1>2
      <4>. QED
        BY <1>3, <2>4, <4>1, <4>2
    <3>3. \A i \in 1 .. 0 : FALSE
      OBVIOUS
    <3>. QED
      BY <1>3, <2>4, <3>1, <3>2, <3>3
  <2>5. CASE line # << >>
    <3>1. PICK b \in SPIndex .. promptEnd : b = x - Len(line)
      BY <2>3
    <3>2. b \in Nat /\ b + Len(line) = x /\ x # SPIndex /\ x # 0 /\ Len(line) >= 1
      BY <1>2, <1>4, <2>5, <3>1
    <3>3. x' = x - 1 /\ row' = [row EXCEPT ![x - 1] = " "]
      BY <1>1, <3>2 DEF RubOut, Here
    <3>4. x' - Len(line') = b
      <4>1. Len(line') = Len(line) - 1
        BY <1>4, <2>5
      <4>2. x - 1 - (Len(line) - 1) = b
        BY <1>2, <3>2
      <4>. QED
        BY <3>3, <4>1, <4>2
    <3>5. ASSUME NEW i \in 1 .. Len(line')
          PROVE  line'[i] = row'[b + i - 1]
      <4>1. /\ i \in 1 .. Len(line) /\ b + i - 1 # x - 1 /\ b + i - 1 \in Nat /\ b + i - 1 < x
        BY <1>2, <1>4, <2>5, <3>2
      <4>2. b + i - 1 \in Columns
        BY <1>2, <4>1, Sizes DEF Columns
      <4>3. row'[b + i - 1] = row[b + i - 1]
        BY <1>2, <3>3, <4>1, <4>2
      <4>. QED
        BY <1>4, <2>3, <2>5, <3>1, <4>1, <4>3
    <3>. QED
      BY <3>1, <3>4, <3>5
  <2>. QED
    BY <2>4, <2>5
<1>9. LostHasACause'
  BY <1>1 DEF LostHasACause
<1>. QED
  BY <1>6, <1>7, <1>8, <1>9 DEF IInv

\* More keys than the buffer holds.
LEMMA OverrunKeeps ==
    ASSUME IInv, Overrun
    PROVE  IInv'
<1>1. /\ mode = "shell" /\ mode' = "lost" /\ ~(key_buffer_index < BufferSize)
      /\ UNCHANGED <<key_buffer, key_buffer_index, SP, SPIndex, skip, promptEnd, row, x,
                     line, rubbed, odd>>
  BY DEF Overrun, HasRoom, keys, prompt, screen, ghosts
<1>2. TypeOK'
  BY <1>1 DEF IInv, TypeOK
<1>3. "stray" \in odd \/ Len(line) = BufferSize
  <2>1. /\ line \in Seq(Chars) /\ key_buffer_index \in Nat
        /\ "stray" \notin odd => key_buffer_index = Len(line) /\ Len(line) <= BufferSize
    BY <1>1, Sizes DEF IInv, TypeOK, BufferIsLine
  <2>. QED
    BY <1>1, <2>1, Sizes
<1>4. LostHasACause'
  BY <1>1, <1>3 DEF LostHasACause
<1>. QED
  BY <1>1, <1>2, <1>4 DEF IInv, BufferIsLine, RowIsLine
-----------------------------------------------------------------------------
(* Commands.                                                               *)

\* Enter stands where the line ends.
LEMMA CellsAre ==
    ASSUME TypeOK, AtEnter
    PROVE  /\ Cells \in [0 .. BufferSize - 1 -> Cell]
           /\ key_buffer_index \in 0 .. BufferSize - 1
           /\ Cells[key_buffer_index] = "enter"
           /\ \A i \in 0 .. BufferSize - 1 : i # key_buffer_index => Cells[i] = key_buffer[i]
<1>1. /\ key_buffer \in [0 .. BufferSize - 1 -> Cell] /\ "enter" \in Cell
      /\ key_buffer_index \in 0 .. BufferSize + 1 /\ key_buffer_index < BufferSize
  BY DEF TypeOK, AtEnter, HasRoom, Cell
<1>2. key_buffer_index \in 0 .. BufferSize - 1
  BY <1>1, Sizes
<1>. QED
  BY <1>1, <1>2 DEF Cells, Stored

\* A set of numbers has a least one.
LEMMA Least ==
    ASSUME NEW E, E \subseteq Nat, E # {}
    PROVE  \E i \in E : \A j \in E : i <= j
<1>1. PICK R : R = OpToRel(<, Nat)
  OBVIOUS
<1>2. IsWellFoundedOn(R, Nat) /\ \A i, j \in Nat : j < i => <<j, i>> \in R
  BY <1>1, NatLessThanWellFounded DEF OpToRel
<1>3. PICK i \in E : \A j \in E : <<j, i>> \notin R
  BY <1>2, WFMin
<1>4. ASSUME NEW j \in E PROVE i <= j
  <2>1. i \in Nat /\ j \in Nat
    OBVIOUS
  <2>2. ~(j < i)
    BY <1>2, <1>3, <2>1
  <2>. QED
    BY <2>1, <2>2
<1>. QED
  BY <1>4

\* A command's loop takes the cells up to the first end that it meets.
LEMMA CellsFromAre ==
    ASSUME NEW from \in Nat, NEW last \in Ends(from)
    PROVE  \E end \in from .. last :
             /\ end <= last /\ end - from \in Nat
             /\ CellsFrom(from) = [i \in 1 .. end - from |-> Cells[from + i - 1]]
<1>. DEFINE E == Ends(from)
            end == CHOOSE i \in E : \A j \in E : i <= j
<1>1. E \subseteq Nat /\ last \in E /\ \A i \in E : i >= from
  BY Sizes DEF Ends
<1>2. \E i \in E : \A j \in E : i <= j
  BY <1>1, Least
<1>3. end \in E /\ end <= last
  BY <1>1, <1>2
<1>4. CellsFrom(from) = [i \in 1 .. end - from |-> Cells[from + i - 1]]
  BY DEF CellsFrom
<1>. HIDE DEF end, E
<1>5. end \in from .. last /\ end - from \in Nat
  BY <1>1, <1>3
<1>. QED
  BY <1>3, <1>4, <1>5

\* When Enter is pressed, the cells are the line's, then Enter.
LEMMA CellsAreLine ==
    ASSUME IInv, AtEnter, "stray" \notin odd
    PROVE  /\ line \in Seq(Chars) /\ Len(line) \in 0 .. BufferSize - 1
           /\ Cells[Len(line)] = "enter" /\ key_buffer_index = Len(line)
           /\ \A i \in 0 .. Len(line) - 1 : Cells[i] = line[i + 1] /\ Cells[i] \in Chars
           /\ \A from \in 0 .. Len(line) : Len(line) \in Ends(from)
<1>1. /\ mode = "shell" /\ key_buffer_index = Len(line) /\ line \in Seq(Chars)
      /\ \A i \in 1 .. Len(line) : line[i] = key_buffer[i - 1]
  BY DEF IInv, TypeOK, BufferIsLine, AtEnter
<1>2. /\ Len(line) \in 0 .. BufferSize - 1 /\ Cells[Len(line)] = "enter"
      /\ \A i \in 0 .. BufferSize - 1 : i # Len(line) => Cells[i] = key_buffer[i]
  BY <1>1, CellsAre DEF IInv
<1>3. ASSUME NEW i \in 0 .. Len(line) - 1
      PROVE  Cells[i] = line[i + 1] /\ Cells[i] \in Chars
  <2>1. /\ i \in 0 .. BufferSize - 1 /\ i # Len(line) /\ i + 1 \in 1 .. Len(line)
        /\ i + 1 - 1 = i
    BY <1>2, Sizes
  <2>2. line[i + 1] \in Chars
    BY <1>1, <2>1, ElementOfSeq
  <2>. QED
    BY <1>1, <1>2, <2>1, <2>2
<1>4. ASSUME NEW from \in 0 .. Len(line)
      PROVE  Len(line) \in Ends(from)
  <2>1. Len(line) \in from .. BufferSize - 1
    BY <1>2
  <2>. QED
    BY <1>2, <2>1 DEF Ends
<1>. QED
  BY <1>1, <1>2, <1>3, <1>4

\* A loop that starts in the line follows nothing but characters, and not more than
\* are left.
LEMMA LoopInLine ==
    ASSUME IInv, AtEnter, "stray" \notin odd, NEW from \in 0 .. Len(line)
    PROVE  /\ Ends(from) # {} /\ Range(CellsFrom(from)) \subseteq Chars
           /\ Len(CellsFrom(from)) \in Nat /\ Len(CellsFrom(from)) <= Len(line) - from
<1>1. /\ Len(line) \in 0 .. BufferSize - 1 /\ Len(line) \in Ends(from)
      /\ \A i \in 0 .. Len(line) - 1 : Cells[i] \in Chars
  BY CellsAreLine
<1>2. from \in Nat /\ Len(line) \in Nat
  BY <1>1
<1>3. PICK end \in from .. Len(line) :
        /\ end <= Len(line) /\ end - from \in Nat
        /\ CellsFrom(from) = [i \in 1 .. end - from |-> Cells[from + i - 1]]
  BY <1>1, <1>2, CellsFromAre
<1>4. \A i \in 1 .. end - from : Cells[from + i - 1] \in Chars
  <2>1. \A i \in 1 .. end - from : from + i - 1 \in 0 .. Len(line) - 1
    BY <1>2, <1>3
  <2>. QED
    BY <1>1, <2>1
<1>5. Range(CellsFrom(from)) \subseteq Chars
  BY <1>3, <1>4 DEF Range
<1>6. Len(CellsFrom(from)) = end - from
  BY <1>3
<1>7. end - from <= Len(line) - from
  BY <1>2, <1>3
<1>. QED
  BY <1>1, <1>3, <1>5, <1>6, <1>7

\* A command that makes the shell go astray.
LEMMA WanderKeeps ==
    ASSUME IInv, Wander
    PROVE  IInv'
<1>1. /\ AtEnter /\ mode' = "lost"
      /\ RunsOff \/ Overflows \/ Followed \cap (Leftovers \ Chars) # {}
      /\ UNCHANGED <<key_buffer, key_buffer_index, SP, SPIndex, skip, promptEnd, row, x,
                     line, rubbed, odd>>
  BY DEF Wander, keys, prompt, screen, ghosts
<1>2. TypeOK'
  BY <1>1 DEF IInv, TypeOK
<1>. DEFINE name == IF line = << >> THEN "nul" ELSE line[1]
<1>3. ASSUME "stray" \notin odd, Range(SP) \cap (Leftovers \ Chars) = {},
             line \notin {<<"echo">>, <<"spo">>}, ~(name = "exec" /\ Len(line) \notin 4 .. 4 + 3),
             ~(name = "set" /\ Len(line) > 1 + SPSize)
      PROVE  FALSE
  <2>1. /\ line \in Seq(Chars) /\ Len(line) \in 0 .. BufferSize - 1 /\ Len(line) \in Nat
        /\ Cells[Len(line)] = "enter"
        /\ \A i \in 0 .. Len(line) - 1 : Cells[i] = line[i + 1]
    BY <1>1, <1>3, CellsAreLine
  <2>2. Command # "enter" => Len(line) >= 1 /\ Command = name /\ Command = line[1]
    <3>1. CASE Len(line) = 0
      BY <2>1, <3>1 DEF Command
    <3>2. CASE Len(line) # 0
      <4>1. 0 \in 0 .. Len(line) - 1 /\ Len(line) >= 1 /\ 0 + 1 = 1 /\ line # << >>
        BY <2>1, <3>2
      <4>2. Cells[0] = line[1]
        BY <2>1, <4>1
      <4>. QED
        BY <4>1, <4>2 DEF Command
    <3>. QED
      BY <3>1, <3>2
  <2>. HIDE DEF name
  <2>3. LoopsFrom \subseteq 0 .. Len(line)
    <3>1. CASE Command \in {"echo", "spo"}
      <4>1. Len(line) >= 1 /\ Command = line[1]
        BY <2>2, <3>1
      <4>2. Len(line) # 1
        <5>1. Len(line) = 1 => line = <<line[1]>>
          BY <2>1
        <5>. QED
          BY <1>3, <3>1, <4>1, <5>1
      <4>3. 2 \in 0 .. Len(line)
        <5>1. \A n \in Nat : n >= 1 /\ n # 1 => 2 \in 0 .. n
          OBVIOUS
        <5>. QED
          BY <2>1, <4>1, <4>2, <5>1
      <4>4. LoopsFrom \subseteq {2}
        BY <3>1 DEF LoopsFrom
      <4>. QED
        BY <4>3, <4>4
    <3>2. CASE Command = "set"
      <4>1. 1 \in 0 .. Len(line)
        BY <2>1, <2>2, <3>2
      <4>. QED
        BY <3>2, <4>1 DEF LoopsFrom
    <3>3. CASE Command = "exec"
      <4>1. Len(line) \in 4 .. 4 + 3
        BY <1>3, <2>2, <3>3
      <4>2. \A n \in 4 .. 4 + 3 : 4 \in 0 .. n
        OBVIOUS
      <4>3. 4 \in 0 .. Len(line)
        BY <4>1, <4>2
      <4>. QED
        BY <3>3, <4>3 DEF LoopsFrom
    <3>4. CASE Command \notin {"echo", "spo", "set", "exec"}
      <4>1. LoopsFrom \subseteq {0}
        <5>1. CASE Command \in Words \ {"echo", "spo", "set", "exec"}
          BY <3>4, <5>1 DEF LoopsFrom
        <5>2. CASE Command \notin Words \ {"echo", "spo", "set", "exec"}
          BY <3>4, <5>2 DEF LoopsFrom
        <5>. QED
          BY <5>1, <5>2
      <4>2. 0 \in 0 .. Len(line)
        BY <2>1
      <4>. QED
        BY <4>1, <4>2
    <3>. QED
      BY <3>1, <3>2, <3>3, <3>4
  <2>4. \A f \in LoopsFrom :
          /\ Ends(f) # {} /\ Range(CellsFrom(f)) \subseteq Chars
          /\ Len(CellsFrom(f)) \in Nat /\ Len(CellsFrom(f)) <= Len(line) - f
    BY <1>1, <1>3, <2>3, LoopInLine
  <2>5. ~RunsOff
    BY <2>4 DEF RunsOff
  <2>6. ~Overflows
    <3>1. Command = "set" => ~(Len(CellsFrom(1)) > SPSize)
      <4>1. Command = "set" => 1 \in LoopsFrom
        BY DEF LoopsFrom
      <4>2. Command = "set" => ~(Len(line) > 1 + SPSize)
        BY <1>3, <2>2
      <4>. QED
        BY <2>1, <2>4, <4>1, <4>2, Sizes
    <3>2. Command = "exec" => ~(Len(CellsFrom(4)) > 3)
      <4>1. Command = "exec" => 4 \in LoopsFrom
        BY DEF LoopsFrom
      <4>2. Command = "exec" => Len(line) \in 4 .. 4 + 3
        BY <1>3, <2>2
      <4>3. \A n \in 4 .. 4 + 3, k \in Nat : k <= n - 4 => ~(k > 3)
        OBVIOUS
      <4>. QED
        BY <2>4, <4>1, <4>2, <4>3
    <3>. QED
      BY <3>1, <3>2 DEF Overflows
  <2>7. Followed \cap (Leftovers \ Chars) = {}
    <3>1. /\ SP \in [0 .. SPSize - 1 -> Cell] /\ SPIndex \in 0 .. SPSize
      BY DEF IInv, TypeOK
    <3>2. \A i \in 0 .. SPIndex - 1 : i \in 0 .. SPSize - 1
      BY <3>1, Sizes
    <3>3. \A i \in 0 .. SPIndex - 1 : SP[i] \in Range(SP)
      BY <3>1, <3>2 DEF Range
    <3>4. {SP[i] : i \in 0 .. SPIndex - 1} \cap (Leftovers \ Chars) = {}
      BY <1>3, <3>3
    <3>5. UNION {Range(CellsFrom(f)) : f \in {g \in LoopsFrom : Ends(g) # {}}} \subseteq Chars
      BY <2>4
    <3>. QED
      BY <3>4, <3>5 DEF Followed
  <2>. QED
    BY <1>1, <2>5, <2>6, <2>7
<1>4. LostHasACause'
  BY <1>1, <1>3 DEF LostHasACause
<1>. QED
  BY <1>1, <1>2, <1>4 DEF IInv, BufferIsLine, RowIsLine

\* A command whose output ends with a new row.
LEMMA PlainKeeps ==
    ASSUME TypeOK, RunPlain \/ ReturnHScreen
    PROVE  IInv'
<1>1. Finish(Blank, SP, SPIndex)
  BY DEF RunPlain, ReturnHScreen
<1>2. SP \in [0 .. SPSize - 1 -> Cell] /\ SPIndex \in 0 .. SPSize
  BY DEF TypeOK
<1>. QED
  BY <1>1, <1>2, BlankIsScreen, FinishKeeps

\* The new prompt fits: Enter, behind the name, ends it.
LEMMA SetKeeps ==
    ASSUME TypeOK, RunSet
    PROVE  IInv'
<1>. DEFINE cells == CellsFrom(1)
            sp == [i \in 0 .. SPSize - 1 |-> IF i < Len(cells) THEN cells[i + 1] ELSE SP[i]]
<1>1. AtEnter /\ Command = "set" /\ Finish(Blank, sp, Len(cells)) /\ ~(Len(cells) > SPSize)
  BY DEF RunSet, Overflows
<1>. HIDE DEF sp
<1>2. /\ Cells \in [0 .. BufferSize - 1 -> Cell] /\ key_buffer_index \in 0 .. BufferSize - 1
      /\ Cells[key_buffer_index] = "enter"
  BY <1>1, CellsAre
<1>3. key_buffer_index # 0
  <2>1. Command # "enter"
    BY <1>1, Characters, ShellAssumption
  <2>. QED
    BY <1>2, <2>1 DEF Command
<1>4. key_buffer_index \in Ends(1)
  <2>1. key_buffer_index \in 1 .. BufferSize - 1
    BY <1>2, <1>3, Sizes
  <2>. QED
    BY <1>2, <2>1 DEF Ends
<1>5. PICK end \in 1 .. key_buffer_index :
        /\ end <= key_buffer_index /\ end - 1 \in Nat
        /\ cells = [i \in 1 .. end - 1 |-> Cells[1 + i - 1]]
  BY <1>4, CellsFromAre
<1>. HIDE DEF cells
<1>6. Len(cells) = end - 1 /\ Len(cells) \in Nat
  BY <1>5
<1>7. Len(cells) \in 0 .. SPSize
  BY <1>1, <1>6, Sizes
<1>8. ASSUME NEW i \in 0 .. SPSize - 1
      PROVE  sp[i] \in Cell
  <2>1. CASE i < Len(cells)
    <3>1. i + 1 \in 1 .. end - 1 /\ 1 + (i + 1) - 1 \in 0 .. BufferSize - 1
      BY <1>2, <1>5, <1>6, <2>1, Sizes
    <3>2. cells[i + 1] \in Cell
      BY <1>2, <1>5, <3>1
    <3>. QED
      BY <2>1, <3>2 DEF sp
  <2>2. CASE ~(i < Len(cells))
    BY <2>2 DEF sp, TypeOK
  <2>. QED
    BY <2>1, <2>2
<1>9. sp \in [0 .. SPSize - 1 -> Cell]
  BY <1>8 DEF sp
<1>. QED
  BY <1>1, <1>7, <1>9, BlankIsScreen, FinishKeeps

\* "sd" ends with a prompt, or ends it all.
LEMMA SdKeeps ==
    ASSUME TypeOK, RunSd
    PROVE  IInv'
<1>1. CASE Cells[OptionAt] = "h"
  <2>1. /\ mode' = "halted"
        /\ UNCHANGED <<key_buffer, key_buffer_index, SP, SPIndex, skip, promptEnd, row, x,
                       line, rubbed, odd>>
    BY <1>1 DEF RunSd, keys, prompt, screen, ghosts
  <2>2. TypeOK'
    BY <2>1 DEF TypeOK
  <2>. QED
    BY <2>1, <2>2, Away
<1>2. CASE Cells[OptionAt] # "h"
  <2>1. Finish(Blank, SP, SPIndex)
    BY <1>2 DEF RunSd
  <2>2. SP \in [0 .. SPSize - 1 -> Cell] /\ SPIndex \in 0 .. SPSize
    BY DEF TypeOK
  <2>. QED
    BY <2>1, <2>2, BlankIsScreen, FinishKeeps
<1>. QED
  BY <1>1, <1>2

\* A program's output may end in any column.
LEMMA ExecKeeps ==
    ASSUME TypeOK, RunExec
    PROVE  IInv'
<1>1. PICK c \in OutputEnds : Finish(Output(c), SP, SPIndex)
  BY DEF RunExec
<1>2. Output(c) \in Screens
  BY OutputIsScreen
<1>3. SP \in [0 .. SPSize - 1 -> Cell] /\ SPIndex \in 0 .. SPSize
  BY DEF TypeOK
<1>. QED
  BY <1>1, <1>2, <1>3, FinishKeeps

\* Text mode has no line.
LEMMA TxtKeeps ==
    ASSUME TypeOK, RunTxt
    PROVE  IInv'
<1>1. /\ mode' = "text" /\ key_buffer' = Cleared /\ key_buffer_index' = 0
      /\ line' = << >> /\ rubbed' = {}
      /\ UNCHANGED <<SP, SPIndex, skip, promptEnd, row, x, odd>>
  BY DEF RunTxt, prompt, screen
<1>2. 0 \in 0 .. BufferSize + 1
  BY Sizes
<1>3. TypeOK'
  BY <1>1, <1>2, ClearedFacts DEF TypeOK
<1>. QED
  BY <1>1, <1>3, Away
-----------------------------------------------------------------------------
(* The specification.                                                      *)

LEMMA InitInv ==
    Init => IInv
<1>1. SUFFICES ASSUME Init PROVE IInv
  OBVIOUS
<1>2. /\ key_buffer = Zeros /\ key_buffer_index = 0 /\ SPIndex = SPSize /\ skip = FALSE
      /\ mode = "shell" /\ line = << >> /\ rubbed = {}
      /\ \/ /\ row = [c \in Columns |-> IF c < NameWidth THEN "prompt" ELSE " "]
            /\ x = NameWidth /\ promptEnd = NameWidth /\ odd = {}
         \/ /\ row = [c \in Columns |-> " "]
            /\ x = 0 /\ promptEnd = 0 /\ odd = {"printed"}
      /\ SP = [i \in 0 .. SPSize - 1 |->
                 CASE i = 0 -> "%" [] i = 1 -> "h" [] OTHER -> "nul"]
  BY <1>1 DEF Init, Blank
<1>3. TypeOK
  <2>1. "%" \in Cell /\ "h" \in Cell /\ "nul" \in Cell
    BY ShellAssumption DEF Cell, Chars
  <2>2. SP \in [0 .. SPSize - 1 -> Cell]
    BY <1>2, <2>1
  <2>3. key_buffer \in [0 .. BufferSize - 1 -> Cell]
    BY <1>2, ClearedFacts DEF Cleared
  <2>4. row \in [Columns -> Glyph]
    BY <1>2 DEF Glyph
  <2>5. NameWidth \in Columns /\ 0 \in Columns /\ 0 \in 0 .. BufferSize + 1 /\ SPSize \in 0 .. SPSize
    BY Sizes DEF Columns
  <2>6. skip \in BOOLEAN
    BY <1>2, Zenon
  <2>7. line \in Seq(Chars) /\ rubbed \subseteq Chars /\ odd \subseteq Oddities
    <3>1. line = << >> /\ rubbed = {} /\ (odd = {} \/ odd = {"printed"})
      BY <1>2, Zenon
    <3>. QED
      BY <3>1 DEF Oddities
  <2>8. key_buffer_index \in 0 .. BufferSize + 1 /\ SPIndex \in 0 .. SPSize
    BY <1>2, <2>5
  <2>9. x \in Columns /\ promptEnd \in Columns
    BY <1>2, <2>5
  <2>. QED
    BY <1>2, <2>2, <2>3, <2>4, <2>6, <2>7, <2>8, <2>9, Zenon DEF TypeOK
<1>4. Len(<< >>) = 0 /\ \A i : i \notin 1 .. 0
  OBVIOUS
<1>5. BufferIsLine
  <2>1. key_buffer[OptionAt] = "nul"
    BY <1>2, ClearedFacts DEF Cleared
  <2>2. key_buffer_index = Len(line) /\ Len(line) = 0
    BY <1>2, <1>4, Zenon
  <2>. QED
    BY <1>4, <2>1, <2>2, Sizes DEF BufferIsLine
<1>6. RowIsLine
  <2>1. NameWidth >= SPSize => NameWidth - 0 \in SPSize .. NameWidth
    BY Sizes
  <2>. QED
    BY <1>2, <1>4, <2>1 DEF RowIsLine
<1>7. LostHasACause
  BY <1>2 DEF LostHasACause
<1>. QED
  BY <1>3, <1>5, <1>6, <1>7 DEF IInv

LEMMA StepKeeps ==
    IInv /\ [Next]_vars => IInv'
<1>1. SUFFICES ASSUME IInv, [Next]_vars PROVE IInv'
  OBVIOUS
<1>2. TypeOK
  BY <1>1 DEF IInv
<1>3. CASE \E k \in Chars : Press(k)
  BY <1>1, <1>3, PressKeeps
<1>4. CASE \E c \in Leftovers : Unmapped(c) \/ ArrowLeft(c) \/ ArrowRight(c) \/ Recall(c)
  BY <1>2, <1>4, UnmappedKeeps, ArrowsKeep, RecallKeeps
<1>5. CASE Backspace
  BY <1>1, <1>5, BackspaceKeeps
<1>6. CASE NumLock
  BY <1>2, <1>6, NumLockKeeps
<1>7. CASE Overrun
  BY <1>1, <1>7, OverrunKeeps
<1>8. CASE Wander
  BY <1>1, <1>8, WanderKeeps
<1>9. CASE RunPlain \/ ReturnHScreen
  BY <1>2, <1>9, PlainKeeps
<1>10. CASE RunSet
  BY <1>2, <1>10, SetKeeps
<1>11. CASE RunSd
  BY <1>2, <1>11, SdKeeps
<1>12. CASE RunExec
  BY <1>2, <1>12, ExecKeeps
<1>13. CASE RunTxt
  BY <1>2, <1>13, TxtKeeps
<1>14. CASE Alt \/ OthersPrint
  BY <1>1, <1>14, PrintedKeeps
<1>15. CASE UNCHANGED vars
  <2>1. UNCHANGED <<key_buffer, key_buffer_index, SP, SPIndex, skip, promptEnd, row, x, mode,
                    line, rubbed, odd>>
    BY <1>15 DEF vars, keys, prompt, screen, ghosts
  <2>. QED
    BY <1>1, <2>1 DEF IInv, TypeOK, BufferIsLine, RowIsLine, LostHasACause
<1>. QED
  BY <1>1, <1>3, <1>4, <1>5, <1>6, <1>7, <1>8, <1>9, <1>10, <1>11, <1>12, <1>13, <1>14,
     <1>15 DEF Next

LEMMA Invariance ==
    Spec => []IInv
BY InitInv, StepKeeps, PTL DEF Spec

\* Keyboard.cpp, PrintPrompt and the console's cursor (kernel.cpp:1529-1697): every
\* variable stays in its range, the cursor in the screen's columns among them, until
\* something is followed that is no character.
THEOREM TypeCorrect ==
    Spec => []TypeOK
<1>1. IInv => TypeOK
  BY DEF IInv
<1>. QED
  BY <1>1, Invariance, PTL

\* Keyboard.cpp:225-235 and kernel.cpp:1550-1567: what stands behind the prompt is what
\* Enter runs, though buffer and row are shortened on different conditions, as long as
\* nothing but keys with a character writes on the row.
THEOREM ShownIsRunHolds ==
    Spec => []ShownIsRun
<1>1. IInv => ShownIsRun
  <2>1. SUFFICES ASSUME IInv, mode = "shell", odd = {}, promptEnd >= SPIndex
        PROVE  /\ key_buffer_index = Len(line)
               /\ x - Len(line) \in SPIndex .. promptEnd
               /\ \A i \in 1 .. Len(line) :
                    line[i] = key_buffer[i - 1] /\ line[i] = row[x - Len(line) + i - 1]
    BY DEF ShownIsRun
  <2>. QED
    BY <2>1 DEF IInv, BufferIsLine, RowIsLine
<1>. QED
  BY <1>1, Invariance, PTL

\* Keyboard.cpp:325-651: the shell goes astray only for the causes listed.
THEOREM LostHasACauseHolds ==
    Spec => []LostHasACause
<1>1. IInv => LostHasACause
  BY DEF IInv
<1>. QED
  BY <1>1, Invariance, PTL

\* Keyboard.cpp:371-386: an option that a command takes is the line's own, or, for the
\* name alone, one that was typed there and rubbed out.
THEOREM OptionIsTheLinesHolds ==
    Spec => OptionIsTheLines
<1>1. ASSUME IInv, "stray" \notin odd, RunSd
      PROVE  IF Len(line) >= OptionAt
             THEN Cells[OptionAt] = Append(line, "enter")[OptionAt + 1]
             ELSE Cells[OptionAt] \in rubbed \cup {"nul"}
  <2>1. AtEnter /\ Command = "sd" /\ mode = "shell" /\ "stray" \notin odd
    BY <1>1 DEF RunSd, AtEnter
  <2>2. /\ line \in Seq(Chars) /\ Len(line) \in 0 .. BufferSize - 1
        /\ Cells[Len(line)] = "enter" /\ key_buffer_index = Len(line)
        /\ \A i \in 0 .. Len(line) - 1 : Cells[i] = line[i + 1]
    BY <1>1, <2>1, CellsAreLine
  <2>3. CASE Len(line) >= OptionAt
    <3>1. PICK a : a = Append(line, "enter")
      OBVIOUS
    <3>2. line \in Seq(Chars \cup {"enter"})
      BY <2>2
    <3>3. /\ a[Len(line) + 1] = "enter"
          /\ \A i \in 1 .. Len(line) : a[i] = line[i]
      BY <3>1, <3>2, AppendProperties
    <3>4. CASE Len(line) = OptionAt
      BY <2>2, <2>3, <3>1, <3>3, <3>4
    <3>5. CASE Len(line) # OptionAt
      <4>1. OptionAt \in 0 .. Len(line) - 1 /\ OptionAt + 1 \in 1 .. Len(line)
        BY <2>2, <2>3, <3>5 DEF OptionAt
      <4>. QED
        BY <2>2, <2>3, <3>1, <3>3, <4>1
    <3>. QED
      BY <3>4, <3>5
  <2>4. CASE ~(Len(line) >= OptionAt)
    <3>1. OptionAt # Len(line) /\ OptionAt \in 0 .. BufferSize - 1 /\ Len(line) <= OptionAt
      BY <2>2, <2>4, Sizes DEF OptionAt
    <3>2. Cells[OptionAt] = key_buffer[OptionAt]
      BY <1>1, <2>1, <2>2, <3>1, CellsAre DEF IInv
    <3>3. key_buffer[OptionAt] \in rubbed \cup {"nul"}
      BY <1>1, <2>1, <3>1 DEF IInv, BufferIsLine
    <3>. QED
      BY <2>4, <3>2, <3>3
  <2>. QED
    BY <2>3, <2>4
<1>2. IInv => ["stray" \notin odd /\ RunSd =>
         IF Len(line) >= OptionAt
         THEN Cells[OptionAt] = Append(line, "enter")[OptionAt + 1]
         ELSE Cells[OptionAt] \in rubbed \cup {"nul"}]_vars
  BY <1>1
<1>. QED
  BY <1>2, Invariance, PTL DEF OptionIsTheLines
=============================================================================
