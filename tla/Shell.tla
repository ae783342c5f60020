------------------------------- MODULE Shell --------------------------------
(***************************************************************************)
(* Drivers/Keyboard.cpp with KeycodeToASCII of Include/Public_VAR.h, and   *)
(* the console of kernel/kernel.cpp that it echoes to: what is on the      *)
(* screen, what is in the key buffer, and what a command makes of both.    *)
(*                                                                         *)
(* A key is handled in one interrupt, so it is one action.  The name of a  *)
(* command stands for its letters: one cell of the buffer, one column.     *)
(* Only the row of the cursor is kept; a row that is come to is blank.  In *)
(* text mode keys are shown and not stored; what they show is left out.    *)
(***************************************************************************)
EXTENDS Integers, Sequences, FiniteSets, SequencesExt

CONSTANTS Words,      \* names of commands, and "set" for "set SP="
          Letters,    \* other keys with a character, "%" and "h" among them
          Leftovers,  \* what KeycodeToASCII returns for a key it has no case for
          BufferSize, \* entries of key_buffer: 256
          SPSize,     \* entries of SP: 30
          NameWidth,  \* columns of the name that %h shows
          Width,      \* columns of the screen: 80
          OutputEnds  \* BOUND on the columns where a program's output ends

ASSUME ShellAssumption ==
    /\ {"%", "h"} \subseteq Letters /\ "set" \in Words
    /\ Words \cap Letters = {} /\ {"nul", "enter"} \cap (Words \cup Letters) = {}
    /\ {BufferSize, SPSize, NameWidth, Width} \subseteq Nat
    /\ BufferSize > SPSize + 1 /\ SPSize >= 2
    /\ Width > SPSize /\ Width > NameWidth
    /\ OutputEnds \subseteq 0 .. Width - 1

VARIABLES
    key_buffer, key_buffer_index,
    SP, SPIndex,  \* the prompt's cells, and how many of them there are
    skip,         \* PrintPrompt's index, which outlives the call, is above 0
    row, x,       \* the row of the cursor, and its column
    mode,         \* "shell", "text" (isTxtMode), "halted" or "lost"
    promptEnd,    \* ghost: the column behind the last prompt
    line,         \* ghost: the keys since the prompt that were not rubbed out
    rubbed,       \* ghost: those that were rubbed out where an option stands
    odd           \* ghost: what spoils the row, see Oddities

keys   == <<key_buffer, key_buffer_index>>
prompt == <<SP, SPIndex, skip, promptEnd>>
screen == <<row, x>>
ghosts == <<line, rubbed, odd>>
vars   == <<keys, prompt, screen, mode, ghosts>>

Columns == 0 .. Width - 1
Chars   == Words \cup Letters
Cell    == Chars \cup Leftovers \cup {"nul", "enter"}
Glyph   == Chars \cup {" ", "E", "prompt", "output"}

\* A key without a character was pressed, or one that changes the buffer and not
\* the row or the row and not the buffer; the line went on in the next row; something
\* that is not stored was printed on the row since the prompt, or before it.
Oddities == {"stray", "wrapped", "printed"}

TypeOK ==
    /\ key_buffer \in [0 .. BufferSize - 1 -> Cell]
    /\ key_buffer_index \in 0 .. BufferSize + 1
    /\ SP \in [0 .. SPSize - 1 -> Cell]
    /\ SPIndex \in 0 .. SPSize /\ skip \in BOOLEAN
    /\ row \in [Columns -> Glyph] /\ x \in Columns /\ promptEnd \in Columns
    /\ mode \in {"shell", "text", "halted", "lost"}
    /\ line \in Seq(Chars) /\ rubbed \subseteq Chars /\ odd \subseteq Oddities
-----------------------------------------------------------------------------
(* The console.  A row and a column are passed as one record.              *)

Blank == [row |-> [c \in Columns |-> " "], x |-> 0]
Here  == [row |-> row, x |-> x]

\* printf of one character (kernel.cpp:1600-1609): a full row ends.
Put(s, g) ==
    IF s.x = Width - 1 THEN Blank
    ELSE [row |-> [s.row EXCEPT ![s.x] = g], x |-> s.x + 1]

\* As many of them: what does not fit into the row is in the last one come to.
PutAll(s, text) ==
    LET end == s.x + Len(text)
        over == end % Width
    IN  [row |-> [c \in Columns |->
                    CASE end < Width /\ c \in s.x .. end - 1 -> text[c - s.x + 1]
                      [] end < Width /\ c \notin s.x .. end - 1 -> s.row[c]
                      [] end >= Width /\ c < over -> text[Len(text) - over + c + 1]
                      [] end >= Width /\ c >= over -> " "],
         x |-> over]

\* A row that something else has printed on, up to a column.
Output(c) == [row |-> [d \in Columns |-> IF d < c THEN "output" ELSE " "], x |-> c]

\* "\4": x is a byte, so that left of column 0 is the next row.
StepLeft(s) == IF s.x = 0 THEN Blank ELSE [s EXCEPT !.x = @ - 1]

\* "\6".
StepRight(s) == IF s.x = Width - 1 THEN Blank ELSE [s EXCEPT !.x = @ + 1]

\* Whatever the column.
RubOutAnywhere(s) ==
    IF s.x = 0 THEN Blank
    ELSE [row |-> [s.row EXCEPT ![s.x - 1] = " "], x |-> s.x - 1]

\* "\3": not to the left of column SPIndex, if the cursor comes by there.
RubOut(s) ==
    IF s.x = SPIndex THEN [s EXCEPT !.row[s.x] = " "]
    ELSE IF s.x = 0 THEN Blank
    ELSE [row |-> [s.row EXCEPT ![s.x - 1] = " "], x |-> s.x - 1]

\* PrintPrompt: "%h" (and so "%u" and "%d") is a name, the cell behind is
\* skipped; "%" before any other letter is nothing.  SP[SPSize] is read if the
\* last cell is "%": no letter is there.
PromptText(sp, n) ==
    LET isName(i) == sp[i] = "%" /\ i + 1 < SPSize /\ sp[i + 1] = "h"
        skipped(i) == IF i = 0 THEN skip ELSE isName(i - 1)
        names == {i \in 0 .. n - 1 : isName(i)}
        letters == {i \in 0 .. n - 1 : sp[i] \notin {"%", "nul"} /\ ~skipped(i)}
    IN  [skip |-> skipped(n),
         text |-> [c \in 1 .. NameWidth * Cardinality(names) + Cardinality(letters) |->
                     "prompt"]]
-----------------------------------------------------------------------------
(* The key buffer.                                                         *)

Zeros == [i \in 0 .. BufferSize - 1 |-> "nul"]

\* Up to the index only.
ClearedToIndex == [i \in 0 .. BufferSize - 1 |->
                     IF i <= key_buffer_index THEN "nul" ELSE key_buffer[i]]

\* What clear_key_buffer leaves.
Cleared == Zeros

\* The place of an option: behind the name and a blank.
OptionAt == 2

HasRoom == key_buffer_index < BufferSize

Stored(c) == [key_buffer EXCEPT ![key_buffer_index] = c]

\* The constructor, and kernelMain from line 2321 on: SPIndex is set to 30, one
\* less than the prompt is wide.  Interrupts are on since line 2285: either the prompt
\* is printed before any key comes, or kernelMain prints between the keys.
Init ==
    /\ key_buffer = Zeros /\ key_buffer_index = 0
    /\ SP = [i \in 0 .. SPSize - 1 |->
               CASE i = 0 -> "%" [] i = 1 -> "h" [] OTHER -> "nul"]
    /\ SPIndex = SPSize /\ skip = FALSE
    /\ mode = "shell" /\ line = << >> /\ rubbed = {}
    /\ \/ /\ row = [c \in Columns |-> IF c < NameWidth THEN "prompt" ELSE " "]
          /\ x = NameWidth /\ promptEnd = NameWidth /\ odd = {}
       \/ /\ row = Blank.row /\ x = 0 /\ promptEnd = 0 /\ odd = {"printed"}

\* A key with a character is stored and shown.  BOUND: a command's name is only
\* typed first.
Press(k) ==
    /\ mode = "shell" /\ HasRoom
    /\ k \in Words => key_buffer_index = 0
    /\ key_buffer' = Stored(k) /\ key_buffer_index' = key_buffer_index + 1
    /\ row' = Put(Here, k).row /\ x' = Put(Here, k).x
    /\ line' = Append(line, k)
    /\ odd' = odd \cup (IF x = Width - 1 THEN {"wrapped"} ELSE {})
    /\ UNCHANGED <<prompt, mode, rubbed>>

\* Without asking whether the buffer is empty.
ShorterAlways == key_buffer_index - 1

Shorter == IF key_buffer_index = 0 THEN 0 ELSE key_buffer_index - 1

\* Keyboard.cpp:225-232.  The cell keeps what it holds.
Backspace ==
    /\ mode = "shell"
    /\ key_buffer_index' = Shorter
    /\ row' = RubOut(Here).row /\ x' = RubOut(Here).x
    /\ line' = IF line = << >> THEN line ELSE Front(line)
    /\ rubbed' = IF Len(line) = OptionAt + 1 THEN rubbed \cup {Last(line)} ELSE rubbed
    /\ odd' = odd \cup (IF x = 0 /\ SPIndex # 0 THEN {"wrapped"} ELSE {})
    /\ UNCHANGED <<key_buffer, prompt, mode>>

\* A key below 0x80 that KeycodeToASCII has no case for: its result is stored
\* uninitialised.  BOUND: one such key in a line.
Stray(c, by, s) ==
    /\ mode = "shell" /\ HasRoom /\ "stray" \notin odd
    /\ key_buffer' = Stored(c) /\ key_buffer_index' = key_buffer_index + by
    /\ row' = s.row /\ x' = s.x /\ odd' = odd \cup {"stray"}
    /\ UNCHANGED <<prompt, line, rubbed>>

\* Up and down show nothing here; the apostrophe shows an E; others their code.
Unmapped(c) ==
    /\ \E shown \in {<< >>, <<"E">>, <<"output", "output">>} :
         Stray(c, 1, PutAll(Here, shown))
    /\ UNCHANGED mode

\* Left and right: the key itself has moved the index before.
ArrowLeft(c)  == Stray(c, 0, StepLeft(Here)) /\ UNCHANGED mode
ArrowRight(c) == Stray(c, 2, StepRight(Here)) /\ UNCHANGED mode

\* F4 shows the buffer up to its own uninitialised cell.
Recall(c) ==
    LET shown == [i \in 1 .. key_buffer_index |->
                    IF key_buffer[i - 1] \in Chars THEN key_buffer[i - 1] ELSE "output"]
    IN  /\ Stray(c, 1, PutAll(Here, shown))
        /\ mode' \in IF c \in Chars THEN {"shell"} ELSE {"shell", "lost"}

\* NumLock clears the buffer and not the screen.
NumLock ==
    /\ mode = "shell" /\ HasRoom /\ "stray" \notin odd
    /\ key_buffer' = Cleared /\ key_buffer_index' = 0
    /\ line' = << >> /\ rubbed' = {} /\ odd' = odd \cup {"stray"}
    /\ UNCHANGED <<prompt, screen, mode>>

\* Something that is not stored is printed.
Printed(s) ==
    /\ mode = "shell"
    /\ row' = s.row /\ x' = s.x /\ odd' = odd \cup {"printed"}
    /\ UNCHANGED <<keys, prompt, mode, line, rubbed>>

\* Alt is shown as its code (lines 273-278), and line 114 keeps it from the buffer.
Alt == Printed(PutAll(Here, <<"output", "output">>))

\* Between two keys the card's handler prints "RECV: ", "SEND: " and bytes on a row of
\* their own and " SENT" where the cursor is (AM79C973.cpp:127-138, 162-167, 178-196),
\* ICMP a row (ICMP.cpp:24-34), and an interrupt without a handler a message
\* (Interrupts.cpp:166-170).  kernelMain prints up to its prompt.
OthersPrint ==
    \/ \E c \in OutputEnds : Printed(Output(c))
    \/ Printed(PutAll(Here, <<"output">>))

\* The entry behind the buffer is key_buffer_index itself (Keyboard.h:47-48).
Overrun ==
    /\ mode = "shell" /\ ~HasRoom
    /\ mode' = "lost"
    /\ UNCHANGED <<keys, prompt, screen, ghosts>>
-----------------------------------------------------------------------------
(* Commands.  Enter is stored like any key, then the cells are compared.   *)

AtEnter == mode = "shell" /\ HasRoom
Cells   == Stored("enter")
Command == Cells[0]

\* The first cell is not looked at.
EndsBehind(from) == {i \in from + 1 .. BufferSize - 1 : Cells[i] = "enter"}

\* The cells from a place to the next end of a line.
Ends(from) == {i \in from .. BufferSize - 1 : Cells[i] = "enter"}
CellsFrom(from) ==
    LET end == CHOOSE i \in Ends(from) : \A j \in Ends(from) : i <= j
    IN  [i \in 1 .. end - from |-> Cells[from + i - 1]]

\* Where the command's loop over the cells starts, if it has one: "echo" and "spo"
\* behind the blank, "exec" behind the file's name (one cell, as a command's is) and
\* another blank, "set SP=" behind the sign, an unknown command at its first cell.
\* "echo" asks at the blank's place whether there is nothing; but Enter stands there.
LoopsFrom ==
    CASE Command = "echo" -> IF Cells[1] = "nul" THEN {} ELSE {2}
      [] Command = "spo"  -> {2}
      [] Command = "set"  -> {1}
      [] Command = "exec" -> {4}
      [] Command \in Words \ {"echo", "spo", "set", "exec"} -> {}
      [] OTHER -> {0}

\* The loop meets no end: it reads on behind the buffer.
RunsOff == \E f \in LoopsFrom : Ends(f) = {}

\* "set SP=" with more than SP holds, and "exec" with more than FEXT holds, write
\* over what stands behind these.
Overflows ==
    \/ Command = "set" /\ Len(CellsFrom(1)) > SPSize
    \/ Command = "exec" /\ ~RunsOff /\ Len(CellsFrom(4)) > 3

\* Cells that are followed as pointers: the loop's, and the prompt's.
Followed ==
    (UNION {Range(CellsFrom(f)) : f \in {g \in LoopsFrom : Ends(g) # {}}})
      \cup {SP[i] : i \in 0 .. SPIndex - 1}

\* Something that is no character was followed, or written over: anything may come.
Wander ==
    /\ AtEnter /\ (RunsOff \/ Overflows \/ Followed \cap (Leftovers \ Chars) # {})
    /\ mode' = "lost"
    /\ UNCHANGED <<keys, prompt, screen, ghosts>>

\* Lines 653-662: the prompt, at what the output has left, and a clear buffer.
Finish(s, sp, n) ==
    LET p == PromptText(sp, n)
        t == PutAll(s, p.text)
    IN  /\ mode' = "shell"
        /\ row' = t.row /\ x' = t.x
        /\ SP' = sp /\ SPIndex' = n /\ skip' = p.skip /\ promptEnd' = t.x
        /\ key_buffer' = Cleared /\ key_buffer_index' = 0
        /\ line' = << >> /\ rubbed' = {} /\ odd' = {}

\* A command whose output is followed by a new row, and "clear", whose header
\* fills one.
RunPlain ==
    /\ AtEnter /\ Command \notin {"set", "sd", "txt", "exec"}
    /\ Finish(Blank, SP, SPIndex)

\* Lines 576-605.
RunSet ==
    /\ AtEnter /\ Command = "set" /\ ~Overflows
    /\ LET cells == CellsFrom(1)
       IN  Finish(Blank, [i \in 0 .. SPSize - 1 |->
                            IF i < Len(cells) THEN cells[i + 1] ELSE SP[i]], Len(cells))

\* Lines 371-386, and 335-358, 387-430, 456-505, 526-575 likewise: an option is
\* looked for at a fixed place.  "sd h" halts the machine.
RunSd ==
    /\ AtEnter /\ Command = "sd"
    /\ IF Cells[OptionAt] = "h"
       THEN mode' = "halted" /\ UNCHANGED <<keys, prompt, screen, ghosts>>
       ELSE Finish(Blank, SP, SPIndex)

\* Lines 616-643: no new row before the prompt, wherever the program's output ends.
RunExec ==
    /\ AtEnter /\ Command = "exec" /\ ~Overflows
    /\ \E c \in OutputEnds : Finish(Output(c), SP, SPIndex)

\* Lines 431-444: no prompt.
RunTxt ==
    /\ AtEnter /\ Command = "txt"
    /\ mode' = "text"
    /\ key_buffer' = Cleared /\ key_buffer_index' = 0
    /\ line' = << >> /\ rubbed' = {}
    /\ UNCHANGED <<prompt, screen, odd>>

\* Control and C in text mode.
ReturnHScreen == mode = "text" /\ Finish(Blank, SP, SPIndex)
-----------------------------------------------------------------------------
Next ==
    \/ \E k \in Chars : Press(k)
    \/ \E c \in Leftovers : Unmapped(c) \/ ArrowLeft(c) \/ ArrowRight(c) \/ Recall(c)
    \/ Backspace \/ NumLock \/ Alt \/ OthersPrint \/ Overrun \/ Wander
    \/ RunPlain \/ RunSet \/ RunSd \/ RunExec \/ RunTxt \/ ReturnHScreen

Spec == Init /\ [][Next]_vars
-----------------------------------------------------------------------------
\* What stands on the screen behind the prompt is what Enter will run: the keys
\* since the prompt less those rubbed out, though the buffer is shortened when
\* its index is not 0 (Keyboard.cpp:230) and the row when its column is not
\* SPIndex (kernel.cpp:1554), neither asking the other.  For keys with a character, in
\* one row that nothing else prints on, neither Alt (Keyboard.cpp:114, 276) nor another
\* handler (AM79C973.cpp:138, 178), and a prompt at least as wide as it has cells.
ShownIsRun ==
    mode = "shell" /\ odd = {} /\ promptEnd >= SPIndex =>
      /\ key_buffer_index = Len(line)
      /\ x - Len(line) \in SPIndex .. promptEnd
      /\ \A i \in 1 .. Len(line) :
           line[i] = key_buffer[i - 1] /\ line[i] = row[x - Len(line) + i - 1]

\* What makes the shell go astray: a key without a character in the buffer or the
\* prompt, more keys than the buffer holds (Keyboard.h:47), "echo" or "spo"
\* alone (Keyboard.cpp:329, 447), "exec" without a name and a blank (636), more than
\* SP or FEXT hold (584, 638).  Nothing else does.
LostHasACause ==
    LET name == IF line = << >> THEN "nul" ELSE line[1]
    IN  mode = "lost" =>
          \/ "stray" \in odd \/ Range(SP) \cap (Leftovers \ Chars) # {}
          \/ Len(line) = BufferSize
          \/ line \in {<<"echo">>, <<"spo">>}
          \/ name = "exec" /\ Len(line) \notin 4 .. 4 + 3
          \/ name = "set" /\ Len(line) > 1 + SPSize

\* An option that a command takes is the line's own, but for one case: the line is
\* the name alone, and the option was typed and rubbed out (Keyboard.cpp:230-231
\* leave the cell, and 374-385 do not ask where the line ends).  Whatever is printed.
OptionIsTheLines ==
    []["stray" \notin odd /\ RunSd =>
         IF Len(line) >= OptionAt
         THEN Cells[OptionAt] = Append(line, "enter")[OptionAt + 1]
         ELSE Cells[OptionAt] \in rubbed \cup {"nul"}]_vars
=============================================================================
