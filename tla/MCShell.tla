------------------------------ MODULE MCShell -------------------------------
(***************************************************************************)
(* Commands of every kind, two letters, a buffer one cell longer than    *)
(* the longest prompt command, and a screen that a long line wraps.        *)
(***************************************************************************)
EXTENDS Shell

MCWords     == {"echo", "set", "sd", "txt", "exec"}
MCLetters   == {"h", "%"}
MCLeftovers == {"junk"}

\* No property asks for the row once it is spoiled or the shell has left it, nor
\* for the line after a stray key or outside the shell, and no step depends on either
\* but for what else spoils the row.  Of the options rubbed out the one whose cell is
\* left matters, as long as the line is too short for one.
MCView ==
    <<keys, SP, SPIndex, skip, mode, "stray" \in odd, odd = {},
      IF "stray" \in odd \/ mode \in {"text", "halted"} THEN << >>
      ELSE <<line, Len(line) <= OptionAt /\ key_buffer[OptionAt] \in rubbed>>,
      IF odd # {} \/ mode # "shell" THEN << >> ELSE <<screen, promptEnd>>>>

\* Writing a text at once is writing it character by character (kernel.cpp:1529-1543).
ASSUME PutAllPuts ==
    \A c \in Columns, text \in SeqOf({"E", "prompt"}, Width + 1) :
      LET s == [row |-> [d \in Columns |-> IF d < c THEN "output" ELSE " "], x |-> c]
      IN  PutAll(s, text) = FoldLeft(Put, s, text)
=============================================================================
