------------------------------- MODULE Clock --------------------------------
(***************************************************************************)
(* Drivers/RTC.cpp, and its two readers in kernel.cpp that meet: PrintDate *)
(* in kernelMain, with interrupts on (2297), and printTime, which the      *)
(* timer's interrupt calls (Interrupts.cpp:172).  Each has an RTC object   *)
(* of its own, but there is one index port and one data port.  printTime   *)
(* runs to its end before kernelMain goes on; the clock itself waits for   *)
(* nobody.                                                                 *)
(*                                                                         *)
(* The clock (external: the emulated one that the Makefile starts) raises  *)
(* its update flag and then changes all registers at once.                 *)
(***************************************************************************)
EXTENDS Integers, Sequences

CONSTANTS Histories,     \* what the clock may show, second for second: see Reading
          Modes,         \* its modes, register 0x0B: 2 for 24 hours, 4 for binary
          Printed,       \* the bytes that printHex prints, half-written ones included
          MaxInterrupts  \* BOUND on the timer's interrupts

\* The registers read, in the order of lines 42-47, by their ports.
Fields == <<"second", "minute", "hour", "day", "month", "year">>
Ports == <<0, 2, 4, 7, 8, 9>>
UpdatePort == 10
ModePort == 11

Reading == [second : 0 .. 59, minute : 0 .. 59, hour : 0 .. 23, day : 1 .. 31,
            month : 1 .. 12, year : 2021 .. 2052]

ASSUME ClockAssumption ==
    /\ Histories \subseteq Seq(Reading) \ {<< >>}
    /\ Modes \subseteq {0, 2, 4, 6} /\ MaxInterrupts \in Nat
    /\ Printed \subseteq 0 .. 255

VARIABLES
    mode, shows, t, updating,   \* the clock: its mode, what it shows and when, its flag
    index,               \* the index port
    main, irq,           \* the two readers, see Reader
    date, time,          \* what PrintDate printed, what printTime put on the screen
    literal,             \* the byte whose digits the literal "00" holds
    interrupts,
    dateFrom, timeFrom,  \* ghosts: what the clock showed when the reader began
    zeroAs,              \* ghost: that byte when the time was put on the screen
    struck               \* ghost: interrupts between a Select and its Take

vars == <<mode, shows, t, updating, index, main, irq, date, time, literal, interrupts,
          dateFrom, timeFrom, zeroAs, struck>>
clock == <<mode, shows, t, updating>>

\* at: 0 polls the flag, 1 .. 6 read a register, 7 the mode; 8 is the end.
\* selected: its port has been written to the index.  got, last: this pass's
\* registers and the pass's before.
Reader == [at : 0 .. 8, selected : BOOLEAN, got : Seq(Nat), last : Seq(Nat)]
Begins == [at |-> 0, selected |-> FALSE, got |-> << >>, last |-> << >>]
Ended  == [Begins EXCEPT !.at = 8]
-----------------------------------------------------------------------------
(* The clock, external.                                                    *)

Binary == mode \in {4, 6}
Hours24 == mode \in {2, 6}

\* A value as its register holds it.
Digits(v) == IF Binary THEN v ELSE (v \div 10) * 16 + (v % 10)
Register(f) ==
    LET v == shows[t][f] IN
    CASE f = "year" -> Digits(v % 100)
      [] f = "hour" /\ ~Hours24 ->
           Digits(((v + 11) % 12) + 1) + (IF v >= 12 THEN 128 ELSE 0)
      [] OTHER -> Digits(v)

Data(port) ==
    CASE port = UpdatePort -> IF updating THEN 128 ELSE 0
      [] port = ModePort -> mode
      [] OTHER -> Register(Fields[CHOOSE k \in 1 .. 6 : Ports[k] = port])

RaiseFlag ==
    /\ ~updating /\ t < Len(shows)                                 \* BOUND
    /\ updating' = TRUE
    /\ UNCHANGED <<mode, shows, t, index, main, irq, date, time, literal, interrupts,
                   dateFrom, timeFrom, zeroAs, struck>>

Tick ==
    /\ updating /\ updating' = FALSE /\ t' = t + 1
    /\ UNCHANGED <<mode, shows, index, main, irq, date, time, literal, interrupts,
                   dateFrom, timeFrom, zeroAs, struck>>
-----------------------------------------------------------------------------
(* read_rtc.                                                               *)

PortOf(r) == CASE r.at = 0 -> UpdatePort [] r.at = 7 -> ModePort [] OTHER -> Ports[r.at]

\* The registers are read only once.
AgreesAlways(r, got) == TRUE

\* The loop's condition, lines 71-73.  The first pass has none before it.
Agrees(r, got) == got = r.last

\* Reader r has read v from the data port.
Taken(r, v) ==
    LET next == [r EXCEPT !.selected = FALSE]
        got == Append(r.got, v)
    IN  CASE r.at = 0 -> [next EXCEPT !.at = IF v >= 128 THEN 0 ELSE 1]
          [] r.at \in 1 .. 5 -> [next EXCEPT !.at = @ + 1, !.got = got]
          [] r.at = 6 -> IF Agrees(r, got) THEN [next EXCEPT !.at = 7, !.got = got, !.last = << >>]
                         ELSE [next EXCEPT !.at = 0, !.got = << >>, !.last = got]
          [] r.at = 7 -> [next EXCEPT !.at = 8]

\* Lines 77-91, for the mode m that was read.
Plain(v, m) == IF m \in {4, 6} THEN v ELSE (v % 16) + (v \div 16) * 10

\* The afternoon's bit is read as a digit.
PlainHourUnmasked(v, m) == Plain(v, m)

PlainHour(v, m) ==
    LET h == IF m \in {4, 6} THEN v ELSE Plain(v % 128, m) + 128 * (v \div 128) IN
    IF m \in {2, 6} \/ h < 128 THEN h ELSE (h - 128 + 12) % 24

\* There is no century register, and CURRENT_YEAR is 2021.
PlainYear(v, m) ==
    LET y == 2000 + Plain(v, m) IN IF y < 2021 THEN y + 100 ELSE y

\* Two hex digits as they read: a number when neither is a letter.
HexDigits(b) ==
    LET hi == b \div 16  lo == b % 16 IN
    IF hi < 10 /\ lo < 10 THEN hi * 10 + lo ELSE 1000 + b

\* INTTOCHARPOINT, for what it prints of such values.  Its literal "00" and printHex's
\* are one array, and printHex writes its digits into it.
Nan == -1
Shown(n) ==
    CASE n = 0 -> HexDigits(literal)
      [] n = 27 -> 26
      [] n \in (1 .. 400) \ ({27, 134} \cup 144 .. 149) -> n
      [] n \in 2021 .. 2052 -> n
      [] OTHER -> Nan
-----------------------------------------------------------------------------
(* kernelMain.                                                             *)

Init ==
    /\ mode \in Modes /\ shows \in Histories /\ t = 1 /\ updating = FALSE
    /\ index = ModePort /\ main = Begins /\ irq = Ended
    /\ date = << >> /\ time = << >> /\ literal \in Printed /\ interrupts = 0
    /\ dateFrom = 1 /\ timeFrom = 1 /\ zeroAs = literal /\ struck = 0

\* The clock may have gone on before PrintDate begins.
Select ==
    /\ irq.at = 8 /\ main.at < 8 /\ ~main.selected
    /\ index' = PortOf(main) /\ main' = [main EXCEPT !.selected = TRUE]
    /\ dateFrom' = IF main = Begins THEN t ELSE dateFrom
    /\ UNCHANGED <<clock, irq, date, time, literal, interrupts, timeFrom, zeroAs, struck>>

\* A date is printed when the mode has been read.
Take ==
    /\ irq.at = 8 /\ main.selected
    /\ main' = Taken(main, Data(index))
    /\ date' = IF main.at # 7 THEN date
               ELSE LET m == Data(index)  g == main.got IN
                    <<Shown(Plain(g[4], m)), Shown(Plain(g[5], m)),
                      Shown(PlainYear(g[6], m))>>
    /\ UNCHANGED <<clock, index, irq, time, literal, interrupts, dateFrom, timeFrom, zeroAs,
                   struck>>
\* Another handler prints bytes in hex: the keyboard's for a shell command or a key that
\* it has no name for, the card's for a frame.
PrintHex ==
    /\ irq.at = 8 /\ literal' \in Printed
    /\ UNCHANGED <<clock, index, main, irq, date, time, interrupts, dateFrom, timeFrom,
                   zeroAs, struck>>
-----------------------------------------------------------------------------
(* The timer's interrupt.                                                  *)

TimerInterrupts ==
    /\ irq.at = 8 /\ interrupts < MaxInterrupts                       \* BOUND
    /\ irq' = Begins /\ interrupts' = interrupts + 1 /\ timeFrom' = t
    /\ struck' = IF main.selected THEN struck + 1 ELSE struck
    /\ UNCHANGED <<clock, index, main, date, time, literal, dateFrom, zeroAs>>

\* Nothing comes between its Select and its Take that touches the ports.
TimerReads ==
    /\ irq.at < 8
    /\ index' = PortOf(irq)
    /\ irq' = LET r == Taken(irq, Data(index')) IN IF r.at = 8 THEN Ended ELSE r
    /\ time' = IF irq.at # 7 THEN time
               ELSE LET m == Data(index')  g == irq.got IN
                    <<Shown(PlainHour(g[3], m)), Shown(Plain(g[2], m)),
                      Shown(Plain(g[1], m))>>
    /\ zeroAs' = IF irq.at # 7 THEN zeroAs ELSE literal
    /\ UNCHANGED <<clock, main, date, literal, interrupts, dateFrom, timeFrom, struck>>

Next == RaiseFlag \/ Tick \/ Select \/ Take \/ PrintHex \/ TimerInterrupts \/ TimerReads

Spec == Init /\ [][Next]_vars
-----------------------------------------------------------------------------
\* What n looks like on the screen: 27 is shown as 26 (kernel.cpp:223), and 0 as the
\* byte that the literal "00" held then.
LooksLike(n, zero) ==
    CASE n = 0 -> HexDigits(zero) [] n = 27 -> 26 [] n \notin {0, 27} -> n

\* What the hours look like: with a clock in its 12-hour mode noon is shown as 0
\* and midnight as 12 (RTC.cpp:89-91).
HourLooksLike(h, zero) ==
    LooksLike(IF Hours24 \/ h % 12 # 0 THEN h ELSE 12 - h, zero)

\* The time on the screen is one that the clock showed while it was read, but that each
\* 0 in it stands as the byte that printHex printed last: ten o'clock is 10:56,56 when the
\* boot has printed a card's address that ends in 56 (kernel.cpp:142, 1779-1786).  The
\* clock was read twice alike (RTC.cpp:52-73), and nobody interrupts who reads it.
TimeWasShown ==
    irq.at = 8 /\ time # << >> =>
        \E k \in timeFrom .. t :
            time = <<HourLooksLike(shows[k].hour, zeroAs),
                     LooksLike(shows[k].minute, zeroAs), LooksLike(shows[k].second, zeroAs)>>

\* So is the date that kernelMain prints, in which nothing is 0, though the timer's interrupt leaves the
\* index port elsewhere when it comes between a Select and its Take.  It takes two
\* such interrupts to print another date, or one, with the clock going on as well.
DateWasShown ==
    date # << >> =>
        \/ \E k \in dateFrom .. t :
              date = <<LooksLike(shows[k].day, 0), LooksLike(shows[k].month, 0),
                       LooksLike(shows[k].year, 0)>>
        \/ struck >= 2
        \/ struck = 1 /\ t > dateFrom
=============================================================================
