----------------------------- MODULE ClockProofs ------------------------------
(***************************************************************************)
(* Theorems about Clock: what the two readers print, for any history short *)
(* enough that no field comes back to what it was.                         *)
(***************************************************************************)
EXTENDS Clock, SequenceTheorems, TLAPS

\* Within a minute no field comes back to a value that it has left.  The hypothesis
\* of the theorems: both passes of a reader fall into such a stretch.
NeverReturns ==
    \A h \in Histories : \A f \in 1 .. 6 : \A a, b, c \in 1 .. Len(h) :
        a <= b /\ b <= c /\ h[a][Fields[f]] = h[c][Fields[f]]
            => h[b][Fields[f]] = h[a][Fields[f]]
-----------------------------------------------------------------------------
(* The inductive invariant.                                                *)

\* The register of the f-th field, when the clock shows its a-th reading.
RegisterAt(f, a) ==
    LET v == shows[a][Fields[f]] IN
    CASE f = 6 -> Digits(v % 100)
      [] f = 3 /\ ~Hours24 -> Digits(((v + 11) % 12) + 1) + (IF v >= 12 THEN 128 ELSE 0)
      [] ~(f = 6 \/ (f = 3 /\ ~Hours24)) -> Digits(v)

\* A pass brought each register as it was at some moment between two.
Right(pass, from, to) ==
    \A f \in 1 .. Len(pass) : \E a \in from .. to : pass[f] = RegisterAt(f, a)

\* How much a reader has of this pass and of the one before.
Shape(r) ==
    /\ r \in Reader /\ Len(r.got) \in 0 .. 6
    /\ r.at \in 1 .. 6 => Len(r.got) = r.at - 1
    /\ r.at = 0 => r.got = << >>
    /\ r.at = 7 => Len(r.got) = 6 /\ r.last = << >>
    /\ r.last = << >> \/ Len(r.last) = 6

\* Some moment lies between a reader's two passes; when they agreed, all of it was
\* shown at that moment.
ReadsRight(r, from) ==
    /\ r.at < 7 => \E m \in from .. t : Right(r.last, from, m) /\ Right(r.got, m, t)
    /\ r.at = 7 => \E m \in from .. t : \A f \in 1 .. 6 : r.got[f] = RegisterAt(f, m)

ClockTypes ==
    /\ mode \in Modes /\ shows \in Histories /\ t \in 1 .. Len(shows)
    /\ updating \in BOOLEAN /\ (updating => t < Len(shows))
    /\ dateFrom \in 1 .. t /\ timeFrom \in 1 .. t /\ struck \in Nat
    /\ index \in {UpdatePort, ModePort} \cup {Ports[f] : f \in 1 .. 6}

TimerInv ==
    /\ Shape(irq) /\ ~irq.selected
    /\ irq.at < 8 => ReadsRight(irq, timeFrom)
    /\ TimeWasShown

\* The read that main has selected finds the port that it selected.
Undisturbed == main.selected => irq.at = 8 /\ index = PortOf(main)

\* The timer has come in between; its last port is the mode's.
Disturbed == main.selected /\ (irq.at = 8 => index = ModePort)

\* With one read gone wrong, and the clock standing still, of each field one of the
\* two passes is right.
OneIsRight(r) ==
    /\ \A f \in 1 .. 6 : f <= Len(r.got) /\ f <= Len(r.last) =>
          r.got[f] = RegisterAt(f, t) \/ r.last[f] = RegisterAt(f, t)
    /\ r.at = 7 => Right(r.got, t, t)

MainInv ==
    /\ Shape(main)
    /\ main.selected => main.at < 8
    /\ main.at < 8 => date = << >>
    /\ struck = 0 /\ main.at < 8 => Undisturbed /\ ReadsRight(main, dateFrom)
    /\ struck = 1 /\ t = dateFrom /\ main.at < 8 =>
          \/ Disturbed /\ Right(main.last, t, t) /\ Right(main.got, t, t)
          \/ Undisturbed /\ OneIsRight(main)
    /\ DateWasShown

IInv == ClockTypes /\ TimerInv /\ MainInv
-----------------------------------------------------------------------------
(* Registers and what becomes of them.                                     *)

\* What a reading of a history is.
LEMMA ReadingFacts ==
    ASSUME shows \in Histories, NEW a \in 1 .. Len(shows)
    PROVE  /\ shows[a].second \in 0 .. 59 /\ shows[a].minute \in 0 .. 59
           /\ shows[a].hour \in 0 .. 23 /\ shows[a].day \in 1 .. 31
           /\ shows[a].month \in 1 .. 12 /\ shows[a].year \in 2021 .. 2052
<1>1. shows \in Seq(Reading)
  BY ClockAssumption
<1>2. shows[a] \in Reading
  BY <1>1, ElementOfSeq
<1>. QED
  BY <1>2 DEF Reading

\* The registers, field by field.
LEMMA RegistersAre ==
    ASSUME NEW a
    PROVE  /\ RegisterAt(1, a) = Digits(shows[a].second)
           /\ RegisterAt(2, a) = Digits(shows[a].minute)
           /\ RegisterAt(3, a) =
                IF Hours24 THEN Digits(shows[a].hour)
                ELSE Digits(((shows[a].hour + 11) % 12) + 1)
                       + (IF shows[a].hour >= 12 THEN 128 ELSE 0)
           /\ RegisterAt(4, a) = Digits(shows[a].day)
           /\ RegisterAt(5, a) = Digits(shows[a].month)
           /\ RegisterAt(6, a) = Digits(shows[a].year % 100)
<1>1. /\ Fields[1] = "second" /\ Fields[2] = "minute" /\ Fields[3] = "hour"
      /\ Fields[4] = "day" /\ Fields[5] = "month" /\ Fields[6] = "year"
  BY DEF Fields
<1>2. /\ RegisterAt(1, a) = Digits(shows[a].second)
      /\ RegisterAt(2, a) = Digits(shows[a].minute)
  BY <1>1 DEF RegisterAt
<1>3. RegisterAt(3, a) = IF Hours24 THEN Digits(shows[a].hour)
                         ELSE Digits(((shows[a].hour + 11) % 12) + 1)
                                + (IF shows[a].hour >= 12 THEN 128 ELSE 0)
  BY <1>1 DEF RegisterAt
<1>4. RegisterAt(4, a) = Digits(shows[a].day) /\ RegisterAt(5, a) = Digits(shows[a].month)
  BY <1>1 DEF RegisterAt
<1>5. RegisterAt(6, a) = Digits(shows[a].year % 100)
  BY <1>1 DEF RegisterAt
<1>. QED
  BY <1>2, <1>3, <1>4, <1>5

\* What the clock gives for a port.
LEMMA DataIs ==
    ASSUME mode \in Modes
    PROVE  /\ \A f \in 1 .. 6 : Data(Ports[f]) = RegisterAt(f, t)
           /\ Data(ModePort) = mode
           /\ Data(UpdatePort) = IF updating THEN 128 ELSE 0
<1>1. /\ Ports[1] = 0 /\ Ports[2] = 2 /\ Ports[3] = 4 /\ Ports[4] = 7 /\ Ports[5] = 8
      /\ Ports[6] = 9
  BY DEF Ports
<1>2. \A f \in 1 .. 6 : Data(Ports[f]) = Register(Fields[f])
  <2>. TAKE f \in 1 .. 6
  <2>1. f = (CHOOSE k \in 1 .. 6 : Ports[k] = Ports[f])
    BY <1>1
  <2>2. Ports[f] # UpdatePort /\ Ports[f] # ModePort
    BY <1>1 DEF UpdatePort, ModePort
  <2>. QED
    BY <2>1, <2>2 DEF Data
<1>3. \A f \in 1 .. 6 : Register(Fields[f]) = RegisterAt(f, t)
  <2>. TAKE f \in 1 .. 6
  <2>1. (Fields[f] = "year") = (f = 6) /\ (Fields[f] = "hour") = (f = 3)
    BY DEF Fields
  <2>. QED
    BY <2>1 DEF Register, RegisterAt
<1>4. Data(ModePort) = mode /\ Data(UpdatePort) = IF updating THEN 128 ELSE 0
  BY DEF Data, ModePort, UpdatePort
<1>. QED
  BY <1>2, <1>3, <1>4

\* The mode's bits.
LEMMA ModeBits ==
    ASSUME mode \in Modes
    PROVE  /\ mode \in {0, 2, 4, 6}
           /\ Binary = (mode \in {4, 6}) /\ Hours24 = (mode \in {2, 6})
BY ClockAssumption DEF Binary, Hours24

\* Two digits and back (RTC.cpp:79-84).
LEMMA DigitsAndBack ==
    ASSUME mode \in Modes, NEW v \in 0 .. 99
    PROVE  /\ Digits(v) \in 0 .. 153 /\ (v < 24 => Digits(v) < 128)
           /\ Plain(Digits(v), mode) = v
<1>1. CASE Binary
  <2>1. Digits(v) = v /\ mode \in {4, 6}
    BY <1>1, ModeBits DEF Digits
  <2>2. Plain(v, mode) = v
    BY <2>1 DEF Plain
  <2>. QED
    BY <2>1, <2>2
<1>2. CASE ~Binary
  <2>. DEFINE q == v \div 10
              r == v % 10
  <2>1. q \in 0 .. 9 /\ r \in 0 .. 9 /\ v = 10 * q + r
    OBVIOUS
  <2>2. Digits(v) = q * 16 + r
    BY <1>2 DEF Digits
  <2>3. \A w : Plain(w, mode) = (w % 16) + (w \div 16) * 10
    BY <1>2, ModeBits DEF Plain
  <2>. HIDE DEF q, r
  <2>4. (q * 16 + r) % 16 = r /\ (q * 16 + r) \div 16 = q
    BY <2>1
  <2>5. q * 16 + r \in 0 .. 153 /\ (v < 24 => q * 16 + r < 128)
    BY <2>1
  <2>6. Plain(q * 16 + r, mode) = v
    <3>1. Plain(q * 16 + r, mode) = r + q * 10
      BY <2>3, <2>4
    <3>. QED
      BY <2>1, <3>1
  <2>. QED
    BY <2>2, <2>5, <2>6
<1>. QED
  BY <1>1, <1>2

\* The twelve hours and the bit for the afternoon.
LEMMA TwelveHours ==
    ASSUME NEW h \in 0 .. 23
    PROVE  LET n == ((h + 11) % 12) + 1 IN
           /\ n \in 1 .. 12
           /\ h < 12 => n = IF h % 12 # 0 THEN h ELSE 12 - h
           /\ h >= 12 => (n + 12) % 24 = IF h % 12 # 0 THEN h ELSE 12 - h
OBVIOUS

\* What PlainHour makes of a register, without and with that bit (RTC.cpp:82-91).
LEMMA HourBits ==
    ASSUME mode \in Modes, NEW n \in 0 .. 23
    PROVE  /\ PlainHour(Digits(n), mode) = n
           /\ mode \notin {2, 6} => PlainHour(Digits(n) + 128, mode) = (n + 12) % 24
<1>. DEFINE d == Digits(n)
<1>1. d \in 0 .. 153 /\ d < 128 /\ Plain(d, mode) = n
  <2>1. n \in 0 .. 99 /\ n < 24
    OBVIOUS
  <2>. HIDE DEF d
  <2>2. d \in 0 .. 153 /\ (n < 24 => d < 128) /\ Plain(d, mode) = n
    BY <2>1, DigitsAndBack DEF d
  <2>. QED
    BY <2>1, <2>2
<1>2. mode \in {4, 6} => d = n
  BY <1>1 DEF Plain
<1>. HIDE DEF d
<1>3. /\ d % 128 = d /\ d \div 128 = 0
      /\ (d + 128) % 128 = d /\ (d + 128) \div 128 = 1
  BY <1>1
<1>4. CASE mode \in {4, 6}
  <2>1. \A w : PlainHour(w, mode) = IF mode \in {2, 6} \/ w < 128 THEN w ELSE (w - 128 + 12) % 24
    BY <1>4 DEF PlainHour
  <2>2. PlainHour(d, mode) = n
    BY <1>1, <1>2, <1>4, <2>1
  <2>3. mode \notin {2, 6} => PlainHour(d + 128, mode) = (n + 12) % 24
    <3>1. d + 128 = n + 128 /\ ~(n + 128 < 128) /\ n + 128 - 128 + 12 = n + 12
      BY <1>2, <1>4
    <3>. QED
      BY <2>1, <3>1
  <2>. QED
    BY <2>2, <2>3 DEF d
<1>5. CASE mode \notin {4, 6}
  <2>1. Plain(d % 128, mode) + 128 * (d \div 128) = n
    BY <1>1, <1>3
  <2>2. Plain((d + 128) % 128, mode) + 128 * ((d + 128) \div 128) = n + 128
    BY <1>1, <1>3
  <2>3. PlainHour(d, mode) = n
    <3>. DEFINE h == Plain(d % 128, mode) + 128 * (d \div 128)
    <3>1. PlainHour(d, mode) = IF mode \in {2, 6} \/ h < 128 THEN h ELSE (h - 128 + 12) % 24
      BY <1>5 DEF PlainHour
    <3>. HIDE DEF h
    <3>2. h = n
      BY <2>1 DEF h
    <3>. QED
      BY <3>1, <3>2
  <2>4. mode \notin {2, 6} => PlainHour(d + 128, mode) = (n + 12) % 24
    <3>. DEFINE h == Plain((d + 128) % 128, mode) + 128 * ((d + 128) \div 128)
    <3>1. PlainHour(d + 128, mode) =
            IF mode \in {2, 6} \/ h < 128 THEN h ELSE (h - 128 + 12) % 24
      BY <1>5 DEF PlainHour
    <3>. HIDE DEF h
    <3>2. h = n + 128
      BY <2>2 DEF h
    <3>3. ~(h < 128) /\ h - 128 + 12 = n + 12
      BY <3>2
    <3>. QED
      BY <3>1, <3>3
  <2>. QED
    BY <2>3, <2>4 DEF d
<1>. QED
  BY <1>4, <1>5 DEF d

\* The hour and back, but for noon and midnight.
LEMMA HourAndBack ==
    ASSUME mode \in Modes, shows \in Histories, NEW a \in 1 .. Len(shows)
    PROVE  PlainHour(RegisterAt(3, a), mode) =
             IF Hours24 \/ shows[a].hour % 12 # 0 THEN shows[a].hour ELSE 12 - shows[a].hour
<1>0. shows[a].hour \in 0 .. 23
  BY ReadingFacts
<1>1. PICK h \in 0 .. 23 : h = shows[a].hour
  BY <1>0
<1>2. CASE Hours24
  <2>1. RegisterAt(3, a) = Digits(h)
    BY <1>1, <1>2, RegistersAre
  <2>. QED
    BY <1>1, <1>2, <2>1, HourBits
<1>3. CASE ~Hours24
  <2>1. PICK n : n = ((h + 11) % 12) + 1
    OBVIOUS
  <2>2. /\ n \in 1 .. 12
        /\ h < 12 => n = IF h % 12 # 0 THEN h ELSE 12 - h
        /\ h >= 12 => (n + 12) % 24 = IF h % 12 # 0 THEN h ELSE 12 - h
    BY <2>1, TwelveHours
  <2>3. RegisterAt(3, a) = Digits(n) + (IF h >= 12 THEN 128 ELSE 0)
    BY <1>1, <1>3, <2>1, RegistersAre
  <2>4. n \in 0 .. 23 /\ n \in 0 .. 99
    BY <2>2
  <2>5. PICK d \in 0 .. 153 : d = Digits(n)
    <3>1. Digits(n) \in 0 .. 153
      BY <2>4, DigitsAndBack
    <3>. QED
      BY <3>1
  <2>6. RegisterAt(3, a) = IF h >= 12 THEN d + 128 ELSE d
    <3>1. d + 0 = d
      OBVIOUS
    <3>. QED
      BY <2>3, <2>5, <3>1
  <2>7. mode \notin {2, 6}
    BY <1>3, ModeBits
  <2>8. PlainHour(d, mode) = n /\ PlainHour(d + 128, mode) = (n + 12) % 24
    BY <2>4, <2>5, <2>7, HourBits
  <2>9. h < 12 \/ h >= 12
    BY <1>1
  <2>. QED
    BY <1>1, <1>3, <2>2, <2>6, <2>8, <2>9
<1>. QED
  BY <1>2, <1>3
-----------------------------------------------------------------------------
(* What is printed of a register.                                          *)

Printable == (0 .. 99) \cup (2021 .. 2052)

\* Numbers of two digits are shown as they look.
LEMMA TwoDigitsShown ==
    ASSUME NEW n \in Printable
    PROVE  /\ Shown(n) = LooksLike(n, literal)
           /\ n # 0 => Shown(n) = LooksLike(n, 0)
BY DEF Printable, Shown, LooksLike

\* What each register tells.
LEMMA RegisterTells ==
    ASSUME mode \in Modes, shows \in Histories, NEW a \in 1 .. Len(shows)
    PROVE  /\ Plain(RegisterAt(1, a), mode) = shows[a].second
           /\ Plain(RegisterAt(2, a), mode) = shows[a].minute
           /\ Plain(RegisterAt(4, a), mode) = shows[a].day
           /\ Plain(RegisterAt(5, a), mode) = shows[a].month
           /\ PlainYear(RegisterAt(6, a), mode) = shows[a].year
<1>. DEFINE S == 0 .. 99
<1>1. \A w \in S : Plain(Digits(w), mode) = w
  BY DigitsAndBack
<1>0. /\ shows[a].second \in 0 .. 59 /\ shows[a].minute \in 0 .. 59
      /\ shows[a].day \in 1 .. 31 /\ shows[a].month \in 1 .. 12
      /\ shows[a].year \in 2021 .. 2052
  BY ReadingFacts
<1>2. PICK y \in 2021 .. 2052 : y = shows[a].year
  BY <1>0
<1>3. PICK v \in 21 .. 52 : y % 100 = v /\ 2000 + v = y
  <2>1. y - 2000 \in 21 .. 52 /\ y % 100 = y - 2000 /\ 2000 + (y - 2000) = y
    OBVIOUS
  <2>. QED
    BY <2>1
<1>4. PlainYear(Digits(v), mode) = y
  <2>0. v \in S
    OBVIOUS
  <2>1. Plain(Digits(v), mode) = v
    <3>. HIDE DEF S
    <3>. QED
      BY <1>1, <2>0
  <2>2. PlainYear(Digits(v), mode) = IF 2000 + v < 2021 THEN 2000 + v + 100 ELSE 2000 + v
    BY <2>1 DEF PlainYear
  <2>. QED
    BY <1>2, <1>3, <2>2
<1>5. RegisterAt(6, a) = Digits(v)
  BY <1>2, <1>3, RegistersAre
<1>6. \A w \in (0 .. 59) \cup (1 .. 31) \cup (1 .. 12) : w \in 0 .. 99
  OBVIOUS
<1>7. /\ shows[a].second \in S /\ shows[a].minute \in S
      /\ shows[a].day \in S /\ shows[a].month \in S
  BY <1>0, <1>6
<1>. HIDE DEF S
<1>8. /\ Plain(RegisterAt(1, a), mode) = shows[a].second
      /\ Plain(RegisterAt(2, a), mode) = shows[a].minute
  BY <1>1, <1>7, RegistersAre
<1>9. /\ Plain(RegisterAt(4, a), mode) = shows[a].day
      /\ Plain(RegisterAt(5, a), mode) = shows[a].month
  BY <1>1, <1>7, RegistersAre
<1>. QED
  BY <1>2, <1>4, <1>5, <1>8, <1>9

\* So what is printed is what was shown.
LEMMA RegisterShown ==
    ASSUME mode \in Modes, shows \in Histories, NEW a \in 1 .. Len(shows)
    PROVE  /\ Shown(Plain(RegisterAt(1, a), mode)) = LooksLike(shows[a].second, literal)
           /\ Shown(Plain(RegisterAt(2, a), mode)) = LooksLike(shows[a].minute, literal)
           /\ Shown(PlainHour(RegisterAt(3, a), mode)) = HourLooksLike(shows[a].hour, literal)
           /\ Shown(Plain(RegisterAt(4, a), mode)) = LooksLike(shows[a].day, 0)
           /\ Shown(Plain(RegisterAt(5, a), mode)) = LooksLike(shows[a].month, 0)
           /\ Shown(PlainYear(RegisterAt(6, a), mode)) = LooksLike(shows[a].year, 0)
<1>1. \A n \in Printable : /\ Shown(n) = LooksLike(n, literal)
                           /\ n # 0 => Shown(n) = LooksLike(n, 0)
  BY TwoDigitsShown
<1>2. /\ shows[a].second \in Printable /\ shows[a].minute \in Printable
      /\ shows[a].day \in Printable /\ shows[a].month \in Printable
      /\ shows[a].year \in Printable
  BY ReadingFacts DEF Printable
<1>7. shows[a].day # 0 /\ shows[a].month # 0 /\ shows[a].year # 0
  <2>1. /\ shows[a].day \in 1 .. 31 /\ shows[a].month \in 1 .. 12
        /\ shows[a].year \in 2021 .. 2052
    BY ReadingFacts
  <2>2. PICK d \in 1 .. 31 : d = shows[a].day
    BY <2>1
  <2>3. PICK m \in 1 .. 12 : m = shows[a].month
    BY <2>1
  <2>4. PICK y \in 2021 .. 2052 : y = shows[a].year
    BY <2>1
  <2>5. d # 0 /\ m # 0 /\ y # 0
    OBVIOUS
  <2>. QED
    BY <2>2, <2>3, <2>4, <2>5
<1>0. shows[a].hour \in 0 .. 23
  BY ReadingFacts
<1>3. PICK h \in 0 .. 23 : h = shows[a].hour
  BY <1>0
<1>4. Shown(PlainHour(RegisterAt(3, a), mode)) = HourLooksLike(shows[a].hour, literal)
  <2>1. h \in Printable /\ (h % 12 = 0 => 12 - h \in Printable)
    BY DEF Printable
  <2>2. PlainHour(RegisterAt(3, a), mode) = IF Hours24 \/ h % 12 # 0 THEN h ELSE 12 - h
    BY <1>3, HourAndBack
  <2>3. HourLooksLike(h, literal)
          = LooksLike(IF Hours24 \/ h % 12 # 0 THEN h ELSE 12 - h, literal)
    BY DEF HourLooksLike
  <2>4. (IF Hours24 \/ h % 12 # 0 THEN h ELSE 12 - h) \in Printable
    BY <2>1
  <2>. QED
    BY <1>1, <1>3, <2>2, <2>3, <2>4
<1>5. /\ Shown(Plain(RegisterAt(1, a), mode)) = LooksLike(shows[a].second, literal)
      /\ Shown(Plain(RegisterAt(2, a), mode)) = LooksLike(shows[a].minute, literal)
      /\ Shown(Plain(RegisterAt(4, a), mode)) = LooksLike(shows[a].day, 0)
  BY <1>1, <1>2, <1>7, RegisterTells
<1>6. /\ Shown(Plain(RegisterAt(5, a), mode)) = LooksLike(shows[a].month, 0)
      /\ Shown(PlainYear(RegisterAt(6, a), mode)) = LooksLike(shows[a].year, 0)
  BY <1>1, <1>2, <1>7, RegisterTells
<1>. QED
  BY <1>4, <1>5, <1>6

\* A register that is twice the same tells the same value twice.
LEMMA SameRegister ==
    ASSUME mode \in Modes, shows \in Histories, NEW f \in 1 .. 6,
           NEW a \in 1 .. Len(shows), NEW c \in 1 .. Len(shows),
           RegisterAt(f, a) = RegisterAt(f, c)
    PROVE  shows[a][Fields[f]] = shows[c][Fields[f]]
<1>1. /\ Fields[1] = "second" /\ Fields[2] = "minute" /\ Fields[3] = "hour"
      /\ Fields[4] = "day" /\ Fields[5] = "month" /\ Fields[6] = "year"
  BY DEF Fields
<1>2. CASE f = 3
  <2>0. shows[a].hour \in 0 .. 23 /\ shows[c].hour \in 0 .. 23
    BY ReadingFacts
  <2>1. PICK h \in 0 .. 23 : h = shows[a].hour
    BY <2>0
  <2>2. PICK k \in 0 .. 23 : k = shows[c].hour
    BY <2>0
  <2>3. (IF Hours24 \/ h % 12 # 0 THEN h ELSE 12 - h)
          = (IF Hours24 \/ k % 12 # 0 THEN k ELSE 12 - k)
    BY <1>2, <2>1, <2>2, HourAndBack
  <2>4. h = k
    <3>1. CASE Hours24
      BY <2>3, <3>1
    <3>2. CASE ~Hours24
      <4>1. (IF h % 12 # 0 THEN h ELSE 12 - h) = (IF k % 12 # 0 THEN k ELSE 12 - k)
        BY <2>3, <3>2
      <4>. QED
        BY <4>1
    <3>. QED
      BY <3>1, <3>2
  <2>. QED
    BY <1>1, <1>2, <2>1, <2>2, <2>4
<1>3. CASE f # 3
  <2>1. f \in {1, 2, 4, 5, 6}
    BY <1>3
  <2>. QED
    BY <1>1, <2>1, RegisterTells
<1>. QED
  BY <1>2, <1>3

\* And it told the same all the time in between.
LEMMA Steady ==
    ASSUME NeverReturns, mode \in Modes, shows \in Histories, NEW f \in 1 .. 6,
           NEW a \in 1 .. Len(shows), NEW b \in 1 .. Len(shows), NEW c \in 1 .. Len(shows),
           a <= b, b <= c, RegisterAt(f, a) = RegisterAt(f, c)
    PROVE  RegisterAt(f, b) = RegisterAt(f, a)
<1>1. shows[b][Fields[f]] = shows[a][Fields[f]]
  <2>1. shows[a][Fields[f]] = shows[c][Fields[f]]
    BY SameRegister
  <2>. QED
    BY <2>1 DEF NeverReturns
<1>. QED
  BY <1>1 DEF RegisterAt
-----------------------------------------------------------------------------
(* One reader.                                                             *)

\* What a reader is after it has read v; got is this pass's, with v.
Goes(r, v, s, got) ==
    /\ s \in Reader /\ s.selected = FALSE
    /\ \/ r.at = 0 /\ s.at = (IF v >= 128 THEN 0 ELSE 1) /\ s.got = r.got /\ s.last = r.last
       \/ r.at \in 1 .. 5 /\ s.at = r.at + 1 /\ s.got = got /\ s.last = r.last
       \/ r.at = 6 /\ got = r.last /\ s.at = 7 /\ s.got = got /\ s.last = << >>
       \/ r.at = 6 /\ got # r.last /\ s.at = 0 /\ s.got = << >> /\ s.last = got
       \/ r.at = 7 /\ s.at = 8 /\ s.got = r.got /\ s.last = r.last

\* Taken goes as the code does.
LEMMA TakenGoes ==
    ASSUME NEW r \in Reader, NEW v \in Nat, r.at < 8
    PROVE  Goes(r, v, Taken(r, v), Append(r.got, v))
<1>0. PICK P : P = 0 .. 8
  OBVIOUS
<1>1. r.at \in 0 .. 7 /\ r.got \in Seq(Nat) /\ r.last \in Seq(Nat)
  BY DEF Reader
<1>2. PICK next \in Reader :
        /\ next = [r EXCEPT !.selected = FALSE]
        /\ next.at = r.at /\ next.got = r.got /\ next.last = r.last /\ next.selected = FALSE
  <2>. DEFINE n == [r EXCEPT !.selected = FALSE]
  <2>1. n \in Reader /\ n.at = r.at /\ n.got = r.got /\ n.last = r.last /\ n.selected = FALSE
    BY DEF Reader
  <2>. QED
    BY <2>1
<1>3. PICK got : got = Append(r.got, v)
  OBVIOUS
<1>4. got \in Seq(Nat) /\ << >> \in Seq(Nat)
  BY <1>1, <1>3, AppendProperties
<1>5. PICK s : s = Taken(r, v)
  OBVIOUS
<1>6. SUFFICES Goes(r, v, s, got)
  BY <1>3, <1>5
<1>7. \A x \in P, g, l \in Seq(Nat) :
        s = [[[next EXCEPT !.at = x] EXCEPT !.got = g] EXCEPT !.last = l] =>
          s \in Reader /\ s.at = x /\ s.got = g /\ s.last = l /\ s.selected = FALSE
  <2>. TAKE x \in P, g, l \in Seq(Nat)
  <2>. HAVE s = [[[next EXCEPT !.at = x] EXCEPT !.got = g] EXCEPT !.last = l]
  <2>1. PICK n \in Reader : n = [next EXCEPT !.at = x] /\ n.at = x /\ n.selected = FALSE
    <3>1. [next EXCEPT !.at = x] \in Reader /\ [next EXCEPT !.at = x].at = x
          /\ [next EXCEPT !.at = x].selected = FALSE
      BY <1>0, <1>2 DEF Reader
    <3>. QED
      BY <3>1
  <2>2. PICK k \in Reader : /\ k = [n EXCEPT !.got = g] /\ k.at = n.at /\ k.got = g
                            /\ k.selected = n.selected
    <3>1. [n EXCEPT !.got = g] \in Reader /\ [n EXCEPT !.got = g].at = n.at
          /\ [n EXCEPT !.got = g].got = g /\ [n EXCEPT !.got = g].selected = n.selected
      BY DEF Reader
    <3>. QED
      BY <3>1
  <2>3. /\ [k EXCEPT !.last = l] \in Reader /\ [k EXCEPT !.last = l].at = k.at
        /\ [k EXCEPT !.last = l].got = k.got /\ [k EXCEPT !.last = l].last = l
        /\ [k EXCEPT !.last = l].selected = k.selected
    BY DEF Reader
  <2>. QED
    BY <2>1, <2>2, <2>3
<1>8. \A x \in P :
        /\ [next EXCEPT !.at = x] \in Reader /\ [next EXCEPT !.at = x].at = x
        /\ [next EXCEPT !.at = x].got = r.got /\ [next EXCEPT !.at = x].last = r.last
        /\ [next EXCEPT !.at = x].selected = FALSE
  BY <1>0, <1>2 DEF Reader
<1>9. \A x \in P :
        LET n == [[next EXCEPT !.at = x] EXCEPT !.got = got] IN
        n \in Reader /\ n.at = x /\ n.got = got /\ n.last = r.last /\ n.selected = FALSE
  BY <1>0, <1>2, <1>4 DEF Reader
<1>10. {0, 1, 7, 8} \subseteq P /\ (r.at \in 1 .. 5 => r.at + 1 \in P)
       /\ (IF v >= 128 THEN 0 ELSE 1) \in P
  BY <1>0
<1>11. CASE r.at = 0
  <2>1. PICK x \in P : x = IF v >= 128 THEN 0 ELSE 1
    BY <1>10
  <2>2. s = [next EXCEPT !.at = x]
    BY <1>2, <1>5, <1>11, <2>1 DEF Taken
  <2>. QED
    BY <1>8, <1>11, <2>1, <2>2 DEF Goes
<1>12. CASE r.at \in 1 .. 5
  <2>1. s = [[next EXCEPT !.at = next.at + 1] EXCEPT !.got = got]
    BY <1>2, <1>3, <1>5, <1>12 DEF Taken
  <2>2. s = [[next EXCEPT !.at = r.at + 1] EXCEPT !.got = got]
    BY <1>2, <2>1
  <2>. QED
    BY <1>9, <1>10, <1>12, <2>2 DEF Goes
<1>13. CASE r.at = 6 /\ got = r.last
  <2>1. s = [[[next EXCEPT !.at = 7] EXCEPT !.got = got] EXCEPT !.last = << >>]
    BY <1>2, <1>3, <1>5, <1>13 DEF Taken, Agrees
  <2>2. s \in Reader /\ s.at = 7 /\ s.got = got /\ s.last = << >> /\ s.selected = FALSE
    BY <1>4, <1>7, <1>10, <2>1
  <2>. QED
    BY <1>13, <2>2 DEF Goes
<1>14. CASE r.at = 6 /\ got # r.last
  <2>1. s = [[[next EXCEPT !.at = 0] EXCEPT !.got = << >>] EXCEPT !.last = got]
    BY <1>2, <1>3, <1>5, <1>14 DEF Taken, Agrees
  <2>2. s \in Reader /\ s.at = 0 /\ s.got = << >> /\ s.last = got /\ s.selected = FALSE
    BY <1>4, <1>7, <1>10, <2>1
  <2>. QED
    BY <1>14, <2>2 DEF Goes
<1>15. CASE r.at = 7
  <2>1. s = [next EXCEPT !.at = 8]
    BY <1>2, <1>5, <1>15 DEF Taken
  <2>. QED
    BY <1>8, <1>10, <1>15, <2>1 DEF Goes
<1>. QED
  BY <1>1, <1>11, <1>12, <1>13, <1>14, <1>15

\* It keeps its shape.
LEMMA ShapeKept ==
    ASSUME NEW r, NEW v \in Nat, Shape(r), r.at < 8, NEW s, s = Taken(r, v)
    PROVE  Shape(s)
<1>1. r \in Reader /\ r.got \in Seq(Nat) /\ Len(r.got) \in 0 .. 6 /\ r.at \in 0 .. 7
      /\ (r.last = << >> \/ Len(r.last) = 6)
  BY DEF Shape, Reader
<1>2. PICK got : got = Append(r.got, v)
  OBVIOUS
<1>3. Len(got) = Len(r.got) + 1 /\ Len(<< >>) = 0
  BY <1>1, <1>2, AppendProperties
<1>4. Goes(r, v, s, got)
  BY <1>1, <1>2, TakenGoes
<1>5. CASE r.at = 0
  <2>1. r.got = << >> /\ Len(r.got) = 0 /\ s.at \in {0, 1}
    BY <1>3, <1>4, <1>5 DEF Shape, Goes
  <2>. QED
    BY <1>1, <1>4, <1>5, <2>1 DEF Shape, Goes
<1>6. CASE r.at \in 1 .. 5
  <2>1. Len(r.got) = r.at - 1
    BY <1>6 DEF Shape
  <2>2. s.at = r.at + 1 /\ s.got = got /\ s.last = r.last /\ s \in Reader
    BY <1>4, <1>6 DEF Goes
  <2>3. Len(s.got) = r.at
    BY <1>1, <1>3, <2>1, <2>2
  <2>. QED
    BY <1>1, <1>6, <2>2, <2>3 DEF Shape
<1>7. CASE r.at = 6
  <2>1. Len(r.got) = 5
    <3>1. 6 \in 1 .. 6 /\ 6 - 1 = 5
      OBVIOUS
    <3>. QED
      BY <1>7, <3>1 DEF Shape
  <2>2. Len(got) = 6
    BY <1>3, <2>1
  <2>3. s \in Reader /\ \/ s.at = 7 /\ s.got = got /\ s.last = << >>
                        \/ s.at = 0 /\ s.got = << >> /\ s.last = got
    BY <1>4, <1>7 DEF Goes
  <2>. QED
    BY <1>3, <2>2, <2>3 DEF Shape
<1>8. CASE r.at = 7
  BY <1>1, <1>4, <1>8 DEF Shape, Goes
<1>. QED
  BY <1>1, <1>5, <1>6, <1>7, <1>8

\* A pass that gets one more register, as it is now.
LEMMA RightGrows ==
    ASSUME NEW pass \in Seq(Nat), NEW v \in Nat, NEW m \in Nat, t \in Nat, m <= t,
           Right(pass, m, t), v = RegisterAt(Len(pass) + 1, t)
    PROVE  Right(Append(pass, v), m, t)
<1>. DEFINE longer == Append(pass, v)
<1>1. /\ Len(longer) = Len(pass) + 1 /\ Len(pass) \in Nat
      /\ \A f \in 1 .. Len(pass) : longer[f] = pass[f]
      /\ longer[Len(pass) + 1] = v
  BY AppendProperties
<1>. HIDE DEF longer
<1>2. ASSUME NEW f \in 1 .. Len(longer)
      PROVE  \E a \in m .. t : longer[f] = RegisterAt(f, a)
  <2>1. CASE f <= Len(pass)
    <3>1. f \in 1 .. Len(pass)
      BY <1>1, <2>1
    <3>. QED
      BY <1>1, <3>1 DEF Right
  <2>2. CASE f = Len(pass) + 1
    <3>1. t \in m .. t
      OBVIOUS
    <3>. QED
      BY <1>1, <2>2, <3>1
  <2>. QED
    BY <1>1, <2>1, <2>2
<1>. QED
  BY <1>2 DEF Right, longer

\* A reader that reads undisturbed keeps reading right: at the end of a pass the
\* moment of the next is now, and a pass that agrees with the one before it is what
\* the clock showed between the two.
LEMMA ReadOn ==
    ASSUME ClockTypes, NeverReturns, NEW r, NEW from \in 1 .. t, NEW v \in Nat,
           Shape(r), r.at < 7, ReadsRight(r, from),
           r.at \in 1 .. 6 => v = RegisterAt(r.at, t), NEW s, s = Taken(r, v)
    PROVE  ReadsRight(s, from)
<1>0. PICK got : got = Append(r.got, v)
  OBVIOUS
<1>1. /\ t \in 1 .. Len(shows) /\ t \in Nat /\ from \in Nat /\ Len(shows) \in Nat
      /\ mode \in Modes /\ shows \in Histories
  <2>1. t \in 1 .. Len(shows) /\ mode \in Modes /\ shows \in Histories
    BY DEF ClockTypes
  <2>2. Len(shows) \in Nat
    BY <2>1, ClockAssumption, LenProperties
  <2>. QED
    BY <2>1, <2>2
<1>2. r \in Reader /\ r.got \in Seq(Nat) /\ r.last \in Seq(Nat) /\ r.at \in 0 .. 6
  BY DEF Shape, Reader
<1>3. PICK m \in from .. t : Right(r.last, from, m) /\ Right(r.got, m, t)
  BY DEF ReadsRight
<1>4. Goes(r, v, s, got)
  BY <1>0, <1>2, TakenGoes
<1>5. r.at \in 1 .. 6 => Len(r.got) = r.at - 1 /\ v = RegisterAt(Len(r.got) + 1, t)
  BY DEF Shape
<1>6. r.at \in 1 .. 6 => Right(got, m, t)
  <2>1. m \in Nat /\ m <= t
    BY <1>1
  <2>. QED
    BY <1>0, <1>1, <1>2, <1>3, <1>5, <2>1, RightGrows
<1>7. \A x, y : Right(<< >>, x, y)
  BY DEF Right
<1>8. Len(got) = Len(r.got) + 1
  BY <1>0, <1>2, AppendProperties
<1>9. CASE r.at = 0
  <2>1. s.at \in {0, 1} /\ s.got = r.got /\ s.last = r.last
    BY <1>4, <1>9 DEF Goes
  <2>. QED
    BY <1>3, <2>1 DEF ReadsRight
<1>10. CASE r.at \in 1 .. 5
  <2>1. s.at \in 2 .. 6 /\ s.got = got /\ s.last = r.last
    BY <1>4, <1>10 DEF Goes
  <2>. QED
    BY <1>3, <1>6, <1>10, <2>1 DEF ReadsRight
<1>11. CASE r.at = 6 /\ got = r.last
  <2>1. Len(got) = 6
    <3>1. Len(r.got) = 5
      BY <1>5, <1>11
    <3>. QED
      BY <1>8, <3>1
  <2>2. ASSUME NEW f \in 1 .. 6
        PROVE  got[f] = RegisterAt(f, m)
    <3>1. PICK a \in from .. m : got[f] = RegisterAt(f, a)
      BY <1>3, <1>11, <2>1 DEF Right
    <3>2. PICK c \in m .. t : got[f] = RegisterAt(f, c)
      BY <1>6, <1>11, <2>1 DEF Right
    <3>3. /\ a \in 1 .. Len(shows) /\ m \in 1 .. Len(shows) /\ c \in 1 .. Len(shows)
          /\ a <= m /\ m <= c
      BY <1>1
    <3>. QED
      BY <1>1, <3>1, <3>2, <3>3, Steady
  <2>. QED
    <3>1. s.at = 7 /\ s.got = got /\ ~(7 < 7)
      BY <1>4, <1>11 DEF Goes
    <3>. QED
      BY <1>3, <2>2, <3>1 DEF ReadsRight
<1>12. CASE r.at = 6 /\ got # r.last
  <2>1. Right(got, from, t)
    <3>1. \A a \in m .. t : a \in from .. t
      BY <1>1
    <3>. QED
      BY <1>6, <1>12, <3>1 DEF Right
  <2>2. t \in from .. t
    BY <1>1
  <2>. QED
    <3>1. s.at = 0 /\ s.got = << >> /\ s.last = got
      BY <1>4, <1>12 DEF Goes
    <3>2. Right(s.last, from, t) /\ Right(s.got, t, t)
      BY <1>7, <2>1, <3>1
    <3>. QED
      BY <2>2, <3>1, <3>2 DEF ReadsRight
<1>. QED
  BY <1>2, <1>9, <1>10, <1>11, <1>12

\* The clock does not spoil what has been read.
LEMMA ReadsRightLasts ==
    ASSUME NEW r, NEW from \in Nat, t \in Nat, t' \in Nat, t <= t',
           UNCHANGED <<mode, shows>>, ReadsRight(r, from)
    PROVE  ReadsRight(r, from)'
<1>1. \A f, a : RegisterAt(f, a)' = RegisterAt(f, a)
  BY DEF RegisterAt, Digits, Binary, Hours24
<1>2. \A m \in from .. t : m \in from .. t' /\ \A a \in m .. t : a \in m .. t'
  OBVIOUS
<1>3. r.at < 7 => \E m \in from .. t' : Right(r.last, from, m)' /\ Right(r.got, m, t)'
  <2>1. \A m \in from .. t : /\ Right(r.last, from, m) => Right(r.last, from, m)'
                             /\ Right(r.got, m, t) => Right(r.got, m, t)'
    BY <1>1, <1>2 DEF Right
  <2>. QED
    BY <1>2, <2>1 DEF ReadsRight
<1>4. r.at = 7 => \E m \in from .. t' : \A f \in 1 .. 6 : r.got[f] = RegisterAt(f, m)'
  BY <1>1, <1>2 DEF ReadsRight
<1>. QED
  BY <1>3, <1>4 DEF ReadsRight

\* Only where a reader is and what it has got matter.
LEMMA SameReader ==
    ASSUME NEW r, NEW q \in Reader, q.at = r.at, q.got = r.got, q.last = r.last
    PROVE  /\ Shape(r) => Shape(q)
           /\ \A from : ReadsRight(r, from) => ReadsRight(q, from)
           /\ r.at < 8 => PortOf(q) = PortOf(r)
BY DEF Shape, ReadsRight, PortOf

\* A register holds a number.
LEMMA RegisterNat ==
    ASSUME mode \in Modes, shows \in Histories, NEW a \in 1 .. Len(shows), NEW f \in 1 .. 6
    PROVE  RegisterAt(f, a) \in Nat
<1>0. PICK S : S = 0 .. 99
  OBVIOUS
<1>1. \A w \in S : Digits(w) \in Nat
  <2>1. SUFFICES ASSUME NEW w \in S PROVE Digits(w) \in Nat
    OBVIOUS
  <2>2. Digits(w) \in 0 .. 153
    BY <1>0, DigitsAndBack
  <2>3. \A d \in 0 .. 153 : d \in Nat
    OBVIOUS
  <2>. QED
    BY <2>2, <2>3
<1>2. /\ shows[a].second \in 0 .. 59 /\ shows[a].minute \in 0 .. 59
      /\ shows[a].hour \in 0 .. 23 /\ shows[a].day \in 1 .. 31
      /\ shows[a].month \in 1 .. 12 /\ shows[a].year \in 2021 .. 2052
  BY ReadingFacts
<1>3. /\ shows[a].second \in S /\ shows[a].minute \in S /\ shows[a].hour \in S
      /\ shows[a].day \in S /\ shows[a].month \in S
  <2>1. PICK u \in 0 .. 59 : u = shows[a].second
    BY <1>2
  <2>2. PICK v \in 0 .. 59 : v = shows[a].minute
    BY <1>2
  <2>3. PICK w \in 0 .. 23 : w = shows[a].hour
    BY <1>2
  <2>4. PICK x \in 1 .. 31 : x = shows[a].day
    BY <1>2
  <2>5. PICK z \in 1 .. 12 : z = shows[a].month
    BY <1>2
  <2>6. u \in 0 .. 99 /\ v \in 0 .. 99 /\ w \in 0 .. 99 /\ x \in 0 .. 99 /\ z \in 0 .. 99
    OBVIOUS
  <2>. QED
    BY <1>0, <2>1, <2>2, <2>3, <2>4, <2>5, <2>6, Zenon
<1>4. PICK y \in 2021 .. 2052 : y = shows[a].year
  BY <1>2
<1>5. PICK h \in 0 .. 23 : h = shows[a].hour
  BY <1>2
<1>6. y % 100 \in S /\ ((h + 11) % 12) + 1 \in S
  BY <1>0
<1>7. /\ Digits(shows[a].second) \in Nat /\ Digits(shows[a].minute) \in Nat
      /\ Digits(shows[a].day) \in Nat /\ Digits(shows[a].month) \in Nat
  BY <1>1, <1>3
<1>8. RegisterAt(3, a) \in Nat
  <2>1. PICK n \in S : n = ((h + 11) % 12) + 1
    BY <1>6
  <2>2. Digits(h) \in Nat /\ Digits(n) \in Nat
    BY <1>1, <1>3, <1>5, <2>1
  <2>3. \A w \in Nat : w + 128 \in Nat /\ w + 0 \in Nat
    OBVIOUS
  <2>4. RegisterAt(3, a) = IF Hours24 THEN Digits(h)
                           ELSE Digits(n) + (IF h >= 12 THEN 128 ELSE 0)
    BY <1>5, <2>1, RegistersAre
  <2>. QED
    BY <2>2, <2>3, <2>4
<1>9. RegisterAt(6, a) \in Nat
  BY <1>1, <1>4, <1>6, RegistersAre
<1>10. /\ RegisterAt(1, a) \in Nat /\ RegisterAt(2, a) \in Nat
       /\ RegisterAt(4, a) \in Nat /\ RegisterAt(5, a) \in Nat
  BY <1>7, RegistersAre
<1>. QED
  BY <1>8, <1>9, <1>10

\* What a reader gets that finds its own port.
LEMMA OwnPort ==
    ASSUME ClockTypes, NEW r, Shape(r), r.at < 8, NEW v, v = Data(PortOf(r))
    PROVE  /\ v \in Nat
           /\ r.at \in 1 .. 6 => v = RegisterAt(r.at, t)
           /\ r.at = 7 => v = mode /\ PortOf(r) = ModePort
           /\ PortOf(r) \in {UpdatePort, ModePort} \cup {Ports[f] : f \in 1 .. 6}
<1>1. mode \in Modes /\ shows \in Histories /\ t \in 1 .. Len(shows) /\ mode \in Nat
  BY ModeBits DEF ClockTypes
<1>2. r.at \in 0 .. 7
  BY DEF Shape, Reader
<1>3. CASE r.at = 0
  <2>1. v = IF updating THEN 128 ELSE 0
    BY <1>1, <1>3, DataIs DEF PortOf
  <2>2. PortOf(r) = UpdatePort
    BY <1>3 DEF PortOf
  <2>. QED
    BY <1>3, <2>1, <2>2
<1>4. CASE r.at = 7
  BY <1>1, <1>4, DataIs DEF PortOf
<1>5. CASE r.at \in 1 .. 6
  <2>1. PortOf(r) = Ports[r.at]
    BY <1>5 DEF PortOf
  <2>2. v = RegisterAt(r.at, t)
    BY <1>1, <1>5, <2>1, DataIs
  <2>3. RegisterAt(r.at, t) \in Nat
    BY <1>1, <1>5, RegisterNat
  <2>. QED
    BY <1>5, <2>1, <2>2, <2>3
<1>. QED
  BY <1>2, <1>3, <1>4, <1>5

\* A reader that begins, and one that has ended.
LEMMA FreshReader ==
    ASSUME t \in Nat
    PROVE  /\ Shape(Begins) /\ ReadsRight(Begins, t)
           /\ Begins.at = 0 /\ Begins.got = << >> /\ Begins.last = << >>
           /\ ~Begins.selected
           /\ Shape(Ended) /\ Ended.at = 8 /\ ~Ended.selected
<1>1. << >> \in Seq(Nat) /\ Len(<< >>) = 0
  OBVIOUS
<1>2. /\ Begins \in Reader /\ Begins.at = 0 /\ Begins.got = << >>
      /\ Begins.last = << >> /\ ~Begins.selected
  BY <1>1 DEF Begins, Reader
<1>3. /\ Ended \in Reader /\ Ended.at = 8 /\ Ended.got = << >>
      /\ Ended.last = << >> /\ ~Ended.selected
  <2>1. PICK P : P = 0 .. 8
    OBVIOUS
  <2>2. PICK b \in Reader : b = Begins /\ b.got = << >> /\ b.last = << >> /\ ~b.selected
    BY <1>2
  <2>3. \A x \in P : /\ [b EXCEPT !.at = x] \in Reader /\ [b EXCEPT !.at = x].at = x
                     /\ [b EXCEPT !.at = x].got = b.got
                     /\ [b EXCEPT !.at = x].last = b.last
                     /\ [b EXCEPT !.at = x].selected = b.selected
    BY <2>1 DEF Reader
  <2>4. 8 \in P /\ Ended = [b EXCEPT !.at = 8]
    BY <2>1, <2>2 DEF Ended
  <2>. QED
    BY <2>2, <2>3, <2>4
<1>4. Shape(Begins) /\ Shape(Ended)
  BY <1>1, <1>2, <1>3 DEF Shape
<1>5. t \in t .. t /\ Right(<< >>, t, t)
  BY <1>1 DEF Right
<1>6. ReadsRight(Begins, t)
  BY <1>2, <1>5 DEF ReadsRight
<1>. QED
  BY <1>2, <1>3, <1>4, <1>6

\* Whatever port is read gives a number.
LEMMA DataNat ==
    ASSUME ClockTypes
    PROVE  Data(index) \in Nat
<1>1. mode \in Modes /\ shows \in Histories /\ t \in 1 .. Len(shows) /\ mode \in Nat
  BY ModeBits DEF ClockTypes
<1>2. CASE index \in {UpdatePort, ModePort}
  BY <1>1, <1>2, DataIs
<1>3. CASE index \notin {UpdatePort, ModePort}
  <2>1. PICK f \in 1 .. 6 : index = Ports[f]
    BY <1>3 DEF ClockTypes
  <2>. QED
    BY <1>1, <2>1, DataIs, RegisterNat
<1>. QED
  BY <1>2, <1>3

\* With one read gone wrong: the pass that it was in has one register that may be
\* wrong, and the other pass is right.
LEMMA WrongOnce ==
    ASSUME NEW r, NEW v \in Nat, Shape(r), r.at < 7, NEW s, s = Taken(r, v),
           Right(r.last, t, t), Right(r.got, t, t)
    PROVE  OneIsRight(s)
<1>1. PICK got : got = Append(r.got, v)
  OBVIOUS
<1>2. r \in Reader /\ r.at \in 0 .. 6 /\ r.last \in Seq(Nat) /\ Len(r.last) \in Nat
  BY LenProperties DEF Shape, Reader
<1>3. Goes(r, v, s, got)
  BY <1>1, <1>2, TakenGoes
<1>4. \A f \in 1 .. Len(r.last) : r.last[f] = RegisterAt(f, t)
  <2>1. \A a \in t .. t : a = t
    BY DEF Right
  <2>. QED
    BY <2>1 DEF Right
<1>5. CASE r.at = 0
  <2>1. s.at \in {0, 1} /\ s.got = << >> /\ s.at # 7 /\ Len(s.got) = 0
    BY <1>3, <1>5 DEF Goes, Shape
  <2>. QED
    BY <2>1 DEF OneIsRight
<1>6. CASE r.at \in 1 .. 5
  <2>1. s.at # 7 /\ s.last = r.last
    BY <1>3, <1>6 DEF Goes
  <2>2. \A f \in 1 .. 6 : f <= Len(r.last) => f \in 1 .. Len(r.last)
    BY <1>2
  <2>. QED
    BY <1>4, <2>1, <2>2 DEF OneIsRight
<1>7. CASE r.at = 6 /\ got = r.last
  <2>1. s.got = r.last /\ s.last = << >> /\ Len(s.last) = 0
    BY <1>3, <1>7 DEF Goes
  <2>. QED
    BY <2>1 DEF OneIsRight
<1>8. CASE r.at = 6 /\ got # r.last
  <2>1. s.at = 0 /\ s.got = << >> /\ Len(s.got) = 0
    BY <1>3, <1>8 DEF Goes
  <2>. QED
    BY <2>1 DEF OneIsRight
<1>. QED
  BY <1>2, <1>5, <1>6, <1>7, <1>8

\* After that the reader finds its own port: a pass that agrees with the one before it
\* is right in every register.
LEMMA RightOnce ==
    ASSUME t \in Nat, NEW r, NEW v \in Nat, Shape(r), r.at < 7, OneIsRight(r),
           r.at \in 1 .. 6 => v = RegisterAt(r.at, t), NEW s, s = Taken(r, v)
    PROVE  OneIsRight(s)
<1>1. PICK got : got = Append(r.got, v)
  OBVIOUS
<1>2. /\ r \in Reader /\ r.at \in 0 .. 6
      /\ r.got \in Seq(Nat) /\ Len(r.got) \in Nat /\ r.last \in Seq(Nat) /\ Len(r.last) \in Nat
  BY LenProperties DEF Shape, Reader
<1>3. Goes(r, v, s, got)
  BY <1>1, <1>2, TakenGoes
<1>4. r.at \in 1 .. 6 =>
        /\ Len(r.got) = r.at - 1 /\ Len(got) = r.at /\ got[r.at] = RegisterAt(r.at, t)
        /\ \A f \in 1 .. r.at - 1 : got[f] = r.got[f]
  <2>1. /\ Len(got) = Len(r.got) + 1 /\ got[Len(r.got) + 1] = v
        /\ \A f \in 1 .. Len(r.got) : got[f] = r.got[f]
    BY <1>1, <1>2, AppendProperties
  <2>2. r.at \in 1 .. 6 => Len(r.got) = r.at - 1
    BY DEF Shape
  <2>3. r.at \in 1 .. 6 => r.at - 1 + 1 = r.at
    OBVIOUS
  <2>. QED
    BY <2>1, <2>2, <2>3
<1>5. r.at \in 1 .. 6 =>
        \A f \in 1 .. 6 : f <= r.at /\ f <= Len(r.last) =>
          got[f] = RegisterAt(f, t) \/ r.last[f] = RegisterAt(f, t)
  <2>1. SUFFICES ASSUME r.at \in 1 .. 6, NEW f \in 1 .. 6, f <= r.at, f <= Len(r.last)
                 PROVE  got[f] = RegisterAt(f, t) \/ r.last[f] = RegisterAt(f, t)
    OBVIOUS
  <2>2. CASE f = r.at
    BY <1>4, <2>1, <2>2
  <2>3. CASE f # r.at
    <3>1. f \in 1 .. r.at - 1 /\ f <= Len(r.got)
      BY <1>2, <1>4, <2>1, <2>3
    <3>. QED
      BY <1>4, <2>1, <3>1 DEF OneIsRight
  <2>. QED
    BY <2>2, <2>3
<1>6. CASE r.at = 0
  <2>1. s.at \in {0, 1} /\ s.got = << >> /\ s.at # 7 /\ Len(s.got) = 0
    BY <1>3, <1>6 DEF Goes, Shape
  <2>. QED
    BY <2>1 DEF OneIsRight
<1>7. CASE r.at \in 1 .. 5
  <2>1. s.at # 7 /\ s.last = r.last /\ s.got = got
    BY <1>3, <1>7 DEF Goes
  <2>2. Len(got) = r.at
    BY <1>4, <1>7
  <2>. QED
    BY <1>5, <1>7, <2>1, <2>2 DEF OneIsRight
<1>8. CASE r.at = 6 /\ got = r.last
  <2>1. s.got = r.last /\ s.last = << >> /\ Len(s.last) = 0 /\ s.at = 7
    BY <1>3, <1>8 DEF Goes
  <2>2. \A f \in 1 .. 6 : r.last[f] = RegisterAt(f, t)
    <3>1. Len(r.last) = 6 /\ \A f \in 1 .. 6 : f <= 6
      BY <1>4, <1>8
    <3>. QED
      BY <1>5, <1>8, <3>1
  <2>3. Len(r.last) = 6 /\ t \in t .. t
    BY <1>4, <1>8
  <2>4. Right(r.last, t, t)
    BY <2>2, <2>3 DEF Right
  <2>. QED
    BY <2>1, <2>4 DEF OneIsRight
<1>9. CASE r.at = 6 /\ got # r.last
  <2>1. s.at = 0 /\ s.got = << >> /\ Len(s.got) = 0
    BY <1>3, <1>9 DEF Goes
  <2>. QED
    BY <2>1 DEF OneIsRight
<1>. QED
  BY <1>2, <1>6, <1>7, <1>8, <1>9
-----------------------------------------------------------------------------
(* The steps keep the invariant.                                           *)

\* Nothing but the clock has moved, if that.
LEMMA ClockKeeps ==
    ASSUME IInv, t' \in {t, t + 1}, ClockTypes',
           UNCHANGED <<mode, shows, index, main, irq, date, time, dateFrom, timeFrom, zeroAs,
                     struck>>
    PROVE  IInv'
<1>1. t \in Nat /\ t' \in Nat /\ t <= t' /\ dateFrom \in Nat /\ timeFrom \in Nat
      /\ dateFrom <= t
  BY DEF IInv, ClockTypes
<1>2. \A f, a : RegisterAt(f, a)' = RegisterAt(f, a)
  BY DEF RegisterAt, Digits, Binary, Hours24
<1>3. \A r : Shape(r)' = Shape(r)
  BY DEF Shape
<1>4. ASSUME NEW r, NEW from \in Nat, ReadsRight(r, from)
      PROVE  ReadsRight(r, from)'
  BY <1>1, <1>4, ReadsRightLasts
<1>5. TimerInv'
  <2>1. irq.at < 8 => ReadsRight(irq, timeFrom)'
    BY <1>1, <1>4 DEF IInv, TimerInv, ReadsRight
  <2>2. \A k \in timeFrom .. t : k \in timeFrom .. t'
    BY <1>1
  <2>3. \A h, z : HourLooksLike(h, z)' = HourLooksLike(h, z)
    BY DEF HourLooksLike, Hours24
  <2>4. TimeWasShown'
    BY <2>2, <2>3 DEF IInv, TimerInv, TimeWasShown
  <2>. QED
    BY <1>3, <2>1, <2>4 DEF IInv, TimerInv
<1>6. MainInv'
  <2>1. struck = 0 /\ main.at < 8 => Undisturbed' /\ ReadsRight(main, dateFrom)'
    <3>1. struck = 0 /\ main.at < 8 => Undisturbed /\ ReadsRight(main, dateFrom)
      BY DEF IInv, MainInv
    <3>2. Undisturbed => Undisturbed'
      BY DEF Undisturbed, PortOf
    <3>3. ReadsRight(main, dateFrom) => ReadsRight(main, dateFrom)'
      <4>1. PICK r : r = main
        OBVIOUS
      <4>2. PICK d \in Nat : d = dateFrom
        BY <1>1
      <4>3. ReadsRight(r, d) => ReadsRight(r, d)'
        BY <1>4
      <4>. QED
        BY <4>1, <4>2, <4>3, SMTT(30) DEF ReadsRight, Right
    <3>. QED
      BY <3>1, <3>2, <3>3
  <2>2. struck = 1 /\ t' = dateFrom /\ main.at < 8 =>
          \/ Disturbed' /\ Right(main.last, t, t)' /\ Right(main.got, t, t)'
          \/ Undisturbed' /\ OneIsRight(main)'
    <3>1. t' = dateFrom => t' = t
      BY <1>1
    <3>2. t' = t /\ Right(main.last, t, t) => Right(main.last, t, t)'
      BY <1>2 DEF Right
    <3>3. t' = t /\ Right(main.got, t, t) => Right(main.got, t, t)'
      BY <1>2 DEF Right
    <3>4. t' = t /\ OneIsRight(main) => OneIsRight(main)'
      BY <1>2, <3>3 DEF OneIsRight
    <3>5. (Undisturbed => Undisturbed') /\ (Disturbed => Disturbed')
      BY DEF Undisturbed, Disturbed, PortOf
    <3>6. struck = 1 /\ t = dateFrom /\ main.at < 8 =>
            \/ Disturbed /\ Right(main.last, t, t) /\ Right(main.got, t, t)
            \/ Undisturbed /\ OneIsRight(main)
      BY DEF IInv, MainInv
    <3>. QED
      BY <3>1, <3>2, <3>3, <3>4, <3>5, <3>6
  <2>3. DateWasShown'
    <3>1. \A k \in dateFrom .. t : k \in dateFrom .. t'
      BY <1>1
    <3>2. t > dateFrom => t' > dateFrom
      BY <1>1
    <3>. QED
      BY <3>1, <3>2 DEF IInv, MainInv, DateWasShown
  <2>. QED
    BY <1>3, <2>1, <2>2, <2>3 DEF IInv, MainInv
<1>. QED
  BY <1>5, <1>6 DEF IInv

\* What has been read stays right while the clock stands.
LEMMA ClockStands ==
    ASSUME UNCHANGED <<mode, shows, t>>, NEW r, NEW from
    PROVE  /\ ReadsRight(r, from) => ReadsRight(r, from)'
           /\ OneIsRight(r) => OneIsRight(r)'
           /\ Right(r.last, t, t) => Right(r.last, t, t)'
           /\ Right(r.got, t, t) => Right(r.got, t, t)'
<1>1. \A f, a : RegisterAt(f, a)' = RegisterAt(f, a)
  BY DEF RegisterAt, Digits, Binary, Hours24
<1>2. ReadsRight(r, from) => ReadsRight(r, from)'
  BY <1>1 DEF ReadsRight, Right
<1>3. OneIsRight(r) => OneIsRight(r)'
  BY <1>1 DEF OneIsRight, Right
<1>4. /\ Right(r.last, t, t) => Right(r.last, t, t)'
      /\ Right(r.got, t, t) => Right(r.got, t, t)'
  BY <1>1 DEF Right
<1>. QED
  BY <1>2, <1>3, <1>4

\* The clock and the timer's reader have not moved.
LEMMA TimerRests ==
    ASSUME TimerInv, UNCHANGED <<mode, shows, t, irq, time, timeFrom, zeroAs>>
    PROVE  TimerInv'
<1>1. Shape(irq)' /\ ~irq'.selected
  BY DEF TimerInv, Shape
<1>2. irq.at < 8 => ReadsRight(irq, timeFrom)'
  <2>1. ReadsRight(irq, timeFrom) => ReadsRight(irq, timeFrom)'
    <3>1. PICK r, d : r = irq /\ d = timeFrom
      OBVIOUS
    <3>2. ReadsRight(r, d) => ReadsRight(r, d)'
      BY ClockStands
    <3>. QED
      BY <3>1, <3>2 DEF ReadsRight, Right
  <2>. QED
    BY <2>1 DEF TimerInv
<1>3. \A h, z : HourLooksLike(h, z)' = HourLooksLike(h, z)
  BY DEF HourLooksLike, Hours24
<1>4. TimeWasShown'
  BY <1>3 DEF TimerInv, TimeWasShown
<1>. QED
  BY <1>1, <1>2, <1>4 DEF TimerInv

\* kernelMain has written a port to the index.
LEMMA SelectKeeps ==
    ASSUME IInv, Select
    PROVE  IInv'
<1>1. /\ main.at < 8 /\ ~main.selected /\ irq.at = 8 /\ main' = [main EXCEPT !.selected = TRUE]
      /\ index' = PortOf(main) /\ dateFrom' = IF main = Begins THEN t ELSE dateFrom
      /\ UNCHANGED <<mode, shows, t, updating, irq, date, time, timeFrom, zeroAs, struck>>
  BY DEF Select, clock
<1>2. Shape(main) /\ main \in Reader /\ date = << >> /\ t \in Nat /\ dateFrom \in 1 .. t
  BY <1>1 DEF IInv, MainInv, ClockTypes, Shape
<1>3. PICK q \in Reader : /\ q = main' /\ q.at = main.at /\ q.got = main.got
                          /\ q.last = main.last /\ q.selected = TRUE
  <2>. DEFINE n == [main EXCEPT !.selected = TRUE]
  <2>1. /\ n \in Reader /\ n.at = main.at /\ n.got = main.got
        /\ n.last = main.last /\ n.selected = TRUE
    BY <1>2 DEF Reader
  <2>. QED
    BY <1>1, <2>1
<1>4. Shape(q) /\ PortOf(q) = PortOf(main)
  BY <1>1, <1>2, <1>3, SameReader
<1>5. PICK d \in 1 .. t : d = dateFrom'
  BY <1>1, <1>2
<1>6. ClockTypes'
  <2>1. PortOf(main) \in {UpdatePort, ModePort} \cup {Ports[f] : f \in 1 .. 6}
    BY <1>1, <1>2, OwnPort DEF IInv
  <2>. QED
    BY <1>1, <1>5, <2>1 DEF IInv, ClockTypes
<1>7. TimerInv'
  BY <1>1, TimerRests DEF IInv
<1>8. MainInv'
  <2>1. Shape(main)'
    BY <1>3, <1>4 DEF Shape
  <2>2. Undisturbed'
    <3>1. PortOf(main)' = PortOf(q)
      BY <1>3 DEF PortOf
    <3>. QED
      BY <1>1, <1>3, <1>4, <3>1 DEF Undisturbed
  <2>3. struck = 0 => ReadsRight(main, dateFrom)'
    <3>0. struck = 0 => ReadsRight(main, dateFrom)
      BY <1>1 DEF IInv, MainInv
    <3>1. struck = 0 => ReadsRight(main, d)
      <4>1. CASE main = Begins
        <5>1. d = t /\ ReadsRight(Begins, t)
          BY <1>1, <1>2, <1>5, <4>1, FreshReader
        <5>. QED
          BY <4>1, <5>1
      <4>2. CASE main # Begins
        BY <1>1, <1>5, <3>0, <4>2
      <4>. QED
        BY <4>1, <4>2
    <3>2. struck = 0 => ReadsRight(q, d)
      BY <1>3, <3>1, SameReader
    <3>3. ReadsRight(q, d) => ReadsRight(q, d)'
      BY <1>1, ClockStands
    <3>. QED
      BY <1>3, <1>5, <3>2, <3>3 DEF ReadsRight, Right
  <2>4. struck = 1 /\ t = d => OneIsRight(main)'
    <3>1. struck = 1 /\ t = d => OneIsRight(q)
      <4>1. CASE main = Begins
        <5>1. q.at = 0 /\ q.got = << >> /\ Len(q.got) = 0
          BY <1>2, <1>3, <4>1, FreshReader
        <5>. QED
          BY <5>1 DEF OneIsRight
      <4>2. CASE main # Begins
        <5>1. d = dateFrom
          BY <1>1, <1>5, <4>2
        <5>2. struck = 1 /\ t = d => OneIsRight(main)
          BY <1>1, <5>1 DEF IInv, MainInv, Disturbed
        <5>. QED
          BY <1>3, <5>2 DEF OneIsRight
      <4>. QED
        BY <4>1, <4>2
    <3>2. OneIsRight(q) => OneIsRight(q)'
      BY <1>1, ClockStands
    <3>. QED
      BY <1>3, <3>1, <3>2 DEF OneIsRight, Right
  <2>5. main'.at < 8 /\ date' = << >> /\ DateWasShown'
    BY <1>1, <1>2, <1>3 DEF DateWasShown
  <2>. QED
    BY <1>1, <1>5, <2>1, <2>2, <2>3, <2>4, <2>5 DEF MainInv
<1>. QED
  BY <1>6, <1>7, <1>8 DEF IInv

\* The timer's interrupt has come.
LEMMA InterruptKeeps ==
    ASSUME IInv, TimerInterrupts
    PROVE  IInv'
<1>1. /\ irq.at = 8 /\ irq' = Begins /\ timeFrom' = t
      /\ struck' = (IF main.selected THEN struck + 1 ELSE struck)
      /\ UNCHANGED <<mode, shows, t, updating, index, main, date, time, dateFrom>>
  BY DEF TimerInterrupts, clock
<1>2. t \in Nat /\ t \in 1 .. t /\ struck \in Nat /\ dateFrom \in 1 .. t
  BY DEF IInv, ClockTypes
<1>3. ClockTypes'
  BY <1>1, <1>2 DEF IInv, ClockTypes
<1>4. TimerInv'
  <2>1. Shape(Begins) /\ ~Begins.selected /\ Begins.at = 0 /\ ReadsRight(Begins, t)
    BY <1>2, FreshReader
  <2>2. \A r \in {Begins} : ReadsRight(r, t) => ReadsRight(r, t)'
    BY <1>1, ClockStands
  <2>3. ReadsRight(irq, timeFrom)'
    BY <1>1, <2>1, <2>2 DEF ReadsRight, Right
  <2>4. Shape(irq)'
    BY <1>1, <2>1 DEF Shape
  <2>5. irq'.at # 8
    BY <1>1, <2>1
  <2>. QED
    BY <1>1, <2>1, <2>3, <2>4, <2>5 DEF TimerInv, TimeWasShown
<1>5. MainInv'
  <2>1. Shape(main)' /\ (main'.selected => main'.at < 8) /\ (main'.at < 8 => date' = << >>)
    BY <1>1 DEF IInv, MainInv, Shape
  <2>2. struck' = 0 /\ main'.at < 8 => Undisturbed' /\ ReadsRight(main, dateFrom)'
    <3>1. struck' = 0 /\ main'.at < 8 => ReadsRight(main, dateFrom) /\ ~main.selected
      BY <1>1, <1>2 DEF IInv, MainInv
    <3>2. PICK r, d : r = main /\ d = dateFrom
      OBVIOUS
    <3>3. ReadsRight(r, d) => ReadsRight(r, d)'
      BY <1>1, ClockStands
    <3>4. ReadsRight(main, dateFrom) => ReadsRight(main, dateFrom)'
      BY <1>1, <3>2, <3>3 DEF ReadsRight, Right
    <3>. QED
      BY <1>1, <3>1, <3>4 DEF Undisturbed
  <2>3. struck' = 1 /\ t = dateFrom /\ main.at < 8 =>
          \/ Disturbed' /\ Right(main.last, t, t) /\ Right(main.got, t, t)
          \/ Undisturbed' /\ OneIsRight(main)
    <3>1. SUFFICES ASSUME struck' = 1, t = dateFrom, main.at < 8
                   PROVE  \/ Disturbed' /\ Right(main.last, t, t) /\ Right(main.got, t, t)
                          \/ Undisturbed' /\ OneIsRight(main)
      OBVIOUS
    <3>2. CASE main.selected
      <4>1. struck = 0 /\ ReadsRight(main, t)
        BY <1>1, <1>2, <3>1, <3>2 DEF IInv, MainInv
      <4>2. Shape(main) /\ main.at \in 0 .. 7
        BY <3>1 DEF IInv, MainInv, Shape, Reader
      <4>3. \A m \in t .. t : m = t
        BY <1>2
      <4>4. Right(main.last, t, t) /\ Right(main.got, t, t)
        <5>1. CASE main.at < 7
          BY <4>1, <4>3, <5>1 DEF ReadsRight
        <5>2. CASE main.at = 7
          <6>1. \A f \in 1 .. 6 : main.got[f] = RegisterAt(f, t)
            BY <4>1, <4>3, <5>2 DEF ReadsRight
          <6>2. Len(main.got) = 6 /\ main.last = << >> /\ Len(main.last) = 0
            BY <4>2, <5>2 DEF Shape
          <6>3. t \in t .. t
            BY <1>2
          <6>. QED
            BY <6>1, <6>2, <6>3 DEF Right
        <5>. QED
          BY <4>2, <5>1, <5>2
      <4>5. Disturbed'
        <5>1. Begins.at # 8
          BY <1>2, FreshReader
        <5>. QED
          BY <1>1, <3>2, <5>1 DEF Disturbed
      <4>. QED
        BY <4>4, <4>5
    <3>3. CASE ~main.selected
      <4>1. struck = 1 /\ Undisturbed'
        BY <1>1, <3>1, <3>3 DEF Undisturbed
      <4>2. OneIsRight(main)
        BY <3>1, <3>3, <4>1 DEF IInv, MainInv, Disturbed
      <4>. QED
        BY <4>1, <4>2
    <3>. QED
      BY <3>2, <3>3
  <2>4. struck' = 1 /\ t' = dateFrom' /\ main'.at < 8 =>
          \/ Disturbed' /\ Right(main.last, t, t)' /\ Right(main.got, t, t)'
          \/ Undisturbed' /\ OneIsRight(main)'
    <3>1. PICK r : r = main
      OBVIOUS
    <3>2. /\ OneIsRight(r) => OneIsRight(r)'
          /\ Right(r.last, t, t) => Right(r.last, t, t)'
          /\ Right(r.got, t, t) => Right(r.got, t, t)'
      BY <1>1, ClockStands
    <3>3. /\ OneIsRight(main) => OneIsRight(main)'
          /\ Right(main.last, t, t) => Right(main.last, t, t)'
          /\ Right(main.got, t, t) => Right(main.got, t, t)'
      BY <1>1, <3>1, <3>2 DEF OneIsRight, Right
    <3>. QED
      BY <1>1, <2>3, <3>3
  <2>5. DateWasShown'
    <3>1. (struck >= 2 => struck' >= 2) /\ (struck = 1 => struck' \in {1, 2})
      BY <1>1, <1>2
    <3>2. struck' = 2 => struck' >= 2
      OBVIOUS
    <3>. QED
      BY <1>1, <3>1, <3>2 DEF IInv, MainInv, DateWasShown
  <2>. QED
    BY <2>1, <2>2, <2>4, <2>5 DEF MainInv
<1>. QED
  BY <1>3, <1>4, <1>5 DEF IInv

\* kernelMain has read the data port.
LEMMA TakeKeeps ==
    ASSUME NeverReturns, IInv, Take
    PROVE  IInv'
<1>1. /\ irq.at = 8 /\ main.selected /\ main' = Taken(main, Data(index))
      /\ UNCHANGED <<mode, shows, t, updating, index, irq, time, dateFrom, timeFrom, zeroAs,
                     struck>>
      /\ main.at # 7 => date' = date
      /\ main.at = 7 =>
           LET m == Data(index)  g == main.got IN
           date' = <<Shown(Plain(g[4], m)), Shown(Plain(g[5], m)), Shown(PlainYear(g[6], m))>>
  BY DEF Take, clock
<1>2. /\ Shape(main) /\ main \in Reader /\ main.at \in 0 .. 7 /\ date = << >>
      /\ ClockTypes /\ mode \in Modes /\ shows \in Histories
      /\ t \in Nat /\ t \in 1 .. Len(shows) /\ dateFrom \in 1 .. t /\ struck \in Nat
  BY <1>1 DEF IInv, MainInv, ClockTypes, Shape, Reader
<1>3. PICK v \in Nat : v = Data(index)
  BY <1>2, DataNat
<1>4. PICK s : s = main' /\ s = Taken(main, v)
  BY <1>1, <1>3
<1>5. PICK d \in 1 .. t : d = dateFrom
  BY <1>2
<1>6. Shape(s)
  BY <1>2, <1>4, ShapeKept
<1>7. /\ s.selected = FALSE /\ (main.at = 7 => s.at = 8)
  <2>1. Goes(main, v, s, Append(main.got, v))
    BY <1>2, <1>4, TakenGoes
  <2>. QED
    BY <2>1 DEF Goes
<1>8. struck = 0 => ReadsRight(main, d) /\ index = PortOf(main)
  BY <1>1, <1>2, <1>5 DEF IInv, MainInv, Undisturbed
<1>9. struck = 1 /\ t = d =>
        \/ index = ModePort /\ Right(main.last, t, t) /\ Right(main.got, t, t)
        \/ index = PortOf(main) /\ OneIsRight(main)
  BY <1>1, <1>2, <1>5 DEF IInv, MainInv, Undisturbed, Disturbed
<1>10. ClockTypes'
  BY <1>1 DEF IInv, ClockTypes
<1>11. TimerInv'
  BY <1>1, TimerRests DEF IInv
<1>12. struck = 0 /\ s.at < 8 => ReadsRight(s, d)
  <2>1. SUFFICES ASSUME struck = 0, s.at < 8 PROVE ReadsRight(s, d)
    OBVIOUS
  <2>2. main.at < 7
    BY <1>2, <1>7, <2>1
  <2>3. main.at \in 1 .. 6 => v = RegisterAt(main.at, t)
    BY <1>2, <1>3, <1>8, <2>1, OwnPort
  <2>. QED
    BY <1>2, <1>4, <1>8, <2>1, <2>2, <2>3, ReadOn
<1>13. struck = 1 /\ t = d /\ s.at < 8 => OneIsRight(s)
  <2>1. SUFFICES ASSUME struck = 1, t = d, s.at < 8 PROVE OneIsRight(s)
    OBVIOUS
  <2>2. main.at < 7
    BY <1>2, <1>7, <2>1
  <2>3. CASE Right(main.last, t, t) /\ Right(main.got, t, t)
    BY <1>2, <1>4, <2>2, <2>3, WrongOnce
  <2>4. CASE index = PortOf(main) /\ OneIsRight(main)
    <3>1. main.at \in 1 .. 6 => v = RegisterAt(main.at, t)
      BY <1>2, <1>3, <2>4, OwnPort
    <3>. QED
      BY <1>2, <1>4, <2>2, <2>4, <3>1, RightOnce
  <2>. QED
    BY <1>9, <2>1, <2>3, <2>4
<1>14. struck = 0 /\ s.at < 8 => ReadsRight(main, dateFrom)'
  <2>1. ReadsRight(s, d) => ReadsRight(s, d)'
    BY <1>1, ClockStands
  <2>. QED
    BY <1>1, <1>4, <1>5, <1>12, <2>1 DEF ReadsRight, Right
<1>15. struck = 1 /\ t = d /\ s.at < 8 => OneIsRight(main)'
  <2>1. OneIsRight(s) => OneIsRight(s)'
    BY <1>1, ClockStands
  <2>. QED
    BY <1>4, <1>13, <2>1 DEF OneIsRight, Right
<1>16. ASSUME main.at = 7, ~(struck >= 2), ~(struck = 1 /\ t > dateFrom)
       PROVE  /\ v = mode
              /\ \E m \in d .. t : \A f \in 1 .. 6 : main.got[f] = RegisterAt(f, m)
  <2>1. struck = 0 \/ (struck = 1 /\ t = d)
    BY <1>2, <1>5, <1>16
  <2>2. index = PortOf(main) => v = mode
    BY <1>2, <1>3, <1>16, OwnPort
  <2>3. index = ModePort => v = mode
    BY <1>2, <1>3, DataIs
  <2>4. CASE struck = 0
    BY <1>8, <1>16, <2>2, <2>4 DEF ReadsRight
  <2>5. CASE struck = 1 /\ t = d
    <3>1. Right(main.got, t, t)
      BY <1>9, <1>16, <2>5 DEF OneIsRight
    <3>2. Len(main.got) = 6 /\ \A a \in t .. t : a = t
      BY <1>2, <1>16 DEF Shape
    <3>3. \A f \in 1 .. 6 : main.got[f] = RegisterAt(f, t)
      BY <3>1, <3>2 DEF Right
    <3>4. t \in d .. t
      BY <1>2
    <3>. QED
      BY <1>9, <2>2, <2>3, <2>5, <3>3, <3>4
  <2>. QED
    BY <2>1, <2>4, <2>5
<1>17. DateWasShown'
  <2>1. CASE main.at # 7 \/ struck >= 2 \/ (struck = 1 /\ t > dateFrom)
    BY <1>1, <1>2, <2>1 DEF DateWasShown
  <2>2. CASE ~(main.at # 7 \/ struck >= 2 \/ (struck = 1 /\ t > dateFrom))
    <3>1. v = mode
      BY <1>16, <2>2
    <3>2. PICK m \in d .. t : \A f \in 1 .. 6 : main.got[f] = RegisterAt(f, m)
      BY <1>16, <2>2
    <3>3. m \in 1 .. Len(shows)
      BY <1>2
    <3>4. date' = <<Shown(Plain(main.got[4], mode)), Shown(Plain(main.got[5], mode)),
                    Shown(PlainYear(main.got[6], mode))>>
      BY <1>1, <1>3, <2>2, <3>1
    <3>5. date' = <<LooksLike(shows[m].day, 0), LooksLike(shows[m].month, 0),
                    LooksLike(shows[m].year, 0)>>
      <4>1. /\ main.got[4] = RegisterAt(4, m) /\ main.got[5] = RegisterAt(5, m)
            /\ main.got[6] = RegisterAt(6, m)
        BY <3>2
      <4>. QED
        BY <1>2, <3>3, <3>4, <4>1, RegisterShown
    <3>. QED
      BY <1>1, <1>5, <3>2, <3>5 DEF DateWasShown
  <2>. QED
    BY <2>1, <2>2
<1>18. MainInv'
  <2>1. Shape(main)' /\ main'.selected = FALSE
    BY <1>4, <1>6, <1>7 DEF Shape
  <2>2. main'.at < 8 => date' = << >>
    BY <1>1, <1>2, <1>4, <1>7
  <2>3. Undisturbed'
    BY <2>1 DEF Undisturbed
  <2>. QED
    BY <1>1, <1>4, <1>5, <1>14, <1>15, <1>17, <2>1, <2>2, <2>3 DEF MainInv
<1>. QED
  BY <1>10, <1>11, <1>18 DEF IInv

\* printTime has read a port.
LEMMA TimerReadsKeeps ==
    ASSUME NeverReturns, IInv, TimerReads
    PROVE  IInv'
<1>1. PICK v : v = Data(PortOf(irq))
  OBVIOUS
<1>2. PICK s : s = Taken(irq, v)
  OBVIOUS
<1>3. /\ irq.at < 8 /\ index' = PortOf(irq)
      /\ irq' = IF s.at = 8 THEN Ended ELSE s
      /\ irq.at # 7 => time' = time
      /\ irq.at = 7 => zeroAs' = literal
      /\ irq.at = 7 =>
           LET g == irq.got IN
           time' = <<Shown(PlainHour(g[3], v)), Shown(Plain(g[2], v)), Shown(Plain(g[1], v))>>
      /\ UNCHANGED <<mode, shows, t, updating, main, date, dateFrom, timeFrom, struck>>
  BY <1>1, <1>2 DEF TimerReads, clock
<1>4. /\ Shape(irq) /\ irq \in Reader /\ irq.at \in 0 .. 7 /\ ReadsRight(irq, timeFrom)
      /\ ClockTypes /\ mode \in Modes /\ shows \in Histories
      /\ t \in Nat /\ t \in 1 .. Len(shows) /\ timeFrom \in 1 .. t
  BY <1>3 DEF IInv, TimerInv, ClockTypes, Shape, Reader
<1>5. /\ v \in Nat /\ (irq.at \in 1 .. 6 => v = RegisterAt(irq.at, t))
      /\ irq.at = 7 => v = mode /\ PortOf(irq) = ModePort
      /\ PortOf(irq) \in {UpdatePort, ModePort} \cup {Ports[f] : f \in 1 .. 6}
  BY <1>1, <1>3, <1>4, OwnPort
<1>6. PICK d \in 1 .. t : d = timeFrom
  BY <1>4
<1>7. Shape(s)
  BY <1>2, <1>3, <1>4, <1>5, ShapeKept
<1>8. s.selected = FALSE /\ (irq.at = 7 <=> s.at = 8)
  <2>1. Goes(irq, v, s, Append(irq.got, v))
    BY <1>2, <1>3, <1>4, <1>5, TakenGoes
  <2>. QED
    BY <1>4, <2>1 DEF Goes
<1>9. ClockTypes'
  BY <1>3, <1>5 DEF IInv, ClockTypes
<1>10. ASSUME irq.at = 7
       PROVE  TimerInv'
  <2>1. irq' = Ended /\ Shape(Ended) /\ Ended.at = 8 /\ ~Ended.selected
    BY <1>3, <1>4, <1>8, <1>10, FreshReader
  <2>2. TimeWasShown'
    <3>1. PICK m \in d .. t : \A f \in 1 .. 6 : irq.got[f] = RegisterAt(f, m)
      BY <1>4, <1>6, <1>10 DEF ReadsRight
    <3>2. m \in 1 .. Len(shows)
      BY <1>4
    <3>3. time' = <<Shown(PlainHour(irq.got[3], mode)), Shown(Plain(irq.got[2], mode)),
                    Shown(Plain(irq.got[1], mode))>>
      BY <1>3, <1>5, <1>10
    <3>4. /\ irq.got[1] = RegisterAt(1, m) /\ irq.got[2] = RegisterAt(2, m)
          /\ irq.got[3] = RegisterAt(3, m)
      BY <3>1
    <3>5. time' = <<HourLooksLike(shows[m].hour, zeroAs'),
                    LooksLike(shows[m].minute, zeroAs'),
                    LooksLike(shows[m].second, zeroAs')>>
      BY <1>3, <1>4, <1>10, <3>2, <3>3, <3>4, RegisterShown
    <3>6. \A h, z : HourLooksLike(h, z)' = HourLooksLike(h, z)
      BY <1>3 DEF HourLooksLike, Hours24
    <3>. QED
      BY <1>3, <1>6, <3>1, <3>5, <3>6 DEF TimeWasShown
  <2>3. TimerInv'
    BY <2>1, <2>2 DEF TimerInv, Shape
  <2>. QED
    BY <2>3
<1>11. ASSUME irq.at # 7
       PROVE  TimerInv'
  <2>1. irq' = s /\ s.at < 8 /\ irq.at < 7
    <3>1. s.at \in 0 .. 8 /\ s.at # 8
      BY <1>7, <1>8, <1>11 DEF Shape, Reader
    <3>. QED
      BY <1>3, <1>4, <1>11, <3>1
  <2>2. ReadsRight(s, d)
    BY <1>2, <1>4, <1>5, <1>6, <2>1, ReadOn
  <2>3. ReadsRight(s, d) => ReadsRight(s, d)'
    BY <1>3, ClockStands
  <2>4. ReadsRight(irq, timeFrom)'
    BY <1>3, <1>6, <2>1, <2>2, <2>3, SMTT(30) DEF ReadsRight, Right
  <2>5. Shape(irq)' /\ ~irq'.selected
    BY <1>7, <1>8, <2>1 DEF Shape
  <2>6. irq'.at # 8
    BY <1>8, <1>11, <2>1
  <2>. QED
    BY <2>4, <2>5, <2>6 DEF TimerInv, TimeWasShown
<1>12. TimerInv' /\ (irq'.at = 8 => index' = ModePort)
  <2>1. irq.at # 7 => irq'.at # 8
    BY <1>3, <1>8
  <2>2. irq.at = 7 => index' = ModePort
    BY <1>3, <1>5
  <2>3. TimerInv'
    BY <1>10, <1>11
  <2>. QED
    BY <2>1, <2>2, <2>3
<1>13. MainInv'
  <2>1. Shape(main)' /\ (main'.selected => main'.at < 8) /\ (main'.at < 8 => date' = << >>)
    BY <1>3 DEF IInv, MainInv, Shape
  <2>2. (Undisturbed => Undisturbed') /\ (Disturbed => Disturbed')
    BY <1>3, <1>12 DEF Undisturbed, Disturbed
  <2>3. PICK r, e : r = main /\ e = dateFrom
    OBVIOUS
  <2>4. /\ ReadsRight(r, e) => ReadsRight(r, e)'
        /\ OneIsRight(r) => OneIsRight(r)'
        /\ Right(r.last, t, t) => Right(r.last, t, t)'
        /\ Right(r.got, t, t) => Right(r.got, t, t)'
    BY <1>3, ClockStands
  <2>5. ReadsRight(main, dateFrom) => ReadsRight(main, dateFrom)'
    BY <1>3, <2>3, <2>4 DEF ReadsRight, Right
  <2>6. /\ OneIsRight(main) => OneIsRight(main)'
        /\ Right(main.last, t, t) => Right(main.last, t, t)'
        /\ Right(main.got, t, t) => Right(main.got, t, t)'
    BY <1>3, <2>3, <2>4 DEF OneIsRight, Right
  <2>7. DateWasShown'
    BY <1>3 DEF IInv, MainInv, DateWasShown
  <2>. QED
    BY <1>3, <2>1, <2>2, <2>5, <2>6, <2>7 DEF IInv, MainInv
<1>. QED
  BY <1>9, <1>12, <1>13 DEF IInv

\* It holds at first.
LEMMA InitInv ==
    Init => IInv
<1>. SUFFICES ASSUME Init PROVE IInv
  OBVIOUS
<1>1. shows \in Seq(Reading) /\ shows # << >>
  BY ClockAssumption DEF Init
<1>2. t = 1 /\ 1 \in 1 .. Len(shows) /\ 1 \in 1 .. 1
  <2>1. Len(shows) \in Nat /\ Len(shows) # 0
    BY <1>1, LenProperties, EmptySeq
  <2>. QED
    BY <2>1 DEF Init
<1>3. ClockTypes
  BY <1>2 DEF Init, ClockTypes
<1>4. /\ Shape(Begins) /\ ReadsRight(Begins, t) /\ Begins.at = 0 /\ ~Begins.selected
      /\ Shape(Ended) /\ Ended.at = 8 /\ ~Ended.selected
  BY <1>2, FreshReader
<1>5. TimerInv
  BY <1>4 DEF Init, TimerInv, TimeWasShown
<1>6. MainInv
  <2>1. ReadsRight(main, dateFrom)
    BY <1>2, <1>4 DEF Init
  <2>. QED
    BY <1>4, <2>1 DEF Init, MainInv, Undisturbed, DateWasShown
<1>. QED
  BY <1>3, <1>5, <1>6 DEF IInv

\* So does every step.
LEMMA StepKeeps ==
    ASSUME NeverReturns, IInv, [Next]_vars
    PROVE  IInv'
<1>1. /\ t \in Nat /\ t \in 1 .. Len(shows) /\ dateFrom \in 1 .. t /\ timeFrom \in 1 .. t
      /\ (updating => t < Len(shows)) /\ updating \in BOOLEAN /\ Len(shows) \in Nat
  BY LenProperties, ClockAssumption DEF IInv, ClockTypes
<1>2. CASE RaiseFlag
  <2>1. ClockTypes'
    BY <1>1, <1>2 DEF RaiseFlag, IInv, ClockTypes
  <2>. QED
    BY <1>1, <1>2, <2>1, ClockKeeps DEF RaiseFlag
<1>3. CASE Tick
  <2>1. t + 1 \in 1 .. Len(shows) /\ dateFrom \in 1 .. t + 1 /\ timeFrom \in 1 .. t + 1
    BY <1>1, <1>3 DEF Tick
  <2>2. ClockTypes'
    BY <1>3, <2>1 DEF Tick, IInv, ClockTypes
  <2>. QED
    BY <1>1, <1>3, <2>2, ClockKeeps DEF Tick
<1>4. CASE UNCHANGED vars
  <2>1. ClockTypes'
    BY <1>4 DEF vars, IInv, ClockTypes
  <2>. QED
    BY <1>4, <2>1, ClockKeeps DEF vars
<1>5. CASE PrintHex
  <2>1. ClockTypes'
    BY <1>5 DEF PrintHex, clock, IInv, ClockTypes
  <2>. QED
    BY <1>5, <2>1, ClockKeeps DEF PrintHex, clock
<1>. QED
  BY <1>2, <1>3, <1>4, <1>5, SelectKeeps, TakeKeeps, InterruptKeeps, TimerReadsKeeps DEF Next

\* The invariant that both theorems follow from.
LEMMA Invariance ==
    ASSUME NeverReturns
    PROVE  Spec => []IInv
<1>1. IInv /\ [Next]_vars => IInv'
  BY StepKeeps
<1>. QED
  BY <1>1, InitInv, PTL DEF Spec
-----------------------------------------------------------------------------

\* The time on the screen is one that the clock showed while printTime read it: the two
\* passes that agree have a moment between them, and whatever a register held both before
\* that moment and after it, it held at that moment (RTC.cpp:52-91).
THEOREM TimeWasShownHolds ==
    ASSUME NeverReturns
    PROVE  Spec => []TimeWasShown
<1>1. IInv => TimeWasShown
  BY DEF IInv, TimerInv
<1>. QED
  BY <1>1, Invariance, PTL

\* So is the date that kernelMain prints, unless the timer's interrupt has come between a
\* Select and its Take twice, or once while the clock went on: one wrong register spoils
\* one pass, and the other, which must agree with it, is right.
THEOREM DateWasShownHolds ==
    ASSUME NeverReturns
    PROVE  Spec => []DateWasShown
<1>1. IInv => DateWasShown
  BY DEF IInv, MainInv
<1>. QED
  BY <1>1, Invariance, PTL
=============================================================================
