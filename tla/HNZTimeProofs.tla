--------------------------- MODULE HNZTimeProofs ---------------------------
(***************************************************************************)
(* Proofs about HNZTime, for any offset, step, delays and lags: the types, *)
(* and the dates of the events.  With modulo_use_utc the date is right as  *)
(* long as the time setting and the event together are on their way for no *)
(* more than a section; the time of day is right without this.             *)
(***************************************************************************)
EXTENDS HNZTime, TLAPS

---------------------------------------------------------------------------
(* Times of the day                                                         *)

\* TimeOfDay and SectionOf, with the offset from UTC.
Offset == IF use_utc THEN 0 ELSE UtcOffset
TimeInDay(o, date) == (date + o) % Day
SectionInDay(o, date) == TimeInDay(o, date) \div Section

MinutesOfDay == 0..1439
Sections == 0..143
Minutes == 0..9

\* A time of day, its section and the minutes in the section.
LEMMA DayFacts ==
  ASSUME NEW x \in Int
  PROVE  /\ x % Day \in MinutesOfDay /\ (x % Day) \div Section \in Sections
         /\ (x % Day) % Section \in Minutes
         /\ (((x % Day) \div Section) * Section) + ((x % Day) % Section) = x % Day
<1>1. x % 1440 \in 0..1439
  OBVIOUS
<1>2. \A m \in 0..1439 : m \div 10 \in 0..143 /\ m = (10 * (m \div 10)) + (m % 10) /\ m % 10 \in 0..9
  OBVIOUS
<1>3. \A d \in 0..143 : 10 * d = d * 10
  OBVIOUS
<1>4. QED
  BY <1>1, <1>2, <1>3 DEF Day, Section, MinutesOfDay, Sections, Minutes

\* A section and the minutes in it.
LEMMA SectionFacts ==
  ASSUME NEW s \in Sections, NEW f \in Minutes
  PROVE  (s * Section) + f \in MinutesOfDay /\ ((s * Section) + f) \div Section = s
BY DEF Section, MinutesOfDay, Sections, Minutes

\* A clock that is set back by what it is ahead of c shows c.
LEMMA ClockIsSet ==
  ASSUME NEW x \in Int, NEW c \in MinutesOfDay
  PROVE  (x - (((x % Day) - c) % Day)) % Day = c
BY DEF Day, MinutesOfDay

\* The difference of two times of day is that of the dates when it is small.
LEMMA SmallDifference ==
  ASSUME NEW x \in Int, NEW y \in Int, y <= x, x - y <= 10
  PROVE  ((x % Day) - (y % Day)) % Day = x - y
BY DEF Day

\* A whole number of days does not change the time of day.
DaysApart(x, y, o, corr) ==
  corr \in {0, Day, -Day} => ((x + corr + ((y + o) % Day)) - ((x + o) % Day) - y) % Day = 0

LEMMA WholeDays ==
  ASSUME NEW x \in Int, NEW y \in Int, NEW o \in Int, NEW corr \in Int
  PROVE  DaysApart(x, y, o, corr)
  BY DEF DaysApart, Day

\* The day of now, corrected around midnight, is the day of a date that is no more
\* than a section away.
CorrectedDay(x, y) ==
  -10 <= x - y /\ x - y <= 10 => ((x - (x % Day)) + DayCorrection(x, (y % Day) \div Section)) + (y % Day) = y

LEMMA DayIsCorrected ==
  ASSUME NEW x \in Int, NEW y \in Int
  PROVE  CorrectedDay(x, y)
<1> DEFINE p == x \div 1440
           q == y \div 1440
           r == x % 1440
           s == y % 1440
           c == DayCorrection(x, s \div 10)
<1>1. p \in Int /\ q \in Int /\ r \in 0..1439 /\ s \in 0..1439 /\ x = 1440 * p + r /\ y = 1440 * q + s
  OBVIOUS
<1>2. /\ s \div 10 = 0 /\ r \div 60 = 23 => c = 1440
      /\ s \div 10 = 143 /\ r \div 60 = 0 => c = -1440
      /\ ~(s \div 10 = 0 /\ r \div 60 = 23) /\ ~(s \div 10 = 143 /\ r \div 60 = 0) => c = 0
  BY DEF DayCorrection, Hours, Day, Hour
<1> HIDE DEF p, q, r, s, c
<1> SUFFICES ASSUME -10 <= x - y, x - y <= 10 PROVE ((x - r) + c) + s = y
  BY DEF CorrectedDay, r, s, c, Day, Section
<1>3. /\ s \div 10 = 0 <=> s < 10
      /\ s \div 10 = 143 <=> 1430 <= s
      /\ r \div 60 = 23 <=> 1380 <= r
      /\ r \div 60 = 0 <=> r < 60
  BY <1>1
<1>4. CASE p = q
  <2>1. ~(s < 10 /\ 1380 <= r) /\ ~(1430 <= s /\ r < 60)
    BY <1>1, <1>4
  <2>2. c = 0
    BY <1>2, <1>3, <2>1
  <2>3. QED
    BY <1>1, <1>4, <2>2
<1>5. CASE p = q + 1
  <2>1. 1430 <= s /\ r < 60
    BY <1>1, <1>5
  <2>2. c = -1440
    BY <1>2, <1>3, <2>1
  <2>3. QED
    BY <1>1, <1>5, <2>2
<1>6. CASE q = p + 1
  <2>1. s < 10 /\ 1380 <= r
    BY <1>1, <1>6
  <2>2. c = 1440
    BY <1>2, <1>3, <2>1
  <2>3. QED
    BY <1>1, <1>6, <2>2
<1>7. p = q \/ p = q + 1 \/ q = p + 1
  BY <1>1
<1>8. QED
  BY <1>4, <1>5, <1>6, <1>7

\* A date is a section of the day and minutes in it.
LEMMA TimeOfDate ==
  ASSUME NEW o \in Int, NEW date \in Int
  PROVE  /\ TimeInDay(o, date) \in MinutesOfDay /\ SectionInDay(o, date) \in Sections
         /\ TimeInDay(o, date) % Section \in Minutes
         /\ (SectionInDay(o, date) * Section) + (TimeInDay(o, date) % Section) = TimeInDay(o, date)
<1> DEFINE d == date + o
<1>1. d \in Int
  OBVIOUS
<1> HIDE DEF d
<1>2. /\ d % Day \in MinutesOfDay /\ (d % Day) \div Section \in Sections /\ (d % Day) % Section \in Minutes
      /\ (((d % Day) \div Section) * Section) + ((d % Day) % Section) = d % Day
  BY Zenon, <1>1, DayFacts
<1>3. QED
  BY Zenon, <1>2 DEF TimeInDay, SectionInDay, d

\* The two ways to write it.
LEMMA TimeOfDayIs ==
  ASSUME NEW date
  PROVE  TimeOfDay(date) = TimeInDay(Offset, date) /\ SectionOf(date) = SectionInDay(Offset, date)
BY DEF TimeOfDay, SectionOf, TimeInDay, SectionInDay, Offset

LEMMA OffsetType ==
  ASSUME use_utc \in BOOLEAN
  PROVE  Offset \in Int /\ (use_utc => Offset = 0)
BY TimeAssumption DEF TimeAssumption, Offset

\* The clock of the RTU when it has got the setting.
LEMMA SettingIsShown ==
  ASSUME NEW o \in Int, NEW d \in Int, NEW s \in Sections, NEW f \in Minutes
  PROVE  LET lag == (TimeInDay(o, d) - (s * Section) - f) % Day
         IN  lag \in Int /\ SectionInDay(o, d - lag) = s
<1> DEFINE x == d + o
           r == x % Day
           c == (s * Section) + f
           lag == (r - c) % Day
<1>1. x \in Int /\ r \in Int
  BY DEF Day
<1>2. c \in MinutesOfDay /\ c \div Section = s
  BY Zenon, SectionFacts
<1>3. r - (s * Section) - f = r - c
  <2> HIDE DEF r
  <2> QED BY <1>1 DEF Section, Sections, Minutes
<1>4. (TimeInDay(o, d) - (s * Section) - f) % Day = lag
  BY Zenon, <1>3 DEF TimeInDay
<1> HIDE DEF c
<1>5. lag \in Int
  <2> HIDE DEF r
  <2> QED BY <1>1, <1>2 DEF Day, MinutesOfDay
<1>6. (x - lag) % Day = c
  <2> HIDE DEF x
  <2> QED BY Zenon, <1>1, <1>2, ClockIsSet
<1> HIDE DEF lag
<1>7. (d - lag) + o = x - lag
  BY <1>5
<1>8. SectionInDay(o, d - lag) = s
  BY Zenon, <1>2, <1>6, <1>7 DEF SectionInDay, TimeInDay
<1>9. QED
  BY Zenon, <1>4, <1>5, <1>8

\* Its lag is the delay of the setting, in UTC.
LEMMA SettingIsLate ==
  ASSUME NEW d \in Int, NEW sent \in Int, sent <= d, d - sent <= 10
  PROVE  (TimeInDay(0, d) - (SectionInDay(0, sent) * Section) - (sent % Section)) % Day = d - sent
<1> DEFINE s == SectionInDay(0, sent)
           f == sent % Section
           r == d % Day
           t == sent % Day
<1>1. TimeInDay(0, d) = r /\ TimeInDay(0, sent) = t
  BY DEF TimeInDay
<1>2. t % Section = f
  BY DEF Day, Section
<1>3. r \in Int /\ t \in Int /\ f \in Int
  BY DEF Day, Section
<1>4. (r - t) % Day = d - sent
  BY SmallDifference
<1>5. s \in Sections /\ (s * Section) + (t % Section) = t
  <2>1. 0 \in Int
    OBVIOUS
  <2>2. QED
    BY Zenon, <1>1, <2>1, TimeOfDate
<1> HIDE DEF r, t, f, s
<1>6. r - (s * Section) - f = r - t
  BY <1>2, <1>3, <1>5 DEF Section, Sections
<1>7. QED
  BY Zenon, <1>1, <1>4, <1>6 DEF s, f

---------------------------------------------------------------------------
(* The sections that the frames announce                                    *)

IsFrame(q, i) == i \in 1..Len(q)
Modulo(q, i) == q[i].type = "MODULO"
Dated(q, i) == q[i].type = "TSCE" /\ q[i].dated
NoModulo(q, i, j) == \A k \in 1..Len(q) : i < k /\ k < j => ~Modulo(q, k)

\* The section that the plugin, whose section is d, will have when it has handled
\* the frames of q before i.
Announced(d, q, i, section) ==
  \/ d = section /\ NoModulo(q, 0, i)
  \/ \E j \in 1..Len(q) : j < i /\ Modulo(q, j) /\ q[j].section = section /\ NoModulo(q, j, i)

\* The section when all are handled.
Last(d, q, section) == Announced(d, q, Len(q) + 1, section)

AfterHead(d, q) == IF Modulo(q, 1) THEN q[1].section ELSE d

LEMMA TailFacts ==
  ASSUME NEW S, NEW q \in Seq(S), q # <<>>
  PROVE  /\ Tail(q) \in Seq(S) /\ Len(q) \in Nat /\ Len(q) >= 1 /\ Len(Tail(q)) = Len(q) - 1
         /\ q[1] = Head(q) /\ q[1] \in S
         /\ \A i \in 1..Len(Tail(q)) : Tail(q)[i] = q[i + 1] /\ i + 1 \in 1..Len(q)
OBVIOUS

LEMMA AppendFacts ==
  ASSUME NEW S, NEW q \in Seq(S), NEW f \in S
  PROVE  /\ Append(q, f) \in Seq(S) /\ Len(q) \in Nat /\ Len(Append(q, f)) = Len(q) + 1
         /\ Append(q, f)[Len(q) + 1] = f
         /\ \A i \in 1..Len(q) : Append(q, f)[i] = q[i]
OBVIOUS

LEMMA AnnouncedAtHead ==
  ASSUME NEW d, NEW q, NEW section, Len(q) \in Nat, Announced(d, q, 1, section)
  PROVE  d = section
BY DEF Announced

LEMMA AnnouncedByTail ==
  ASSUME NEW S, NEW q \in Seq(S), q # <<>>, NEW d, NEW section, NEW i \in Nat, i >= 1,
         Announced(d, q, i + 1, section)
  PROVE  Announced(AfterHead(d, q), Tail(q), i, section)
<1> DEFINE p == Tail(q)
<1>1. /\ Len(q) \in Nat /\ Len(q) >= 1 /\ Len(p) = Len(q) - 1
      /\ \A k \in 1..Len(p) : p[k] = q[k + 1] /\ k + 1 \in 1..Len(q)
  BY TailFacts
<1> HIDE DEF p
<1>2. \A k \in 1..Len(p) : k + 1 \in 1..Len(q) /\ (Modulo(p, k) <=> Modulo(q, k + 1))
  BY <1>1 DEF Modulo
<1>3. ASSUME NEW j \in Nat, NoModulo(q, j + 1, i + 1)
      PROVE  NoModulo(p, j, i)
  BY <1>1, <1>2, <1>3 DEF NoModulo
<1>4. CASE d = section /\ NoModulo(q, 0, i + 1)
  <2>1. ~Modulo(q, 1) /\ NoModulo(q, 0 + 1, i + 1)
    BY <1>1, <1>4 DEF NoModulo
  <2>2. NoModulo(p, 0, i)
    BY <1>3, <2>1
  <2>3. QED
    BY Zenon, <1>4, <2>1, <2>2 DEF Announced, AfterHead, p
<1>5. ASSUME NEW j \in 1..Len(q), j < i + 1, Modulo(q, j), q[j].section = section, NoModulo(q, j, i + 1)
      PROVE  Announced(AfterHead(d, q), p, i, section)
  <2>1. CASE j = 1
    <3>1. NoModulo(q, 0 + 1, i + 1) /\ Modulo(q, 1) /\ q[1].section = section
      BY <1>5, <2>1
    <3>2. NoModulo(p, 0, i)
      BY <1>3, <3>1
    <3>3. QED
      BY Zenon, <3>1, <3>2 DEF Announced, AfterHead
  <2>2. CASE j # 1
    <3> DEFINE k == j - 1
    <3>1. k \in Nat /\ k \in 1..Len(p) /\ k + 1 = j /\ k < i
      BY <1>1, <1>5, <2>2
    <3> HIDE DEF k
    <3>2. NoModulo(p, k, i) /\ Modulo(p, k) /\ p[k].section = section
      BY <1>1, <1>2, <1>3, <1>5, <3>1
    <3>3. QED
      BY Zenon, <3>1, <3>2 DEF Announced
  <2>3. QED
    BY <2>1, <2>2
<1>6. QED
  BY Zenon, <1>4, <1>5 DEF Announced, p

LEMMA AnnouncedWithMore ==
  ASSUME NEW S, NEW q \in Seq(S), NEW f \in S, NEW d, NEW section, NEW i \in 1..(Len(q) + 1),
         Announced(d, q, i, section)
  PROVE  Announced(d, Append(q, f), i, section)
<1> DEFINE p == Append(q, f)
<1>1. Len(q) \in Nat /\ Len(p) = Len(q) + 1 /\ \A k \in 1..Len(q) : p[k] = q[k]
  BY AppendFacts
<1> HIDE DEF p
<1>2. \A k \in 1..Len(q) : k \in 1..Len(p) /\ (Modulo(p, k) <=> Modulo(q, k)) /\ p[k].section = q[k].section
  BY <1>1 DEF Modulo
<1>3. \A j \in Nat : NoModulo(q, j, i) => NoModulo(p, j, i)
  BY <1>1, <1>2 DEF NoModulo
<1>4. \A j \in 1..Len(q) : j \in Nat
  BY <1>1
<1>5. NoModulo(q, 0, i) => NoModulo(p, 0, i)
  BY <1>3
<1>6. QED
  BY Zenon, <1>2, <1>3, <1>4, <1>5 DEF Announced, p

\* What is the last one after a frame is sent.
LEMMA LastIsSent ==
  ASSUME NEW S, NEW q \in Seq(S), NEW f \in S, NEW d, f.type = "MODULO"
  PROVE  Last(d, Append(q, f), f.section)
<1> DEFINE p == Append(q, f)
           l == Len(q) + 1
<1>1. Len(q) \in Nat /\ Len(p) = l /\ p[l] = f
  BY AppendFacts
<1> HIDE DEF p
<1>2. l \in 1..Len(p) /\ l < Len(p) + 1 /\ NoModulo(p, l, Len(p) + 1)
  BY <1>1 DEF NoModulo
<1> HIDE DEF l
<1>3. QED
  BY Zenon, <1>1, <1>2 DEF Last, Announced, Modulo, p

LEMMA LastIsSame ==
  ASSUME NEW S, NEW q \in Seq(S), NEW f \in S, NEW d, NEW section, f.type # "MODULO", Last(d, q, section)
  PROVE  Last(d, Append(q, f), section)
<1> DEFINE p == Append(q, f)
<1>1. /\ Len(q) \in Nat /\ Len(p) = Len(q) + 1 /\ p[Len(q) + 1] = f
      /\ \A k \in 1..Len(q) : p[k] = q[k]
  BY AppendFacts
<1> HIDE DEF p
<1>2. \A k \in 1..Len(q) : /\ k \in 1..Len(p) /\ (Modulo(p, k) <=> Modulo(q, k)) /\ p[k].section = q[k].section
                           /\ k < Len(q) + 1 /\ k < Len(p) + 1 /\ k \in Nat
  BY <1>1 DEF Modulo
<1>3. \A j \in Nat : NoModulo(q, j, Len(q) + 1) => NoModulo(p, j, Len(p) + 1)
  <2>1. ~Modulo(p, Len(q) + 1)
    BY <1>1 DEF Modulo
  <2>2. \A k \in 1..Len(p) : k = Len(q) + 1 \/ k \in 1..Len(q)
    BY <1>1
  <2>3. QED
    BY <1>2, <2>1, <2>2 DEF NoModulo
<1>4. NoModulo(q, 0, Len(q) + 1) => NoModulo(p, 0, Len(p) + 1)
  BY <1>3
<1>5. QED
  BY Zenon, <1>2, <1>3, <1>4 DEF Last, Announced, p

---------------------------------------------------------------------------
(* Types                                                                    *)

LEMMA TypeInit == Init => TypeOK
<1> SUFFICES ASSUME Init PROVE TypeOK
  OBVIOUS
<1>1. use_utc \in BOOLEAN /\ start \in Nat /\ now \in Nat /\ rtu_lag \in Int
  BY TimeAssumption DEF TimeAssumption, Init
<1>2. from_rtu \in Seq(Frames)
  BY DEF Init
<1>3. to_rtu = {} /\ reading = {}
  BY DEF Init
<1>4. m_daySection \in 0..143 /\ link = "down" /\ rtu_set = FALSE /\ crossed = FALSE
  BY DEF Init
<1>5. QED
  BY <1>1, <1>2, <1>3, <1>4 DEF TypeOK

\* The frames by their type.
LEMMA FrameFacts ==
  ASSUME NEW f \in Frames
  PROVE  /\ f.sent \in Nat
         /\ f.type = "MODULO" => f.section \in Sections
         /\ f.type # "MODULO" => f.type = "TSCE" /\ f.ts \in Minutes /\ f.date \in Int /\ f.dated \in BOOLEAN
BY DEF Frames, Sections, Minutes

LEMMA HeadIsFrame ==
  ASSUME TypeOK, from_rtu # <<>>
  PROVE  Head(from_rtu) \in Frames /\ Tail(from_rtu) \in Seq(Frames)
BY DEF TypeOK

LEMMA DatesAreInt ==
  ASSUME TypeOK, NEW date \in Int, NEW section \in Int, NEW ts \in Int
  PROVE  getEpochMsTimestamp(date, section, ts) - RealUtcOffset(date) \in Int
<1>1. date % Day \in Int
  BY DEF Day
<1>2. DayCorrection(date, section) \in Int
  BY DEF DayCorrection, Day
<1>3. section * Section \in Int
  BY DEF Section
<1>4. TimeOfDay(date) \in Int
  BY OffsetType DEF TimeOfDay, Offset, TypeOK, Day
<1> DEFINE m == date % Day
           c == DayCorrection(date, section)
           s == section * Section
           t == TimeOfDay(date)
<1> HIDE DEF m, c, s, t
<1>5. ((((date - m) + c) + s) + ts) - (t - m) \in Int
  BY <1>1, <1>2, <1>3, <1>4 DEF m, c, s, t
<1>6. QED
  BY Zenon, <1>5 DEF getEpochMsTimestamp, RealUtcOffset, m, c, s, t

LEMMA SectionsAreSections ==
  ASSUME TypeOK, NEW date \in Int
  PROVE  SectionOf(date) \in Sections
<1>1. Offset \in Int
  BY OffsetType DEF TypeOK
<1>2. QED
  BY Zenon, <1>1, TimeOfDate, TimeOfDayIs

LEMMA HandleModuloTypes == TypeOK /\ HandleModulo => TypeOK'
<1> SUFFICES ASSUME TypeOK, HandleModulo PROVE TypeOK'
  OBVIOUS
<1>1. Head(from_rtu) \in Frames /\ Head(from_rtu).type = "MODULO" /\ Tail(from_rtu) \in Seq(Frames)
  BY HeadIsFrame DEF HandleModulo
<1>2. m_daySection' \in 0..143 /\ from_rtu' \in Seq(Frames)
  BY <1>1, FrameFacts DEF HandleModulo, Sections
<1>3. QED
  BY <1>2 DEF TypeOK, HandleModulo, rtuVars

LEMMA HandleTSCETypes == TypeOK /\ HandleTSCE => TypeOK'
<1> SUFFICES ASSUME TypeOK, HandleTSCE PROVE TypeOK'
  OBVIOUS
<1> DEFINE f == Head(from_rtu)
           ts == getEpochMsTimestamp(now, m_daySection, f.ts) - RealUtcOffset(now)
<1>1. f \in Frames /\ f.type = "TSCE" /\ Tail(from_rtu) \in Seq(Frames)
  BY HeadIsFrame DEF HandleTSCE
<1>2. f.ts \in Int /\ f.date \in Int /\ f.dated \in BOOLEAN
  BY <1>1, FrameFacts DEF Minutes
<1>3. reading' = {[ts |-> ts, date |-> f.date, dated |-> f.dated]}
  BY DEF HandleTSCE
<1>4. ts \in Int
  <2>1. now \in Int /\ m_daySection \in Int
    BY DEF TypeOK
  <2>2. QED
    BY Zenon, <1>2, <2>1, DatesAreInt
<1> HIDE DEF ts, f
<1>5. reading' \subseteq [ts : Int, date : Int, dated : BOOLEAN]
  BY <1>2, <1>3, <1>4
<1>6. from_rtu' \in Seq(Frames)
  BY <1>1 DEF HandleTSCE
<1>7. QED
  BY <1>5, <1>6 DEF TypeOK, HandleTSCE, rtuVars

LEMMA ConnectInputTypes == TypeOK /\ ConnectInput => TypeOK'
BY DEF TypeOK, ConnectInput, rtuVars

LEMMA SendTimeSettingTypes == TypeOK /\ SendTimeSetting => TypeOK'
<1> SUFFICES ASSUME TypeOK, SendTimeSetting PROVE TypeOK'
  OBVIOUS
<1>1. SectionOf(now) \in 0..143
  <2>1. now \in Int
    BY DEF TypeOK
  <2>2. QED
    BY <2>1, SectionsAreSections DEF Sections
<1>2. now % Section \in 0..9
  BY DEF TypeOK, Section
<1>3. m_daySection' \in 0..143
  BY <1>1 DEF SendTimeSetting, SectionWhenSent
<1>4. to_rtu' \subseteq [section : 0..143, frac : 0..9, sent : Nat]
  BY <1>1, <1>2 DEF SendTimeSetting, TypeOK
<1>5. crossed' \in BOOLEAN
  BY Zenon DEF SendTimeSetting
<1>6. QED
  BY <1>3, <1>4, <1>5 DEF TypeOK, SendTimeSetting, rtuVars

LEMMA DisconnectTypes == TypeOK /\ Disconnect => TypeOK'
<1> SUFFICES ASSUME TypeOK, Disconnect PROVE TypeOK'
  OBVIOUS
<1>1. from_rtu' \in Seq(Frames)
  BY DEF Disconnect
<1>2. QED
  BY <1>1 DEF TypeOK, Disconnect

\* The MODULO of a new section.
LEMMA RTUClockTypes ==
  ASSUME TypeOK, now' \in Nat, NEW date \in Int, NEW date_after \in Int, RTUClock(date, date_after)
  PROVE  from_rtu' \in Seq(Frames) /\ crossed' \in BOOLEAN
<1> DEFINE f == [type |-> "MODULO", section |-> SectionOf(date_after), sent |-> now']
<1>1. SectionOf(date_after) \in 0..143
  BY SectionsAreSections DEF Sections
<1>2. f \in Frames
  BY <1>1 DEF Frames
<1> HIDE DEF f
<1>3. from_rtu' = Append(from_rtu, f) \/ from_rtu' = from_rtu
  BY Zenon DEF RTUClock, f
<1>4. from_rtu' \in Seq(Frames)
  BY <1>2, <1>3 DEF TypeOK
<1>5. crossed' \in BOOLEAN
  BY Zenon DEF RTUClock
<1>6. QED
  BY <1>4, <1>5

LEMMA TickTypes == TypeOK /\ Tick => TypeOK'
<1> SUFFICES ASSUME TypeOK, Tick PROVE TypeOK'
  OBVIOUS
<1>1. now' \in Nat /\ now - rtu_lag \in Int /\ now' - rtu_lag \in Int
  BY SMTT(30), TimeAssumption DEF TimeAssumption, TypeOK, Tick
<1>2. from_rtu' \in Seq(Frames) /\ crossed' \in BOOLEAN
  BY Zenon, <1>1, RTUClockTypes DEF Tick
<1>3. QED
  BY <1>1, <1>2 DEF TypeOK, Tick, rtuVars

LEMMA RTUAdvancesTypes == TypeOK /\ RTUAdvances => TypeOK'
<1> SUFFICES ASSUME TypeOK, RTUAdvances PROVE TypeOK'
  OBVIOUS
<1>1. now' \in Nat /\ rtu_lag' \in Int /\ now - rtu_lag \in Int /\ now - rtu_lag' \in Int
  BY TimeAssumption DEF TimeAssumption, TypeOK, RTUAdvances
<1>2. from_rtu' \in Seq(Frames) /\ crossed' \in BOOLEAN
  BY Zenon, <1>1, RTUClockTypes DEF RTUAdvances
<1>3. QED
  BY <1>1, <1>2 DEF TypeOK, RTUAdvances

\* The clock after a setting.
LEMMA ClockAfterSetting ==
  ASSUME TypeOK, NEW s \in to_rtu
  PROVE  LET lag == (TimeOfDay(now) - s.section * Section - s.frac) % Day
         IN  lag \in Int /\ SectionInDay(Offset, now - lag) = s.section
<1>1. s.section \in Sections /\ s.frac \in Minutes /\ now \in Int /\ Offset \in Int
  BY OffsetType DEF TypeOK, Sections, Minutes
<1>2. TimeOfDay(now) = TimeInDay(Offset, now)
  BY TimeOfDayIs
<1> DEFINE shown == (TimeInDay(Offset, now) - (s.section * Section) - s.frac) % Day
<1>3. shown \in Int /\ SectionInDay(Offset, now - shown) = s.section
  BY ZenonT(30), <1>1, SettingIsShown
<1>4. (TimeOfDay(now) - s.section * Section - s.frac) % Day = shown
  BY Zenon, <1>2
<1> HIDE DEF shown
<1>5. QED
  BY Zenon, <1>3, <1>4

LEMMA RTUReceiveSettingTypes == TypeOK /\ RTUReceiveSetting => TypeOK'
<1> SUFFICES ASSUME TypeOK, RTUReceiveSetting PROVE TypeOK'
  OBVIOUS
<1>1. PICK s \in to_rtu : rtu_lag' = (TimeOfDay(now) - s.section * Section - s.frac) % Day
  BY DEF RTUReceiveSetting
<1>2. rtu_lag' \in Int
  BY Zenon, <1>1, ClockAfterSetting
<1>3. QED
  BY <1>2 DEF TypeOK, RTUReceiveSetting

\* The event that is sent.
Event == [type |-> "TSCE", ts |-> TimeOfDay(now - rtu_lag) % Section, date |-> now - rtu_lag,
          dated |-> rtu_set /\ ~crossed, sent |-> now]

LEMMA EventIsFrame == TypeOK => Event \in Frames
<1> SUFFICES ASSUME TypeOK PROVE Event \in Frames
  OBVIOUS
<1>1. now \in Nat /\ now - rtu_lag \in Int
  BY DEF TypeOK
<1>2. TimeOfDay(now - rtu_lag) % Section \in 0..9
  BY <1>1, OffsetType, TimeOfDate, TimeOfDayIs DEF TypeOK, Minutes
<1> DEFINE b == rtu_set /\ ~crossed
<1>3. b \in BOOLEAN
  BY Zenon
<1> HIDE DEF b
<1>4. QED
  BY <1>1, <1>2, <1>3 DEF Frames, Event, b

LEMMA RTUEventTypes == TypeOK /\ RTUEvent => TypeOK'
<1> SUFFICES ASSUME TypeOK, RTUEvent PROVE TypeOK'
  OBVIOUS
<1>1. from_rtu' = Append(from_rtu, Event)
  BY Zenon DEF RTUEvent, Event
<1>2. from_rtu' \in Seq(Frames)
  BY <1>1, EventIsFrame DEF TypeOK
<1>3. QED
  BY <1>2 DEF TypeOK, RTUEvent, rtuVars

LEMMA StutterTypes == TypeOK /\ UNCHANGED vars => TypeOK'
BY DEF TypeOK, vars, rtuVars

\* Every variable has its type in every state (TypeOK): m_daySection is a
\* section of the day, whatever the messages that give it.
THEOREM TypeCorrectness == Spec => []TypeOK
<1>1. TypeOK /\ [Next]_vars => TypeOK'
  BY HandleModuloTypes, HandleTSCETypes, ConnectInputTypes, SendTimeSettingTypes, DisconnectTypes, TickTypes,
     RTUAdvancesTypes, RTUReceiveSettingTypes, RTUEventTypes, StutterTypes DEF Next
<1>2. QED
  BY TypeInit, <1>1, PTL DEF Spec

---------------------------------------------------------------------------
(* The invariant                                                            *)

\* The section that the plugin will have when it handles a dated event is the one
\* of its date.
DatedFrame(o, d, q, i) ==
  Announced(d, q, i, SectionInDay(o, q[i].date)) /\ q[i].ts = TimeInDay(o, q[i].date) % Section
DatedFrames(o, d, q) == \A i \in 1..Len(q) : Dated(q, i) => DatedFrame(o, d, q, i)

\* So is the one that it will have in the end that of the clock of the RTU.
SectionsAgree ==
  /\ rtu_set /\ ~crossed => Last(m_daySection, from_rtu, SectionInDay(Offset, now - rtu_lag))
  /\ DatedFrames(Offset, m_daySection, from_rtu)

NoModulos(q) == \A i \in 1..Len(q) : ~Modulo(q, i)
NoDates(q) == \A i \in 1..Len(q) : ~Dated(q, i)

\* One time setting for a connection; it gives the section of the plugin.
SettingIsAlone ==
  /\ rtu_set => to_rtu = {}
  /\ ~rtu_set => NoDates(from_rtu)
  /\ link # "up" => ~rtu_set /\ to_rtu = {}
  /\ ~crossed => \A s \in to_rtu : s.section = m_daySection /\ NoModulos(from_rtu)

Fresh(sent, t) == sent <= t /\ t - sent <= MaxDelay
Near(lag) == -MaxAdvance <= lag /\ lag <= MaxDelay

FreshFrames(q, t) == \A i \in 1..Len(q) : Fresh(q[i].sent, t)
NearFrames(q) == \A i \in 1..Len(q) : Dated(q, i) => Near(q[i].sent - q[i].date)

DelaysBounded ==
  /\ \A s \in to_rtu : Fresh(s.sent, now) /\ s.frac = s.sent % Section /\ s.section = SectionInDay(Offset, s.sent)
  /\ FreshFrames(from_rtu, now)
  /\ use_utc => (rtu_set => Near(rtu_lag)) /\ NearFrames(from_rtu)

TimeInv == use_utc \in UseUtc /\ SectionsAgree /\ SettingIsAlone /\ DelaysBounded /\ DateIsRight

\* With modulo_use_utc, an event may be handled a section late with all delays,
\* and the clock of the RTU be a section fast.
DelaysAssumption == TRUE \in UseUtc => 2 * MaxDelay <= Section /\ MaxAdvance <= Section

LEMMA TimeInit == Init => TimeInv
<1> SUFFICES ASSUME Init PROVE TimeInv
  OBVIOUS
<1>1. SectionsAgree
  BY DEF Init, SectionsAgree, DatedFrames
<1>2. SettingIsAlone
  BY DEF Init, SettingIsAlone, NoDates
<1>3. DelaysBounded
  BY DEF Init, DelaysBounded, FreshFrames, NearFrames
<1>4. QED
  BY <1>1, <1>2, <1>3 DEF Init, TimeInv, DateIsRight

LEMMA DatedByTail ==
  ASSUME NEW q \in Seq(Frames), q # <<>>, NEW o, NEW d, DatedFrames(o, d, q)
  PROVE  DatedFrames(o, AfterHead(d, q), Tail(q))
<1> DEFINE p == Tail(q)
<1>1. Len(q) \in Nat /\ \A k \in 1..Len(p) : p[k] = q[k + 1] /\ k + 1 \in 1..Len(q)
  BY TailFacts
<1>2. SUFFICES ASSUME NEW i \in 1..Len(p), Dated(p, i)
               PROVE  DatedFrame(o, AfterHead(d, q), p, i)
  BY Zenon DEF DatedFrames
<1>3. i + 1 \in 1..Len(q) /\ p[i] = q[i + 1] /\ i \in Nat /\ i >= 1
  <2>1. Len(p) \in Nat
    BY TailFacts
  <2> HIDE DEF p
  <2>2. QED
    BY <1>1, <1>2, <2>1
<1>4. DatedFrame(o, d, q, i + 1)
  BY Zenon, <1>2, <1>3 DEF DatedFrames, Dated
<1> DEFINE section == SectionInDay(o, q[i + 1].date)
<1>5. Announced(d, q, i + 1, section)
  BY Zenon, <1>4 DEF DatedFrame
<1> HIDE DEF section
<1>6. Announced(AfterHead(d, q), p, i, section)
  BY Zenon, <1>3, <1>5, AnnouncedByTail
<1> HIDE DEF p
<1>7. QED
  BY Zenon, <1>3, <1>4, <1>6 DEF DatedFrame, section

LEMMA DatedWithMore ==
  ASSUME NEW q \in Seq(Frames), NEW f \in Frames, NEW o, NEW d, DatedFrames(o, d, q),
         f.type = "TSCE" /\ f.dated => Last(d, q, SectionInDay(o, f.date)) /\ f.ts = TimeInDay(o, f.date) % Section
  PROVE  DatedFrames(o, d, Append(q, f))
<1> DEFINE p == Append(q, f)
           n == Len(q) + 1
<1>1. /\ Len(q) \in Nat /\ Len(p) = n /\ p[n] = f
      /\ \A k \in 1..Len(q) : p[k] = q[k]
  BY AppendFacts
<1>2. SUFFICES ASSUME NEW i \in 1..Len(p), Dated(p, i)
               PROVE  DatedFrame(o, d, p, i)
  BY Zenon DEF DatedFrames
<1> HIDE DEF p
<1>3. CASE i \in 1..Len(q)
  <2>1. p[i] = q[i] /\ i \in 1..(Len(q) + 1)
    BY <1>1, <1>3
  <2>2. DatedFrame(o, d, q, i)
    BY Zenon, <1>2, <1>3, <2>1 DEF DatedFrames, Dated
  <2> DEFINE section == SectionInDay(o, q[i].date)
  <2>3. Announced(d, q, i, section)
    BY Zenon, <2>2 DEF DatedFrame
  <2> HIDE DEF section
  <2>4. Announced(d, p, i, section)
    BY Zenon, <2>1, <2>3, AnnouncedWithMore DEF p
  <2>5. QED
    BY Zenon, <2>1, <2>2, <2>4 DEF DatedFrame, section
<1>4. CASE i = n
  <2>1. p[i] = f /\ n \in 1..(Len(q) + 1)
    BY <1>1, <1>4
  <2> DEFINE section == SectionInDay(o, f.date)
  <2>2. Announced(d, q, n, section) /\ f.ts = TimeInDay(o, f.date) % Section
    BY Zenon, <1>2, <2>1 DEF Last, Dated
  <2> HIDE DEF section, n
  <2>3. Announced(d, p, n, section)
    BY Zenon, <2>1, <2>2, AnnouncedWithMore DEF p
  <2>4. QED
    BY Zenon, <1>4, <2>1, <2>2, <2>3 DEF DatedFrame, section
<1>5. QED
  BY <1>1, <1>3, <1>4

---------------------------------------------------------------------------
(* The plugin handles a frame                                               *)

LEMMA HandledSections ==
  ASSUME TypeOK, TimeInv, from_rtu # <<>>, from_rtu' = Tail(from_rtu),
         m_daySection' = AfterHead(m_daySection, from_rtu),
         UNCHANGED <<use_utc, now, rtu_lag, rtu_set, crossed>>
  PROVE  SectionsAgree'
<1>1. from_rtu \in Seq(Frames)
  BY DEF TypeOK
<1>2. Offset' = Offset
  BY DEF Offset
<1>3. DatedFrames(Offset, m_daySection', from_rtu')
  BY Zenon, <1>1, DatedByTail DEF TimeInv, SectionsAgree
<1> DEFINE section == SectionInDay(Offset, now - rtu_lag)
<1>4. ASSUME rtu_set, ~crossed
      PROVE  Last(m_daySection', from_rtu', section)
  <2>1. Last(m_daySection, from_rtu, section)
    BY Zenon, <1>4 DEF TimeInv, SectionsAgree
  <2> HIDE DEF section
  <2>2. Len(from_rtu) \in Nat /\ Len(from_rtu) >= 1 /\ Len(from_rtu') = Len(from_rtu) - 1
    BY <1>1, TailFacts
  <2> DEFINE i == Len(from_rtu)
  <2>3. Announced(m_daySection, from_rtu, i + 1, section) /\ i = Len(from_rtu') + 1
    BY <2>1, <2>2 DEF Last
  <2>4. Announced(m_daySection', from_rtu', i, section)
    BY Zenon, <1>1, <2>2, <2>3, AnnouncedByTail
  <2>5. QED
    BY Zenon, <2>3, <2>4 DEF Last
<1>5. SectionInDay(Offset, now - rtu_lag)' = section
  BY <1>2 DEF SectionInDay, TimeInDay, Day, Section
<1>6. QED
  BY Zenon, <1>2, <1>3, <1>4, <1>5 DEF SectionsAgree

LEMMA HandledDelays ==
  ASSUME TypeOK, TimeInv, from_rtu # <<>>, from_rtu' = Tail(from_rtu),
         UNCHANGED <<use_utc, now, link, to_rtu, rtu_lag, rtu_set>>
  PROVE  DelaysBounded' /\ (NoDates(from_rtu) => NoDates(from_rtu)') /\ (NoModulos(from_rtu) => NoModulos(from_rtu)')
<1>1. /\ Len(from_rtu) \in Nat
      /\ \A i \in 1..Len(from_rtu') : from_rtu'[i] = from_rtu[i + 1] /\ i + 1 \in 1..Len(from_rtu)
  BY TailFacts DEF TypeOK
<1>2. Offset' = Offset
  BY DEF Offset
<1>3. FreshFrames(from_rtu, now)'
  BY <1>1 DEF TimeInv, DelaysBounded, FreshFrames, Fresh
<1>4. NearFrames(from_rtu) => NearFrames(from_rtu)'
  BY Zenon, <1>1 DEF NearFrames, Near, Dated
<1>5. \A s \in to_rtu' : Fresh(s.sent, now') /\ s.frac = s.sent % Section /\ s.section = SectionInDay(Offset', s.sent)
  BY Zenon, <1>2 DEF TimeInv, DelaysBounded
<1>6. DelaysBounded'
  BY Zenon, <1>3, <1>4, <1>5 DEF TimeInv, DelaysBounded, Near
<1>7. NoDates(from_rtu) => NoDates(from_rtu)'
  BY Zenon, <1>1 DEF NoDates, Dated
<1>8. NoModulos(from_rtu) => NoModulos(from_rtu)'
  BY Zenon, <1>1 DEF NoModulos, Modulo
<1>9. QED
  BY <1>6, <1>7, <1>8

LEMMA HandleModuloKeeps == TypeOK /\ TimeInv /\ HandleModulo => TimeInv'
<1> SUFFICES ASSUME TypeOK, TimeInv, HandleModulo PROVE TimeInv'
  OBVIOUS
<1>1. /\ from_rtu # <<>> /\ from_rtu' = Tail(from_rtu) /\ reading' = {}
      /\ UNCHANGED <<use_utc, now, link, to_rtu, rtu_lag, rtu_set, crossed>>
  BY DEF HandleModulo, rtuVars
<1>2. Modulo(from_rtu, 1) /\ 1 \in 1..Len(from_rtu) /\ m_daySection' = AfterHead(m_daySection, from_rtu)
  BY TailFacts DEF HandleModulo, TypeOK, Modulo, AfterHead
<1>3. SectionsAgree'
  BY <1>1, <1>2, HandledSections
<1>4. DelaysBounded' /\ (NoDates(from_rtu) => NoDates(from_rtu)')
  BY <1>1, HandledDelays
<1>5. ~NoModulos(from_rtu)
  BY Zenon, <1>2 DEF NoModulos
<1>6. SettingIsAlone'
  BY Zenon, <1>1, <1>4, <1>5 DEF TimeInv, SettingIsAlone
<1>7. QED
  BY <1>1, <1>3, <1>4, <1>6 DEF TimeInv, DateIsRight

\* The date of a reading is that of its event.
RightDate(utc, ts, date) == IF utc THEN ts = date ELSE (ts - date) % Day = 0

LEMMA DayIsAdded ==
  ASSUME NEW date, NEW section
  PROVE  DayCorrection(date, section) \in {0, Day, -Day}
BY DEF DayCorrection, Day

LEMMA DateOfReading ==
  ASSUME DelaysAssumption, TypeOK, TimeInv, NEW date \in Int, NEW ts \in Int,
         m_daySection = SectionInDay(Offset, date), ts = TimeInDay(Offset, date) % Section,
         use_utc => now - date <= 2 * MaxDelay /\ date - now <= MaxAdvance
  PROVE  RightDate(use_utc, getEpochMsTimestamp(now, m_daySection, ts) - RealUtcOffset(now), date)
<1> DEFINE r == now % Day
           c == DayCorrection(now, m_daySection)
           m == m_daySection * Section
           t == TimeInDay(Offset, now)
           u == TimeInDay(Offset, date)
           e == getEpochMsTimestamp(now, m_daySection, ts) - RealUtcOffset(now)
<1>1. now \in Int /\ m_daySection \in Int /\ use_utc \in BOOLEAN /\ Offset \in Int /\ (use_utc => Offset = 0)
  BY OffsetType DEF TypeOK
<1>2. r \in Int
  BY <1>1 DEF Day
<1>3. c \in Int /\ c \in {0, Day, -Day}
  <2>1. c \in {0, Day, -Day}
    BY Zenon, DayIsAdded
  <2> HIDE DEF c
  <2>2. QED
    BY <2>1 DEF Day
<1>4. m \in Int
  BY <1>1 DEF Section
<1>5. t \in Int /\ u \in Int
  <2>1. t \in MinutesOfDay /\ u \in MinutesOfDay
    BY Zenon, <1>1, TimeOfDate
  <2> HIDE DEF t, u
  <2>2. QED
    BY <2>1 DEF MinutesOfDay
<1>6. m + ts = u
  <2>1. (SectionInDay(Offset, date) * Section) + (TimeInDay(Offset, date) % Section) = TimeInDay(Offset, date)
    BY Zenon, <1>1, TimeOfDate
  <2>2. QED
    BY Zenon, <2>1
<1>7. TimeOfDay(now) = t
  BY TimeOfDayIs
<1>8. e = ((((now - r) + c) + m) + ts) - (t - r)
  BY Zenon, <1>7 DEF getEpochMsTimestamp, RealUtcOffset
<1>9. CASE use_utc
  <2>1. -10 <= now - date /\ now - date <= 10
    <3>1. TRUE \in UseUtc
      BY <1>9 DEF TimeInv
    <3>2. MaxDelay \in Nat /\ MaxAdvance \in Nat
      BY TimeAssumption DEF TimeAssumption
    <3>3. QED
      BY <1>1, <1>9, <3>1, <3>2 DEF DelaysAssumption, Section
  <2>2. ((now - r) + DayCorrection(now, (date % Day) \div Section)) + (date % Day) = date
    BY Zenon, <1>1, <2>1, DayIsCorrected DEF CorrectedDay
  <2>3. now + 0 = now /\ date + 0 = date
    BY <1>1
  <2>4. t = r /\ u = date % Day
    BY Zenon, <1>1, <1>9, <2>3 DEF TimeInDay
  <2>5. m_daySection = (date % Day) \div Section
    BY Zenon, <2>4 DEF SectionInDay
  <2>6. ((now - r) + c) + u = date
    BY Zenon, <2>2, <2>4, <2>5
  <2> HIDE DEF r, c, m, t, u, e
  <2>7. e = date
    BY <1>1, <1>2, <1>3, <1>4, <1>5, <1>6, <1>8, <2>4, <2>6
  <2>8. QED
    BY Zenon, <1>9, <2>7 DEF RightDate, e
<1>10. CASE ~use_utc
  <2> HIDE DEF r, c, m, e
  <2>1. ((now + c + u) - t - date) % Day = 0
    <3>1. DaysApart(now, date, Offset, c)
      BY Zenon, <1>1, <1>3, WholeDays
    <3>2. ((now + c + ((date + Offset) % Day)) - ((now + Offset) % Day) - date) % Day = 0
      BY Zenon, <1>3, <3>1 DEF DaysApart
    <3>3. QED
      BY Zenon, <3>2 DEF TimeInDay
  <2> HIDE DEF t, u
  <2>2. e - date = (now + c + u) - t - date
    BY <1>1, <1>2, <1>3, <1>4, <1>5, <1>6, <1>8
  <2>3. QED
    BY Zenon, <1>10, <2>1, <2>2 DEF RightDate, e
<1>11. QED
  BY Zenon, <1>1, <1>9, <1>10

LEMMA HandleTSCEKeeps == DelaysAssumption /\ TypeOK /\ TimeInv /\ HandleTSCE => TimeInv'
<1> SUFFICES ASSUME DelaysAssumption, TypeOK, TimeInv, HandleTSCE PROVE TimeInv'
  OBVIOUS
<1>1. /\ from_rtu # <<>> /\ from_rtu' = Tail(from_rtu)
      /\ UNCHANGED <<use_utc, now, m_daySection, link, to_rtu, rtu_lag, rtu_set, crossed>>
  BY DEF HandleTSCE, rtuVars
<1> DEFINE f == from_rtu[1]
           ts == getEpochMsTimestamp(now, m_daySection, f.ts) - RealUtcOffset(now)
<1>2. /\ 1 \in 1..Len(from_rtu) /\ f = Head(from_rtu) /\ f \in Frames /\ f.type = "TSCE"
      /\ m_daySection' = AfterHead(m_daySection, from_rtu)
  BY TailFacts DEF HandleTSCE, TypeOK, Modulo, AfterHead
<1>3. reading' = {[ts |-> ts, date |-> f.date, dated |-> f.dated]}
  BY Zenon, <1>2 DEF HandleTSCE
<1>4. SectionsAgree'
  BY <1>1, <1>2, HandledSections
<1>5. /\ DelaysBounded' /\ (NoDates(from_rtu) => NoDates(from_rtu)')
      /\ (NoModulos(from_rtu) => NoModulos(from_rtu)')
  BY <1>1, HandledDelays
<1>6. SettingIsAlone'
  BY Zenon, <1>1, <1>5 DEF TimeInv, SettingIsAlone
<1>7. ASSUME f.dated
      PROVE  RightDate(use_utc, ts, f.date)
  <2>1. f.sent \in Nat /\ f.ts \in Int /\ f.date \in Int
    BY <1>2, FrameFacts DEF Minutes
  <2>2. Dated(from_rtu, 1)
    BY <1>2, <1>7 DEF Dated
  <2>3. /\ Announced(m_daySection, from_rtu, 1, SectionInDay(Offset, f.date))
        /\ f.ts = TimeInDay(Offset, f.date) % Section
    BY Zenon, <1>2, <2>2 DEF TimeInv, SectionsAgree, DatedFrames, DatedFrame
  <2>4. Len(from_rtu) \in Nat
    BY DEF TypeOK
  <2>5. m_daySection = SectionInDay(Offset, f.date)
    <3> DEFINE section == SectionInDay(Offset, f.date)
    <3>1. Announced(m_daySection, from_rtu, 1, section)
      BY Zenon, <2>3
    <3> HIDE DEF section
    <3>2. m_daySection = section
      BY Zenon, <2>4, <3>1, AnnouncedAtHead
    <3>3. QED
      BY Zenon, <3>2 DEF section
  <2>6. Fresh(f.sent, now) /\ (use_utc => Near(f.sent - f.date))
    BY Zenon, <1>2, <2>2 DEF TimeInv, DelaysBounded, FreshFrames, NearFrames
  <2> HIDE DEF f
  <2>7. use_utc => now - f.date <= 2 * MaxDelay /\ f.date - now <= MaxAdvance
    <3>1. MaxDelay \in Nat /\ MaxAdvance \in Nat /\ now \in Nat
      BY TimeAssumption DEF TimeAssumption, TypeOK
    <3>2. QED
      BY <2>1, <2>6, <3>1 DEF Fresh, Near
  <2>8. QED
    BY Zenon, <2>1, <2>3, <2>5, <2>7, DateOfReading
<1> HIDE DEF f, ts
<1>8. DateIsRight'
  <2>1. \A r \in reading' : r.ts = ts /\ r.date = f.date /\ r.dated = f.dated
    BY <1>3
  <2>2. use_utc' = use_utc
    BY <1>1
  <2>3. QED
    BY Zenon, <1>7, <2>1, <2>2 DEF DateIsRight, RightDate
<1>9. QED
  BY <1>1, <1>4, <1>5, <1>6, <1>8 DEF TimeInv

---------------------------------------------------------------------------
(* The connection                                                           *)

LEMMA NoReading ==
  ASSUME reading' = {}
  PROVE  DateIsRight'
BY DEF DateIsRight

LEMMA ConnectInputKeeps == TypeOK /\ TimeInv /\ ConnectInput => TimeInv'
<1> SUFFICES ASSUME TypeOK, TimeInv, ConnectInput PROVE TimeInv'
  OBVIOUS
<1>1. /\ link # "up" /\ DateIsRight'
      /\ UNCHANGED <<use_utc, now, m_daySection, to_rtu, from_rtu, rtu_lag, rtu_set, crossed>>
  BY NoReading DEF ConnectInput, rtuVars
<1>2. Offset' = Offset
  BY <1>1 DEF Offset
<1>3. SectionsAgree'
  BY Zenon, <1>1, <1>2 DEF TimeInv, SectionsAgree, SectionInDay, TimeInDay
<1>4. SettingIsAlone'
  BY Zenon, <1>1 DEF TimeInv, SettingIsAlone, NoDates, NoModulos
<1>5. DelaysBounded'
  BY Zenon, <1>1, <1>2 DEF TimeInv, DelaysBounded, FreshFrames, NearFrames
<1>6. QED
  BY <1>1, <1>3, <1>4, <1>5 DEF TimeInv

LEMMA SendTimeSettingKeeps == TypeOK /\ TimeInv /\ SendTimeSetting => TimeInv'
<1> SUFFICES ASSUME TypeOK, TimeInv, SendTimeSetting PROVE TimeInv'
  OBVIOUS
<1> DEFINE setting == [section |-> SectionOf(now), frac |-> now % Section, sent |-> now]
<1>1. /\ to_rtu' = {setting} /\ m_daySection' = SectionOf(now) /\ link' = "up"
      /\ crossed' = (\E i \in DOMAIN from_rtu : IsModulo(from_rtu[i]))
  BY Zenon DEF SendTimeSetting, SectionWhenSent
<1>2. DateIsRight' /\ UNCHANGED <<use_utc, now, from_rtu, rtu_lag, rtu_set>>
  BY NoReading DEF SendTimeSetting, rtuVars
<1>3. ~rtu_set /\ NoDates(from_rtu)
  BY DEF SendTimeSetting, TimeInv, SettingIsAlone
<1>4. Offset' = Offset
  BY <1>2 DEF Offset
<1>5. \A s \in to_rtu' : s.section = SectionOf(now) /\ s.frac = now % Section /\ s.sent = now
  BY <1>1
<1>6. DatedFrames(Offset', m_daySection', from_rtu')
  BY Zenon, <1>2, <1>3 DEF DatedFrames, NoDates
<1>7. SectionsAgree'
  BY Zenon, <1>2, <1>3, <1>6 DEF SectionsAgree
<1>8. ~crossed' => NoModulos(from_rtu)'
  <2>1. DOMAIN from_rtu = 1..Len(from_rtu)
    BY DEF TypeOK
  <2>2. QED
    BY Zenon, <1>1, <1>2, <2>1 DEF NoModulos, Modulo, IsModulo
<1>9. SettingIsAlone'
  <2>1. NoDates(from_rtu)' /\ ~rtu_set' /\ link' = "up"
    BY Zenon, <1>1, <1>2, <1>3 DEF NoDates
  <2>2. \A s \in to_rtu' : s.section = m_daySection'
    BY Zenon, <1>1, <1>5
  <2>3. QED
    BY Zenon, <1>8, <2>1, <2>2 DEF SettingIsAlone
<1>10. DelaysBounded'
  <2>1. Fresh(now, now)
    BY TimeAssumption DEF TimeAssumption, Fresh, TypeOK
  <2>2. \A s \in to_rtu' : Fresh(s.sent, now) /\ s.frac = s.sent % Section /\ s.section = SectionInDay(Offset, s.sent)
    BY Zenon, <1>5, <2>1, TimeOfDayIs
  <2>3. QED
    BY Zenon, <1>2, <1>3, <1>4, <2>2 DEF TimeInv, DelaysBounded, FreshFrames, NearFrames
<1>11. QED
  BY <1>2, <1>7, <1>9, <1>10 DEF TimeInv

LEMMA DisconnectKeeps == TypeOK /\ TimeInv /\ Disconnect => TimeInv'
<1> SUFFICES ASSUME TypeOK, TimeInv, Disconnect PROVE TimeInv'
  OBVIOUS
<1>1. /\ to_rtu' = {} /\ from_rtu' = <<>> /\ rtu_set' = FALSE /\ UNCHANGED <<use_utc, now>> /\ DateIsRight'
  BY NoReading DEF Disconnect
<1>2. 1..Len(from_rtu') = {}
  BY <1>1
<1>3. /\ NoDates(from_rtu)' /\ DatedFrames(Offset', m_daySection', from_rtu')
      /\ FreshFrames(from_rtu, now)' /\ NearFrames(from_rtu)'
  BY Zenon, <1>2 DEF NoDates, DatedFrames, FreshFrames, NearFrames
<1>4. SectionsAgree' /\ SettingIsAlone' /\ DelaysBounded'
  BY Zenon, <1>1, <1>3 DEF SectionsAgree, SettingIsAlone, DelaysBounded
<1>5. QED
  BY <1>1, <1>4 DEF TimeInv

---------------------------------------------------------------------------
(* Time and the RTU                                                         *)

\* A MODULO is sent when the section of the clock changes.
LEMMA ClockKeeps ==
  ASSUME TypeOK, TimeInv, NEW date_after \in Int, now' \in Nat, date_after = now' - rtu_lag',
         RTUClock(now - rtu_lag, date_after),
         UNCHANGED <<use_utc, m_daySection, link, to_rtu, rtu_set>>
  PROVE  SectionsAgree' /\ SettingIsAlone'
<1> DEFINE d == m_daySection
           q == from_rtu
           before == SectionInDay(Offset, now - rtu_lag)
           after == SectionInDay(Offset, date_after)
           f == [type |-> "MODULO", section |-> after, sent |-> now']
           changes == link # "down" /\ before # after
<1>1. q \in Seq(Frames) /\ Offset' = Offset
  BY DEF TypeOK, Offset
<1>2. SectionOf(now - rtu_lag) = before /\ SectionOf(date_after) = after
  BY Zenon, TimeOfDayIs
<1>3. /\ from_rtu' = IF changes THEN Append(q, f) ELSE q
      /\ crossed' = ((crossed /\ ~(changes /\ rtu_set)) \/ (changes /\ to_rtu # {}))
  BY Zenon, <1>2 DEF RTUClock
<1>4. /\ rtu_set /\ ~crossed => Last(d, q, before)
      /\ DatedFrames(Offset, d, q)
      /\ rtu_set => to_rtu = {} /\ link = "up"
  BY Zenon DEF TimeInv, SectionsAgree, SettingIsAlone
<1>5. SectionInDay(Offset, now - rtu_lag)' = after
  BY Zenon, <1>1 DEF SectionInDay, TimeInDay
<1>6. after \in 0..143
  <2>1. Offset \in Int
    BY OffsetType DEF TypeOK
  <2> HIDE DEF after
  <2>2. after \in Sections
    BY Zenon, <2>1, TimeOfDate DEF after
  <2>3. QED
    BY <2>2 DEF Sections
<1> HIDE DEF before, after
<1>7. CASE changes
  <2>1. f \in Frames /\ f.type = "MODULO" /\ f.section = after
    BY <1>6 DEF Frames
  <2>2. from_rtu' = Append(q, f)
    BY Zenon, <1>3, <1>7
  <2>3. crossed' = ((crossed /\ ~rtu_set) \/ to_rtu # {})
    BY Zenon, <1>3, <1>7
  <2> HIDE DEF f, changes
  <2>4. Last(d, from_rtu', after)
    BY Zenon, <1>1, <2>1, <2>2, LastIsSent
  <2>5. DatedFrames(Offset, d, from_rtu')
    <3>1. f.type # "TSCE"
      BY <2>1
    <3>2. QED
      BY Zenon, <1>1, <1>4, <2>1, <2>2, <3>1, DatedWithMore
  <2>6. SectionsAgree'
    BY Zenon, <1>1, <1>5, <2>4, <2>5 DEF SectionsAgree
  <2>7. ~rtu_set => NoDates(from_rtu)'
    <3>1. /\ Len(q) \in Nat /\ Len(from_rtu') = Len(q) + 1 /\ from_rtu'[Len(q) + 1] = f
          /\ \A k \in 1..Len(q) : from_rtu'[k] = q[k]
      BY <1>1, <2>1, <2>2, AppendFacts
    <3>2. \A i \in 1..Len(from_rtu') : i \in 1..Len(q) \/ i = Len(q) + 1
      BY <3>1
    <3>3. ~rtu_set => NoDates(from_rtu)
      BY Zenon DEF TimeInv, SettingIsAlone
    <3>4. f.type # "TSCE"
      BY <2>1
    <3>5. QED
      BY Zenon, <3>1, <3>2, <3>3, <3>4 DEF NoDates, Dated
  <2>8. SettingIsAlone'
    BY Zenon, <2>3, <2>7 DEF TimeInv, SettingIsAlone
  <2>9. QED
    BY <2>6, <2>8
<1>8. CASE ~changes
  <2>1. from_rtu' = from_rtu /\ crossed' = crossed
    <3>1. crossed \in BOOLEAN
      BY DEF TypeOK
    <3>2. QED
      BY Zenon, <1>3, <1>8, <3>1
  <2>2. rtu_set => before = after
    BY <1>4, <1>8
  <2> HIDE DEF changes
  <2>3. SectionsAgree'
    BY Zenon, <1>1, <1>4, <1>5, <2>1, <2>2 DEF SectionsAgree
  <2>4. SettingIsAlone'
    BY Zenon, <2>1 DEF TimeInv, SettingIsAlone, NoDates, NoModulos
  <2>5. QED
    BY <2>3, <2>4
<1>9. QED
  BY Zenon, <1>7, <1>8

LEMMA ClockDelays ==
  ASSUME TypeOK, TimeInv, now' \in Nat, NEW date, NEW date_after, RTUClock(date, date_after),
         \A i \in 1..Len(from_rtu) : Fresh(from_rtu[i].sent, now')
  PROVE  FreshFrames(from_rtu, now)' /\ (use_utc => NearFrames(from_rtu)')
<1> DEFINE f == [type |-> "MODULO", section |-> SectionOf(date_after), sent |-> now']
<1>1. from_rtu' = Append(from_rtu, f) \/ from_rtu' = from_rtu
  BY Zenon DEF RTUClock
<1>2. f.type = "MODULO" /\ f.sent = now'
  OBVIOUS
<1> HIDE DEF f
<1>3. use_utc => NearFrames(from_rtu)
  BY Zenon DEF TimeInv, DelaysBounded
<1>4. CASE from_rtu' = Append(from_rtu, f)
  <2>1. /\ Len(from_rtu) \in Nat /\ Len(from_rtu') = Len(from_rtu) + 1 /\ from_rtu'[Len(from_rtu) + 1] = f
        /\ \A k \in 1..Len(from_rtu) : from_rtu'[k] = from_rtu[k]
    BY <1>4 DEF TypeOK
  <2>2. \A i \in 1..Len(from_rtu') : i \in 1..Len(from_rtu) \/ i = Len(from_rtu) + 1
    BY <2>1
  <2>3. Fresh(f.sent, now') /\ f.type # "TSCE"
    BY <1>2, TimeAssumption DEF TimeAssumption, Fresh
  <2>4. FreshFrames(from_rtu, now)'
    <3>1. \A i \in 1..Len(from_rtu') : Fresh(from_rtu'[i].sent, now')
      BY Zenon, <2>1, <2>2, <2>3
    <3>2. QED
      BY <3>1 DEF FreshFrames, Fresh
  <2>5. NearFrames(from_rtu) => NearFrames(from_rtu)'
    BY Zenon, <2>1, <2>2, <2>3 DEF NearFrames, Near, Dated
  <2>6. QED
    BY <1>3, <2>4, <2>5
<1>5. CASE from_rtu' = from_rtu
  <2>1. FreshFrames(from_rtu, now)'
    BY <1>5 DEF FreshFrames, Fresh
  <2>2. NearFrames(from_rtu) => NearFrames(from_rtu)'
    BY Zenon, <1>5 DEF NearFrames, Near, Dated
  <2>3. QED
    BY <1>3, <2>1, <2>2
<1>6. QED
  BY <1>1, <1>4, <1>5

LEMMA TickKeeps == TypeOK /\ TimeInv /\ Tick => TimeInv'
<1> SUFFICES ASSUME TypeOK, TimeInv, Tick PROVE TimeInv'
  OBVIOUS
<1>1. /\ now' = now + Step /\ RTUClock(now - rtu_lag, now' - rtu_lag)
      /\ UNCHANGED <<use_utc, m_daySection, link, to_rtu, rtu_lag, rtu_set>> /\ DateIsRight'
  BY NoReading DEF Tick, rtuVars
<1>2. /\ now \in Nat /\ Step \in Nat /\ MaxDelay \in Nat /\ now' \in Nat /\ now' - rtu_lag \in Int
      /\ now' - rtu_lag = now' - rtu_lag'
  BY <1>1, TimeAssumption DEF TimeAssumption, TypeOK
<1>3. SectionsAgree' /\ SettingIsAlone'
  BY <1>1, <1>2, ClockKeeps
<1>4. DOMAIN from_rtu = 1..Len(from_rtu)
  BY DEF TypeOK
<1>5. \A i \in 1..Len(from_rtu) : Fresh(from_rtu[i].sent, now')
  <2>1. SUFFICES ASSUME NEW i \in 1..Len(from_rtu) PROVE Fresh(from_rtu[i].sent, now')
    OBVIOUS
  <2>2. from_rtu[i].sent \in Nat
    BY FrameFacts DEF TypeOK
  <2>3. now + Step - from_rtu[i].sent <= MaxDelay /\ from_rtu[i].sent <= now
    BY Zenon, <1>4 DEF Tick, OnTime, TimeInv, DelaysBounded, FreshFrames, Fresh
  <2>4. QED
    BY <1>1, <1>2, <2>2, <2>3 DEF Fresh
<1>6. \A s \in to_rtu : Fresh(s.sent, now')
  <2>1. SUFFICES ASSUME NEW s \in to_rtu PROVE Fresh(s.sent, now')
    OBVIOUS
  <2>2. s.sent \in Nat
    BY DEF TypeOK
  <2>3. now + Step - s.sent <= MaxDelay /\ s.sent <= now
    BY Zenon DEF Tick, OnTime, TimeInv, DelaysBounded, Fresh
  <2>4. QED
    BY <1>1, <1>2, <2>2, <2>3 DEF Fresh
<1>7. FreshFrames(from_rtu, now)' /\ (use_utc => NearFrames(from_rtu)')
  BY Zenon, <1>1, <1>2, <1>5, ClockDelays
<1>8. Offset' = Offset
  BY <1>1 DEF Offset
<1>9. DelaysBounded'
  BY Zenon, <1>1, <1>6, <1>7, <1>8 DEF TimeInv, DelaysBounded, Near
<1>10. QED
  BY <1>1, <1>3, <1>9 DEF TimeInv

LEMMA RTUAdvancesKeeps == TypeOK /\ TimeInv /\ RTUAdvances => TimeInv'
<1> SUFFICES ASSUME TypeOK, TimeInv, RTUAdvances PROVE TimeInv'
  OBVIOUS
<1>1. /\ rtu_lag - Step >= -MaxAdvance /\ rtu_lag' = rtu_lag - Step /\ RTUClock(now - rtu_lag, now - rtu_lag')
      /\ UNCHANGED <<use_utc, now, m_daySection, link, to_rtu, rtu_set>> /\ DateIsRight'
  BY NoReading DEF RTUAdvances
<1>2. /\ now' \in Nat /\ now - rtu_lag' \in Int /\ now - rtu_lag' = now' - rtu_lag'
      /\ rtu_lag \in Int /\ Step \in Nat /\ MaxAdvance \in Nat /\ MaxDelay \in Nat
  BY <1>1, TimeAssumption DEF TimeAssumption, TypeOK
<1>3. SectionsAgree' /\ SettingIsAlone'
  BY <1>1, <1>2, ClockKeeps
<1>4. \A i \in 1..Len(from_rtu) : Fresh(from_rtu[i].sent, now')
  BY Zenon, <1>1 DEF TimeInv, DelaysBounded, FreshFrames
<1>5. FreshFrames(from_rtu, now)' /\ (use_utc => NearFrames(from_rtu)')
  BY Zenon, <1>1, <1>2, <1>4, ClockDelays
<1>6. Near(rtu_lag) => Near(rtu_lag)'
  BY <1>1, <1>2 DEF Near
<1>7. Offset' = Offset
  BY <1>1 DEF Offset
<1>8. DelaysBounded'
  BY Zenon, <1>1, <1>5, <1>6, <1>7 DEF TimeInv, DelaysBounded
<1>9. QED
  BY <1>1, <1>3, <1>8 DEF TimeInv

LEMMA RTUReceiveSettingKeeps == DelaysAssumption /\ TypeOK /\ TimeInv /\ RTUReceiveSetting => TimeInv'
<1> SUFFICES ASSUME DelaysAssumption, TypeOK, TimeInv, RTUReceiveSetting PROVE TimeInv'
  OBVIOUS
<1>1. PICK s \in to_rtu : rtu_lag' = (TimeOfDay(now) - s.section * Section - s.frac) % Day
  BY DEF RTUReceiveSetting
<1>2. /\ to_rtu' = {} /\ rtu_set' = TRUE /\ DateIsRight'
      /\ UNCHANGED <<use_utc, now, m_daySection, link, from_rtu, crossed>>
  BY NoReading DEF RTUReceiveSetting
<1>3. ~rtu_set /\ NoDates(from_rtu) /\ link = "up" /\ (~crossed => s.section = m_daySection /\ NoModulos(from_rtu))
  BY Zenon DEF TimeInv, SettingIsAlone
<1>4. Fresh(s.sent, now) /\ s.frac = s.sent % Section /\ s.section = SectionInDay(Offset, s.sent)
  BY Zenon DEF TimeInv, DelaysBounded
<1>5. rtu_lag' \in Int /\ SectionInDay(Offset, now - rtu_lag') = s.section
  BY Zenon, <1>1, ClockAfterSetting
<1>6. Offset' = Offset
  BY <1>2 DEF Offset
<1>7. ~crossed => Last(m_daySection, from_rtu, s.section)
  BY Zenon, <1>3 DEF Last, Announced, NoModulos, NoModulo
<1>8. SectionsAgree'
  <2>1. SectionInDay(Offset, now - rtu_lag)' = s.section
    BY Zenon, <1>2, <1>5, <1>6 DEF SectionInDay, TimeInDay
  <2>2. DatedFrames(Offset, m_daySection, from_rtu)
    BY Zenon DEF TimeInv, SectionsAgree
  <2>3. QED
    BY Zenon, <1>2, <1>6, <1>7, <2>1, <2>2 DEF SectionsAgree
<1>9. SettingIsAlone'
  BY <1>2, <1>3 DEF SettingIsAlone
<1>10. use_utc => Near(rtu_lag')
  <2>1. SUFFICES ASSUME use_utc PROVE Near(rtu_lag')
    OBVIOUS
  <2>2. Offset = 0 /\ now \in Int /\ s.sent \in Int
    BY <2>1, OffsetType DEF TypeOK
  <2>3. MaxDelay \in Nat /\ MaxAdvance \in Nat /\ MaxDelay <= 10
    <3>1. TRUE \in UseUtc
      BY <2>1 DEF TimeInv
    <3>2. QED
      BY <3>1, TimeAssumption DEF TimeAssumption, DelaysAssumption, Section
  <2>4. s.sent <= now /\ now - s.sent <= MaxDelay /\ now - s.sent <= 10
    BY <1>4, <2>2, <2>3 DEF Fresh
  <2>5. (TimeInDay(0, now) - (SectionInDay(0, s.sent) * Section) - (s.sent % Section)) % Day = now - s.sent
    BY Zenon, <2>2, <2>4, SettingIsLate
  <2>6. rtu_lag' = now - s.sent
    <3>1. TimeOfDay(now) = TimeInDay(0, now)
      BY Zenon, <2>2, TimeOfDayIs
    <3>2. s.section = SectionInDay(0, s.sent)
      BY Zenon, <1>4, <2>2
    <3>3. QED
      BY Zenon, <1>1, <1>4, <2>5, <3>1, <3>2
  <2>7. QED
    BY <2>2, <2>3, <2>4, <2>6 DEF Near
<1>11. DelaysBounded'
  BY Zenon, <1>2, <1>10 DEF TimeInv, DelaysBounded, FreshFrames, NearFrames, Near
<1>12. QED
  BY <1>2, <1>8, <1>9, <1>11 DEF TimeInv

LEMMA RTUEventKeeps == TypeOK /\ TimeInv /\ RTUEvent => TimeInv'
<1> SUFFICES ASSUME TypeOK, TimeInv, RTUEvent PROVE TimeInv'
  OBVIOUS
<1> DEFINE f == Event
           q == from_rtu
           section == SectionInDay(Offset, now - rtu_lag)
<1>1. from_rtu' = Append(q, f)
  BY Zenon DEF RTUEvent, Event
<1>2. /\ link # "down" /\ DateIsRight'
      /\ UNCHANGED <<use_utc, now, m_daySection, link, to_rtu, rtu_lag, rtu_set, crossed>>
  BY NoReading DEF RTUEvent, rtuVars
<1>3. f \in Frames /\ q \in Seq(Frames)
  BY EventIsFrame DEF TypeOK
<1>4. /\ f.type = "TSCE" /\ f.date = now - rtu_lag /\ f.sent = now
      /\ f.ts = TimeOfDay(now - rtu_lag) % Section
  BY DEF Event
<1>5. f.dated = (rtu_set /\ ~crossed)
  BY Zenon DEF Event
<1> HIDE DEF f
<1>6. f.ts = TimeInDay(Offset, f.date) % Section
  BY Zenon, <1>4, TimeOfDayIs
<1>7. Offset' = Offset
  BY <1>2 DEF Offset
<1>8. rtu_set /\ ~crossed => Last(m_daySection, q, section)
  BY Zenon DEF TimeInv, SectionsAgree
<1>9. DatedFrames(Offset, m_daySection, from_rtu')
  <2>1. f.dated => Last(m_daySection, q, SectionInDay(Offset, f.date))
    BY Zenon, <1>4, <1>5, <1>8
  <2>2. DatedFrames(Offset, m_daySection, q)
    BY Zenon DEF TimeInv, SectionsAgree
  <2>3. QED
    BY Zenon, <1>1, <1>3, <1>6, <2>1, <2>2, DatedWithMore
<1>10. SectionsAgree'
  <2>1. f.type # "MODULO"
    BY <1>4
  <2> HIDE DEF section
  <2>2. rtu_set /\ ~crossed => Last(m_daySection, from_rtu', section)
    BY Zenon, <1>1, <1>3, <1>8, <2>1, LastIsSame
  <2>3. SectionInDay(Offset, now - rtu_lag)' = section
    BY Zenon, <1>2, <1>7 DEF SectionInDay, TimeInDay, section
  <2>4. QED
    BY Zenon, <1>2, <1>7, <1>9, <2>2, <2>3 DEF SectionsAgree
<1>11. /\ Len(q) \in Nat /\ Len(from_rtu') = Len(q) + 1 /\ from_rtu'[Len(q) + 1] = f
       /\ \A k \in 1..Len(q) : from_rtu'[k] = q[k]
  BY <1>1, <1>3, AppendFacts
<1>12. \A i \in 1..Len(from_rtu') : i \in 1..Len(q) \/ i = Len(q) + 1
  BY <1>11
<1>13. ~rtu_set => NoDates(from_rtu)'
  <2>1. ~rtu_set => NoDates(from_rtu)
    BY Zenon DEF TimeInv, SettingIsAlone
  <2>2. QED
    BY Zenon, <1>5, <1>11, <1>12, <2>1 DEF NoDates, Dated
<1>14. NoModulos(from_rtu) => NoModulos(from_rtu)'
  <2>1. f.type # "MODULO"
    BY <1>4
  <2>2. QED
    BY Zenon, <1>11, <1>12, <2>1 DEF NoModulos, Modulo
<1>15. SettingIsAlone'
  BY Zenon, <1>2, <1>13, <1>14 DEF TimeInv, SettingIsAlone
<1>16. FreshFrames(from_rtu, now)'
  <2>1. Fresh(now, now)
    BY TimeAssumption DEF TimeAssumption, Fresh, TypeOK
  <2>2. FreshFrames(from_rtu, now)
    BY Zenon DEF TimeInv, DelaysBounded
  <2>3. \A i \in 1..Len(from_rtu') : Fresh(from_rtu'[i].sent, now')
    BY Zenon, <1>2, <1>4, <1>11, <1>12, <2>1, <2>2 DEF FreshFrames
  <2>4. QED
    BY <2>3 DEF FreshFrames, Fresh
<1>17. use_utc => NearFrames(from_rtu)'
  <2>1. SUFFICES ASSUME use_utc PROVE NearFrames(from_rtu)'
    OBVIOUS
  <2>2. NearFrames(from_rtu) /\ (rtu_set => Near(rtu_lag))
    BY Zenon, <2>1 DEF TimeInv, DelaysBounded
  <2>3. f.sent - f.date = rtu_lag
    BY <1>4 DEF TypeOK
  <2>4. f.dated => Near(f.sent - f.date)
    BY Zenon, <1>5, <2>2, <2>3
  <2>5. \A i \in 1..Len(from_rtu') : Dated(from_rtu', i) => Near(from_rtu'[i].sent - from_rtu'[i].date)
    BY Zenon, <1>11, <1>12, <2>2, <2>4 DEF NearFrames, Dated
  <2>6. QED
    BY Zenon, <2>5 DEF NearFrames, Near, Dated
<1>18. DelaysBounded'
  BY Zenon, <1>2, <1>7, <1>16, <1>17 DEF TimeInv, DelaysBounded, Near
<1>19. QED
  BY <1>2, <1>10, <1>15, <1>18 DEF TimeInv

LEMMA StutterKeeps == TypeOK /\ TimeInv /\ UNCHANGED vars => TimeInv'
<1> SUFFICES ASSUME TypeOK, TimeInv, UNCHANGED vars PROVE TimeInv'
  OBVIOUS
<1>1. UNCHANGED <<use_utc, start, now, m_daySection, link, to_rtu, from_rtu, rtu_lag, rtu_set, crossed, reading>>
  BY DEF vars, rtuVars
<1>2. Offset' = Offset
  BY <1>1 DEF Offset
<1>3. SectionsAgree'
  BY Zenon, <1>1, <1>2 DEF TimeInv, SectionsAgree, SectionInDay, TimeInDay
<1>4. SettingIsAlone'
  BY Zenon, <1>1 DEF TimeInv, SettingIsAlone, NoDates, NoModulos
<1>5. DelaysBounded'
  BY Zenon, <1>1, <1>2 DEF TimeInv, DelaysBounded, FreshFrames, NearFrames, Near
<1>6. DateIsRight'
  BY Zenon, <1>1 DEF TimeInv, DateIsRight
<1>7. QED
  BY <1>1, <1>3, <1>4, <1>5, <1>6 DEF TimeInv

\* The inductive invariant: the sections that are announced are those of the
\* events (SectionsAgree), no event has a date before the time setting
\* (SettingIsAlone), and no delay is longer than a section (DelaysBounded).
THEOREM TimeInvariance == DelaysAssumption => (Spec => []TimeInv)
<1> SUFFICES ASSUME DelaysAssumption PROVE Spec => []TimeInv
  OBVIOUS
<1>1. TypeOK /\ TimeInv /\ [Next]_vars => TimeInv'
  BY HandleModuloKeeps, HandleTSCEKeeps, ConnectInputKeeps, SendTimeSettingKeeps, DisconnectKeeps, TickKeeps,
     RTUAdvancesKeeps, RTUReceiveSettingKeeps, RTUEventKeeps, StutterKeeps DEF Next
<1>2. QED
  BY TimeInit, TypeCorrectness, <1>1, PTL DEF Spec

\* A TSCE of a RTU whose clock was set gets the date of its event (DateIsRight):
\* the time of day for any delays, and the day as well with modulo_use_utc, when
\* the time setting and the event are late by no more than a section in all and
\* the clock is fast by no more than one.
THEOREM DatesAreRight == DelaysAssumption => (Spec => []DateIsRight)
<1> SUFFICES ASSUME DelaysAssumption PROVE Spec => []DateIsRight
  OBVIOUS
<1>1. TimeInv => DateIsRight
  BY DEF TimeInv
<1>2. QED
  BY TimeInvariance, <1>1, PTL
=============================================================================
