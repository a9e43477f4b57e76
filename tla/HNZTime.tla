------------------------------ MODULE HNZTime ------------------------------
(***************************************************************************)
(* The dates of the changes of state.  A TSCE carries the time in a        *)
(* section of ten minutes only; the section of the day, m_daySection,      *)
(* comes from the MODULO messages of the RTU and from the time setting     *)
(* that the plugin sends (m_handleModuloCode, m_handleTSCE and             *)
(* getEpochMsTimestamp of src/hnz.cpp, m_send_time_setting of              *)
(* src/hnzpath.cpp).  The day itself is the one of the plugin, corrected   *)
(* around midnight.                                                        *)
(*                                                                         *)
(* Times are in minutes.  The RTU is external: its clock is set by the     *)
(* time setting, may then run fast, and gives the time of its events.      *)
(***************************************************************************)
EXTENDS Integers, Sequences

CONSTANTS
  UseUtc,       \* values of modulo_use_utc
  UtcOffset,    \* local time - UTC
  StartTimes,   \* dates at the beginning, since the epoch
  Step,         \* minutes between two instants
  MaxDuration,  \* bound: minutes from the beginning
  MaxDelay,     \* bound: minutes a frame is on its way
  MaxAdvance,   \* bound: minutes the clock of the RTU is fast
  Lags,         \* minutes its clock is slow before it is set
  ChannelBound  \* bound: frames from the RTU, it sends no event beyond

ASSUME TimeAssumption ==
  /\ UseUtc \subseteq BOOLEAN
  /\ UtcOffset \in Int
  /\ StartTimes \cup Lags \subseteq Nat
  /\ {Step, MaxDuration, MaxDelay, MaxAdvance, ChannelBound} \subseteq Nat

VARIABLES
  use_utc,
  start, now,
  m_daySection,
  link,        \* down, input (INPUT_CONNECTED) or up (active)
  to_rtu,      \* time setting on its way
  from_rtu,    \* MODULO and TSCE on their way
  rtu_lag,     \* now - date of the RTU
  rtu_set,     \* the RTU has got the time setting of this connection
  crossed,     \* history: a MODULO older than the time setting may come after it
  reading      \* date of the last TSCE handed to Fledge, {} in between

rtuVars == <<rtu_lag, rtu_set>>
vars == <<use_utc, start, now, m_daySection, link, to_rtu, from_rtu, rtuVars, crossed, reading>>

Section == 10
Hour == 60
Day == 1440

\* localtime_r or gmtime_r, minutes since midnight
TimeOfDay(date) == (date + (IF use_utc THEN 0 ELSE UtcOffset)) % Day
SectionOf(date) == TimeOfDay(date) \div Section

---------------------------------------------------------------------------
(* The plugin                                                               *)

Hours(date) == (date % Day) \div Hour

\* Bug: the correction around midnight is done in one direction only.
DayCorrectionBefore(date, section) == IF section = 143 /\ Hours(date) = 0 THEN -Day ELSE 0

\* Adds or removes a day when the section is on the other side of midnight
DayCorrection(date, section) ==
  CASE section = 0 /\ Hours(date) = 23 -> Day
    [] section = 143 /\ Hours(date) = 0 -> -Day
    [] OTHER -> 0

getEpochMsTimestamp(date, section, ts) ==
  (date - (date % Day)) + DayCorrection(date, section) + section * Section + ts

\* real_utc_offset_s: the difference of the times of day, not of the dates
RealUtcOffset(date) == TimeOfDay(date) - (date % Day)

\* m_handleModuloCode
HandleModulo ==
  /\ from_rtu # <<>> /\ Head(from_rtu).type = "MODULO"
  /\ m_daySection' = Head(from_rtu).section
  /\ from_rtu' = Tail(from_rtu)
  /\ reading' = {}
  /\ UNCHANGED <<use_utc, start, now, link, to_rtu, rtuVars, crossed>>

\* m_handleTSCE.  The test for INPUT_CONNECTED is never true, because the
\* active path is always CONNECTED: a date is given in that state as well.
HandleTSCE ==
  /\ from_rtu # <<>> /\ Head(from_rtu).type = "TSCE"
  /\ LET tsce == Head(from_rtu)
     IN reading' = {[ts |-> getEpochMsTimestamp(now, m_daySection, tsce.ts) - RealUtcOffset(now),
                     date |-> tsce.date, dated |-> tsce.dated]}
  /\ from_rtu' = Tail(from_rtu)
  /\ UNCHANGED <<use_utc, start, now, m_daySection, link, to_rtu, rtuVars, crossed>>

\* The input of the path is connected: its frames are handled
ConnectInput ==
  /\ link = "down"
  /\ link' = "input"
  /\ reading' = {}
  /\ UNCHANGED <<use_utc, start, now, m_daySection, to_rtu, from_rtu, rtuVars, crossed>>

\* Bug: the sections are counted from 1.
SectionFromOne == SectionOf(now) + 1

\* m_send_time_setting: mod10m
SectionWhenSent == SectionOf(now)

IsModulo(frame) == frame.type = "MODULO"

\* The path becomes active: sendInitMessages
SendTimeSetting ==
  /\ link = "input"
  /\ link' = "up"
  /\ to_rtu' = {[section |-> SectionOf(now), frac |-> now % Section, sent |-> now]}
  /\ m_daySection' = SectionWhenSent
  /\ crossed' = \E i \in DOMAIN from_rtu : IsModulo(from_rtu[i])
  /\ reading' = {}
  /\ UNCHANGED <<use_utc, start, now, from_rtu, rtuVars>>

\* The connection is lost with what is on its way
Disconnect ==
  /\ link # "down"
  /\ link' = "down"
  /\ to_rtu' = {} /\ from_rtu' = <<>>
  /\ rtu_set' = FALSE /\ crossed' = FALSE
  /\ reading' = {}
  /\ UNCHANGED <<use_utc, start, now, m_daySection, rtu_lag>>

---------------------------------------------------------------------------
(* External: time and the RTU                                               *)

\* When its section changes, the RTU announces it before any other event
RTUClock(date, date_after) ==
  LET changes == link # "down" /\ SectionOf(date) # SectionOf(date_after)
  IN /\ from_rtu' = IF changes
                      THEN Append(from_rtu, [type |-> "MODULO", section |-> SectionOf(date_after), sent |-> now'])
                      ELSE from_rtu
     /\ crossed' = ((crossed /\ ~(changes /\ rtu_set)) \/ (changes /\ to_rtu # {}))

OnTime(frame) == now + Step - frame.sent <= MaxDelay

Tick ==
  /\ now - start < MaxDuration
  /\ \A i \in DOMAIN from_rtu : OnTime(from_rtu[i])
  /\ \A frame \in to_rtu : OnTime(frame)
  /\ now' = now + Step
  /\ RTUClock(now - rtu_lag, now' - rtu_lag)
  /\ reading' = {}
  /\ UNCHANGED <<use_utc, start, m_daySection, link, to_rtu, rtuVars>>

\* The clock of the RTU is fast
RTUAdvances ==
  /\ rtu_lag - Step >= -MaxAdvance
  /\ rtu_lag' = rtu_lag - Step
  /\ UNCHANGED now
  /\ RTUClock(now - rtu_lag, now - rtu_lag')
  /\ reading' = {}
  /\ UNCHANGED <<use_utc, start, m_daySection, link, to_rtu, rtu_set>>

RTUReceiveSetting ==
  /\ \E setting \in to_rtu :
       rtu_lag' = (TimeOfDay(now) - setting.section * Section - setting.frac) % Day
  /\ to_rtu' = {}
  /\ rtu_set' = TRUE
  /\ reading' = {}
  /\ UNCHANGED <<use_utc, start, now, m_daySection, link, from_rtu, crossed>>

\* date: the date of the event by the clock of the RTU.  dated: that clock is
\* set, and no MODULO of the clock it had before comes after the time setting
RTUEvent ==
  /\ link # "down"
  /\ Len(from_rtu) < ChannelBound
  /\ from_rtu' = Append(from_rtu, [type |-> "TSCE", ts |-> TimeOfDay(now - rtu_lag) % Section,
                                   date |-> now - rtu_lag, dated |-> rtu_set /\ ~crossed, sent |-> now])
  /\ reading' = {}
  /\ UNCHANGED <<use_utc, start, now, m_daySection, link, to_rtu, rtuVars, crossed>>

---------------------------------------------------------------------------
Init ==
  /\ use_utc \in UseUtc
  /\ start \in StartTimes
  /\ now = start
  /\ m_daySection = 0
  /\ link = "down"
  /\ to_rtu = {} /\ from_rtu = <<>>
  /\ rtu_lag \in Lags
  /\ rtu_set = FALSE /\ crossed = FALSE
  /\ reading = {}

Next ==
  \/ HandleModulo \/ HandleTSCE \/ ConnectInput \/ SendTimeSetting \/ Disconnect
  \/ Tick \/ RTUAdvances \/ RTUReceiveSetting \/ RTUEvent

Spec == Init /\ [][Next]_vars

---------------------------------------------------------------------------
(* Properties                                                               *)

Frames ==
  [type : {"MODULO"}, section : 0..143, sent : Nat]
    \cup [type : {"TSCE"}, ts : 0..9, date : Int, dated : BOOLEAN, sent : Nat]

\* Every variable has its type; m_daySection is a section of the day.
TypeOK ==
  /\ use_utc \in BOOLEAN
  /\ start \in Nat /\ now \in Nat
  /\ m_daySection \in 0..143
  /\ link \in {"down", "input", "up"}
  /\ to_rtu \subseteq [section : 0..143, frac : 0..9, sent : Nat]
  /\ from_rtu \in Seq(Frames)
  /\ rtu_lag \in Int
  /\ rtu_set \in BOOLEAN /\ crossed \in BOOLEAN
  /\ reading \subseteq [ts : Int, date : Int, dated : BOOLEAN]

\* Whatever the order of MODULO, TSCE and time setting on the wire, a TSCE of a
\* RTU whose clock was set gets the time of day of its event: m_daySection is
\* the section of the event when the event is handled.  (A MODULO that crosses
\* the time setting puts m_daySection back: see crossed.)  With modulo_use_utc
\* the day is right as well, on both sides of midnight, with a late frame or a
\* clock of the RTU that is fast.
DateIsRight ==
  \A r \in reading : r.dated => IF use_utc THEN r.ts = r.date ELSE (r.ts - r.date) % Day = 0

\* "Always timestamp with UTC time" (m_handleTSCE), for both values of
\* modulo_use_utc: the date of a reading is the UTC date of the event.
AlwaysUTC == \A r \in reading : r.dated => r.ts = r.date
=============================================================================
