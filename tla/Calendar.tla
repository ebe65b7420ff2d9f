------------------------------ MODULE Calendar ------------------------------
(***************************************************************************)
(* The Gregorian calendar day by day, against which the formulas of          *)
(* quant_datetime.c are checked: a date that is moved to the next day by the *)
(* lengths of the months, beside the number of the day.                     *)
(***************************************************************************)
EXTENDS Datetime, FiniteSets

CONSTANTS
  Walks,      \* the years walked, as records [first, last]
  Seconds,    \* seconds of the day at which times are tried
  Micros,     \* microseconds of the second at which times are tried
  Zones       \* offsets in minutes at which times are tried

MicrosPerSecond == 1000000

ASSUME WalkAssumption ==
  \A w \in Walks : w.last \in 1 .. 9999 /\ w.first \in 1 .. w.last

ASSUME TimeAssumption ==
  /\ Seconds \subseteq 0 .. SecondsPerDay - 1
  /\ Micros \subseteq 0 .. MicrosPerSecond - 1
  /\ Zones \subseteq -1439 .. 1439

VARIABLES
  rdn,   \* the number of the day
  date   \* its year, month, day and day of the year

vars == <<rdn, date>>

\* A year has a leap day every four years, but for three centuries of four.
LeapDays(year) ==
  Cardinality({n \in {4, 100, 400} : year % n = 0}) % 2

Length(year, month) ==
  IF month = 2 THEN 28 + LeapDays(year)
  ELSE IF month \in {4, 6, 9, 11} THEN 30 ELSE 31

\* The days of the years before.
DaysBefore(year) ==
  365 * (year - 1) + Cardinality({y \in 1 .. year - 1 : LeapDays(y) = 1})

Init ==
  \E w \in Walks :
    /\ rdn = DaysBefore(w.first)
    /\ date = [year |-> w.first, month |-> 1, day |-> 1, yday |-> 1]

NextDay == [date EXCEPT !.day = @ + 1, !.yday = @ + 1]
NextMonth == [date EXCEPT !.month = @ + 1, !.day = 1, !.yday = @ + 1]
NextYear == [year |-> date.year + 1, month |-> 1, day |-> 1, yday |-> 1]

LastOfMonth == date.day = Length(date.year, date.month)

Midnight ==
  /\ rdn' = rdn + 1
  /\ \/ ~LastOfMonth /\ date' = NextDay
     \/ LastOfMonth /\ date.month < 12 /\ date' = NextMonth
     \/ LastOfMonth /\ date.month = 12 /\ date' = NextYear
  /\ \E w \in Walks : date'.year \in w.first .. w.last        \* bound

Spec == Init /\ [][Midnight]_vars

-----------------------------------------------------------------------------
\* The date of a day number: year, month, day and day of the year of rdn_to_ymd
\* are those of the calendar, at every leap day and every century.
DateOfDay == RdnToYmd(rdn) = date

\* The day number of a date, also of one written with a month of the year before
\* (ymd_to_rdn carries months above 12 into the year).
DayOfDate ==
  /\ YmdToRdn(date.year, date.month, date.day) = rdn
  /\ date.year > 1 => YmdToRdn(date.year - 1, date.month + 12, date.day) = rdn

\* The parser accepts a day of the month exactly when the calendar has it.
RealDatesOnly ==
  \A d \in 1 .. 31 :
    Accepts([Format(Datetime(rdn, 0, 0), 0) EXCEPT !.day = d])
      <=> d <= Length(date.year, date.month)

\* A local time with its offset is read as the instant that it names, also when
\* the instant falls on the day, in the month or in the year before or after (a
\* datetime_t cannot tell an instant before year 1).
ParsedInstant ==
  \A s \in Seconds, z \in Zones :
    LET f == [year |-> date.year, month |-> date.month, day |-> date.day,
              hour |-> s \div 3600, minute |-> s \div 60 % 60, second |-> s % 60,
              digits |-> 0, fraction |-> 0, sign |-> IF z < 0 THEN "-" ELSE "+",
              zoneHour |-> (IF z < 0 THEN -z ELSE z) \div 60,
              zoneMinute |-> (IF z < 0 THEN -z ELSE z) % 60]
        dt == FromIso8601(f)
    IN rdn > 0 \/ s >= z * 60 =>
       /\ (dt.day - rdn) * SecondsPerDay + dt.sec = s - z * 60
       /\ dt.sec \in 0 .. SecondsPerDay - 1

\* datetime_to_tm refuses exactly the times before 1970 and gives the fields of
\* the calendar at all others, but for the weekday.  A Unix time is the
\* datetime_t of its date.
TmFields ==
  \A s \in Seconds :
    LET dt == Datetime(rdn, s, 0)
        tm == ToTm(dt)
    IN /\ ToTmAccepts(dt) <=> date.year >= 1970
       /\ ToTmAccepts(dt) =>
            /\ <<tm.year + 1900, tm.mon + 1, tm.mday>> = <<date.year, date.month, date.day>>
            /\ tm.yday = date.yday - 1
            /\ tm.hour * 3600 + tm.min * 60 + tm.sec = s /\ tm.min < 60 /\ tm.sec < 60
            /\ FromTimeval(Datetime(rdn - EpochDay, s, 0)) = dt

\* A time that is formatted in UTC is accepted and read back as the same second,
\* never a later instant, and unchanged if it is a whole second.
RoundTrip ==
  \A s \in Seconds, u \in Micros :
    LET f == Format(Datetime(rdn, s, u), 0)
        dt == FromIso8601(f)
    IN /\ Accepts(f)
       /\ dt.day = rdn /\ dt.sec = s /\ dt.usec <= u
       /\ u = 0 => dt.usec = 0
=============================================================================
