------------------------------ MODULE Datetime ------------------------------
(***************************************************************************)
(* The arithmetic of quant_datetime.c.  A datetime_t counts microseconds     *)
(* from the start of day 0, 0001-01-01; here it is that count in mixed       *)
(* radix, a record of the day (rdn), the second of the day and the           *)
(* microsecond.  A day number stays far below 2^32 / 100 up to year 9999, so *)
(* that the uint32_t products of rdn_to_ymd do not wrap.                    *)
(***************************************************************************)
EXTENDS Integers, Sequences

SecondsPerDay == 86400

Datetime(day, sec, usec) == [day |-> day, sec |-> sec, usec |-> usec]

\* Variant: every fourth year is a leap year.
LeapYearJulian(y) == y % 4 = 0

\* leap_year
LeapYear(y) == y % 4 = 0 /\ (y % 100 # 0 \/ y % 400 = 0)

\* month_days
MonthDays(y, m) ==
  IF m = 2 /\ LeapYear(y) THEN 29
  ELSE <<31, 28, 31, 30, 31, 30, 31, 31, 30, 31, 30, 31>>[m]

\* days_preceding_month
DaysPreceding(y, m) ==
  <<0, 31, 59, 90, 120, 151, 181, 212, 243, 273, 304, 334>>[m]
    + (IF LeapYear(y) /\ m > 2 THEN 1 ELSE 0)

\* The days before a month in the years that rdn_to_ymd starts in March.
DayOffset == <<306, 337, 0, 31, 61, 92, 122, 153, 184, 214, 245, 275>>

\* Variant: no century is a leap year.
CenturiesAll(z) == (100 * z - 25) \div 3652425

\* The centuries before the day, in years that start in March, less those that
\* are leap years.
Centuries(z) == LET a == (100 * z - 25) \div 3652425 IN a - a \div 4

\* rdn_to_ymd
RdnToYmd(rdn) ==
  LET z == rdn + 1 + 306
      b == Centuries(z)
      y == (100 * b + 100 * z - 25) \div 36525
      d == b + z - (1461 * y) \div 4
      m == (535 * d + 48950) \div 16384
  IN IF m > 12
     THEN [year |-> y + 1, month |-> m - 12, day |-> d - DayOffset[m - 12], yday |-> d - 306]
     ELSE [year |-> y, month |-> m, day |-> d - DayOffset[m],
           yday |-> d + 59 + (IF LeapYear(y) THEN 1 ELSE 0)]

\* Variant: the year itself is counted with the years before it.
YdToRdnNext(y, d) == 365 * y + y \div 4 - y \div 100 + y \div 400 + d

\* yd_to_rdn
YdToRdn(y, d) == 365 * (y - 1) + (y - 1) \div 4 - (y - 1) \div 100 + (y - 1) \div 400 + d

\* ymd_to_rdn: a month above 12 carries into the year.
YmdToRdn(year, month, day) ==
  LET out == month < 1 \/ month > 12
      rest == month % 12
      y == IF out THEN year + month \div 12 - (IF rest < 1 THEN 1 ELSE 0) ELSE year
      m == IF out THEN (IF rest < 1 THEN 12 ELSE rest) ELSE month
  IN YdToRdn(y, DaysPreceding(y, m) + day - 1)

\* datetime_from_ymd + datetime_from_hmsu
Encode(y, mo, d, h, mi, s, usec) ==
  Datetime(YmdToRdn(y, mo, d), h * 3600 + mi * 60 + s, usec)

\* Variant: the minutes of the hours are not taken off.
DecodeWhole(dt) ==
  LET date == RdnToYmd(dt.day)
  IN [year |-> date.year, month |-> date.month, day |-> date.day,
      hour |-> dt.sec \div 3600, minute |-> dt.sec \div 60, second |-> dt.sec % 60,
      usec |-> dt.usec]

\* datetime_decode
Decode(dt) ==
  LET date == RdnToYmd(dt.day)
  IN [year |-> date.year, month |-> date.month, day |-> date.day,
      hour |-> dt.sec \div 3600, minute |-> dt.sec \div 60 % 60, second |-> dt.sec % 60,
      usec |-> dt.usec]

\* EPOCH_DATE_TIME, 1970-01-01
EpochDay == 719162

\* datetime_from_timeval of a time after the epoch, also in mixed radix
FromTimeval(tv) == [tv EXCEPT !.day = @ + EpochDay]

\* Variant: the number of the day counts the epoch from 0.
ToTmAccepts1970(dt) == dt.day > EpochDay

\* `dt < dt - EPOCH_DATE_TIME' holds when the unsigned difference wraps.
ToTmAccepts(dt) == dt.day >= EpochDay

\* datetime_to_tm of a time it accepts.  Day 0 is a Monday, so that the code counts
\* the weekday from Monday; its comment, and struct tm, count it from Sunday.
ToTm(dt) ==
  LET t == Decode(dt)
  IN [year |-> t.year - 1900, mon |-> t.month - 1, mday |-> t.day,
      yday |-> RdnToYmd(dt.day).yday - 1, wday |-> dt.day % 7,
      hour |-> t.hour, min |-> t.minute, sec |-> t.second]

\* Variant: no day is borrowed.
MinusInDay(dt, offset) == [dt EXCEPT !.sec = (@ - offset) % SecondsPerDay]

\* `*dt -= offset', an offset in seconds of less than a day.
Minus(dt, offset) ==
  [dt EXCEPT !.sec = (@ - offset) % SecondsPerDay,
             !.day = @ + (dt.sec - offset) \div SecondsPerDay]

-----------------------------------------------------------------------------
\* The texts that datetime_from_iso8601 reads, as their fields: sign is "Z", "+"
\* or "-", and the fraction has a number of digits, none when it is left out.
\* The tests of the fields, in a text of the right shape.
Accepts(f) ==
  /\ f.year >= 1 /\ f.month \in 1 .. 12
  /\ f.day \in 1 .. 31 /\ (f.day > 28 => f.day <= MonthDays(f.year, f.month))
  /\ f.hour <= 23 /\ f.minute <= 59 /\ f.second <= 59
  /\ f.digits <= 9
  /\ f.sign # "Z" => f.zoneHour <= 23 /\ f.zoneMinute <= 59

\* Pow10[9 - n] of the code, counted from 1.
Pow10 == <<1, 10, 100, 1000, 10000, 100000, 1000000, 10000000, 100000000, 1000000000>>

Nanoseconds(f) == f.fraction * Pow10[10 - f.digits]

\* The offset of the local time of f from UTC, in seconds.
Offset(f) ==
  LET size == (f.zoneHour * 60 + f.zoneMinute) * 60
  IN IF f.sign = "Z" THEN 0 ELSE IF f.sign = "-" THEN -size ELSE size

\* datetime_from_iso8601 of a text it accepts
FromIso8601(f) ==
  Minus(Encode(f.year, f.month, f.day, f.hour, f.minute, f.second, Nanoseconds(f) \div 1000),
        Offset(f))

\* datetime_format: the fraction is printed from the microsecond as if it were a
\* nanosecond, and the offset is appended to the time in UTC.  The buffer is taken as
\* long enough: left out are the answer 0 when it is not, and the length, to which
\* the code does not add the 5 characters of the offset behind its sign.
Precision(usec) ==
  IF usec = 0 THEN 0
  ELSE IF usec % 1000000 = 0 THEN 3 ELSE IF usec % 1000 = 0 THEN 6 ELSE 9

Format(dt, zone) ==
  LET t == Decode(dt)
      digits == Precision(dt.usec)
      size == IF zone < 0 THEN -zone ELSE zone
  IN [year |-> t.year, month |-> t.month, day |-> t.day,
      hour |-> t.hour, minute |-> t.minute, second |-> t.second,
      digits |-> digits, fraction |-> dt.usec \div Pow10[10 - digits],
      sign |-> IF zone = 0 THEN "Z" ELSE IF zone < 0 THEN "-" ELSE "+",
      zoneHour |-> size \div 60, zoneMinute |-> size % 60]
=============================================================================
