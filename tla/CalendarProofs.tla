--------------------------- MODULE CalendarProofs ---------------------------
(***************************************************************************)
(* Proofs that the formulas of quant_datetime.c agree with the Gregorian     *)
(* calendar on every day of every walk of Calendar.                         *)
(***************************************************************************)
EXTENDS Calendar, FiniteSetTheorems, WellFoundedInduction, TLAPS

-----------------------------------------------------------------------------
(* Leap years. *)

\* The leap years of the first n.
Leaps(n) == {y \in 1 .. n : LeapDays(y) = 1}
LeapsBefore(n) == n \div 4 - n \div 100 + n \div 400

\* leap_year tests the rule of the calendar.
LEMMA LeapDaysIs ==
  ASSUME NEW y \in Nat
  PROVE LeapDays(y) = IF LeapYear(y) THEN 1 ELSE 0
<1> DEFINE N == {n \in {4, 100, 400} : y % n = 0}
<1>1. y % 400 = 0 => y % 100 = 0
  OBVIOUS
<1>2. y % 100 = 0 => y % 4 = 0
  OBVIOUS
<1>3. CASE y % 4 # 0
  <2>1. N = {}
    BY <1>1, <1>2, <1>3
  <2>2. Cardinality(N) = 0
    BY <2>1, FS_EmptySet
  <2> QED BY <1>3, <2>2 DEF LeapDays, LeapYear
<1>4. CASE y % 4 = 0 /\ y % 100 # 0
  <2>1. N = {4}
    BY <1>1, <1>4
  <2>2. Cardinality(N) = 1
    BY <2>1, FS_Singleton
  <2> QED BY <1>4, <2>2 DEF LeapDays, LeapYear
<1>5. IsFiniteSet({4, 100}) /\ Cardinality({4, 100}) = 2
  <2>1. IsFiniteSet({4}) /\ Cardinality({4}) = 1
    BY FS_Singleton
  <2>2. {4} \cup {100} = {4, 100}
    OBVIOUS
  <2> QED BY <2>1, <2>2, FS_AddElement
<1>6. CASE y % 100 = 0 /\ y % 400 # 0
  <2>1. N = {4, 100}
    BY <1>2, <1>6
  <2>2. Cardinality(N) = 2
    BY <2>1, <1>5
  <2> QED BY <1>2, <1>6, <2>2 DEF LeapDays, LeapYear
<1>7. CASE y % 400 = 0
  <2>1. N = {4, 100} \cup {400}
    BY <1>1, <1>2, <1>7
  <2>2. Cardinality({4, 100} \cup {400}) = Cardinality({4, 100}) + 1
    BY <1>5, FS_AddElement
  <2>3. Cardinality(N) = 3
    BY <1>5, <2>1, <2>2
  <2> QED BY <1>1, <1>2, <1>7, <2>3 DEF LeapDays, LeapYear
<1> QED BY <1>2, <1>3, <1>4, <1>6, <1>7

\* One more year adds its leap day.
LEMMA LeapsBeforeNext ==
  ASSUME NEW n \in Nat
  PROVE /\ LeapsBefore(n + 1) = LeapsBefore(n) + LeapDays(n + 1)
        /\ LeapsBefore(n) \in Int /\ LeapDays(n + 1) \in {0, 1}
<1>1. (n + 1) \div 4 = n \div 4 + (IF (n + 1) % 4 = 0 THEN 1 ELSE 0)
  OBVIOUS
<1>2. (n + 1) \div 100 = n \div 100 + (IF (n + 1) % 100 = 0 THEN 1 ELSE 0)
  OBVIOUS
<1>3. (n + 1) \div 400 = n \div 400 + (IF (n + 1) % 400 = 0 THEN 1 ELSE 0)
  OBVIOUS
<1>4. ((n + 1) % 400 = 0 => (n + 1) % 100 = 0) /\ ((n + 1) % 100 = 0 => (n + 1) % 4 = 0)
  OBVIOUS
<1>5. LeapDays(n + 1) = IF LeapYear(n + 1) THEN 1 ELSE 0
  BY LeapDaysIs
<1> QED BY <1>1, <1>2, <1>3, <1>4, <1>5 DEF LeapsBefore, LeapYear

\* Every nonempty set of naturals has a least element.
LEMMA LeastNat ==
  ASSUME NEW T, T \subseteq Nat, T # {}
  PROVE \E x \in T : \A y \in T : x <= y
<1>1. PICK n \in T : TRUE
  OBVIOUS
<1> DEFINE N == 1 .. n
           Below == {S \in SUBSET N : \E k \in T : k <= n /\ S = 1 .. k}
<1>2. IsFiniteSet(N) /\ N \in Below
  BY <1>1, FS_Interval
<1>3. Below \subseteq FiniteSubsetsOf(N)
  BY <1>2, FS_FiniteSubsetsOfFinite
<1>4. PICK S \in Below : \A R \in Below : <<R, S>> \notin StrictSubsetOrdering(N)
  <2>1. IsWellFoundedOn(StrictSubsetOrdering(N), FiniteSubsetsOf(N))
    BY FS_StrictSubsetOrderingWellFounded
  <2>2. Below # {}
    BY <1>2
  <2> HIDE DEF Below
  <2> QED BY <1>3, <2>1, <2>2, WFMin, Zenon
<1>5. PICK k \in T : k <= n /\ S = 1 .. k
  BY <1>4
<1>6. ASSUME NEW y \in T, y < k PROVE FALSE
  <2>1. n \in Nat /\ k \in Nat /\ y \in Nat
    BY <1>1
  <2>2. 1 .. y \in Below /\ 1 .. y \subseteq S /\ S \subseteq N /\ 1 .. y # S
    BY <1>5, <1>6, <2>1
  <2> QED BY <1>4, <2>2 DEF StrictSubsetOrdering
<1> QED BY <1>5, <1>6

\* The leap years are counted by the divisions of yd_to_rdn.
LEMMA LeapCount ==
  ASSUME NEW n \in Nat
  PROVE IsFiniteSet(Leaps(n)) /\ Cardinality(Leaps(n)) = LeapsBefore(n)
<1> DEFINE Good(k) == IsFiniteSet(Leaps(k)) /\ Cardinality(Leaps(k)) = LeapsBefore(k)
           Bad == {k \in Nat : ~Good(k)}
<1>1. Good(0)
  <2>1. Leaps(0) = {}
    BY DEF Leaps
  <2>2. LeapsBefore(0) = 0
    BY DEF LeapsBefore
  <2> QED BY <2>1, <2>2, FS_EmptySet
<1>2. ASSUME NEW k \in Nat, Good(k) PROVE Good(k + 1)
  <2>1. LeapsBefore(k + 1) = LeapsBefore(k) + LeapDays(k + 1) /\ LeapDays(k + 1) \in {0, 1}
        /\ LeapsBefore(k) \in Int
    BY LeapsBeforeNext
  <2>2. CASE LeapDays(k + 1) = 0
    <3>1. Leaps(k + 1) = Leaps(k)
      BY <2>2 DEF Leaps
    <3> QED BY <1>2, <2>1, <2>2, <3>1
  <2>3. CASE LeapDays(k + 1) = 1
    <3>1. Leaps(k + 1) = Leaps(k) \cup {k + 1} /\ k + 1 \notin Leaps(k)
      BY <2>3 DEF Leaps
    <3>2. IsFiniteSet(Leaps(k + 1)) /\ Cardinality(Leaps(k + 1)) = Cardinality(Leaps(k)) + 1
      BY <1>2, <3>1, FS_AddElement
    <3> QED BY <1>2, <2>1, <2>3, <3>2
  <2> QED BY <2>1, <2>2, <2>3
<1> HIDE DEF Good
<1>3. Bad = {}
  <2> SUFFICES ASSUME Bad # {} PROVE FALSE
    OBVIOUS
  <2>1. PICK k \in Bad : \A j \in Bad : k <= j
    BY LeastNat
  <2>2. k # 0 /\ k \in Nat
    BY <1>1
  <2>3. k - 1 \in Nat /\ k - 1 \notin Bad /\ (k - 1) + 1 = k
    BY <2>1, <2>2
  <2>4. Good(k)
    BY <1>2, <2>3
  <2> QED BY <2>4
<1>4. Good(n)
  BY <1>3
<1> QED BY <1>4 DEF Good

-----------------------------------------------------------------------------
(* Months. *)

\* Twelve cases.
LEMMA MonthCases ==
  ASSUME NEW m \in 1 .. 12
  PROVE \/ m = 1 \/ m = 2 \/ m = 3 \/ m = 4 \/ m = 5 \/ m = 6
        \/ m = 7 \/ m = 8 \/ m = 9 \/ m = 10 \/ m = 11 \/ m = 12
OBVIOUS

\* month_days has the lengths of the calendar.
LEMMA MonthLength ==
  ASSUME NEW y \in Nat, NEW m \in 1 .. 12
  PROVE Length(y, m) = MonthDays(y, m) /\ Length(y, m) \in 28 .. 31
<1>1. LeapDays(y) = IF LeapYear(y) THEN 1 ELSE 0
  BY LeapDaysIs
<1> QED BY <1>1, MonthCases DEF Length, MonthDays

\* days_preceding_month sums the lengths of the months before.
LEMMA PrecedingNext ==
  ASSUME NEW y \in Nat, NEW m \in 1 .. 12
  PROVE /\ DaysPreceding(y, 1) = 0
        /\ DaysPreceding(y, m) \in 0 .. 335
        /\ m < 12 => DaysPreceding(y, m + 1) = DaysPreceding(y, m) + Length(y, m)
        /\ m = 12 => DaysPreceding(y, m) + Length(y, m) = 365 + LeapDays(y)
<1>1. LeapDays(y) = IF LeapYear(y) THEN 1 ELSE 0
  BY LeapDaysIs
<1> QED BY <1>1, MonthCases DEF Length, DaysPreceding

\* yd_to_rdn counts the days of the years before.
LEMMA YdToRdnIs ==
  ASSUME NEW y \in Nat \ {0}, NEW d \in Int
  PROVE YdToRdn(y, d) = 365 * (y - 1) + LeapsBefore(y - 1) + d
<1>1. /\ (y - 1) \div 4 \in Int /\ (y - 1) \div 100 \in Int /\ (y - 1) \div 400 \in Int
      /\ 365 * (y - 1) \in Int
  OBVIOUS
<1> QED BY <1>1 DEF YdToRdn, LeapsBefore

-----------------------------------------------------------------------------
(* The walk. *)

\* The date is one of the calendar, and the day number counts the days before it.
DateInv ==
  /\ date \in [year : Nat \ {0}, month : 1 .. 12, day : Nat \ {0}, yday : Nat]
  /\ date.day <= Length(date.year, date.month)
  /\ date.yday = DaysPreceding(date.year, date.month) + date.day
  /\ rdn = YdToRdn(date.year, date.yday - 1)

LEMMA InitDateInv == Init => DateInv
<1> SUFFICES ASSUME Init PROVE DateInv
  OBVIOUS
<1>1. PICK w \in Walks :
        /\ rdn = 365 * (w.first - 1) + Cardinality(Leaps(w.first - 1))
        /\ date = [year |-> w.first, month |-> 1, day |-> 1, yday |-> 1]
  BY DEF Init, DaysBefore, Leaps
<1>2. w.first \in Nat \ {0}
  BY WalkAssumption, SMT
<1>3. Cardinality(Leaps(w.first - 1)) = LeapsBefore(w.first - 1)
        /\ LeapsBefore(w.first - 1) \in Int
  BY <1>2, LeapCount, LeapsBeforeNext
<1>4. YdToRdn(w.first, 0) = 365 * (w.first - 1) + LeapsBefore(w.first - 1)
  BY <1>2, <1>3, YdToRdnIs
<1>5. DaysPreceding(w.first, 1) = 0 /\ 1 <= Length(w.first, 1)
  BY <1>2, PrecedingNext, MonthLength
<1> QED BY <1>1, <1>2, <1>3, <1>4, <1>5 DEF DateInv

LEMMA MidnightDateInv == DateInv /\ Midnight => DateInv'
<1> SUFFICES ASSUME DateInv, Midnight PROVE DateInv'
  OBVIOUS
<1>1. PICK y \in Nat \ {0}, m \in 1 .. 12, d \in Nat \ {0}, n \in Nat :
        /\ date = [year |-> y, month |-> m, day |-> d, yday |-> n]
        /\ d <= Length(y, m) /\ n = DaysPreceding(y, m) + d /\ rdn = YdToRdn(y, n - 1)
  BY DEF DateInv
<1>2. YdToRdn(y, n - 1) \in Int /\ YdToRdn(y, n) = YdToRdn(y, n - 1) + 1
  <2>1. 365 * (y - 1) \in Int /\ LeapsBefore(y - 1) \in Int
    BY LeapsBeforeNext
  <2> QED BY <2>1, YdToRdnIs
<1>3. rdn' = YdToRdn(y, n)
  BY <1>1, <1>2 DEF Midnight
<1>4. Length(y, m) \in 28 .. 31 /\ DaysPreceding(y, m) \in 0 .. 335
  BY MonthLength, PrecedingNext
<1>5. CASE ~LastOfMonth /\ date' = NextDay
  <2>1. date' = [year |-> y, month |-> m, day |-> d + 1, yday |-> n + 1]
    BY <1>1, <1>5 DEF NextDay
  <2>2. d + 1 <= Length(y, m)
    BY <1>1, <1>4, <1>5 DEF LastOfMonth
  <2>3. n + 1 = DaysPreceding(y, m) + (d + 1) /\ (n + 1) - 1 = n
    BY <1>1, <1>4
  <2> QED BY <1>3, <2>1, <2>2, <2>3 DEF DateInv
<1>6. CASE LastOfMonth /\ date.month < 12 /\ date' = NextMonth
  <2>1. date' = [year |-> y, month |-> m + 1, day |-> 1, yday |-> n + 1] /\ m < 12
    BY <1>1, <1>6 DEF NextMonth
  <2>2. 1 <= Length(y, m + 1) /\ DaysPreceding(y, m + 1) = DaysPreceding(y, m) + Length(y, m)
    <3>1. m + 1 \in 1 .. 12
      BY <2>1
    <3>2. Length(y, m + 1) \in 28 .. 31
      BY <3>1, MonthLength
    <3>3. DaysPreceding(y, m + 1) = DaysPreceding(y, m) + Length(y, m)
      BY <2>1, PrecedingNext
    <3> QED BY <3>2, <3>3
  <2>3. d = Length(y, m)
    BY <1>1, <1>6 DEF LastOfMonth
  <2>4. n + 1 = DaysPreceding(y, m + 1) + 1 /\ (n + 1) - 1 = n
    BY <1>1, <1>4, <2>2, <2>3
  <2> QED BY <1>3, <2>1, <2>2, <2>4 DEF DateInv
<1>7. CASE LastOfMonth /\ date.month = 12 /\ date' = NextYear
  <2>1. date' = [year |-> y + 1, month |-> 1, day |-> 1, yday |-> 1] /\ m = 12
        /\ d = Length(y, m)
    BY <1>1, <1>7 DEF NextYear, LastOfMonth
  <2>2. /\ DaysPreceding(y + 1, 1) = 0 /\ 1 <= Length(y + 1, 1)
        /\ DaysPreceding(y, 12) + Length(y, 12) = 365 + LeapDays(y)
    BY MonthLength, PrecedingNext
  <2>3. n = 365 + LeapDays(y)
    BY <1>1, <2>1, <2>2
  <2>4. /\ LeapsBefore((y - 1) + 1) = LeapsBefore(y - 1) + LeapDays((y - 1) + 1)
        /\ LeapsBefore(y - 1) \in Int /\ LeapDays((y - 1) + 1) \in {0, 1} /\ (y - 1) + 1 = y
    BY LeapsBeforeNext
  <2>5. YdToRdn(y, n) = 365 * (y - 1) + LeapsBefore(y - 1) + n
    BY YdToRdnIs
  <2>6. YdToRdn(y + 1, 0) = 365 * y + LeapsBefore(y)
    BY <2>4, YdToRdnIs
  <2>7. YdToRdn(y + 1, 0) = YdToRdn(y, n)
    BY <2>3, <2>4, <2>5, <2>6
  <2> QED BY <1>3, <2>1, <2>2, <2>7 DEF DateInv
<1> QED BY <1>5, <1>6, <1>7 DEF Midnight

\* The walk stays in the calendar.
THEOREM WalkInvariant == Spec => []DateInv
<1>1. Init => DateInv
  BY InitDateInv
<1>2. DateInv /\ [Midnight]_vars => DateInv'
  BY MidnightDateInv DEF vars, DateInv
<1> QED BY <1>1, <1>2, PTL DEF Spec

-----------------------------------------------------------------------------
(* The day number of a date. *)

LEMMA YmdToRdnIs == DateInv => DayOfDate
<1> SUFFICES ASSUME DateInv PROVE DayOfDate
  OBVIOUS
<1>1. PICK y \in Nat \ {0}, m \in 1 .. 12, d \in Nat \ {0}, n \in Nat :
        /\ date = [year |-> y, month |-> m, day |-> d, yday |-> n]
        /\ n = DaysPreceding(y, m) + d /\ rdn = YdToRdn(y, n - 1)
  BY DEF DateInv
<1>2. DaysPreceding(y, m) \in 0 .. 335 /\ y \in Nat
  BY PrecedingNext
<1>3. YmdToRdn(y, m, d) = rdn
  BY <1>1, <1>2 DEF YmdToRdn
<1>4. ASSUME y > 1 PROVE YmdToRdn(y - 1, m + 12, d) = rdn
  <2>1. CASE m = 12
    <3>1. (m + 12) % 12 = 0 /\ (m + 12) \div 12 = 2 /\ (y - 1) + 2 - 1 = y /\ m + 12 > 12
      BY <2>1
    <3> QED BY <1>1, <1>2, <2>1, <3>1 DEF YmdToRdn
  <2>2. CASE m # 12
    <3>1. /\ (m + 12) % 12 = m /\ ~(m < 1) /\ (m + 12) \div 12 = 1
          /\ (y - 1) + 1 - 0 = y /\ m + 12 > 12
      BY <2>2
    <3>2. YmdToRdn(y - 1, m + 12, d) = YdToRdn(y, DaysPreceding(y, m) + d - 1)
      <4>1. (m + 12 < 1 \/ m + 12 > 12) = TRUE
        OBVIOUS
      <4>2. YmdToRdn(y - 1, m + 12, d)
              = YdToRdn((y - 1) + 1 - 0, DaysPreceding((y - 1) + 1 - 0, m) + d - 1)
        BY <3>1, <4>1, Zenon DEF YmdToRdn
      <4> QED BY <3>1, <4>2
    <3> QED BY <1>1, <1>2, <3>2
  <2> QED BY <2>1, <2>2
<1> QED BY <1>1, <1>3, <1>4 DEF DayOfDate

\* The day number of any date of the calendar is that of the walk, also of one
\* written with a month of the year before (ymd_to_rdn, yd_to_rdn).
THEOREM DayOfDateHolds == Spec => []DayOfDate
BY YmdToRdnIs, WalkInvariant, PTL

-----------------------------------------------------------------------------
(* The date of a day number.  rdn_to_ymd counts in years that start in March: *)
(* day z of its count is day n of year y, and only the last day of a year that *)
(* ends with a leap day is day 366.                                           *)

MarchDay(y, n) == 365 * y + LeapsBefore(y) + n
LeapEnd(y, n) == n = 366 => LeapYear(y + 1)
YearOf(z) == (100 * Centuries(z) + 100 * z - 25) \div 36525
DayOf(z) == Centuries(z) + z - (1461 * YearOf(z)) \div 4
MonthOf(n) == (535 * n + 48950) \div 16384

MarchYearOf(y, m) == IF m > 2 THEN y ELSE y - 1
MarchDayOf(m, d) == DayOffset[m] + d

\* A number divided by a constant.
LEMMA Parts ==
  ASSUME NEW y \in Nat
  PROVE /\ \E c \in Nat : \E r \in 0 .. 99 : y = 100 * c + r /\ y \div 100 = c
        /\ \E c \in Nat : \E r \in 0 .. 3 : y = 4 * c + r /\ y \div 4 = c
<1>1. y \div 100 \in Nat /\ y % 100 \in 0 .. 99 /\ y = 100 * (y \div 100) + (y % 100)
  BY SMT
<1>2. y \div 4 \in Nat /\ y % 4 \in 0 .. 3 /\ y = 4 * (y \div 4) + (y % 4)
  BY SMT
<1> QED BY <1>1, <1>2

LEMMA CenturiesIs ==
  ASSUME NEW y \in Nat, NEW n \in 1 .. 366, LeapEnd(y, n)
  PROVE Centuries(MarchDay(y, n)) = y \div 100 - y \div 400
<1>a. PICK c \in Nat, r \in 0 .. 99 : y = 100 * c + r /\ y \div 100 = c
  BY Parts
<1>b. PICK k \in Nat, i \in 0 .. 3 : c = 4 * k + i /\ c \div 4 = k
  BY Parts
<1>c. PICK e \in Nat, j \in 0 .. 3 : y = 4 * e + j /\ y \div 4 = e
  BY Parts
<1>d. y \div 400 = k
  <2>1. y = 400 * k + (100 * i + r) /\ 0 <= 100 * i + r /\ 100 * i + r < 400
    BY <1>a, <1>b, SMT
  <2> QED BY <2>1, SMT
<1>1. /\ y = 100 * c + r /\ y \div 100 = c
      /\ c = 4 * k + i /\ y \div 400 = k /\ c \div 4 = k
      /\ y = 4 * e + j /\ y \div 4 = e
  BY <1>a, <1>b, <1>c, <1>d
<1> DEFINE z == MarchDay(y, n)
<1>2. z = 365 * y + e - c + k + n /\ z \in Int
  BY <1>1 DEF MarchDay, LeapsBefore
<1>3. n = 366 => (y + 1) % 4 = 0 /\ ((y + 1) % 100 # 0 \/ (y + 1) % 400 = 0)
  BY DEF LeapYear, LeapEnd
<1>4. 3652425 * c <= 100 * z - 25
  BY <1>1, <1>2, SMT
<1>5. 100 * z - 25 < 3652425 * (c + 1)
  BY <1>1, <1>2, <1>3, SMT
<1> HIDE DEF z
<1>6. (100 * z - 25) \div 3652425 = c
  BY <1>2, <1>4, <1>5, SMT
<1> QED BY <1>1, <1>6 DEF Centuries, z

\* The year and the day of the year.
LEMMA MarchYear ==
  ASSUME NEW y \in Nat, NEW n \in 1 .. 366, LeapEnd(y, n)
  PROVE YearOf(MarchDay(y, n)) = y /\ DayOf(MarchDay(y, n)) = n
<1> DEFINE b == Centuries(MarchDay(y, n))
<1> HIDE DEF b
<1>1. PICK e \in Nat, j \in 0 .. 3 : y = 4 * e + j /\ y \div 4 = e
  BY Parts
<1>2. b = y \div 100 - y \div 400
  BY CenturiesIs DEF b
<1>3. b \in Int /\ MarchDay(y, n) \in Int /\ b + MarchDay(y, n) = 365 * y + e + n
  BY <1>1, <1>2, SMT DEF MarchDay, LeapsBefore
<1>4. n = 366 => (y + 1) % 4 = 0
  BY DEF LeapYear, LeapEnd
<1>5. n = 366 => j = 3
  BY <1>1, <1>4, SMT
<1> DEFINE z == MarchDay(y, n)
<1> HIDE DEF z
<1>6. 100 * b + 100 * z - 25 = 100 * (365 * y + e + n) - 25
  BY <1>3, SMT DEF z
<1>7. (100 * b + 100 * z - 25) \div 36525 = y
  <2>1. 36525 * y <= 100 * (365 * y + e + n) - 25
    BY <1>1, SMT
  <2>2. 100 * (365 * y + e + n) - 25 < 36525 * (y + 1)
    BY <1>1, <1>5, SMT
  <2> QED BY <1>1, <1>6, <2>1, <2>2, SMT
<1>8. (1461 * y) \div 4 = 365 * y + e
  BY <1>1, SMT
<1>9. b + z - (1461 * y) \div 4 = n
  BY <1>1, <1>3, <1>8, SMT DEF z
<1> QED BY <1>7, <1>9 DEF z, b, YearOf, DayOf

\* The month, from 3 for March to 14 for February of the year after.
LEMMA MarchMonth ==
  ASSUME NEW m \in 1 .. 12, NEW d \in 1 .. 31,
         m = 2 => d <= 29, m \in {4, 6, 9, 11} => d <= 30
  PROVE MonthOf(MarchDayOf(m, d)) = IF m > 2 THEN m ELSE m + 12
<1> DEFINE f(n) == (535 * n + 48950) \div 16384
<1>1. /\ d <= 31 => f(0 + d) = 3
      /\ d <= 30 => f(31 + d) = 4
      /\ d <= 31 => f(61 + d) = 5
      /\ d <= 30 => f(92 + d) = 6
      /\ d <= 31 => f(122 + d) = 7
      /\ d <= 31 => f(153 + d) = 8
  BY SMT
<1>2. /\ d <= 30 => f(184 + d) = 9
      /\ d <= 31 => f(214 + d) = 10
      /\ d <= 30 => f(245 + d) = 11
      /\ d <= 31 => f(275 + d) = 12
      /\ d <= 31 => f(306 + d) = 13
      /\ d <= 29 => f(337 + d) = 14
  BY SMT
<1> HIDE DEF f
<1>3. f(DayOffset[m] + d) = IF m > 2 THEN m ELSE m + 12
  BY <1>1, <1>2, MonthCases, SMT DEF DayOffset
<1> QED BY <1>3 DEF f, MonthOf, MarchDayOf

\* Day d of month m of year y, its day of the year k, is day n of year Y.
SameDay(y, m, d, k, Y, n) ==
  /\ Y = MarchYearOf(y, m) /\ n = MarchDayOf(m, d)
  /\ LeapEnd(Y, n)
  /\ YdToRdn(y, k - 1) + 307 = MarchDay(Y, n)
  /\ k = IF m > 2 THEN n + 59 + (IF LeapYear(y) THEN 1 ELSE 0) ELSE n - 306

\* A date of the calendar as a day of a year that starts in March.
LEMMA MarchDate ==
  ASSUME NEW y \in Nat \ {0}, NEW m \in 1 .. 12, NEW d \in Nat \ {0}, d <= Length(y, m),
         NEW k \in Nat, k = DaysPreceding(y, m) + d
  PROVE \E Y \in Nat : \E n \in 1 .. 366 : SameDay(y, m, d, k, Y, n)
<1>0. PICK Y \in Nat, n \in Int : Y = MarchYearOf(y, m) /\ n = MarchDayOf(m, d)
  BY MonthCases DEF MarchYearOf, MarchDayOf, DayOffset
<1>1. /\ LeapDays(y) = IF LeapYear(y) THEN 1 ELSE 0
      /\ Length(y, m) = MonthDays(y, m) /\ DaysPreceding(y, m) \in 0 .. 335
  BY LeapDaysIs, MonthLength, PrecedingNext
<1>2. Y \in Nat /\ Y = (IF m > 2 THEN y ELSE y - 1)
  BY <1>0 DEF MarchYearOf
<1>3. n \in 1 .. 366 /\ (n = 366 => m = 2 /\ LeapYear(y))
  BY <1>0, <1>1, MonthCases, SMT DEF DayOffset, MonthDays, MarchDayOf
<1>4. k = IF m > 2 THEN n + 59 + (IF LeapYear(y) THEN 1 ELSE 0) ELSE n - 306
  BY <1>0, MonthCases, SMT DEF DayOffset, DaysPreceding, MarchDayOf
<1>5. /\ LeapsBefore((y - 1) + 1) = LeapsBefore(y - 1) + LeapDays((y - 1) + 1)
      /\ LeapsBefore(y - 1) \in Int /\ (y - 1) + 1 = y
  BY LeapsBeforeNext
<1> DEFINE p == k - 1
<1>6. p \in Int
  OBVIOUS
<1> HIDE DEF p
<1>7. YdToRdn(y, p) = 365 * (y - 1) + LeapsBefore(y - 1) + p
  BY <1>6, YdToRdnIs
<1>8. p + 1 = k
  BY DEF p
<1>9. YdToRdn(y, p) + 307 = 365 * Y + LeapsBefore(Y) + n
  <2>1. PICK leaps \in Int : leaps = LeapsBefore(y - 1)
    BY <1>5
  <2>2. CASE m > 2
    <3>1. LeapsBefore(Y) = leaps + (IF LeapYear(y) THEN 1 ELSE 0)
      BY <1>1, <1>2, <1>5, <2>1, <2>2
    <3>2. p + 1 = n + 59 + (IF LeapYear(y) THEN 1 ELSE 0)
      BY <1>4, <1>8, <2>2
    <3> QED BY <1>2, <1>3, <1>6, <1>7, <2>1, <2>2, <3>1, <3>2, SMT
  <2>3. CASE ~(m > 2)
    <3>1. Y = y - 1 /\ LeapsBefore(Y) = leaps /\ p + 1 = n - 306
      BY <1>2, <1>4, <1>8, <2>1, <2>3
    <3> QED BY <1>3, <1>6, <1>7, <2>1, <3>1, SMT
  <2> QED BY <2>2, <2>3
<1>10. YdToRdn(y, k - 1) + 307 = MarchDay(Y, n)
  BY <1>9 DEF p, MarchDay
<1>11. LeapEnd(Y, n)
  BY <1>2, <1>3 DEF LeapEnd
<1> WITNESS Y \in Nat
<1> USE <1>3
<1> WITNESS n \in 1 .. 366
<1> QED BY <1>0, <1>4, <1>10, <1>11 DEF SameDay

LEMMA RdnToYmdIs == DateInv => DateOfDay
<1> SUFFICES ASSUME DateInv PROVE DateOfDay
  OBVIOUS
<1>1. PICK y \in Nat \ {0}, m \in 1 .. 12, d \in Nat \ {0}, k \in Nat :
        /\ date = [year |-> y, month |-> m, day |-> d, yday |-> k]
        /\ d <= Length(y, m) /\ k = DaysPreceding(y, m) + d /\ rdn = YdToRdn(y, k - 1)
  BY DEF DateInv
<1>0. PICK Y \in Nat, n \in 1 .. 366 : SameDay(y, m, d, k, Y, n)
  BY <1>1, MarchDate
<1>2. /\ Y = MarchYearOf(y, m) /\ n = MarchDayOf(m, d)
      /\ LeapEnd(Y, n)
      /\ YdToRdn(y, k - 1) + 307 = MarchDay(Y, n)
      /\ k = IF m > 2 THEN n + 59 + (IF LeapYear(y) THEN 1 ELSE 0) ELSE n - 306
  BY <1>0 DEF SameDay
<1>3. Y = (IF m > 2 THEN y ELSE y - 1) /\ n = DayOffset[m] + d
  BY <1>2 DEF MarchYearOf, MarchDayOf
<1>4. Length(y, m) = MonthDays(y, m) /\ Length(y, m) \in 28 .. 31
  BY MonthLength
<1>5. d \in 1 .. 31 /\ (m = 2 => d <= 29) /\ (m \in {4, 6, 9, 11} => d <= 30)
  BY <1>1, <1>4, MonthCases, SMT DEF MonthDays
<1>6. rdn \in Int /\ rdn + 1 + 306 = MarchDay(Y, n)
  <2>1. YdToRdn(y, k - 1) \in Int
    BY <1>1, YdToRdnIs, LeapsBeforeNext
  <2> QED BY <1>1, <1>2, <2>1
<1> DEFINE z == rdn + 1 + 306
           year == YearOf(z)
           day == DayOf(z)
           month == MonthOf(day)
<1>7. year = Y /\ day = n
  <2>1. YearOf(MarchDay(Y, n)) = Y /\ DayOf(MarchDay(Y, n)) = n
    BY <1>2, MarchYear
  <2> QED BY <1>6, <2>1
<1>8. month = IF m > 2 THEN m ELSE m + 12
  <2>1. MonthOf(MarchDayOf(m, d)) = IF m > 2 THEN m ELSE m + 12
    BY <1>5, MarchMonth
  <2> QED BY <1>2, <1>7, <2>1
<1>9. RdnToYmd(rdn) =
        IF month > 12
        THEN [year |-> year + 1, month |-> month - 12, day |-> day - DayOffset[month - 12],
              yday |-> day - 306]
        ELSE [year |-> year, month |-> month, day |-> day - DayOffset[month],
              yday |-> day + 59 + (IF LeapYear(year) THEN 1 ELSE 0)]
  BY SMT DEF RdnToYmd, YearOf, DayOf, MonthOf
<1> HIDE DEF z, year, day, month
<1>10. DayOffset[m] \in Int
  BY MonthCases DEF DayOffset
<1>11. RdnToYmd(rdn) = [year |-> y, month |-> m, day |-> d, yday |-> k]
  <2>1. CASE m > 2
    <3>1. month = m /\ ~(month > 12) /\ year = y /\ day - DayOffset[month] = d
      BY <1>3, <1>7, <1>8, <1>10, <2>1
    <3> QED BY <1>2, <1>7, <1>9, <2>1, <3>1
  <2>2. CASE ~(m > 2)
    <3>1. month - 12 = m /\ month > 12 /\ year + 1 = y
      BY <1>3, <1>7, <1>8, <2>2
    <3>2. day - DayOffset[month - 12] = d /\ day - 306 = k
      BY <1>2, <1>3, <1>7, <1>10, <2>2, <3>1
    <3> QED BY <1>9, <3>1, <3>2
  <2> QED BY <2>1, <2>2
<1> QED BY <1>1, <1>11 DEF DateOfDay

\* The date computed from a day number is that of the calendar (rdn_to_ymd).
THEOREM DateOfDayHolds == Spec => []DateOfDay
BY RdnToYmdIs, WalkInvariant, PTL

-----------------------------------------------------------------------------
(* The times of a day. *)

LEMMA DayTypes ==
  ASSUME DateInv
  PROVE /\ rdn \in Int /\ date.year \in Nat \ {0} /\ date.month \in 1 .. 12
        /\ date.day \in 1 .. 31 /\ date.yday \in Nat
        /\ Length(date.year, date.month) = MonthDays(date.year, date.month)
        /\ Length(date.year, date.month) \in 28 .. 31
        /\ date.day <= Length(date.year, date.month)
        /\ RdnToYmd(rdn) = date /\ YmdToRdn(date.year, date.month, date.day) = rdn
<1>1. /\ date.year \in Nat \ {0} /\ date.month \in 1 .. 12 /\ date.day \in Nat \ {0}
      /\ date.yday \in Nat /\ date.day <= Length(date.year, date.month)
      /\ rdn = YdToRdn(date.year, date.yday - 1)
  BY DEF DateInv
<1>2. /\ Length(date.year, date.month) = MonthDays(date.year, date.month)
      /\ Length(date.year, date.month) \in 28 .. 31
  BY <1>1, MonthLength
<1>3. rdn \in Int
  <2>1. PICK y \in Nat \ {0}, k \in Int : rdn = YdToRdn(y, k)
    BY <1>1
  <2>2. rdn = 365 * (y - 1) + LeapsBefore(y - 1) + k
    BY <2>1, YdToRdnIs
  <2>3. LeapsBefore(y - 1) \in Int
    BY LeapsBeforeNext
  <2> QED BY <2>2, <2>3
<1>4. RdnToYmd(rdn) = date
  BY RdnToYmdIs DEF DateOfDay
<1>5. YmdToRdn(date.year, date.month, date.day) = rdn
  BY YmdToRdnIs DEF DayOfDate
<1> QED BY <1>1, <1>2, <1>3, <1>4, <1>5

\* datetime_decode splits a time into the date and the hour, minute and second.
LEMMA Decoded ==
  ASSUME DateInv, NEW s, NEW u
  PROVE Decode(Datetime(rdn, s, u)) =
          [year |-> date.year, month |-> date.month, day |-> date.day, hour |-> s \div 3600,
           minute |-> s \div 60 % 60, second |-> s % 60, usec |-> u]
<1> DEFINE dt == Datetime(rdn, s, u)
<1>1. dt.day = rdn /\ dt.sec = s /\ dt.usec = u
  BY DEF Datetime
<1>2. RdnToYmd(rdn) = date
  BY DayTypes
<1> HIDE DEF dt
<1>3. Decode(dt) =
        [year |-> RdnToYmd(dt.day).year, month |-> RdnToYmd(dt.day).month,
         day |-> RdnToYmd(dt.day).day, hour |-> dt.sec \div 3600,
         minute |-> dt.sec \div 60 % 60, second |-> dt.sec % 60, usec |-> dt.usec]
  BY Zenon DEF Decode
<1>4. Decode(dt) =
          [year |-> date.year, month |-> date.month, day |-> date.day, hour |-> s \div 3600,
           minute |-> s \div 60 % 60, second |-> s % 60, usec |-> u]
  BY <1>1, <1>2, <1>3, SMT
<1> QED BY <1>4 DEF dt

LEMMA Sixty ==
  ASSUME NEW s \in Nat
  PROVE \E q \in Nat : \E r \in 0 .. 59 : s = 60 * q + r /\ s \div 60 = q /\ s % 60 = r
<1>1. s \div 60 \in Nat /\ s % 60 \in 0 .. 59 /\ s = 60 * (s \div 60) + (s % 60)
  BY SMT
<1> QED BY <1>1

\* The hour, minute and second of a time of the day.
Clock(s, h, i, r) ==
  /\ s = h * 3600 + i * 60 + r
  /\ s \div 3600 = h /\ s \div 60 % 60 = i /\ s % 60 = r

LEMMA HourMinuteSecond ==
  ASSUME NEW s \in Nat
  PROVE \E h \in Nat : \E i \in 0 .. 59 : \E r \in 0 .. 59 : Clock(s, h, i, r)
<1>1. PICK q \in Nat, r \in 0 .. 59 : s = 60 * q + r /\ s \div 60 = q /\ s % 60 = r
  BY Sixty
<1>2. PICK h \in Nat, i \in 0 .. 59 : q = 60 * h + i /\ q \div 60 = h /\ q % 60 = i
  BY Sixty
<1>3. s = h * 3600 + i * 60 + r
  BY <1>1, <1>2, SMT
<1>4. s \div 3600 = h
  <2>1. 3600 * h <= s /\ s < 3600 * (h + 1)
    BY <1>3, SMT
  <2> QED BY <2>1, SMT
<1>5. s \div 60 % 60 = i
  BY <1>1, <1>2
<1>6. Clock(s, h, i, r)
  BY <1>1, <1>3, <1>4, <1>5 DEF Clock
<1> QED BY <1>6

\* The parser accepts a day of the month exactly when the calendar has it
\* (datetime_from_iso8601, month_days).
THEOREM RealDatesOnlyHolds == Spec => []RealDatesOnly
<1>1. ASSUME DateInv PROVE RealDatesOnly
  <2> SUFFICES ASSUME NEW d \in 1 .. 31
               PROVE Accepts([Format(Datetime(rdn, 0, 0), 0) EXCEPT !.day = d])
                       <=> d <= Length(date.year, date.month)
    BY DEF RealDatesOnly
  <2> DEFINE f == [year |-> date.year, month |-> date.month, day |-> date.day,
                   hour |-> 0, minute |-> 0, second |-> 0,
                   digits |-> 0, fraction |-> 0 \div Pow10[10], sign |-> "Z",
                   zoneHour |-> 0, zoneMinute |-> 0]
             g == [f EXCEPT !.day = d]
  <2>1. Decode(Datetime(rdn, 0, 0)) =
          [year |-> date.year, month |-> date.month, day |-> date.day, hour |-> 0,
           minute |-> 0, second |-> 0, usec |-> 0]
    <3>1. 0 \div 3600 = 0 /\ 0 \div 60 % 60 = 0 /\ 0 % 60 = 0
      BY SMT
    <3>2. Decode(Datetime(rdn, 0, 0)) =
            [year |-> date.year, month |-> date.month, day |-> date.day, hour |-> 0 \div 3600,
             minute |-> 0 \div 60 % 60, second |-> 0 % 60, usec |-> 0]
      BY <1>1, Decoded
    <3> QED BY <3>1, <3>2
  <2>2. Format(Datetime(rdn, 0, 0), 0) = f
    BY <2>1 DEF Format, Datetime, Precision
  <2>3. /\ g.year = date.year /\ g.month = date.month /\ g.day = d /\ g.hour = 0 /\ g.minute = 0
        /\ g.second = 0 /\ g.digits = 0 /\ g.sign = "Z"
    OBVIOUS
  <2> HIDE DEF f, g
  <2>4. Accepts(g) <=> (d > 28 => d <= MonthDays(date.year, date.month))
    BY <1>1, <2>3, DayTypes DEF Accepts
  <2>5. Accepts(g) <=> d <= Length(date.year, date.month)
    BY <1>1, <2>4, DayTypes
  <2> QED BY <2>2, <2>5 DEF g
<1> QED BY <1>1, WalkInvariant, PTL

\* The subtraction of an offset carries into the day.
LEMMA MinusIs ==
  ASSUME NEW day \in Int, NEW s \in Int, NEW u, NEW o \in Int
  PROVE /\ Minus(Datetime(day, s, u), o).day \in Int
        /\ Minus(Datetime(day, s, u), o).sec \in 0 .. SecondsPerDay - 1
        /\ (Minus(Datetime(day, s, u), o).day - day) * SecondsPerDay
             + Minus(Datetime(day, s, u), o).sec = s - o
        /\ Minus(Datetime(day, s, u), o).usec = u
<1>1. PICK x \in Int : x = s - o
  OBVIOUS
<1>2. PICK q \in Int, r \in Int : /\ q = x \div SecondsPerDay /\ r = x % SecondsPerDay
                                  /\ r \in 0 .. SecondsPerDay - 1 /\ x = q * SecondsPerDay + r
  <2>1. PICK b \in Nat \ {0} : b = SecondsPerDay
    BY SMT DEF SecondsPerDay
  <2>2. x \div b \in Int /\ x % b \in 0 .. b - 1 /\ x = (x \div b) * b + (x % b)
    BY SMT
  <2> QED BY <2>1, <2>2
<1> DEFINE dt == Minus(Datetime(day, s, u), o)
<1>3. /\ dt.day = day + (s - o) \div SecondsPerDay
      /\ dt.sec = (s - o) % SecondsPerDay /\ dt.usec = u
  BY DEF Minus, Datetime
<1> HIDE DEF dt
<1>4. dt.day = day + q /\ dt.sec = r
  BY <1>1, <1>2, <1>3
<1>5. (dt.day - day) * SecondsPerDay + dt.sec = s - o
  <2>1. dt.day - day = q
    BY <1>4
  <2> QED BY <1>1, <1>2, <1>4, <2>1
<1> QED BY <1>2, <1>3, <1>4, <1>5 DEF dt

LEMMA TimesAre ==
  /\ \A s \in Seconds : s \in Nat /\ s < SecondsPerDay
  /\ \A z \in Zones : z \in Int
<1>1. Seconds \subseteq 0 .. SecondsPerDay - 1
  BY TimeAssumption, PTL
<1>2. PICK b \in Nat : b = SecondsPerDay - 1 /\ SecondsPerDay = b + 1
  BY SMT DEF SecondsPerDay
<1>3. Zones \subseteq -1439 .. 1439
  BY TimeAssumption, PTL
<1>4. \A s \in Seconds : s \in Nat /\ s < SecondsPerDay
  BY <1>1, <1>2, SMT
<1>5. \A z \in Zones : z \in Int
  BY <1>3, SMT
<1> QED BY <1>4, <1>5

LEMMA MicrosAre == \A u \in Micros : u \in Nat /\ u < MicrosPerSecond
<1>1. Micros \subseteq 0 .. MicrosPerSecond - 1
  BY TimeAssumption, PTL
<1>2. PICK b \in Nat : b = MicrosPerSecond - 1 /\ MicrosPerSecond = b + 1
  BY SMT DEF MicrosPerSecond
<1> QED BY <1>1, <1>2, SMT

\* A local time with its offset is read as the instant that it names, also when
\* it falls on another day (datetime_from_iso8601, datetime_from_ymd).
THEOREM ParsedInstantHolds == Spec => []ParsedInstant
<1>1. ASSUME DateInv, NEW s \in Seconds, NEW z \in Zones,
             NEW f, f = [year |-> date.year, month |-> date.month, day |-> date.day,
              hour |-> s \div 3600, minute |-> s \div 60 % 60, second |-> s % 60,
              digits |-> 0, fraction |-> 0, sign |-> IF z < 0 THEN "-" ELSE "+",
              zoneHour |-> (IF z < 0 THEN -z ELSE z) \div 60,
              zoneMinute |-> (IF z < 0 THEN -z ELSE z) % 60]
      PROVE /\ (FromIso8601(f).day - rdn) * SecondsPerDay + FromIso8601(f).sec = s - z * 60
            /\ FromIso8601(f).sec \in 0 .. SecondsPerDay - 1
  <2>1. s \in Nat /\ z \in Int
    BY TimesAre, SMT
  <2>2. PICK h \in Nat, i \in 0 .. 59, r \in 0 .. 59 : Clock(s, h, i, r)
    BY <2>1, HourMinuteSecond
  <2>3. PICK size \in Nat : size = IF z < 0 THEN -z ELSE z
    BY <2>1
  <2>4. PICK p \in Nat, q \in 0 .. 59 :
          size = 60 * p + q /\ size \div 60 = p /\ size % 60 = q
    BY Sixty
  <2>5. /\ f.year = date.year /\ f.month = date.month /\ f.day = date.day
        /\ f.hour = h /\ f.minute = i /\ f.second = r /\ f.digits = 0 /\ f.fraction = 0
        /\ f.zoneHour = p /\ f.zoneMinute = q /\ f.sign = IF z < 0 THEN "-" ELSE "+"
    BY <1>1, <2>2, <2>3, <2>4 DEF Clock
  <2>6. Offset(f) = z * 60
    <3>1. (f.zoneHour * 60 + f.zoneMinute) * 60 = size * 60
      BY <2>4, <2>5
    <3>2. CASE z < 0
      BY <2>1, <2>3, <2>5, <3>1, <3>2 DEF Offset
    <3>3. CASE ~(z < 0)
      BY <2>1, <2>3, <2>5, <3>1, <3>3 DEF Offset
    <3> QED BY <3>2, <3>3
  <2>7. PICK u : u = Nanoseconds(f) \div 1000
    OBVIOUS
  <2>8. FromIso8601(f) = Minus(Datetime(rdn, s, u), z * 60)
    <3>1. h * 3600 + i * 60 + r = s
      BY <2>2, SMT DEF Clock
    <3>2. YmdToRdn(date.year, date.month, date.day) = rdn
      BY <1>1, DayTypes
    <3> QED BY <2>5, <2>6, <2>7, <3>1, <3>2, SMT DEF FromIso8601, Encode
  <2>9. rdn \in Int /\ z * 60 \in Int
    BY <1>1, <2>1, DayTypes
  <2> QED BY <2>1, <2>8, <2>9, MinusIs
<1>2. DateInv => ParsedInstant
  <2> SUFFICES ASSUME DateInv, NEW s \in Seconds, NEW z \in Zones
               PROVE LET f == [year |-> date.year, month |-> date.month, day |-> date.day,
                               hour |-> s \div 3600, minute |-> s \div 60 % 60, second |-> s % 60,
                               digits |-> 0, fraction |-> 0, sign |-> IF z < 0 THEN "-" ELSE "+",
                               zoneHour |-> (IF z < 0 THEN -z ELSE z) \div 60,
                               zoneMinute |-> (IF z < 0 THEN -z ELSE z) % 60]
                         dt == FromIso8601(f)
                     IN rdn > 0 \/ s >= z * 60 =>
                        /\ (dt.day - rdn) * SecondsPerDay + dt.sec = s - z * 60
                        /\ dt.sec \in 0 .. SecondsPerDay - 1
    BY SMT DEF ParsedInstant
  <2> QED BY <1>1, SMT
<1> QED BY <1>2, WalkInvariant, PTL

\* The digits that datetime_format prints are read as whole milliseconds.
LEMMA FractionIs ==
  ASSUME NEW u \in Nat, u < MicrosPerSecond,
         NEW f, f.digits = Precision(u), f.fraction = u \div Pow10[10 - f.digits]
  PROVE f.digits \in Nat /\ f.digits <= 9 /\ Nanoseconds(f) \div 1000 = u \div 1000
<1>1. CASE u = 0
  <2>1. f.digits = 0 /\ Pow10[10] = 1000000000
    BY <1>1, SMT DEF Precision, Pow10
  <2>2. f.fraction = 0
    BY <1>1, <2>1, SMT
  <2>3. Nanoseconds(f) = 0
    BY <2>1, <2>2, SMT DEF Nanoseconds
  <2> QED BY <1>1, <2>1, <2>3, SMT
<1>2. CASE u # 0 /\ u % 1000 = 0
  <2>1. u % 1000000 # 0
    BY <1>2, SMT DEF MicrosPerSecond
  <2>2. f.digits = 6
    BY <1>2, <2>1, SMT DEF Precision
  <2>3. Pow10[4] = 1000
    BY SMT DEF Pow10
  <2>4. f.fraction = u \div 1000 /\ Nanoseconds(f) = (u \div 1000) * 1000
    BY <2>2, <2>3, SMT DEF Nanoseconds
  <2>5. (u \div 1000) * 1000 = u
    BY <1>2, SMT
  <2> QED BY <2>2, <2>4, <2>5, SMT
<1>3. CASE u # 0 /\ u % 1000 # 0
  <2>1. u % 1000000 # 0
    BY <1>3, SMT
  <2>2. f.digits = 9
    BY <1>3, <2>1, SMT DEF Precision
  <2>3. Pow10[1] = 1
    BY SMT DEF Pow10
  <2>4. f.fraction = u /\ Nanoseconds(f) = u
    BY <2>2, <2>3, SMT DEF Nanoseconds
  <2> QED BY <2>2, <2>4, SMT
<1> QED BY <1>1, <1>2, <1>3, SMT

\* A time that is formatted in UTC is accepted and read back as the same second,
\* never later (datetime_format, datetime_from_iso8601).
THEOREM RoundTripHolds == Spec => []RoundTrip
<1>1. ASSUME DateInv, NEW s \in Seconds, NEW u \in Micros,
             NEW f, f = Format(Datetime(rdn, s, u), 0)
      PROVE /\ Accepts(f)
            /\ FromIso8601(f).day = rdn /\ FromIso8601(f).sec = s /\ FromIso8601(f).usec <= u
            /\ u = 0 => FromIso8601(f).usec = 0
  <2>1. s \in Nat /\ u \in Nat /\ u < MicrosPerSecond
    BY TimesAre, MicrosAre, SMT
  <2>2. PICK h \in Nat, i \in 0 .. 59, r \in 0 .. 59 : Clock(s, h, i, r)
    BY <2>1, HourMinuteSecond
  <2>11. s < SecondsPerDay
    BY TimesAre, SMT
  <2>3. h <= 23
    BY <2>1, <2>2, <2>11, SMT DEF Clock, SecondsPerDay
  <2>4. Decode(Datetime(rdn, s, u)) =
          [year |-> date.year, month |-> date.month, day |-> date.day, hour |-> h,
           minute |-> i, second |-> r, usec |-> u]
    BY <1>1, <2>2, Decoded, SMT DEF Clock
  <2>5. /\ f.year = date.year /\ f.month = date.month /\ f.day = date.day
        /\ f.hour = h /\ f.minute = i /\ f.second = r /\ f.sign = "Z"
        /\ f.digits = Precision(u) /\ f.fraction = u \div Pow10[10 - f.digits]
    BY <1>1, <2>4, SMT DEF Format, Datetime
  <2>6. f.digits \in Nat /\ f.digits <= 9 /\ Nanoseconds(f) \div 1000 = u \div 1000
    BY <2>1, <2>5, FractionIs, SMT
  <2>7. Accepts(f)
    BY <1>1, <2>3, <2>5, <2>6, DayTypes, SMT DEF Accepts
  <2>8. FromIso8601(f) = Minus(Datetime(rdn, s, u \div 1000), 0)
    <3>1. h * 3600 + i * 60 + r = s
      BY <2>2, SMT DEF Clock
    <3>2. YmdToRdn(date.year, date.month, date.day) = rdn
      BY <1>1, DayTypes
    <3>3. Offset(f) = 0
      BY <2>5, SMT DEF Offset
    <3> QED BY <2>5, <2>6, <3>1, <3>2, <3>3, SMT DEF FromIso8601, Encode
  <2> DEFINE dt == Minus(Datetime(rdn, s, u \div 1000), 0)
  <2>9. dt.day = rdn /\ dt.sec = s /\ dt.usec = u \div 1000
    <3>1. s % SecondsPerDay = s /\ s \div SecondsPerDay = 0 /\ s - 0 = s
      BY <2>1, <2>11, SMT DEF SecondsPerDay
    <3>2. rdn + 0 = rdn
      BY <1>1, DayTypes
    <3>3. /\ dt.day = rdn + (s - 0) \div SecondsPerDay
          /\ dt.sec = (s - 0) % SecondsPerDay /\ dt.usec = u \div 1000
      BY SMT DEF Minus, Datetime
    <3> HIDE DEF dt
    <3> QED BY <3>1, <3>2, <3>3, SMT
  <2> HIDE DEF dt
  <2>10. u \div 1000 <= u /\ (u = 0 => u \div 1000 = 0)
    BY <2>1, SMT
  <2> QED BY <2>7, <2>8, <2>9, <2>10, SMT DEF dt
<1>2. DateInv => RoundTrip
  <2> SUFFICES ASSUME DateInv, NEW s \in Seconds, NEW u \in Micros
               PROVE LET f == Format(Datetime(rdn, s, u), 0)
                         dt == FromIso8601(f)
                     IN /\ Accepts(f)
                        /\ dt.day = rdn /\ dt.sec = s /\ dt.usec <= u
                        /\ u = 0 => dt.usec = 0
    BY SMT DEF RoundTrip
  <2> QED BY <1>1, SMT
<1> QED BY <1>2, WalkInvariant, PTL

\* The days from the epoch on are those of the years from 1970 on.
LEMMA EpochIs ==
  ASSUME DateInv
  PROVE rdn >= EpochDay <=> date.year >= 1970
<1>1. PICK y \in Nat, k \in Nat :
        /\ date.year = y + 1 /\ rdn = YdToRdn(y + 1, k) /\ k < 365 + LeapDays(y + 1)
  <2>1. PICK w \in Nat \ {0}, m \in 1 .. 12, d \in Nat \ {0}, n \in Nat :
          /\ date = [year |-> w, month |-> m, day |-> d, yday |-> n]
          /\ d <= Length(w, m) /\ n = DaysPreceding(w, m) + d /\ rdn = YdToRdn(w, n - 1)
    BY DEF DateInv
  <2>a. PICK y \in Nat : y = w - 1
    OBVIOUS
  <2>b. PICK k \in Int : k = n - 1
    OBVIOUS
  <2>2. w = y + 1 /\ k = n - 1
    BY <2>a, <2>b
  <2>3. DaysPreceding(w, m) \in 0 .. 335 /\ Length(w, m) \in 28 .. 31
    BY PrecedingNext, MonthLength
  <2>4. LeapDays(w) \in {0, 1}
    BY <2>2, LeapsBeforeNext
  <2>5. n <= 365 + LeapDays(w)
    <3>1. DaysPreceding(w, m) + Length(w, m) <= 365 + LeapDays(w)
      <4>1. CASE m = 12
        BY <4>1, <2>4, PrecedingNext
      <4>2. CASE m # 12
        <5>1. DaysPreceding(w, m + 1) = DaysPreceding(w, m) + Length(w, m) /\ m + 1 \in 1 .. 12
          BY <4>2, PrecedingNext
        <5>2. DaysPreceding(w, m + 1) \in 0 .. 335
          BY <5>1, PrecedingNext
        <5> QED BY <2>4, <5>1, <5>2
      <4> QED BY <4>1, <4>2
    <3> QED BY <2>1, <2>3, <2>4, <3>1
  <2>6. k \in Nat /\ k < 365 + LeapDays(w)
    BY <2>1, <2>2, <2>3, <2>4, <2>5
  <2>7. date.year = w /\ rdn = YdToRdn(w, k)
    BY <2>1, <2>2
  <2> QED BY <2>2, <2>6, <2>7
<1>2. rdn = 365 * y + LeapsBefore(y) + k
  <2>1. PICK w \in Nat \ {0} : w = y + 1 /\ w - 1 = y
    OBVIOUS
  <2>2. YdToRdn(w, k) = 365 * (w - 1) + LeapsBefore(w - 1) + k
    BY YdToRdnIs
  <2> QED BY <1>1, <2>1, <2>2
<1>3. y >= 1969 => LeapsBefore(y) >= 477
  BY SMT DEF LeapsBefore
<1>4. y <= 1968 => LeapsBefore(y + 1) <= 477
  BY SMT DEF LeapsBefore
<1>5. LeapsBefore(y + 1) = LeapsBefore(y) + LeapDays(y + 1)
      /\ LeapsBefore(y) \in Int /\ LeapDays(y + 1) \in {0, 1}
  BY LeapsBeforeNext
<1> QED BY <1>1, <1>2, <1>3, <1>4, <1>5, SMT DEF EpochDay

\* datetime_to_tm refuses exactly the times before 1970 and gives the fields of
\* the calendar at all others, but for the weekday, and datetime_from_timeval reads a Unix time as the
\* datetime_t of its date.
THEOREM TmFieldsHolds == Spec => []TmFields
<1>1. ASSUME DateInv, NEW s \in Seconds, NEW dt, dt = Datetime(rdn, s, 0),
             NEW tm, tm = ToTm(dt)
      PROVE /\ ToTmAccepts(dt) <=> date.year >= 1970
            /\ ToTmAccepts(dt) =>
                 /\ <<tm.year + 1900, tm.mon + 1, tm.mday>> = <<date.year, date.month, date.day>>
                 /\ tm.yday = date.yday - 1
                 /\ tm.hour * 3600 + tm.min * 60 + tm.sec = s /\ tm.min < 60 /\ tm.sec < 60
                 /\ FromTimeval(Datetime(rdn - EpochDay, s, 0)) = dt
  <2>1. DateInv
    BY <1>1
  <2>2. /\ rdn \in Int /\ RdnToYmd(rdn) = date
        /\ date.year \in Nat /\ date.month \in 1 .. 12 /\ date.day \in 1 .. 31 /\ date.yday \in Nat
    BY <2>1, DayTypes
  <2>3. s \in Nat
    BY TimesAre, SMT
  <2>4. PICK h \in Nat, i \in 0 .. 59, r \in 0 .. 59 : Clock(s, h, i, r)
    BY <2>3, HourMinuteSecond
  <2>5. dt.day = rdn /\ dt.sec = s /\ dt.usec = 0
    BY <1>1 DEF Datetime
  <2>6. Decode(dt) =
          [year |-> date.year, month |-> date.month, day |-> date.day, hour |-> h,
           minute |-> i, second |-> r, usec |-> 0]
    BY <1>1, <2>1, <2>4, Decoded, SMT DEF Clock
  <2>7. ToTmAccepts(dt) <=> date.year >= 1970
    BY <2>1, <2>5, EpochIs, SMT DEF ToTmAccepts
  <2>8. /\ tm.year = date.year - 1900 /\ tm.mon = date.month - 1 /\ tm.mday = date.day
        /\ tm.yday = date.yday - 1
        /\ tm.hour = h /\ tm.min = i /\ tm.sec = r
    BY <1>1, <2>2, <2>5, <2>6, SMT DEF ToTm
  <2>9. tm.year + 1900 = date.year /\ tm.mon + 1 = date.month
    BY <2>2, <2>8, SMT
  <2>10. tm.hour * 3600 + tm.min * 60 + tm.sec = s
    BY <2>4, <2>8, SMT DEF Clock
  <2>11. FromTimeval(Datetime(rdn - EpochDay, s, 0)) = dt
    <3>1. rdn - EpochDay + EpochDay = rdn
      BY <2>2, SMT DEF EpochDay
    <3> QED BY <1>1, <3>1, SMT DEF FromTimeval, Datetime
  <2>12. tm.min < 60 /\ tm.sec < 60
    BY <2>8, SMT
  <2> QED BY <2>1, <2>7, <2>8, <2>9, <2>10, <2>11, <2>12, SMT
<1>2. DateInv => TmFields
  <2> SUFFICES ASSUME DateInv, NEW s \in Seconds
               PROVE LET dt == Datetime(rdn, s, 0)
                         tm == ToTm(dt)
                     IN /\ ToTmAccepts(dt) <=> date.year >= 1970
                        /\ ToTmAccepts(dt) =>
                             /\ <<tm.year + 1900, tm.mon + 1, tm.mday>>
                                  = <<date.year, date.month, date.day>>
                             /\ tm.yday = date.yday - 1
                             /\ tm.hour * 3600 + tm.min * 60 + tm.sec = s
                             /\ tm.min < 60 /\ tm.sec < 60
                             /\ FromTimeval(Datetime(rdn - EpochDay, s, 0)) = dt
    BY SMT DEF TmFields
  <2> QED BY <1>1, SMT
<1> QED BY <1>2, WalkInvariant, PTL
=============================================================================
