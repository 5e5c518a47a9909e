----------------------------- MODULE DeviceProofs -----------------------------
(***************************************************************************)
(* Proofs about the devices every kernel has.  Clock: calls at any time of *)
(* the century, with any number of changes of the clock.  Interrupts: a    *)
(* screen of any size, any prints and any number of interrupts.            *)
(***************************************************************************)
EXTENDS Clock, Interrupts, SequenceTheorems, WellFoundedInduction, FiniteSetTheorems, TLAPS

(* A leaf gets a minute, and a second try, so that a slow machine checks it too. *)
USE SMTT(60), Z3T(60), ZenonT(60), SMTT(90), Z3T(90)

(* A set of natural numbers that is not empty has a least element. *)
LEMMA LeastNumber ==
  ASSUME NEW T \in SUBSET Nat, T # {}
  PROVE  \E i \in T : \A j \in T : i <= j
<1>1. IsWellFoundedOn(OpToRel(<, Nat), Nat)
  BY NatLessThanWellFounded, ZenonT(60)
<1>3. PICK i \in T : \A j \in T : ~(<<j, i>> \in OpToRel(<, Nat))
  BY <1>1, WFMin, ZenonT(60)
<1>4. \A j \in T : ~(j < i)
  BY <1>3, ZenonT(60) DEF OpToRel
<1> QED
  BY <1>4

(* Induction: a set that holds 0 and, with a number, the next one, holds   *)
(* all.                                                                    *)
LEMMA SetInduction ==
  ASSUME NEW T, 0 \in T, \A n \in Nat : n \in T => n + 1 \in T
  PROVE  Nat \subseteq T
<1> DEFINE U == {n \in Nat : n \notin T}
<1> SUFFICES ASSUME U # {} PROVE FALSE
  OBVIOUS
<1>1. PICK i \in U : \A j \in U : i <= j
  BY LeastNumber, ZenonT(60)
<1>2. i # 0 /\ i \in Nat
  BY <1>1
<1>3. i - 1 \in Nat /\ i - 1 \notin U
  BY <1>1, <1>2
<1>4. (i - 1) + 1 \in T
  BY <1>3
<1> QED
  BY <1>1, <1>4

(* The elements of a sequence with one appended. *)
LEMMA AppendParts ==
  ASSUME NEW S, NEW s \in Seq(S), NEW e \in S, NEW t, t = Append(s, e)
  PROVE  /\ Len(s) \in Nat /\ DOMAIN s = 1 .. Len(s)
         /\ t \in Seq(S) /\ Len(t) = Len(s) + 1 /\ DOMAIN t = 1 .. Len(s) + 1
         /\ t[Len(s) + 1] = e
         /\ \A i \in 1 .. Len(s) : t[i] = s[i]
BY AppendProperties, LenProperties

(* Until 2100 there is a leap year every four years. *)
LEMMA LeapEveryFour ==
  ASSUME NEW y \in 1970 .. 2099 PROVE Leap(y) <=> y % 4 = 0
BY DEF Leap

(* The leap years among the n years from 1970 on. *)
Leaps(n) == {y \in 1970 .. 1970 + n - 1 : Leap(y)}

Counted(n) == IsFiniteSet(Leaps(n)) /\ Cardinality(Leaps(n)) = (n + 1) \div 4

(* One year more: there is one leap year more if it is one. *)
LEMMA CountedNext ==
  ASSUME NEW n \in Nat, n < 130, Counted(n)
  PROVE  Counted(n + 1)
<1>1. PICK y : y \in 1970 .. 2099 /\ y = 1970 + n
  OBVIOUS
<1>2. Leap(y) <=> n % 4 = 2
  BY <1>1, LeapEveryFour
<1>3. PICK K, M, c : K = Leaps(n) /\ M = Leaps(n + 1) /\ c = (n + 1) \div 4
  BY ZenonT(60)
<1>4. y \notin K
  BY <1>1, <1>3 DEF Leaps
<1>5. M = IF Leap(y) THEN K \cup {y} ELSE K
  BY <1>1, <1>3 DEF Leaps
<1>6. IsFiniteSet(K) /\ Cardinality(K) = c
  BY <1>3 DEF Counted
<1>7. (n + 1 + 1) \div 4 = IF Leap(y) THEN c + 1 ELSE c
  BY <1>2, <1>3
<1>8. IsFiniteSet(K \cup {y}) /\ Cardinality(K \cup {y}) = c + 1
  <2>1. Cardinality(K \cup {y}) = IF y \in K THEN Cardinality(K) ELSE Cardinality(K) + 1
    BY <1>6, FS_AddElement, ZenonT(60)
  <2>2. IsFiniteSet(K \cup {y})
    BY <1>6, FS_AddElement, ZenonT(60)
  <2> QED BY <1>4, <1>6, <2>1, <2>2
<1>9. IsFiniteSet(M) /\ Cardinality(M) = (n + 1 + 1) \div 4
  BY <1>5, <1>6, <1>7, <1>8
<1> QED BY <1>3, <1>9, ZenonT(60) DEF Counted

(* The calendar's days up to a year are those of unix_timestamp, until     *)
(* 2100.                                                                   *)
LEMMA LeapYears ==
  ASSUME NEW year \in 1970 .. 2100
  PROVE  DaysToYear(year) = (year - 1970) * 365 + leap_days(year)
<1> DEFINE T == {n \in Nat : n <= 130 => Counted(n)}
<1>1. 0 \in T
  <2>1. Leaps(0) = {} /\ (0 + 1) \div 4 = 0
    BY DEF Leaps
  <2>2. Counted(0)
    BY <2>1, FS_EmptySet DEF Counted
  <2> QED BY <2>2
<1>2. ASSUME NEW n \in Nat, n \in T PROVE n + 1 \in T
  <2>1. ASSUME n + 1 <= 130 PROVE Counted(n + 1)
    <3>1. n < 130 /\ n <= 130
      BY <2>1
    <3> QED BY <1>2, <3>1, CountedNext
  <2> QED BY <2>1
<1>3. Nat \subseteq T
  <2> HIDE DEF T
  <2> QED BY <1>1, <1>2, SetInduction
<1>4. PICK n \in Nat : n = year - 1970 /\ n <= 130 /\ 1970 + n - 1 = year - 1 /\ n + 1 = year - 1969
  OBVIOUS
<1>5. Counted(n)
  BY <1>3, <1>4
<1>6. Leaps(n) = {y \in 1970 .. year - 1 : Leap(y)} /\ (n + 1) \div 4 = leap_days(year)
  BY <1>4 DEF Leaps, leap_days
<1>7. PICK c : c = Cardinality(Leaps(n)) /\ c = leap_days(year)
  BY <1>5, <1>6 DEF Counted
<1> QED BY <1>6, <1>7 DEF DaysToYear

(* The months of a year. *)
Months(year, f) ==
  f = [m \in 1 .. 12 |-> IF m = 1 THEN 0 ELSE f[m - 1] + MonthLength(m - 1, year)]

(* The days a leap year has before a month and the code's table lacks. *)
LeapDay(month, year) == IF Leap(year) /\ month > 2 THEN 1 ELSE 0

(* The code's table and the leap day satisfy the recursion over the        *)
(* months.                                                                 *)
LEMMA MonthsExist == ASSUME NEW year PROVE \E f : Months(year, f)
<1>1. PICK f : f = [m \in 1 .. 12 |-> month_days(m) + LeapDay(m, year)]
  BY ZenonT(60)
<1>2. ASSUME NEW m \in 1 .. 12
      PROVE  f[m] = IF m = 1 THEN 0 ELSE f[m - 1] + MonthLength(m - 1, year)
  BY <1>1 DEF month_days, LeapDay, MonthLength
<1>3. Months(year, f)
  BY <1>1, <1>2, ZenonT(60) DEF Months
<1> QED BY <1>3

(* The table of month_days is that of the calendar but for the leap day. *)
LEMMA DaysBeforeMonth ==
  ASSUME NEW year, NEW month \in 1 .. 12
  PROVE  DaysToMonth(month, year) = month_days(month) + LeapDay(month, year)
<1> DEFINE c == CHOOSE f : Months(year, f)
<1>1. Months(year, c)
  BY MonthsExist, ZenonT(60)
<1>2. DaysToMonth(month, year) = c[month]
  BY DEF DaysToMonth, Months
<1>3. PICK f : f = c
  BY ZenonT(60)
<1>4. ASSUME NEW m \in 1 .. 12
      PROVE  f[m] = IF m = 1 THEN 0 ELSE f[m - 1] + MonthLength(m - 1, year)
  BY <1>1, <1>3, ZenonT(60) DEF Months
<1>5. /\ f[1] = 0 /\ f[2] = f[1] + 31
      /\ f[3] = f[2] + (IF Leap(year) THEN 29 ELSE 28)
      /\ f[4] = f[3] + 31 /\ f[5] = f[4] + 30 /\ f[6] = f[5] + 31 /\ f[7] = f[6] + 30
      /\ f[8] = f[7] + 31 /\ f[9] = f[8] + 31 /\ f[10] = f[9] + 30
      /\ f[11] = f[10] + 31 /\ f[12] = f[11] + 30
  BY <1>4 DEF MonthLength
<1>6. f[month] = month_days(month) + LeapDay(month, year)
  BY <1>5 DEF month_days, LeapDay
<1> QED BY <1>2, <1>3, <1>6

-----------------------------------------------------------------------------
(* Six fields, which need not be a day of the calendar. *)
Moments == [sec : 0 .. 59, min : 0 .. 59, hour : 0 .. 23, day : 1 .. 31, month : 1 .. 12, year : Years]

(* The order of the fields, the largest unit first. *)
SecsUpTo(a, b) == \/ a.hour < b.hour
                  \/ a.hour = b.hour /\ (a.min < b.min \/ (a.min = b.min /\ a.sec <= b.sec))
DayUpTo(a, b) == a.day < b.day \/ (a.day = b.day /\ SecsUpTo(a, b))
MonthUpTo(a, b) == a.month < b.month \/ (a.month = b.month /\ DayUpTo(a, b))
UpTo(a, b) == a.year < b.year \/ (a.year = b.year /\ MonthUpTo(a, b))

(* unix_timestamp's count of days. *)
DayNumber(t) == (t.year - 1970) * 365 + leap_days(t.year) + month_days(t.month) + t.day - 1

Secs(t) == t.hour * 3600 + t.min * 60 + t.sec

(* The calendar's count is that of the code and the leap day it lacks. *)
LEMMA ElapsedIs ==
  ASSUME NEW t \in Times
  PROVE  /\ Elapsed(t).days = DayNumber(t) + LeapDay(t.month, t.year)
         /\ Elapsed(t).secs = Secs(t)
<1>1. PICK y, m, d : /\ y = t.year /\ m = t.month /\ d = t.day
                     /\ y \in 1970 .. 2100 /\ m \in 1 .. 12 /\ d \in 1 .. 31
  BY DEF Times, Years
<1>2. DaysToYear(y) = (y - 1970) * 365 + leap_days(y)
  BY <1>1, LeapYears
<1>3. DaysToMonth(m, y) = month_days(m) + LeapDay(m, y)
  BY <1>1, DaysBeforeMonth
<1>4. Elapsed(t).days = DaysToYear(y) + DaysToMonth(m, y) + d - 1
  BY <1>1 DEF Elapsed
<1>5. PICK l \in Int, k \in Int, e \in Int : l = leap_days(y) /\ k = month_days(m) /\ e = LeapDay(m, y)
  BY <1>1 DEF leap_days, month_days, LeapDay
<1>6. Elapsed(t).secs = Secs(t)
  BY DEF Elapsed, Secs
<1>7. DayNumber(t) = (y - 1970) * 365 + l + k + d - 1
  BY <1>1, <1>5 DEF DayNumber
<1>8. Elapsed(t).days = ((y - 1970) * 365 + l) + (k + e) + d - 1
  BY <1>2, <1>3, <1>4, <1>5
<1>9. Elapsed(t).days = DayNumber(t) + e
  BY <1>1, <1>7, <1>8
<1> QED BY <1>1, <1>5, <1>6, <1>9

(* Seconds of the day are ordered as hours, minutes and seconds are. *)
LEMMA SecsOrder ==
  ASSUME NEW a \in Moments, NEW b \in Moments
  PROVE  SecsUpTo(a, b) <=> Secs(a) <= Secs(b)
<1>1. PICK h \in 0 .. 23, m \in 0 .. 59, s \in 0 .. 59 : h = a.hour /\ m = a.min /\ s = a.sec
  BY ZenonT(60) DEF Moments
<1>2. PICK i \in 0 .. 23, n \in 0 .. 59, r \in 0 .. 59 : i = b.hour /\ n = b.min /\ r = b.sec
  BY ZenonT(60) DEF Moments
<1>3. Secs(a) = h * 3600 + m * 60 + s /\ Secs(b) = i * 3600 + n * 60 + r
  BY <1>1, <1>2 DEF Secs
<1>4. SecsUpTo(a, b) <=> (h < i \/ (h = i /\ (m < n \/ (m = n /\ s <= r))))
  BY <1>1, <1>2 DEF SecsUpTo
<1>5. (h < i \/ (h = i /\ (m < n \/ (m = n /\ s <= r)))) <=> h * 3600 + m * 60 + s <= i * 3600 + n * 60 + r
  OBVIOUS
<1> QED BY <1>3, <1>4, <1>5

(* A later month begins after all days of an earlier one, by the code's    *)
(* table.                                                                  *)
LEMMA MonthTable ==
  ASSUME NEW m \in 1 .. 12, NEW n \in 1 .. 12, m < n
  PROVE  /\ month_days(m) \in 0 .. 334 /\ month_days(n) \in 0 .. 334
         /\ month_days(n) >= month_days(m) + (IF m = 2 THEN 28 ELSE IF m \in {4, 6, 9, 11} THEN 30 ELSE 31)
BY DEF month_days

(* A later year has at least as many leap days before it, one more after a *)
(* leap year.                                                              *)
LEMMA YearTable ==
  ASSUME NEW x \in Years, NEW y \in Years, x < y
  PROVE  /\ leap_days(x) \in Nat /\ leap_days(y) \in Nat
         /\ leap_days(y) >= leap_days(x)
         /\ Leap(x) => leap_days(y) >= leap_days(x) + 1
<1>1. x \in 1970 .. 2099
  BY DEF Years
<1>2. Leap(x) <=> x % 4 = 0
  BY <1>1, LeapEveryFour
<1> QED BY <1>2 DEF leap_days, Years

(* How the counts of days of two dates compare, the first of them one of   *)
(* the calendar: by the code's count and by the calendar's.                *)
Compared(a, b) ==
  /\ DayNumber(a) \in Int /\ DayNumber(b) \in Int
  /\ LeapDay(a.month, a.year) \in {0, 1} /\ LeapDay(b.month, b.year) \in {0, 1}
  /\ a.year < b.year \/ (a.year = b.year /\ a.month < b.month) =>
       /\ DayNumber(b) > DayNumber(a) + LeapDay(a.month, a.year) - 1
       /\ DayNumber(b) + LeapDay(b.month, b.year) > DayNumber(a) + LeapDay(a.month, a.year)
  /\ a.year = b.year /\ a.month = b.month =>
       /\ DayNumber(b) - DayNumber(a) = b.day - a.day
       /\ LeapDay(b.month, b.year) = LeapDay(a.month, a.year)

(* Both counts of days are ordered as dates are, whatever day the second   *)
(* one has.                                                                *)
LEMMA DateOrder ==
  ASSUME NEW s \in Moments, NEW t \in Moments, s.day <= MonthLength(s.month, s.year)
  PROVE  Compared(s, t)
<1> DEFINE x == s.year   y == t.year   m == s.month   n == t.month   d == s.day   e == t.day
           p == DayNumber(s)   q == DayNumber(t)
<1>0. /\ x \in Years /\ y \in Years /\ m \in 1 .. 12 /\ n \in 1 .. 12
      /\ d \in 1 .. 31 /\ e \in 1 .. 31 /\ d <= MonthLength(m, x)
      /\ p = (x - 1970) * 365 + leap_days(x) + month_days(m) + d - 1
      /\ q = (y - 1970) * 365 + leap_days(y) + month_days(n) + e - 1
  BY DEF Moments, DayNumber
<1> HIDE DEF x, y, m, n, d, e, p, q
<1>1. x \in Nat /\ y \in Nat /\ x > 1969 /\ y > 1969
  BY <1>0 DEF Years
<1>2. PICK i \in Nat, j \in Nat : i = leap_days(x) /\ j = leap_days(y)
  BY <1>1 DEF leap_days
<1>3. PICK k \in 0 .. 334, l \in 0 .. 334 : k = month_days(m) /\ l = month_days(n)
  <2>1. month_days(m) \in 0 .. 334
    BY <1>0 DEF month_days
  <2>2. month_days(n) \in 0 .. 334
    BY <1>0 DEF month_days
  <2> QED BY <2>1, <2>2, ZenonT(60)
<1>4. PICK a \in {0, 1}, b \in {0, 1} : a = LeapDay(m, x) /\ b = LeapDay(n, y)
  BY DEF LeapDay
<1>5. p = (x - 1970) * 365 + i + k + d - 1 /\ q = (y - 1970) * 365 + j + l + e - 1
  BY <1>0, <1>2, <1>3
<1>6. ASSUME x < y PROVE q > p + a - 1 /\ q + b > p + a
  <2>1. j >= i /\ (a = 1 => j >= i + 1)
    BY <1>0, <1>2, <1>4, <1>6, YearTable DEF LeapDay
  <2>2. k + d - 1 <= 364
    <3>1. k <= 334
      OBVIOUS
    <3> QED BY <1>0, <3>1
  <2>3. y >= x + 1
    BY <1>1, <1>6
  <2> QED BY <1>0, <1>1, <1>5, <2>1, <2>2, <2>3
<1>7. ASSUME x = y, m < n PROVE q > p + a - 1 /\ q + b > p + a
  <2>1. l >= k + (IF m = 2 THEN 28 ELSE IF m \in {4, 6, 9, 11} THEN 30 ELSE 31)
    BY <1>0, <1>3, <1>7, MonthTable, ZenonT(60)
  <2>2. /\ m > 2 => a = b /\ l >= k + d
        /\ m = 2 => a = 0 /\ l + b >= k + d
        /\ m < 2 => a = 0 /\ l >= k + d
    BY <1>0, <1>4, <1>7, <2>1 DEF LeapDay, MonthLength
  <2>3. i = j
    BY <1>2, <1>7
  <2> QED BY <1>0, <1>1, <1>5, <1>7, <2>2, <2>3
<1>8. ASSUME x = y, m = n PROVE q - p = e - d /\ a = b
  <2>1. i = j /\ k = l /\ a = b
    BY <1>2, <1>3, <1>4, <1>8
  <2> QED BY <1>0, <1>1, <1>5, <1>8, <2>1
<1>9. p \in Int /\ q \in Int
  BY <1>0, <1>1, <1>5
<1> QED BY <1>4, <1>6, <1>7, <1>8, <1>9 DEF Compared, x, y, m, n, d, e, p, q

LEMMA FieldTypes ==
  ASSUME NEW t \in Moments PROVE t.year \in Nat /\ t.month \in Nat /\ t.day \in Nat
BY DEF Moments, Years

(* A time is a day of the calendar. *)
LEMMA TimesAreMoments ==
  ASSUME NEW t \in Times
  PROVE  t \in Moments /\ t.day <= MonthLength(t.month, t.year)
BY DEF Times, Moments

(* The calendar orders times by their fields. *)
LEMMA TimeOrder ==
  ASSUME NEW a \in Times, NEW b \in Times, AtMost(Elapsed(a), Elapsed(b))
  PROVE  UpTo(a, b)
<1>1. /\ a \in Moments /\ a.day <= MonthLength(a.month, a.year)
      /\ b \in Moments /\ b.day <= MonthLength(b.month, b.year)
  BY TimesAreMoments
<1>2. PICK x \in Nat, m \in Nat, d \in Nat : x = a.year /\ m = a.month /\ d = a.day
  BY <1>1, FieldTypes
<1>3. PICK y \in Nat, n \in Nat, e \in Nat : y = b.year /\ n = b.month /\ e = b.day
  BY <1>1, FieldTypes
<1>4. PICK p, q : p = DayNumber(a) /\ q = DayNumber(b)
  BY ZenonT(60)
<1>5. Compared(a, b) /\ Compared(b, a)
  BY <1>1, DateOrder
<1>6. /\ p \in Int /\ q \in Int
      /\ x = y /\ m = n => q - p = e - d /\ LeapDay(n, y) = LeapDay(m, x)
  BY <1>2, <1>3, <1>4, <1>5 DEF Compared
<1>7. /\ LeapDay(m, x) \in {0, 1} /\ LeapDay(n, y) \in {0, 1}
      /\ y < x \/ (y = x /\ n < m) => p + LeapDay(m, x) > q + LeapDay(n, y)
  BY <1>2, <1>3, <1>4, <1>5 DEF Compared
<1>8. PICK f \in {0, 1}, g \in {0, 1} : f = LeapDay(m, x) /\ g = LeapDay(n, y)
  BY <1>7
<1>9. /\ Elapsed(a).days = p + f /\ Elapsed(b).days = q + g
      /\ Elapsed(a).secs = Secs(a) /\ Elapsed(b).secs = Secs(b)
  BY <1>2, <1>3, <1>4, <1>8, ElapsedIs
<1>10. p + f < q + g \/ (p + f = q + g /\ SecsUpTo(a, b))
  BY <1>1, <1>9, SecsOrder DEF AtMost
<1>11. x < y \/ (x = y /\ (m < n \/ (m = n /\ (d < e \/ (d = e /\ SecsUpTo(a, b))))))
  BY <1>6, <1>7, <1>8, <1>10
<1> QED BY <1>2, <1>3, <1>11 DEF UpTo, MonthUpTo, DayUpTo

(* Fields that are not before a time by their order are counted as no more *)
(* than a day before it.                                                   *)
LEMMA MixedCount ==
  ASSUME NEW a \in Times, NEW b \in Moments, UpTo(a, b)
  PROVE  AtMost([Elapsed(a) EXCEPT !.days = @ - 1], [days |-> DayNumber(b), secs |-> Secs(b)])
<1>1. a \in Moments /\ a.day <= MonthLength(a.month, a.year)
  BY TimesAreMoments
<1>2. PICK x \in Nat, m \in Nat, d \in Nat : x = a.year /\ m = a.month /\ d = a.day
  BY <1>1, FieldTypes
<1>3. PICK y \in Nat, n \in Nat, e \in Nat : y = b.year /\ n = b.month /\ e = b.day
  BY FieldTypes
<1>4. PICK p, q : p = DayNumber(a) /\ q = DayNumber(b)
  BY ZenonT(60)
<1>5. Compared(a, b)
  BY <1>1, DateOrder
<1>6. /\ p \in Int /\ q \in Int /\ LeapDay(m, x) \in {0, 1}
      /\ x < y \/ (x = y /\ m < n) => q > p + LeapDay(m, x) - 1
      /\ x = y /\ m = n => q - p = e - d
  BY <1>2, <1>3, <1>4, <1>5 DEF Compared
<1>7. PICK f \in {0, 1} : f = LeapDay(m, x)
  BY <1>6
<1>8. Elapsed(a).days = p + f /\ Elapsed(a).secs = Secs(a)
  BY <1>2, <1>4, <1>7, ElapsedIs
<1>9. x < y \/ (x = y /\ (m < n \/ (m = n /\ (d < e \/ (d = e /\ SecsUpTo(a, b))))))
  BY <1>2, <1>3 DEF UpTo, MonthUpTo, DayUpTo
<1>10. p + f - 1 < q \/ (p + f - 1 = q /\ Secs(a) <= Secs(b))
  BY <1>1, <1>6, <1>7, <1>9, SecsOrder
<1>11. PICK u : u = [Elapsed(a) EXCEPT !.days = @ - 1]
  BY ZenonT(60)
<1>12. u.days = p + f - 1 /\ u.secs = Secs(a)
  <2>1. PICK v, w : v = Elapsed(a).days /\ w = Elapsed(a).secs /\ Elapsed(a) = [days |-> v, secs |-> w]
    <3>1. Elapsed(a) = [days |-> Elapsed(a).days, secs |-> Elapsed(a).secs]
      BY DEF Elapsed
    <3> QED BY <3>1, ZenonT(60)
  <2>2. v = p + f /\ w = Secs(a)
    BY <1>8, <2>1
  <2>3. u.days = v - 1 /\ u.secs = w
    BY <1>11, <2>1
  <2> QED BY <1>6, <1>7, <2>2, <2>3
<1> QED BY <1>4, <1>10, <1>11, <1>12 DEF AtMost

(* A second later is a later time. *)
LEMMA LaterMoves ==
  ASSUME NEW t \in Times, NEW u, u = Later(t), u.year \in Years
  PROVE  u \in Times /\ UpTo(t, u)
<1>1. PICK s \in 0 .. 59, i \in 0 .. 59, h \in 0 .. 23, d \in 1 .. 31, m \in 1 .. 12, y \in Years :
        /\ s = t.sec /\ i = t.min /\ h = t.hour /\ d = t.day /\ m = t.month /\ y = t.year
        /\ d <= MonthLength(m, y)
  BY TimesAreMoments, ZenonT(60) DEF Moments
<1>2. y \in Nat
  BY DEF Years
<1>3. MonthLength(m, y) \in 28 .. 31 /\ MonthLength(1, y + 1) = 31
  BY DEF MonthLength
<1>4. CASE s < 59
  <2>1. (s + 1) % 60 = s + 1 /\ s + 1 # 0 /\ (i + 0) % 60 = i /\ (h + 0) % 24 = h
    BY <1>4
  <2>2. u = [sec |-> s + 1, min |-> i, hour |-> h, day |-> d, month |-> m, year |-> y]
    BY <1>1, <2>1, ZenonT(60) DEF Later
  <2> QED BY <1>1, <1>2, <1>4, <2>2 DEF Times, UpTo, MonthUpTo, DayUpTo, SecsUpTo
<1>5. CASE s = 59 /\ i < 59
  <2>1. (s + 1) % 60 = 0 /\ (i + 1) % 60 = i + 1 /\ i + 1 # 0 /\ (h + 0) % 24 = h
    BY <1>5
  <2>2. u = [sec |-> 0, min |-> i + 1, hour |-> h, day |-> d, month |-> m, year |-> y]
    BY <1>1, <2>1, ZenonT(60) DEF Later
  <2> QED BY <1>1, <1>2, <1>5, <2>2 DEF Times, UpTo, MonthUpTo, DayUpTo, SecsUpTo
<1>6. CASE s = 59 /\ i = 59 /\ h < 23
  <2>1. (s + 1) % 60 = 0 /\ (i + 1) % 60 = 0 /\ (h + 1) % 24 = h + 1 /\ h + 1 # 0
    BY <1>6
  <2>2. u = [sec |-> 0, min |-> 0, hour |-> h + 1, day |-> d, month |-> m, year |-> y]
    BY <1>1, <2>1, ZenonT(60) DEF Later
  <2> QED BY <1>1, <1>2, <1>6, <2>2 DEF Times, UpTo, MonthUpTo, DayUpTo, SecsUpTo
<1>7. CASE s = 59 /\ i = 59 /\ h = 23
  <2>1. (s + 1) % 60 = 0 /\ (i + 1) % 60 = 0 /\ (h + 1) % 24 = 0
    BY <1>7
  <2>2. CASE d < MonthLength(m, y)
    <3>1. u = [sec |-> 0, min |-> 0, hour |-> 0, day |-> d + 1, month |-> m, year |-> y]
      <4>1. d # MonthLength(m, y)
        BY <1>3, <2>2
      <4> QED BY <1>1, <2>1, <4>1, ZenonT(60) DEF Later
    <3> QED BY <1>1, <1>2, <1>3, <2>2, <3>1 DEF Times, UpTo, MonthUpTo, DayUpTo
  <2>3. CASE d = MonthLength(m, y) /\ m < 12
    <3>1. u = [sec |-> 0, min |-> 0, hour |-> 0, day |-> 1, month |-> m + 1, year |-> y]
      <4>1. m # 12
        BY <2>3
      <4> QED BY <1>1, <2>1, <2>3, <4>1, ZenonT(60) DEF Later
    <3>2. 1 <= MonthLength(m + 1, y)
      BY DEF MonthLength
    <3> QED BY <1>1, <1>2, <2>3, <3>1, <3>2 DEF Times, UpTo, MonthUpTo
  <2>4. CASE d = MonthLength(m, y) /\ m = 12
    <3>1. u = [sec |-> 0, min |-> 0, hour |-> 0, day |-> 1, month |-> 1, year |-> y + 1]
      BY <1>1, <2>1, <2>4, ZenonT(60) DEF Later
    <3> QED BY <1>1, <1>2, <1>3, <3>1 DEF Times, UpTo
  <2> QED BY <1>1, <1>3, <2>2, <2>3, <2>4
<1> QED BY <1>4, <1>5, <1>6, <1>7

-----------------------------------------------------------------------------
(* What unix_timestamp makes of the k registers r that it has read, and    *)
(* what it will make of the others if the clock stands still at c.         *)
Mixed(k, r, c) ==
  [sec |-> IF k > 0 THEN bcd_to_bin(r.sec) ELSE c.sec,
   min |-> IF k > 1 THEN bcd_to_bin(r.min) ELSE c.min,
   hour |-> IF k > 2 THEN bcd_to_bin(r.hour) ELSE c.hour,
   day |-> IF k > 3 THEN bcd_to_bin(r.day) ELSE c.day,
   month |-> IF k > 4 THEN bcd_to_bin(r.month) ELSE c.month,
   year |-> IF k > 5 THEN bcd_to_bin(r.year) + 2000 ELSE c.year]

MixedTime == Mixed(reads, regs, clock)

(* Every register read is a BCD byte, whose digits are below ten. *)
RegistersOK ==
  /\ DOMAIN regs = {"sec", "min", "hour", "day", "month", "year"}
  /\ \A f \in DOMAIN regs : regs[f] \in 0 .. 153 /\ regs[f] % 16 < 10
  /\ reads \in 0 .. 6 /\ changes \in 0 .. MaxChanges

ClockInv ==
  /\ RegistersOK
  /\ regs \in [{"sec", "min", "hour", "day", "month", "year"} -> Nat]
  /\ clock \in Times /\ began \in Times
  /\ MixedTime \in Moments
  /\ UpTo(began, MixedTime)
  /\ changes = 0 => clock = began /\ MixedTime = began

(* bcd_to_bin undoes what the clock's BCD registers do to numbers of two   *)
(* digits.                                                                 *)
LEMMA BcdRoundTrip ==
  ASSUME NEW n \in 0 .. 99
  PROVE  /\ bcd_to_bin(ToBcd(n)) = n
         /\ ToBcd(n) \in Nat /\ ToBcd(n) \in 0 .. 153 /\ ToBcd(n) % 16 < 10
<1>1. PICK a \in 0 .. 9, b \in 0 .. 9 : n = 10 * a + b /\ a = n \div 10 /\ b = n % 10
  OBVIOUS
<1>2. ToBcd(n) = a * 16 + b
  BY <1>1 DEF ToBcd
<1>3. (a * 16 + b) \div 16 = a /\ a % 16 = a /\ (a * 16 + b) % 16 = b
  OBVIOUS
<1> QED BY <1>1, <1>2, <1>3 DEF bcd_to_bin

Units == {"sec", "min", "hour", "day", "month", "year"}

(* A register holds a field of the clock, from which it is read back. *)
LEMMA RegisterHolds ==
  ASSUME clock \in Times, NEW f \in Units
  PROVE  /\ Register(f) \in Nat /\ Register(f) \in 0 .. 153 /\ Register(f) % 16 < 10
         /\ f # "year" => bcd_to_bin(Register(f)) = clock[f]
         /\ f = "year" => bcd_to_bin(Register(f)) + 2000 = clock.year
<1>1. /\ clock["sec"] \in 0 .. 99 /\ clock["min"] \in 0 .. 99 /\ clock["hour"] \in 0 .. 99
      /\ clock["day"] \in 0 .. 99 /\ clock["month"] \in 0 .. 99
      /\ clock.year % 100 \in 0 .. 99 /\ (clock.year % 100) + 2000 = clock.year
  BY DEF Times, Years
<1>2. CASE f = "year"
  <2>1. PICK n \in 0 .. 99 : n = clock.year % 100 /\ n + 2000 = clock.year
    BY <1>1
  <2>2. Register(f) = ToBcd(n)
    BY <1>2, <2>1 DEF Register
  <2>3. /\ bcd_to_bin(ToBcd(n)) = n
        /\ ToBcd(n) \in Nat /\ ToBcd(n) \in 0 .. 153 /\ ToBcd(n) % 16 < 10
    BY BcdRoundTrip, ZenonT(60)
  <2> QED BY ONLY <1>2, <2>1, <2>2, <2>3, SMTT(60), Z3T(60)
<1>3. CASE f # "year"
  <2>1. clock[f] \in 0 .. 99
    BY <1>1, <1>3 DEF Units
  <2> QED BY <1>3, <2>1, BcdRoundTrip, ZenonT(60) DEF Register
<1> QED BY <1>2, <1>3

LEMMA InitClock == ClockInit => ClockInv
<1> SUFFICES ASSUME ClockInit PROVE ClockInv
  OBVIOUS
<1>1. clock \in Times /\ began = clock /\ changes = 0 /\ reads = 0
  BY ClockAssumption DEF ClockInit
<1>2. clock \in Moments /\ clock.sec \in Int
  BY <1>1, TimesAreMoments DEF Moments
<1>3. MixedTime = [sec |-> clock.sec, min |-> clock.min, hour |-> clock.hour, day |-> clock.day,
                   month |-> clock.month, year |-> clock.year]
  BY <1>1 DEF MixedTime, Mixed
<1>4. MixedTime = clock
  BY <1>2, <1>3 DEF Moments
<1>5. UpTo(clock, clock)
  BY <1>2 DEF UpTo, MonthUpTo, DayUpTo, SecsUpTo
<1>6. regs = [f \in Units |-> 0]
  BY DEF ClockInit, Units
<1>7. regs \in [Units -> Nat] /\ \A f \in Units : regs[f] = 0
  BY <1>6
<1>8. RegistersOK
  BY <1>1, <1>6, <1>7, ClockAssumption DEF RegistersOK, Units
<1> QED BY <1>1, <1>2, <1>4, <1>5, <1>7, <1>8 DEF ClockInv, Units

(* The registers become s from r by reading field k + 1, f, when the clock *)
(* is at c.                                                                *)
FieldRead(k, r, s, c, f, v) ==
  /\ f = Fields[k + 1] /\ \A g \in Units : s[g] = IF g = f THEN v ELSE r[g]
  /\ f # "year" => bcd_to_bin(v) = c[f]
  /\ f = "year" => bcd_to_bin(v) + 2000 = c.year

(* A field that is read is the clock's: the mixed time stays. *)
LEMMA MixedRead ==
  ASSUME NEW k \in 0 .. 5, NEW r, NEW s, NEW c, NEW f, NEW v, FieldRead(k, r, s, c, f, v)
  PROVE  Mixed(k + 1, s, c) = Mixed(k, r, c)
<1>1. "sec" \in Units /\ "min" \in Units /\ "hour" \in Units /\ "day" \in Units
      /\ "month" \in Units /\ "year" \in Units
  BY DEF Units
<1>2. CASE k = 0
  <2>1. f = "sec"
    BY <1>2 DEF FieldRead, Fields
  <2> QED BY <1>1, <1>2, <2>1 DEF FieldRead, Mixed
<1>3. CASE k = 1
  <2>1. f = "min"
    BY <1>3 DEF FieldRead, Fields
  <2> QED BY <1>1, <1>3, <2>1 DEF FieldRead, Mixed
<1>4. CASE k = 2
  <2>1. f = "hour"
    BY <1>4 DEF FieldRead, Fields
  <2> QED BY <1>1, <1>4, <2>1 DEF FieldRead, Mixed
<1>5. CASE k = 3
  <2>1. f = "day"
    BY <1>5 DEF FieldRead, Fields
  <2> QED BY <1>1, <1>5, <2>1 DEF FieldRead, Mixed
<1>6. CASE k = 4
  <2>1. f = "month"
    BY <1>6 DEF FieldRead, Fields
  <2> QED BY <1>1, <1>6, <2>1 DEF FieldRead, Mixed
<1>7. CASE k = 5
  <2>1. f = "year"
    BY <1>7 DEF FieldRead, Fields
  <2> QED BY <1>1, <1>7, <2>1 DEF FieldRead, Mixed
<1> QED BY <1>2, <1>3, <1>4, <1>5, <1>6, <1>7

(* When k fields are read and the clock goes from a to b, the mixed time   *)
(* goes from p to q.                                                       *)
Moved(k, a, b, p, q) ==
  /\ q = [sec |-> IF k > 0 THEN p.sec ELSE b.sec, min |-> IF k > 1 THEN p.min ELSE b.min,
          hour |-> IF k > 2 THEN p.hour ELSE b.hour, day |-> IF k > 3 THEN p.day ELSE b.day,
          month |-> IF k > 4 THEN p.month ELSE b.month, year |-> b.year]
  /\ k < 1 => p.sec = a.sec
  /\ k < 2 => p.min = a.min
  /\ k < 3 => p.hour = a.hour
  /\ k < 4 => p.day = a.day
  /\ k < 5 => p.month = a.month
  /\ p.year = a.year

(* Fields that are read stay, the others follow the clock. *)
LEMMA MixedMoves ==
  ASSUME NEW k \in 0 .. 5, NEW r, NEW a, NEW b
  PROVE  Moved(k, a, b, Mixed(k, r, a), Mixed(k, r, b))
<1>1. PICK p : p = Mixed(k, r, a)
  OBVIOUS
<1>2. PICK q : q = Mixed(k, r, b)
  OBVIOUS
<1>3. /\ k < 1 => p.sec = a.sec
      /\ k < 2 => p.min = a.min
      /\ k < 3 => p.hour = a.hour
  BY <1>1 DEF Mixed
<1>4. /\ k < 4 => p.day = a.day
      /\ k < 5 => p.month = a.month
      /\ p.year = a.year
  BY <1>1 DEF Mixed
<1>5. /\ (IF k > 0 THEN bcd_to_bin(r.sec) ELSE b.sec) = IF k > 0 THEN p.sec ELSE b.sec
      /\ (IF k > 1 THEN bcd_to_bin(r.min) ELSE b.min) = IF k > 1 THEN p.min ELSE b.min
      /\ (IF k > 2 THEN bcd_to_bin(r.hour) ELSE b.hour) = IF k > 2 THEN p.hour ELSE b.hour
  BY <1>1 DEF Mixed
<1>6. /\ (IF k > 3 THEN bcd_to_bin(r.day) ELSE b.day) = IF k > 3 THEN p.day ELSE b.day
      /\ (IF k > 4 THEN bcd_to_bin(r.month) ELSE b.month) = IF k > 4 THEN p.month ELSE b.month
      /\ (IF k > 5 THEN bcd_to_bin(r.year) + 2000 ELSE b.year) = b.year
  BY <1>1 DEF Mixed
<1>7. Moved(k, a, b, p, q)
  BY <1>2, <1>3, <1>4, <1>5, <1>6, ZenonT(60) DEF Mixed, Moved
<1> QED BY <1>1, <1>2, <1>7, ZenonT(60)

(* Reading a register changes nothing in the mixed time. *)
LEMMA ReadKeepsClock == ClockInv /\ ReadCmos => ClockInv'
<1> SUFFICES ASSUME ClockInv, ReadCmos PROVE ClockInv'
  OBVIOUS
<1>1. /\ clock \in Times /\ regs \in [Units -> Nat] /\ MixedTime \in Moments
      /\ \A f \in Units : regs[f] \in 0 .. 153 /\ regs[f] % 16 < 10
      /\ DOMAIN regs = Units /\ reads \in 0 .. 6 /\ changes \in 0 .. MaxChanges
  BY DEF ClockInv, RegistersOK, Units
<1>2. PICK k \in 0 .. 5 : reads = k /\ reads' = k + 1
  BY <1>1 DEF ReadCmos, Fields
<1>3. PICK f, v : f = Fields[k + 1] /\ v = Register(f)
  BY ZenonT(60)
<1>4. f \in Units
  BY <1>3 DEF Fields, Units
<1>5. /\ v \in Nat /\ v \in 0 .. 153 /\ v % 16 < 10
      /\ f # "year" => bcd_to_bin(v) = clock[f]
      /\ f = "year" => bcd_to_bin(v) + 2000 = clock.year
  BY <1>1, <1>3, <1>4, RegisterHolds
<1>6. /\ regs' = [regs EXCEPT ![f] = v]
      /\ clock' = clock /\ began' = began /\ changes' = changes
  BY <1>2, <1>3 DEF ReadCmos
<1>7. /\ regs' \in [Units -> Nat] /\ DOMAIN regs' = Units
      /\ \A g \in Units : regs'[g] = IF g = f THEN v ELSE regs[g]
  BY <1>1, <1>4, <1>5, <1>6
<1>8. RegistersOK'
  <2>1. \A g \in Units : regs'[g] \in 0 .. 153 /\ regs'[g] % 16 < 10
    BY <1>1, <1>5, <1>7
  <2>2. reads' \in 0 .. 6 /\ changes' \in 0 .. MaxChanges
    BY <1>1, <1>2, <1>6
  <2> QED BY <1>7, <2>1, <2>2 DEF RegistersOK, Units
<1>9. MixedTime' = MixedTime
  <2>1. Mixed(k + 1, regs', clock) = Mixed(k, regs, clock)
    <3>1. FieldRead(k, regs, regs', clock, f, v)
      BY <1>3, <1>5, <1>7 DEF FieldRead
    <3> QED BY <3>1, MixedRead, ZenonT(60)
  <2> QED BY <1>2, <1>6, <2>1, ZenonT(60) DEF MixedTime
<1> QED BY <1>6, <1>7, <1>8, <1>9 DEF ClockInv, Units

(* The fields as integers. *)
Numbers(t) == /\ t.year \in Int /\ t.month \in Int /\ t.day \in Int
              /\ t.hour \in Int /\ t.min \in Int /\ t.sec \in Int

LEMMA MomentsAreNumbers == ASSUME NEW t \in Moments PROVE Numbers(t)
BY DEF Moments, Years, Numbers

(* The order of the fields is transitive. *)
LEMMA UpToTransitive ==
  ASSUME NEW a, NEW b, NEW c, Numbers(a), Numbers(b), Numbers(c), UpTo(a, b), UpTo(b, c)
  PROVE  UpTo(a, c)
BY DEF Numbers, UpTo, MonthUpTo, DayUpTo, SecsUpTo

(* The fields not read yet are the larger units: when the clock goes on,   *)
(* so does the time that is being read.                                    *)
LEMMA AdvanceKeepsClock == ClockInv /\ Advance => ClockInv'
<1> SUFFICES ASSUME ClockInv, Advance PROVE ClockInv'
  OBVIOUS
<1>1. /\ clock \in Times /\ began \in Times /\ MixedTime \in Moments /\ reads \in 0 .. 6
      /\ changes \in 0 .. MaxChanges /\ UpTo(began, MixedTime)
  BY DEF ClockInv, RegistersOK
<1>2. /\ regs' = regs /\ reads' = reads /\ began' = began
      /\ changes' = changes + 1 /\ changes < MaxChanges /\ reads < 6
  BY DEF Advance, Fields
<1>3. PICK a, b : a = clock /\ b = clock'
  BY ZenonT(60)
<1>4. b \in Times /\ UpTo(a, b)
  <2>1. CASE b = Later(a)
    BY <1>1, <1>3, <2>1, LaterMoves DEF Advance
  <2>2. CASE b # Later(a)
    <3>1. PICK t \in Resumes : AtMost(Elapsed(a), Elapsed(t)) /\ b = t
      BY <1>3, <2>2 DEF Advance
    <3>2. t \in Times
      BY ClockAssumption
    <3> QED BY <1>1, <1>3, <3>1, <3>2, TimeOrder
  <2> QED BY <2>1, <2>2
<1>5. a \in Moments /\ b \in Moments /\ began \in Moments
  BY <1>1, <1>3, <1>4, TimesAreMoments
<1>6. PICK p, q : p = MixedTime /\ q = MixedTime'
  BY ZenonT(60)
<1>0. p = Mixed(reads, regs, a) /\ q = Mixed(reads, regs, b) /\ reads \in 0 .. 5
  <2>1. reads \in 0 .. 5
    BY <1>1, <1>2
  <2> QED BY <1>2, <1>3, <1>6, <2>1, ZenonT(60) DEF MixedTime
<1>a. Moved(reads, a, b, p, q)
  <2>1. Moved(reads, a, b, Mixed(reads, regs, a), Mixed(reads, regs, b))
    BY <1>0, MixedMoves, ZenonT(60)
  <2> QED BY <1>0, <2>1, ZenonT(60)
<1>7. q = [sec |-> IF reads > 0 THEN p.sec ELSE b.sec, min |-> IF reads > 1 THEN p.min ELSE b.min,
           hour |-> IF reads > 2 THEN p.hour ELSE b.hour, day |-> IF reads > 3 THEN p.day ELSE b.day,
           month |-> IF reads > 4 THEN p.month ELSE b.month, year |-> b.year]
  BY <1>a, ZenonT(60) DEF Moved
<1>8. q \in Moments
  BY <1>1, <1>5, <1>6, <1>7 DEF Moments
<1>9. /\ reads < 1 => p.sec = a.sec
      /\ reads < 2 => p.min = a.min
      /\ reads < 3 => p.hour = a.hour
      /\ reads < 4 => p.day = a.day
      /\ reads < 5 => p.month = a.month
      /\ p.year = a.year
  BY <1>a, ZenonT(60) DEF Moved
<1>10. UpTo(p, q)
  <2>1. Numbers(a) /\ Numbers(b) /\ Numbers(p) /\ Numbers(q) /\ UpTo(a, b)
    BY <1>1, <1>4, <1>5, <1>6, <1>8, MomentsAreNumbers
  <2>2. PICK k \in {0, 1, 2, 3, 4, 5} : reads = k
    BY <1>1, <1>2
  <2>3. CASE k \in {0, 1}
    BY <1>7, <1>9, <2>1, <2>2, <2>3 DEF Numbers, UpTo, MonthUpTo, DayUpTo, SecsUpTo
  <2>4. CASE k \in {2, 3}
    BY <1>7, <1>9, <2>1, <2>2, <2>4 DEF Numbers, UpTo, MonthUpTo, DayUpTo, SecsUpTo
  <2>5. CASE k \in {4, 5}
    BY <1>7, <1>9, <2>1, <2>2, <2>5 DEF Numbers, UpTo, MonthUpTo, DayUpTo, SecsUpTo
  <2> QED BY <2>3, <2>4, <2>5
<1>11. UpTo(began, q)
  <2>1. Numbers(began) /\ Numbers(p) /\ Numbers(q)
    BY <1>1, <1>5, <1>6, <1>8, MomentsAreNumbers
  <2> QED BY <1>1, <1>6, <1>10, <2>1, UpToTransitive
<1>12. changes' \in 0 .. MaxChanges /\ changes' # 0
  BY <1>1, <1>2, ClockAssumption
<1>13. RegistersOK'
  BY <1>2, <1>12 DEF ClockInv, RegistersOK
<1> QED BY <1>1, <1>2, <1>3, <1>4, <1>6, <1>8, <1>11, <1>12, <1>13 DEF ClockInv

LEMMA NextClock == ClockInv /\ [ClockNext]_clockVars => ClockInv'
<1> SUFFICES ASSUME ClockInv, [ClockNext]_clockVars PROVE ClockInv'
  OBVIOUS
<1>1. CASE UNCHANGED clockVars
  <2>1. clock' = clock /\ began' = began /\ changes' = changes /\ regs' = regs /\ reads' = reads
    BY <1>1 DEF clockVars
  <2>2. MixedTime' = MixedTime
    BY <2>1, ZenonT(60) DEF MixedTime
  <2> QED BY <2>1, <2>2 DEF ClockInv, RegistersOK
<1> QED BY <1>1, ReadKeepsClock, AdvanceKeepsClock DEF ClockNext, Finished

(* unix_timestamp's result is its count for the fields it has read. *)
LEMMA ResultIs ==
  ASSUME ClockInv, Returned
  PROVE  unix_timestamp = [days |-> DayNumber(MixedTime), secs |-> Secs(MixedTime)]
<1>1. reads = 6
  BY DEF Returned, Fields
<1>2. PICK t : t = MixedTime
  BY ZenonT(60)
<1>3. /\ t.sec = bcd_to_bin(regs.sec) /\ t.min = bcd_to_bin(regs.min)
      /\ t.hour = bcd_to_bin(regs.hour) /\ t.day = bcd_to_bin(regs.day)
      /\ t.month = bcd_to_bin(regs.month) /\ t.year = bcd_to_bin(regs.year) + 2000
  BY <1>1, <1>2 DEF MixedTime, Mixed
<1>4. unix_timestamp = [days |-> (t.year - 1970) * 365 + leap_days(t.year) + month_days(t.month) + t.day - 1,
                        secs |-> t.hour * 3600 + t.min * 60 + t.sec]
  BY <1>3 DEF unix_timestamp
<1> QED BY <1>2, <1>4 DEF DayNumber, Secs

(* The inductive invariant holds: the fields unix_timestamp has read, with *)
(* those it has not, are not before the time of the call.                  *)
THEOREM ClockInvariant == ClockSpec => []ClockInv
BY InitClock, NextClock, PTL DEF ClockSpec

(* unix_timestamp returns the calendar's time for every time of the        *)
(* century, but for the day it lacks after February of a leap year, when   *)
(* the clock stands still during the call.                                 *)
THEOREM StillClockIsExact == ClockSpec => []ExactWhenStill
<1>1. ClockInv => ExactWhenStill
  <2> SUFFICES ASSUME ClockInv, Returned, changes = 0 PROVE unix_timestamp = Lag(began)
    BY DEF ExactWhenStill
  <2>1. began \in Times /\ MixedTime = began
    BY DEF ClockInv
  <2>2. unix_timestamp = [days |-> DayNumber(began), secs |-> Secs(began)]
    BY <2>1, ResultIs
  <2>3. Elapsed(began).days = DayNumber(began) + LeapDay(began.month, began.year)
        /\ Elapsed(began).secs = Secs(began)
    BY <2>1, ElapsedIs
  <2>4. Compared(began, began)
    BY <2>1, TimesAreMoments, DateOrder
  <2>5. PICK n \in Int, l \in {0, 1} : n = DayNumber(began) /\ l = LeapDay(began.month, began.year)
    BY <2>4 DEF Compared
  <2>6. Lag(began) = [days |-> Elapsed(began).days - l, secs |-> Elapsed(began).secs]
    BY <2>5 DEF Lag, LeapDay
  <2>7. Elapsed(began).days - l = n
    BY <2>3, <2>5
  <2> QED BY <2>2, <2>3, <2>5, <2>6, <2>7
<1> QED BY <1>1, ClockInvariant, PTL

(* However the clock goes on between the six reads of unix_timestamp, and  *)
(* however often, the result is no more than a day before the call.        *)
THEOREM TornReadErrsForward == ClockSpec => []NotBeforeCall
<1>1. ClockInv => NotBeforeCall
  <2> SUFFICES ASSUME ClockInv, Returned
               PROVE  AtMost([Elapsed(began) EXCEPT !.days = @ - 1], unix_timestamp)
    BY DEF NotBeforeCall
  <2>1. began \in Times /\ MixedTime \in Moments /\ UpTo(began, MixedTime)
    BY DEF ClockInv
  <2> QED BY <2>1, ResultIs, MixedCount
<1> QED BY <1>1, ClockInvariant, PTL

-----------------------------------------------------------------------------
(* Interrupts and the screen. *)

(* Where the CPU is: a handler runs with interrupts disabled, and none     *)
(* runs before kernel_main has enabled them.                               *)
Running ==
  /\ handler = "none" => hpc = "none"
  /\ handler = "timer" => hpc \in {"tick", "lock_pics", "iret"}
  /\ handler = "keyboard" =>
       hpc \in {"keyboard", "decode", "echo", "write", "lock_pics", "iret"}
  /\ handler # "none" => ~if_flag
  /\ pc \in {"lock_pics", "init_pics", "enable"} => ~if_flag /\ handler = "none"

(* Who holds which lock follows from where the CPU is. *)
Holders ==
  /\ locks["PICS"] = IF pc = "init_pics" THEN "main" ELSE "free"
  /\ locks["WRITER"] = IF pc = "print" THEN "main"
                       ELSE IF hpc = "write" THEN "keyboard" ELSE "free"
  /\ hpc = "write" => pc # "print"
  /\ locks["KEYBOARD"] = IF handler = "keyboard" /\ hpc # "keyboard"
                         THEN "keyboard" ELSE "free"

(* The ticks that are counted, about to be counted or requested. *)
Ticks == uptime + (IF hpc = "tick" THEN 18 ELSE 0) + (IF "timer" \in irr THEN 18 ELSE 0)

(* The latest print is the one in progress. *)
Numbered ==
  /\ pc = "print" => mine = prints
  /\ \A i \in DOMAIN output : output[i].by <= prints

Inv == /\ InterruptsTypeOK
       /\ Running
       /\ Holders
       /\ Ticks <= 18 * raised["timer"]
       /\ Numbered
       /\ PrintsAreWhole

-----------------------------------------------------------------------------
(* The Writer stays in its row: write_byte breaks the line that is full. *)
LEMMA ColumnInRow ==
  ASSUME NEW w, NEW byte, w.column_position \in 0 .. BUFFER_WIDTH
  PROVE  write_byte(w, byte).column_position \in 0 .. BUFFER_WIDTH
<1>1. CASE byte = Newline
  BY <1>1, VgaAssumption DEF write_byte, new_line
<1>2. CASE byte # Newline
  <2> DEFINE v == Wrapped(w)
  <2>1. v.column_position \in 0 .. BUFFER_WIDTH /\ v.column_position < BUFFER_WIDTH
    BY VgaAssumption DEF Wrapped, LineFull, new_line
  <2>2. write_byte(w, byte).column_position = v.column_position + 1
    BY <1>2 DEF write_byte
  <2> HIDE DEF v
  <2> QED  BY <2>1, <2>2, VgaAssumption
<1> QED  BY <1>1, <1>2

(* Every byte printed has the number of its print. *)
LEMMA BytesNumbered ==
  ASSUME NEW s \in Seq([by : Nat, byte : STRING]), NEW i \in DOMAIN s
  PROVE  s[i].by \in Nat
<1>1. s[i] \in [by : Nat, byte : STRING]
  BY LenProperties, ElementOfSeq, ZenonT(60)
<1> QED  BY <1>1

(* A byte of the latest print keeps prints whole. *)
LEMMA WriteKeeps ==
  ASSUME NEW byte \in STRING, NEW by, by = prints, prints' = prints,
         InterruptsTypeOK, \A i \in DOMAIN output : output[i].by <= prints,
         PrintsAreWhole, Write(byte, by)
  PROVE  /\ output' \in Seq([by : Nat, byte : STRING])
         /\ \A i \in DOMAIN output' : output'[i].by <= prints'
         /\ PrintsAreWhole'
         /\ writer'.column_position \in 0 .. BUFFER_WIDTH
<1> DEFINE e == [by |-> by, byte |-> byte]
<1>1. prints \in Nat /\ output \in Seq([by : Nat, byte : STRING])
  BY DEF InterruptsTypeOK
<1>2. e \in [by : Nat, byte : STRING] /\ e.by = prints
  BY <1>1
<1>3. output' = Append(output, e)
  BY DEF Write
<1> HIDE DEF e
<1>4. output' \in Seq([by : Nat, byte : STRING])
  BY <1>1, <1>2, <1>3
<1>5. /\ Len(output') = Len(output) + 1 /\ Len(output) \in Nat
      /\ DOMAIN output = 1 .. Len(output) /\ DOMAIN output' = 1 .. Len(output')
      /\ \A i \in 1 .. Len(output) : output'[i] = output[i]
      /\ output'[Len(output) + 1] = e
  BY <1>1, <1>2, <1>3, <1>4
<1>6. \A i \in DOMAIN output : output[i].by \in Nat
  BY <1>1, BytesNumbered
<1>7. \A i \in DOMAIN output' : output'[i].by <= prints'
  <2> SUFFICES ASSUME NEW i \in 1 .. Len(output) + 1 PROVE output'[i].by <= prints
    BY <1>5
  <2>1. CASE i = Len(output) + 1
    BY <1>1, <1>2, <1>5, <2>1
  <2>2. CASE i \in 1 .. Len(output)
    BY <1>5, <2>2
  <2> QED  BY <1>5, <2>1, <2>2
<1>8. PrintsAreWhole'
  <2> SUFFICES ASSUME NEW i \in DOMAIN output', NEW j \in DOMAIN output', i <= j
               PROVE  output'[i].by <= output'[j].by
    BY DEF PrintsAreWhole
  <2>1. CASE j = Len(output) + 1
    BY <1>2, <1>5, <1>7, <2>1
  <2>2. CASE j # Len(output) + 1
    <3>1. i \in DOMAIN output /\ j \in DOMAIN output
      BY <1>5, <2>2
    <3> QED  BY <1>5, <3>1 DEF PrintsAreWhole
  <2> QED  BY <2>1, <2>2
<1>9. writer'.column_position \in 0 .. BUFFER_WIDTH
  BY ColumnInRow DEF Write, InterruptsTypeOK
<1> QED  BY <1>4, <1>7, <1>8, <1>9

-----------------------------------------------------------------------------
LEMMA InitInv == InterruptsInit => Inv
<1> SUFFICES ASSUME InterruptsInit PROVE Inv
  OBVIOUS
<1>1. writer.column_position \in 0 .. BUFFER_WIDTH
  BY VgaAssumption DEF InterruptsInit, NewWriter
<1>2. InterruptsTypeOK
  <2>1. left \in Seq(STRING) /\ key \in Seq(STRING)
    BY DEF InterruptsInit
  <2>2. output \in Seq([by : Nat, byte : STRING])
    BY DEF InterruptsInit
  <2>3. locks \in [Locks -> {"free", "main", "keyboard"}]
    BY DEF InterruptsInit
  <2>4. raised \in [Irqs -> Nat]
    BY DEF InterruptsInit
  <2>5. uptime \in Nat /\ uptime <= 18 * raised["timer"]
    <3>1. uptime = 0 /\ raised["timer"] = 0
      BY DEF InterruptsInit, Irqs
    <3> QED  BY <3>1
  <2>6. /\ pc \in {"lock_pics", "init_pics", "enable", "ready", "print"}
        /\ hpc \in {"none", "tick", "keyboard", "decode", "echo", "write", "lock_pics", "iret"}
        /\ handler \in Irqs \cup {"none"}
        /\ if_flag \in BOOLEAN /\ irr \subseteq Irqs /\ isr \subseteq Irqs
        /\ mine \in Nat /\ prints \in Nat
    BY ZenonT(60) DEF InterruptsInit
  <2> QED  BY <1>1, <2>1, <2>2, <2>3, <2>4, <2>5, <2>6 DEF InterruptsTypeOK
<1>3. Running /\ Holders
  BY DEF InterruptsInit, Running, Holders, Locks
<1>4. Ticks <= 18 * raised["timer"]
  BY DEF InterruptsInit, Ticks, Irqs
<1>5. Numbered /\ PrintsAreWhole
  BY DEF InterruptsInit, Numbered, PrintsAreWhole
<1> QED  BY <1>2, <1>3, <1>4, <1>5 DEF Inv

(* What a step that prints nothing leaves as it is. *)
LEMMA NothingPrinted ==
  ASSUME Inv, UNCHANGED <<writer, output>>, prints' \in Nat, prints <= prints',
         pc' = "print" => mine' = prints'
  PROVE  /\ Numbered' /\ PrintsAreWhole'
         /\ writer'.column_position \in 0 .. BUFFER_WIDTH
         /\ output' \in Seq([by : Nat, byte : STRING])
<1>1. /\ prints \in Nat /\ output \in Seq([by : Nat, byte : STRING])
      /\ \A i \in DOMAIN output : output[i].by <= prints
  BY DEF Inv, InterruptsTypeOK, Numbered
<1>2. \A i \in DOMAIN output : output[i].by \in Nat
  BY <1>1, BytesNumbered
<1>3. Numbered'
  BY <1>1, <1>2 DEF Numbered
<1>4. PrintsAreWhole' /\ writer'.column_position \in 0 .. BUFFER_WIDTH
  BY DEF Inv, InterruptsTypeOK, PrintsAreWhole
<1> QED  BY <1>1, <1>3, <1>4

LEMMA MainKeepsInv == Inv /\ MainStep => Inv'
<1> SUFFICES ASSUME Inv, MainStep PROVE Inv'
  OBVIOUS
<1> USE DEF Main, mainVars, screenVars
<1>1. CASE LockPics
  <2>1. Numbered' /\ PrintsAreWhole' /\ InterruptsTypeOK'
    BY <1>1, NothingPrinted DEF LockPics, Acquire, Inv, InterruptsTypeOK, Locks
  <2>2. Running' /\ Holders'
    BY <1>1 DEF LockPics, Acquire, Inv, InterruptsTypeOK, Running, Holders, Locks
  <2> QED  BY <1>1, <2>1, <2>2 DEF LockPics, Inv, Ticks
<1>2. CASE InitPics
  <2>1. Numbered' /\ PrintsAreWhole' /\ InterruptsTypeOK'
    BY <1>2, NothingPrinted DEF InitPics, Release, Inv, InterruptsTypeOK, Locks
  <2>2. Running' /\ Holders'
    BY <1>2 DEF InitPics, Release, Inv, InterruptsTypeOK, Running, Holders, Locks
  <2> QED  BY <1>2, <2>1, <2>2 DEF InitPics, Inv, Ticks
<1>3. CASE EnableInterrupts
  <2>1. Numbered' /\ PrintsAreWhole' /\ InterruptsTypeOK'
    BY <1>3, NothingPrinted DEF EnableInterrupts, Inv, InterruptsTypeOK
  <2>2. Running' /\ Holders'
    BY <1>3 DEF EnableInterrupts, Inv, InterruptsTypeOK, Running, Holders
  <2> QED  BY <1>3, <2>1, <2>2 DEF EnableInterrupts, Inv, Ticks
<1>4. CASE LockWriter
  <2>1. prints' \in Nat /\ prints <= prints' /\ mine' = prints'
    BY <1>4 DEF LockWriter, Inv, InterruptsTypeOK
  <2>2. Numbered' /\ PrintsAreWhole' /\ InterruptsTypeOK'
    BY <1>4, <2>1, NothingPrinted, InterruptsAssumption
    DEF LockWriter, Acquire, Inv, InterruptsTypeOK, Locks
  <2>3. Running' /\ Holders'
    BY <1>4 DEF LockWriter, Acquire, Inv, InterruptsTypeOK, Running, Holders, Locks
  <2> QED  BY <1>4, <2>2, <2>3 DEF LockWriter, Inv, Ticks
<1>5. CASE WriteByte
  <2>1. Head(left) \in STRING /\ Tail(left) \in Seq(STRING) /\ mine = prints
    BY <1>5 DEF WriteByte, Inv, InterruptsTypeOK, Numbered
  <2>2. /\ output' \in Seq([by : Nat, byte : STRING])
        /\ \A i \in DOMAIN output' : output'[i].by <= prints'
        /\ PrintsAreWhole'
        /\ writer'.column_position \in 0 .. BUFFER_WIDTH
    BY <1>5, <2>1, WriteKeeps, ZenonT(60) DEF WriteByte, Inv, Numbered
  <2>3. InterruptsTypeOK'
    BY <1>5, <2>1, <2>2 DEF WriteByte, Inv, InterruptsTypeOK
  <2>4. Running' /\ Holders' /\ Numbered'
    BY <1>5, <2>1, <2>2 DEF WriteByte, Inv, Running, Holders, Numbered
  <2> QED  BY <1>5, <2>2, <2>3, <2>4 DEF WriteByte, Inv, Ticks
<1>6. CASE UnlockWriter
  <2>1. Numbered' /\ PrintsAreWhole' /\ InterruptsTypeOK'
    BY <1>6, NothingPrinted DEF UnlockWriter, Release, Inv, InterruptsTypeOK, Locks
  <2>2. Running' /\ Holders'
    BY <1>6 DEF UnlockWriter, Release, Inv, InterruptsTypeOK, Running, Holders, Locks
  <2> QED  BY <1>6, <2>1, <2>2 DEF UnlockWriter, Inv, Ticks
<1> QED  BY <1>1, <1>2, <1>3, <1>4, <1>5, <1>6 DEF MainStep

LEMMA HandlerKeepsInv == Inv /\ HandlerStep => Inv'
<1> SUFFICES ASSUME Inv, HandlerStep PROVE Inv'
  OBVIOUS
<1> USE DEF Handle, mainVars, screenVars
<1>0. handler # "none"
  BY ZenonT(60) DEF HandlerStep, Tick, LockKeyboard, DecodeKey, DecodeNothing, LockForKey, WriteKey,
         UnlockForKey, EndOfInterrupt, Iret, Inv, Running
<1>1. CASE Tick
  <2>1. /\ uptime \in Nat /\ raised \in [Irqs -> Nat] /\ raised["timer"] \in Nat
        /\ hpc = "tick" /\ hpc' # "tick" /\ uptime' = uptime + 18
        /\ Ticks <= 18 * raised["timer"]
    BY <1>1 DEF Tick, Inv, InterruptsTypeOK, Irqs
  <2>2. Ticks' <= 18 * raised'["timer"] /\ uptime' \in Nat /\ uptime' <= 18 * raised["timer"]
    BY <1>1, <2>1 DEF Tick, Ticks
  <2>3. Numbered' /\ PrintsAreWhole' /\ InterruptsTypeOK'
    <3>1. /\ UNCHANGED <<writer, output, prints, pc, mine>> /\ prints \in Nat
          /\ pc = "print" => mine = prints
      BY <1>1 DEF Tick, Inv, Numbered, InterruptsTypeOK
    <3>2. prints' \in Nat /\ prints <= prints' /\ (pc' = "print" => mine' = prints')
      BY <3>1
    <3>3. Numbered' /\ PrintsAreWhole'
      BY <3>1, <3>2, NothingPrinted
    <3>4. InterruptsTypeOK'
      BY <1>1, <2>2 DEF Tick, Inv, InterruptsTypeOK
    <3> QED  BY <3>3, <3>4
  <2>4. Running' /\ Holders'
    BY <1>1 DEF Tick, Inv, Running, Holders
  <2> QED  BY <2>2, <2>3, <2>4 DEF Inv
<1>2. CASE LockKeyboard
  <2>1. Numbered' /\ PrintsAreWhole' /\ InterruptsTypeOK'
    BY <1>2, NothingPrinted DEF LockKeyboard, Acquire, Inv, Numbered, InterruptsTypeOK, Locks
  <2>2. Running' /\ Holders'
    BY <1>2 DEF LockKeyboard, Acquire, Inv, InterruptsTypeOK, Running, Holders, Locks
  <2> QED  BY <1>2, <2>1, <2>2 DEF LockKeyboard, Inv, Ticks
<1>3. CASE DecodeKey \/ DecodeNothing
  <2>0. prints' \in Nat /\ prints <= prints' /\ (pc' = "print" => mine' = prints')
    BY <1>3 DEF DecodeKey, DecodeNothing, Inv, InterruptsTypeOK, Numbered
  <2>1. Numbered' /\ PrintsAreWhole'
    BY <1>3, <2>0, NothingPrinted DEF DecodeKey, DecodeNothing
  <2>3. InterruptsTypeOK'
    BY <1>3 DEF DecodeKey, DecodeNothing, Inv, InterruptsTypeOK
  <2>2. Running' /\ Holders'
    BY <1>3 DEF DecodeKey, DecodeNothing, Inv, Running, Holders
  <2> QED  BY <1>3, <2>1, <2>2, <2>3 DEF DecodeKey, DecodeNothing, Inv, Ticks
<1>4. CASE LockForKey
  <2>1. prints' \in Nat /\ prints <= prints' /\ pc # "print"
    BY <1>4 DEF LockForKey, Acquire, Inv, InterruptsTypeOK, Holders
  <2>2. Numbered' /\ PrintsAreWhole' /\ InterruptsTypeOK'
    BY <1>4, <2>1, NothingPrinted, InterruptsAssumption
    DEF LockForKey, Acquire, Inv, InterruptsTypeOK, Locks
  <2>3. Running' /\ Holders'
    BY <1>4 DEF LockForKey, Acquire, Inv, InterruptsTypeOK, Running, Holders, Locks
  <2> QED  BY <1>4, <2>2, <2>3 DEF LockForKey, Inv, Ticks
<1>5. CASE WriteKey
  <2>1. Head(key) \in STRING /\ Tail(key) \in Seq(STRING)
    BY <1>5 DEF WriteKey, Inv, InterruptsTypeOK
  <2>2. /\ output' \in Seq([by : Nat, byte : STRING])
        /\ \A i \in DOMAIN output' : output'[i].by <= prints'
        /\ PrintsAreWhole'
        /\ writer'.column_position \in 0 .. BUFFER_WIDTH
    BY <1>5, <2>1, WriteKeeps, ZenonT(60) DEF WriteKey, Inv, Numbered
  <2>3. InterruptsTypeOK'
    BY <1>5, <2>1, <2>2 DEF WriteKey, Inv, InterruptsTypeOK
  <2>4. Running' /\ Holders' /\ Numbered'
    BY <1>5, <2>1, <2>2 DEF WriteKey, Inv, Running, Holders, Numbered
  <2> QED  BY <1>5, <2>2, <2>3, <2>4, ZenonT(60) DEF WriteKey, Inv, Ticks
<1>6. CASE UnlockForKey
  <2>1. Numbered' /\ PrintsAreWhole' /\ InterruptsTypeOK'
    BY <1>6, NothingPrinted DEF UnlockForKey, Release, Inv, Numbered, InterruptsTypeOK, Locks
  <2>2. Running' /\ Holders'
    BY <1>6 DEF UnlockForKey, Release, Inv, InterruptsTypeOK, Running, Holders, Locks
  <2> QED  BY <1>6, <2>1, <2>2 DEF UnlockForKey, Inv, Ticks
<1>7. CASE EndOfInterrupt
  <2>1. Numbered' /\ PrintsAreWhole' /\ InterruptsTypeOK'
    BY <1>7, NothingPrinted DEF EndOfInterrupt, Inv, Numbered, InterruptsTypeOK
  <2>2. Running' /\ Holders'
    BY <1>7 DEF EndOfInterrupt, Inv, InterruptsTypeOK, Running, Holders, Irqs
  <2> QED  BY <1>7, <2>1, <2>2 DEF EndOfInterrupt, Inv, Ticks
<1>8. CASE Iret
  <2>1. Numbered' /\ PrintsAreWhole' /\ InterruptsTypeOK'
    BY <1>8, NothingPrinted DEF Iret, Release, Inv, Numbered, InterruptsTypeOK, Locks
  <2>2. Running' /\ Holders'
    BY <1>0, <1>8 DEF Iret, Release, Inv, InterruptsTypeOK, Running, Holders, Locks
  <2> QED  BY <1>8, <2>1, <2>2 DEF Iret, Inv, Ticks
<1> QED  BY <1>1, <1>2, <1>3, <1>4, <1>5, <1>6, <1>7, <1>8 DEF HandlerStep

LEMMA DevicesKeepInv == ASSUME NEW i \in Irqs PROVE Inv /\ (Raise(i) \/ Deliver(i)) => Inv'
<1> SUFFICES ASSUME Inv, Raise(i) \/ Deliver(i) PROVE Inv'
  OBVIOUS
<1> USE DEF mainVars, screenVars
<1>1. Numbered' /\ PrintsAreWhole' /\ writer'.column_position \in 0 .. BUFFER_WIDTH
  BY NothingPrinted DEF Raise, Deliver, Inv, Numbered, InterruptsTypeOK
<1>2. CASE Raise(i)
  <2>1. /\ raised \in [Irqs -> Nat] /\ raised["timer"] \in Nat
        /\ raised'["timer"] = IF i = "timer" THEN raised["timer"] + 1 ELSE raised["timer"]
        /\ raised' \in [Irqs -> Nat]
        /\ uptime \in Nat /\ uptime <= 18 * raised["timer"]
    BY <1>2 DEF Raise, Inv, InterruptsTypeOK, Irqs
  <2>2. Ticks' <= 18 * raised'["timer"]
    BY <1>2, <2>1 DEF Raise, Inv, Ticks
  <2>3. uptime' <= 18 * raised'["timer"]
    BY <1>2, <2>1 DEF Raise
  <2>4. InterruptsTypeOK'
    BY <1>1, <1>2, <2>1, <2>3 DEF Raise, Inv, InterruptsTypeOK
  <2>5. Running' /\ Holders'
    BY <1>2 DEF Raise, Inv, Running, Holders
  <2> QED  BY <1>1, <2>2, <2>4, <2>5 DEF Inv
<1>3. CASE Deliver(i)
  <2>1. handler = "none" /\ hpc = "none"
    BY <1>3 DEF Deliver, Inv, InterruptsTypeOK, Running
  <2>2. InterruptsTypeOK'
    BY <1>1, <1>3, ZenonT(60) DEF Deliver, Inv, InterruptsTypeOK
  <2>3. Running'
    BY <1>3 DEF Deliver, Inv, Running, Irqs
  <2>4. Holders'
    BY <1>3, <2>1 DEF Deliver, Inv, Holders, Irqs
  <2>5. Ticks' <= 18 * raised'["timer"]
    BY <1>3, <2>1 DEF Deliver, Inv, Ticks, InterruptsTypeOK, Irqs
  <2> QED  BY <1>1, <2>2, <2>3, <2>4, <2>5 DEF Inv
<1> QED  BY <1>2, <1>3

LEMMA NextInv == Inv /\ [InterruptsNext]_vars => Inv'
<1> SUFFICES ASSUME Inv, [InterruptsNext]_vars PROVE Inv'
  OBVIOUS
<1>1. CASE UNCHANGED vars
  <2>1. UNCHANGED <<pc, left, mine, hpc, handler, key, if_flag, locks, irr, isr, writer,
                    prints, output, uptime, raised>>
    BY <1>1 DEF vars, mainVars, screenVars
  <2>2. InterruptsTypeOK' /\ PrintsAreWhole'
    BY <2>1 DEF Inv, InterruptsTypeOK, PrintsAreWhole
  <2>3. Running' /\ Holders' /\ Numbered' /\ Ticks' <= 18 * raised'["timer"]
    BY <2>1, ZenonT(60) DEF Inv, Running, Holders, Numbered, Ticks
  <2> QED  BY <2>2, <2>3 DEF Inv
<1>2. CASE Wait \/ Spin
  BY <1>1, <1>2 DEF Wait, Spin
<1> QED  BY <1>1, <1>2, MainKeepsInv, HandlerKeepsInv, DevicesKeepInv DEF InterruptsNext

(* The inductive invariant holds throughout. *)
THEOREM LocksFollowTheCpu == InterruptsSpec => []Inv
<1> QED  BY InitInv, NextInv, PTL DEF InterruptsSpec

(* The state keeps its types: the Writer never writes beyond its row, and  *)
(* UPTIME_MS is never ahead of the timer interrupts raised.                *)
THEOREM InterruptsTyped == InterruptsSpec => []InterruptsTypeOK
<1>1. Inv => InterruptsTypeOK
  BY DEF Inv
<1> QED  BY <1>1, LocksFollowTheCpu, PTL

(* A handler never waits for PICS or KEYBOARD, whatever it interrupts. *)
THEOREM OnlyWriterIsContended == InterruptsSpec => []OnlyWriterContended
<1>1. Inv => OnlyWriterContended
  BY DEF Inv, Running, Holders, InterruptsTypeOK, OnlyWriterContended
<1> QED  BY <1>1, LocksFollowTheCpu, PTL

(* No print of kernel_main or of the keyboard handler is split by another, *)
(* at whatever byte the keys come.                                         *)
THEOREM PrintsWhole == InterruptsSpec => []PrintsAreWhole
<1>1. Inv => PrintsAreWhole
  BY DEF Inv
<1> QED  BY <1>1, LocksFollowTheCpu, PTL

(* A key handler that finds the WRITER lock taken never gets it, and       *)
(* nothing else of the kernel goes on.                                     *)
THEOREM LockedOutStays == InterruptsSpec => LockedOutForever
<1>1. Inv /\ [InterruptsNext]_vars
        => [LockedOut => LockedOut' /\ UNCHANGED <<pc, output, uptime>>]_vars
  <2> SUFFICES ASSUME Inv, InterruptsNext, LockedOut
               PROVE  LockedOut' /\ UNCHANGED <<pc, output, uptime>>
    OBVIOUS
  <2>1. handler = "keyboard" /\ ~if_flag /\ hpc = "echo" /\ locks["WRITER"] = "main"
    BY DEF Inv, InterruptsTypeOK, Running, LockedOut, Irqs
  <2>2. ~MainStep
    BY <2>1 DEF MainStep, LockPics, InitPics, EnableInterrupts, LockWriter, WriteByte,
                UnlockWriter, Main
  <2>3. ~HandlerStep
    BY <2>1 DEF HandlerStep, Tick, LockKeyboard, DecodeKey, DecodeNothing, LockForKey,
                WriteKey, UnlockForKey, EndOfInterrupt, Iret, Handle, Acquire
  <2>4. \A i \in Irqs : ~Deliver(i)
    BY <2>1 DEF Deliver
  <2>5. CASE \E i \in Irqs : Raise(i)
    BY <2>5, <2>1 DEF Raise, LockedOut, mainVars, screenVars
  <2>6. CASE Wait \/ Spin
    BY <2>6, <2>1 DEF Wait, Spin, LockedOut, vars, mainVars, screenVars
  <2> QED  BY <2>2, <2>3, <2>4, <2>5, <2>6 DEF InterruptsNext
<1> QED  BY <1>1, LocksFollowTheCpu, PTL DEF InterruptsSpec, LockedOutForever

-----------------------------------------------------------------------------

(* The recursion of Paper. *)
Papers(text, m, f) ==
  f = [i \in 0 .. m |-> IF i = 0 THEN << << >> >> ELSE Printed(f[i - 1], text[i])]

(* The recursion of Paper has a solution for texts of every length. *)
LEMMA PapersExist ==
  ASSUME NEW text, NEW m \in Nat
  PROVE  \E f : Papers(text, m, f)
<1> DEFINE T == {n \in Nat : \E f : Papers(text, n, f)}
<1>1. 0 \in T
  <2>1. PICK g : g = [i \in 0 .. 0 |-> << << >> >>]
    BY ZenonT(60)
  <2>2. Papers(text, 0, g)
    BY <2>1 DEF Papers
  <2> QED BY <2>2
<1>2. ASSUME NEW n \in Nat, n \in T PROVE n + 1 \in T
  <2>1. PICK f : Papers(text, n, f)
    BY <1>2
  <2>2. \A i \in 0 .. n : f[i] = IF i = 0 THEN << << >> >> ELSE Printed(f[i - 1], text[i])
    BY <2>1 DEF Papers
  <2>3. PICK g : g = [i \in 0 .. n + 1 |->
                        IF i \in 0 .. n THEN f[i] ELSE Printed(f[i - 1], text[i])]
    BY ZenonT(60)
  <2>4. ASSUME NEW i \in 0 .. n + 1
        PROVE  g[i] = IF i = 0 THEN << << >> >> ELSE Printed(g[i - 1], text[i])
    <3>1. i # 0 => i - 1 \in 0 .. n
      OBVIOUS
    <3>2. i # 0 => g[i - 1] = f[i - 1]
      BY <2>3, <3>1
    <3> QED BY <2>2, <2>3, <3>2
  <2>5. Papers(text, n + 1, g)
    BY <2>3, <2>4 DEF Papers
  <2> QED BY <2>5
<1>3. m \in T
  <2> HIDE DEF T
  <2> QED BY <1>1, <1>2, SetInduction
<1> QED BY <1>3

(* Paper is such a solution. *)
LEMMA PaperIs ==
  ASSUME NEW text, Len(text) \in Nat
  PROVE  \E f : Papers(text, Len(text), f) /\ Paper(text) = f[Len(text)]
<1> DEFINE c == CHOOSE f : Papers(text, Len(text), f)
<1>1. Papers(text, Len(text), c)
  BY PapersExist, ZenonT(60)
<1>2. Paper(text) = c[Len(text)]
  BY DEF Paper, Papers
<1> QED BY <1>1, <1>2, ZenonT(60)

(* What a text puts on paper does not depend on what follows. *)
LEMMA PapersAgree ==
  ASSUME NEW s, NEW t, NEW m \in Nat, NEW n \in Nat, NEW f, NEW g,
         Papers(s, m, f), Papers(t, n, g),
         NEW k \in Nat, k <= m, k <= n, \A i \in 1 .. k : s[i] = t[i]
  PROVE  f[k] = g[k]
<1> DEFINE T == {j \in Nat : j <= k => f[j] = g[j]}
<1>1. 0 \in T
  <2>1. 0 \in 0 .. m /\ 0 \in 0 .. n
    OBVIOUS
  <2> QED BY <2>1 DEF Papers
<1>2. ASSUME NEW j \in Nat, j \in T PROVE j + 1 \in T
  <2> SUFFICES ASSUME j + 1 <= k PROVE f[j + 1] = g[j + 1]
    OBVIOUS
  <2>1. PICK i : i = j + 1
    OBVIOUS
  <2>2. i \in 0 .. m /\ i \in 0 .. n /\ i \in 1 .. k /\ i - 1 = j /\ i # 0 /\ j <= k
    BY <2>1
  <2>3. f[i] = Printed(f[j], s[i])
    BY <2>2, ZenonT(60) DEF Papers
  <2>4. g[i] = Printed(g[j], t[i])
    BY <2>2, ZenonT(60) DEF Papers
  <2>5. s[i] = t[i] /\ f[j] = g[j]
    BY <1>2, <2>2
  <2> QED BY <2>1, <2>3, <2>4, <2>5
<1>3. Nat \subseteq T
  <2> HIDE DEF T
  <2> QED BY <1>1, <1>2, SetInduction
<1> QED BY <1>3

LEMMA PaperEmpty == Paper(<< >>) = << << >> >>
<1>1. Len(<< >>) = 0
  OBVIOUS
<1>2. PICK f : Papers(<< >>, 0, f) /\ Paper(<< >>) = f[0]
  BY <1>1, PaperIs
<1>3. 0 \in 0 .. 0
  OBVIOUS
<1> QED BY <1>2, <1>3 DEF Papers

(* One byte more on the paper. *)
LEMMA PaperAppend ==
  ASSUME NEW S, NEW s \in Seq(S), NEW byte \in S
  PROVE  Paper(Append(s, byte)) = Printed(Paper(s), byte)
<1>1. PICK n, t : n \in Nat /\ n = Len(s) /\ t = Append(s, byte)
  BY LenProperties, ZenonT(60)
<1> n \in Nat
  BY <1>1
<1>2. /\ Len(t) = n + 1 /\ t[n + 1] = byte
      /\ \A i \in 1 .. n : t[i] = s[i]
  BY <1>1, AppendProperties, LenProperties
<1>3. PICK f : Papers(t, n + 1, f) /\ Paper(t) = f[n + 1]
  BY <1>2, PaperIs
<1>4. PICK g : Papers(s, n, g) /\ Paper(s) = g[n]
  BY <1>1, PaperIs
<1>5. f[n] = g[n]
  <2>1. n + 1 \in Nat /\ n <= n + 1 /\ n <= n
    OBVIOUS
  <2> QED BY ONLY n \in Nat, <1>2, <1>3, <1>4, <2>1, PapersAgree, SMTT(60), Z3T(60)
<1>6. f[n + 1] = Printed(f[n], byte)
  <2>1. n + 1 \in 0 .. n + 1 /\ n + 1 # 0 /\ (n + 1) - 1 = n
    OBVIOUS
  <2> QED BY <1>2, <1>3, <2>1 DEF Papers
<1> QED BY <1>1, <1>3, <1>4, <1>5, <1>6

-----------------------------------------------------------------------------
(* What can be in a cell or be written to it. *)
Chars == STRING \cup {Blank, Old, Box}

(* The screen shows the last of the lines, and the writer is behind the    *)
(* last character of the last one.                                         *)
Shows(w, lines) ==
  /\ lines \in Seq(Seq(Chars)) /\ Len(lines) >= 1
  /\ w.chars \in [Rows -> [Columns -> Chars]]
  /\ w.column_position = Len(lines[Len(lines)])
  /\ w.column_position <= BUFFER_WIDTH
  /\ \A row \in Rows, col \in Columns : w.chars[row][col] = Cell(lines, row, col)

(* A line that is there before and after is shown in the same way. *)
LEMMA CellMoves ==
  ASSUME NEW a, NEW b, NEW i, NEW j, NEW col, Len(a) - BUFFER_HEIGHT + i = Len(b) - BUFFER_HEIGHT + j,
         Len(b) - BUFFER_HEIGHT + j >= 1 =>
            a[Len(b) - BUFFER_HEIGHT + j] = b[Len(b) - BUFFER_HEIGHT + j],
         Len(b) \in Nat, j \in Nat
  PROVE  Cell(a, i, col) = Cell(b, j, col)
<1>1. PICK n : n = Len(b) - BUFFER_HEIGHT + j
  BY ZenonT(60)
<1>2. n \in Int
  BY <1>1, VgaAssumption
<1>3. CASE n < 1
  BY <1>1, <1>3 DEF Cell
<1>4. CASE ~(n < 1)
  <2>1. a[n] = b[n]
    BY <1>1, <1>2, <1>4
  <2> QED BY <1>1, <1>4, <2>1 DEF Cell
<1> QED BY <1>3, <1>4

(* new_line scrolls: what follows is on a line of its own. *)
LEMMA NewLineShows ==
  ASSUME NEW w, NEW lines, Shows(w, lines)
  PROVE  Shows(new_line(w), Append(lines, << >>))
<1>1. PICK n, a, v : n \in Nat /\ n = Len(lines) /\ a = Append(lines, << >>) /\ v = new_line(w)
  BY LenProperties, ZenonT(60) DEF Shows
<1> n \in Nat
  BY <1>1
<1>2. << >> \in Seq(Chars) /\ Len(<< >>) = 0
  OBVIOUS
<1>3. /\ a \in Seq(Seq(Chars)) /\ Len(a) = n + 1 /\ a[n + 1] = << >>
      /\ \A i \in 1 .. n : a[i] = lines[i]
  <2>1. PICK Q : Q = Seq(Chars)
    BY ZenonT(60)
  <2>2. lines \in Seq(Q) /\ << >> \in Q
    BY <1>2, <2>1 DEF Shows
  <2>3. PICK e : e = << >>
    BY ZenonT(60)
  <2>4. a = Append(lines, e) /\ e \in Q
    BY <1>1, <2>2, <2>3
  <2>5. a \in Seq(Q) /\ Len(a) = n + 1 /\ a[n + 1] = e /\ \A i \in 1 .. n : a[i] = lines[i]
    BY ONLY <1>1, <2>2, <2>4, AppendParts, SMTT(60), Z3T(60)
  <2> QED BY <2>1, <2>3, <2>5
<1>4. n >= 1
  BY <1>1 DEF Shows
<1>5. v.column_position = 0
  BY <1>1 DEF new_line
<1>6. /\ \A row \in Rows : row < BUFFER_HEIGHT => v.chars[row] = w.chars[row + 1]
      /\ v.chars[BUFFER_HEIGHT] = clear_row
      /\ v.chars = [row \in Rows |-> IF row < BUFFER_HEIGHT THEN w.chars[row + 1] ELSE clear_row]
  BY <1>1, VgaAssumption DEF new_line, Rows
<1>7. clear_row \in [Columns -> Chars] /\ \A col \in Columns : clear_row[col] = Blank
  <2>1. Blank \in Chars
    BY DEF Chars
  <2> QED BY <2>1 DEF clear_row
<1>8. v.chars \in [Rows -> [Columns -> Chars]]
  <2>1. ASSUME NEW row \in Rows, row < BUFFER_HEIGHT PROVE w.chars[row + 1] \in [Columns -> Chars]
    <3>1. row + 1 \in Rows
      BY <2>1, VgaAssumption DEF Rows
    <3> QED BY <3>1 DEF Shows
  <2> QED BY <1>6, <1>7, <2>1
<1>9. ASSUME NEW row \in Rows, NEW col \in Columns
      PROVE  v.chars[row][col] = Cell(a, row, col)
  <2>0. row \in Nat /\ 1 <= row /\ row <= BUFFER_HEIGHT /\ BUFFER_HEIGHT \in Nat /\ col \in Nat /\ col >= 1
    BY VgaAssumption DEF Rows, Columns
  <2>1. CASE row < BUFFER_HEIGHT
    <3>1. PICK r \in Rows : r = row + 1
      BY <2>0, <2>1 DEF Rows
    <3>2. Cell(a, row, col) = Cell(lines, r, col)
      <4>1. Len(a) - BUFFER_HEIGHT + row = Len(lines) - BUFFER_HEIGHT + r
        BY <1>1, <1>3, <2>0, <3>1
      <4>2. PICK m : m = Len(lines) - BUFFER_HEIGHT + r
        BY ZenonT(60)
      <4>3. m >= 1 => m \in 1 .. n
        BY <1>1, <2>0, <2>1, <3>1, <4>2
      <4>4. m >= 1 => a[m] = lines[m]
        BY <1>3, <4>3
      <4>5. Len(lines) \in Nat /\ r \in Nat
        BY <1>1, <2>0, <3>1
      <4> QED BY <4>1, <4>2, <4>4, <4>5, CellMoves
    <3>3. v.chars[row] = w.chars[r]
      BY <1>6, <2>1, <3>1
    <3> QED BY <3>2, <3>3 DEF Shows
  <2>2. CASE row = BUFFER_HEIGHT
    <3>1. Len(a) - BUFFER_HEIGHT + row = n + 1
      BY <1>3, <2>0, <2>2
    <3>2. ~(n + 1 < 1) /\ n + 1 # 1 /\ ~(col <= 0) /\ Len(a[n + 1]) = 0
      BY <1>2, <1>3, <1>4, <2>0
    <3>3. Cell(a, row, col) = Blank
      BY <3>1, <3>2 DEF Cell
    <3> QED BY <1>6, <1>7, <2>2, <3>3
  <2> QED BY <2>0, <2>1, <2>2
<1>10. v.column_position = Len(a[Len(a)]) /\ v.column_position <= BUFFER_WIDTH /\ Len(a) >= 1
  BY <1>2, <1>3, <1>4, <1>5, VgaAssumption
<1>11. Shows(v, a)
  BY <1>3, <1>8, <1>9, <1>10 DEF Shows
<1> QED BY <1>1, <1>11

(* A character goes to the end of the last line. *)
Put(v, byte) ==
  LET col == v.column_position + 1
  IN  [column_position |-> col,
       chars |-> [v.chars EXCEPT ![BUFFER_HEIGHT] = [@ EXCEPT ![col] = byte]]]

(* A byte in the middle of a row. *)
LEMMA PutShows ==
  ASSUME NEW v, NEW lines, Shows(v, lines), v.column_position < BUFFER_WIDTH,
         NEW byte \in Chars
  PROVE  Shows(Put(v, byte), [lines EXCEPT ![Len(lines)] = Append(@, byte)])
<1>1. PICK n, c, last :  /\ n \in Nat /\ c \in Nat
            /\ n = Len(lines) /\ n >= 1 /\ last = lines[n]
            /\ last \in Seq(Chars) /\ c = Len(last)
            /\ c = v.column_position /\ c < BUFFER_WIDTH
  <2>1. Len(lines) \in Nat /\ Len(lines) >= 1
    BY LenProperties DEF Shows
  <2>2. lines[Len(lines)] \in Seq(Chars)
    BY <2>1, ElementOfSeq DEF Shows
  <2>3. Len(lines[Len(lines)]) \in Nat
    BY <2>2, LenProperties
  <2> QED BY <2>1, <2>2, <2>3, ZenonT(60) DEF Shows
<1> n \in Nat /\ c \in Nat
  BY <1>1
<1>2. PICK a, w, e : /\ a = [lines EXCEPT ![Len(lines)] = Append(@, byte)]
                     /\ w = Put(v, byte) /\ e = Append(last, byte)
  BY ZenonT(60)
<1>3. /\ e \in Seq(Chars) /\ Len(e) = c + 1 /\ e[c + 1] = byte
      /\ \A i \in 1 .. c : e[i] = last[i]
  <2>1. PICK Q : Q = Chars
    BY ZenonT(60)
  <2>2. e = Append(last, byte) /\ last \in Seq(Q) /\ byte \in Q
    BY <1>1, <1>2, <2>1
  <2>3. c = Len(last)
    BY <1>1
  <2>4. /\ e \in Seq(Q) /\ Len(e) = c + 1 /\ e[c + 1] = byte
        /\ \A i \in 1 .. c : e[i] = last[i]
    BY ONLY <2>2, <2>3, AppendParts, SMTT(60), Z3T(60)
  <2> QED BY <2>1, <2>4
<1>4. /\ a \in Seq(Seq(Chars)) /\ Len(a) = n /\ a[n] = e
      /\ \A i \in 1 .. n : i # n => a[i] = lines[i]
  <2>1. lines \in [1 .. n -> Seq(Chars)]
    BY <1>1, LenProperties DEF Shows
  <2>2. a = [lines EXCEPT ![n] = e]
    BY <1>1, <1>2
  <2>3. a \in [1 .. n -> Seq(Chars)]
    BY <1>3, <2>1, <2>2, ZenonT(60)
  <2>4. a \in Seq(Seq(Chars)) /\ Len(a) = n
    BY <2>3
  <2> QED BY <1>1, <2>1, <2>2, <2>4
<1>5. BUFFER_HEIGHT \in Rows /\ c + 1 \in Columns
  BY <1>1, VgaAssumption DEF Rows, Columns
<1>6. /\ w.column_position = c + 1
      /\ w.chars = [v.chars EXCEPT ![BUFFER_HEIGHT] = [@ EXCEPT ![c + 1] = byte]]
  BY <1>1, <1>2 DEF Put
<1>7. v.chars \in [Rows -> [Columns -> Chars]]
  BY DEF Shows
<1>8. /\ w.chars \in [Rows -> [Columns -> Chars]]
      /\ \A row \in Rows, col \in Columns :
           w.chars[row][col] = IF row = BUFFER_HEIGHT /\ col = c + 1 THEN byte
                               ELSE v.chars[row][col]
  BY <1>5, <1>6, <1>7
<1>9. ASSUME NEW row \in Rows, NEW col \in Columns
      PROVE  w.chars[row][col] = Cell(a, row, col)
  <2>0. row \in Nat /\ 1 <= row /\ row <= BUFFER_HEIGHT /\ BUFFER_HEIGHT \in Nat /\ col \in Nat /\ col >= 1
    BY VgaAssumption DEF Rows, Columns
  <2>1. CASE row < BUFFER_HEIGHT
    <3>2. Cell(a, row, col) = Cell(lines, row, col)
      <4>1. Len(a) - BUFFER_HEIGHT + row = Len(lines) - BUFFER_HEIGHT + row
        BY <1>1, <1>4
      <4>2. PICK m : m = Len(lines) - BUFFER_HEIGHT + row
        BY ZenonT(60)
      <4>3. m >= 1 => m \in 1 .. n /\ m # n
        BY <1>1, <2>0, <2>1, <4>2
      <4>4. m >= 1 => a[m] = lines[m]
        BY <1>4, <4>3
      <4>5. Len(lines) \in Nat
        BY <1>1
      <4> QED BY <2>0, <4>1, <4>2, <4>4, <4>5, CellMoves
    <3>3. w.chars[row][col] = v.chars[row][col]
      BY <1>8, <2>0, <2>1
    <3> QED BY <3>2, <3>3 DEF Shows
  <2>2. CASE row = BUFFER_HEIGHT
    <3>1. Len(a) - BUFFER_HEIGHT + row = n /\ Len(lines) - BUFFER_HEIGHT + row = n /\ ~(n < 1)
      BY <1>1, <1>4, <2>0, <2>2
    <3>2. Cell(lines, row, col) = IF col <= c THEN last[col] ELSE IF n = 1 THEN Old ELSE Blank
      BY <1>1, <3>1, ZenonT(60) DEF Cell
    <3>3. Cell(a, row, col) = IF col <= c + 1 THEN e[col] ELSE IF n = 1 THEN Old ELSE Blank
      BY <1>3, <1>4, <3>1 DEF Cell
    <3>4. v.chars[row][col] = Cell(lines, row, col)
      BY DEF Shows
    <3>5. CASE col <= c
      <4>1. col \in 1 .. c /\ col <= c + 1 /\ col # c + 1
        BY <1>1, <2>0, <3>5
      <4> QED BY <1>3, <1>8, <3>2, <3>3, <3>4, <3>5, <4>1, ZenonT(60)
    <3>6. CASE col = c + 1
      <4>1. col <= c + 1
        BY <1>1, <3>6
      <4> QED BY <1>3, <1>8, <2>2, <3>3, <3>6, <4>1
    <3>7. CASE ~(col <= c) /\ col # c + 1
      <4>1. ~(col <= c + 1)
        BY <1>1, <2>0, <3>7
      <4> QED BY <1>8, <3>2, <3>3, <3>4, <3>7, <4>1, ZenonT(60)
    <3> QED BY <3>5, <3>6, <3>7
  <2> QED BY <2>0, <2>1, <2>2
<1>10. w.column_position = Len(a[Len(a)]) /\ w.column_position <= BUFFER_WIDTH /\ Len(a) >= 1
  BY <1>1, <1>3, <1>4, <1>6, VgaAssumption
<1>11. Shows(w, a)
  BY <1>4, <1>8, <1>9, <1>10, ZenonT(60) DEF Shows
<1> QED BY <1>2, <1>11

(* write_byte keeps the screen and the paper together. *)
LEMMA WriteShows ==
  ASSUME NEW w, NEW lines, Shows(w, lines), NEW byte \in Chars
  PROVE  Shows(write_byte(w, byte), Printed(lines, byte))
<1>1. CASE byte = Newline
  BY <1>1, NewLineShows DEF write_byte, Printed
<1>2. CASE byte # Newline
  <2>1. write_byte(w, byte) = Put(Wrapped(w), byte)
    BY <1>2 DEF write_byte, Put
  <2>2. /\ w.column_position = Len(lines[Len(lines)]) /\ w.column_position <= BUFFER_WIDTH
        /\ w.column_position \in Nat
    <3>1. Len(lines) \in Nat /\ Len(lines) >= 1
      BY LenProperties DEF Shows
    <3>2. lines[Len(lines)] \in Seq(Chars)
      BY <3>1, ElementOfSeq DEF Shows
    <3>3. Len(lines[Len(lines)]) \in Nat
      BY <3>2, LenProperties
    <3> QED BY <3>3 DEF Shows
  <2>3. CASE LineFull(w)
    <3>1. PICK v, a : v = new_line(w) /\ a = Append(lines, << >>)
      BY ZenonT(60)
    <3>2. Shows(v, a) /\ v.column_position < BUFFER_WIDTH
      <4>1. Shows(v, a)
        BY <3>1, NewLineShows, ZenonT(60)
      <4>2. v.column_position = 0
        BY <3>1 DEF new_line
      <4> QED BY <4>1, <4>2, VgaAssumption
    <3>3. Shows(Put(v, byte), [a EXCEPT ![Len(a)] = Append(@, byte)])
      BY <3>2, PutShows
    <3>4. Wrapped(w) = v
      BY <2>3, <3>1 DEF Wrapped
    <3>5. Printed(lines, byte) = Append(lines, <<byte>>)
      BY <1>2, <2>2, <2>3, VgaAssumption DEF Printed, LineFull
    <3>6. [a EXCEPT ![Len(a)] = Append(@, byte)] = Append(lines, <<byte>>)
      <4>1. PICK Q : Q = Seq(Chars)
        BY ZenonT(60)
      <4>2. PICK e, f : e = << >> /\ f = <<byte>>
        BY ZenonT(60)
      <4>3. e \in Q /\ f \in Q /\ Append(e, byte) = f /\ lines \in Seq(Q) /\ a = Append(lines, e)
        BY <3>1, <4>1, <4>2 DEF Shows
      <4>4. PICK b : b = Append(lines, f)
        BY ZenonT(60)
      <4>5. PICK n \in Nat : n = Len(lines)
        BY <4>3, LenProperties
      <4>6. /\ DOMAIN a = 1 .. n + 1 /\ a \in Seq(Q) /\ Len(a) = n + 1 /\ a[n + 1] = e
            /\ \A i \in 1 .. n : a[i] = lines[i]
        BY ONLY <4>3, <4>5, AppendParts, SMTT(60), Z3T(60)
      <4>7. /\ DOMAIN b = 1 .. n + 1 /\ b \in Seq(Q) /\ Len(b) = n + 1 /\ b[n + 1] = f
            /\ \A i \in 1 .. n : b[i] = lines[i]
        BY ONLY <4>3, <4>4, <4>5, AppendParts, SMTT(60), Z3T(60)
      <4>8. [a EXCEPT ![Len(a)] = Append(@, byte)] = [a EXCEPT ![n + 1] = f]
        BY <4>3, <4>6, ZenonT(60)
      <4>9. [a EXCEPT ![n + 1] = f] = b
        <5>1. a = [i \in 1 .. n + 1 |-> a[i]] /\ b = [i \in 1 .. n + 1 |-> b[i]]
          BY <4>6, <4>7
        <5>2. PICK c : c = [a EXCEPT ![n + 1] = f]
          BY ZenonT(60)
        <5>3. DOMAIN c = 1 .. n + 1 /\ \A i \in 1 .. n + 1 : c[i] = IF i = n + 1 THEN f ELSE a[i]
          BY <4>6, <5>2
        <5>4. \A i \in 1 .. n + 1 : c[i] = b[i]
          BY <4>6, <4>7, <5>3
        <5>5. c = [i \in 1 .. n + 1 |-> c[i]]
          BY <5>2, <4>6, ZenonT(60)
        <5> QED BY <5>1, <5>2, <5>4, <5>5, ZenonT(60)
      <4> QED BY <4>2, <4>4, <4>8, <4>9, ZenonT(60)
    <3> QED BY <2>1, <3>3, <3>4, <3>5, <3>6, ZenonT(60)
  <2>4. CASE ~LineFull(w)
    <3>1. Wrapped(w) = w
      BY <2>4 DEF Wrapped
    <3>2. w.column_position < BUFFER_WIDTH
      BY <2>2, <2>4, VgaAssumption DEF LineFull
    <3>3. Printed(lines, byte) = [lines EXCEPT ![Len(lines)] = Append(@, byte)]
      BY <1>2, <2>2, <3>2, VgaAssumption DEF Printed
    <3>4. Shows(Put(w, byte), [lines EXCEPT ![Len(lines)] = Append(@, byte)])
      BY <3>2, PutShows, ZenonT(60)
    <3> QED BY <2>1, <3>1, <3>3, <3>4
  <2> QED BY <2>3, <2>4
<1> QED BY <1>1, <1>2

-----------------------------------------------------------------------------
(* All that was printed, as the screen shows it. *)
Shown == [i \in DOMAIN output |-> Glyph(output[i].byte)]

ScreenInv == Inv /\ Shown \in Seq(Chars) /\ Shows(writer, Paper(Shown))

LEMMA InitScreen == InterruptsInit => ScreenInv
<1> SUFFICES ASSUME InterruptsInit PROVE ScreenInv
  OBVIOUS
<1>1. Inv
  BY InitInv
<1>2. Shown = << >>
  BY DEF InterruptsInit, Shown
<1>3. Paper(Shown) = << << >> >>
  BY <1>2, PaperEmpty
<1>4. PICK lines : lines = << << >> >>
  BY ZenonT(60)
<1>5. << >> \in Seq(Chars) /\ Len(<< >>) = 0
  OBVIOUS
<1>6. lines \in Seq(Seq(Chars)) /\ Len(lines) = 1 /\ lines[1] = << >>
  BY <1>4, <1>5
<1>7. /\ writer.column_position = 0
      /\ writer.chars = [row \in Rows |-> [col \in Columns |-> Old]]
  BY DEF InterruptsInit, NewWriter
<1>8. Old \in Chars
  BY DEF Chars
<1>9. writer.chars \in [Rows -> [Columns -> Chars]]
  BY <1>7, <1>8
<1>10. ASSUME NEW row \in Rows, NEW col \in Columns
       PROVE  writer.chars[row][col] = Cell(lines, row, col)
  <2>1. writer.chars[row][col] = Old
    BY <1>7
  <2>2. PICK n \in Int : n = Len(lines) - BUFFER_HEIGHT + row
    BY <1>6, VgaAssumption DEF Rows
  <2>3. n <= 1 /\ ~(col <= 0)
    BY <1>6, <2>2, VgaAssumption DEF Rows, Columns
  <2>4. CASE n < 1
    BY <2>1, <2>2, <2>4 DEF Cell
  <2>5. CASE n = 1
    BY <1>5, <1>6, <2>1, <2>2, <2>3, <2>5 DEF Cell
  <2> QED BY <2>3, <2>4, <2>5
<1>11. Shows(writer, lines)
  <2>1. writer.column_position = Len(lines[Len(lines)]) /\ writer.column_position <= BUFFER_WIDTH
    BY <1>5, <1>6, <1>7, VgaAssumption
  <2> QED BY <1>6, <1>9, <1>10, <2>1 DEF Shows
<1> QED BY <1>1, <1>2, <1>3, <1>4, <1>5, <1>11 DEF ScreenInv

(* One byte more on the screen. *)
LEMMA WriteKeepsScreen ==
  ASSUME ScreenInv, NEW byte \in STRING, NEW by \in Nat, Write(byte, by)
  PROVE  Shown' \in Seq(Chars) /\ Shows(writer, Paper(Shown))'
<1>1. PICK g : g = Glyph(byte)
  BY ZenonT(60)
<1>2. g \in Chars
  BY <1>1, ZenonT(60) DEF Glyph, Chars
<1>3. PICK R : R = [by : Nat, byte : STRING]
  BY ZenonT(60)
<1>4. PICK e : e = [by |-> by, byte |-> byte]
  BY ZenonT(60)
<1>5. e \in R /\ e.byte = byte /\ output \in Seq(R) /\ output' = Append(output, e)
  BY <1>3, <1>4 DEF ScreenInv, Inv, InterruptsTypeOK, Write
<1>6. PICK n \in Nat : n = Len(output)
  BY <1>5, LenProperties
<1>7. /\ DOMAIN output = 1 .. n /\ DOMAIN output' = 1 .. n + 1
      /\ \A i \in 1 .. n : output'[i] = output[i]
      /\ output'[n + 1] = e
  BY ONLY <1>5, <1>6, AppendParts, SMTT(60), Z3T(60)
<1>8. PICK s, t : s = Shown /\ t = Append(s, g)
  BY ZenonT(60)
<1>9. PICK Q : Q = Chars
  BY ZenonT(60)
<1>10. s \in Seq(Q) /\ g \in Q
  BY <1>2, <1>8, <1>9 DEF ScreenInv
<1>11. s = [i \in 1 .. n |-> Glyph(output[i].byte)]
  BY <1>7, <1>8 DEF Shown
<1>12. Len(s) = n /\ \A i \in 1 .. n : s[i] = Glyph(output[i].byte)
  BY <1>11, <1>10, LenProperties
<1>13. /\ t \in Seq(Q) /\ DOMAIN t = 1 .. n + 1 /\ t[n + 1] = g
       /\ \A i \in 1 .. n : t[i] = s[i]
  BY ONLY <1>8, <1>10, <1>12, AppendParts, SMTT(60), Z3T(60)
<1>14. Shown' = [i \in 1 .. n + 1 |-> Glyph(output'[i].byte)]
  BY <1>7 DEF Shown, Glyph
<1>15. \A i \in 1 .. n + 1 : t[i] = Glyph(output'[i].byte)
  BY <1>1, <1>5, <1>7, <1>12, <1>13
<1>16. t = [i \in 1 .. n + 1 |-> t[i]]
  BY <1>13
<1>17. Shown' = t
  BY <1>14, <1>15, <1>16
<1>18. Paper(t) = Printed(Paper(s), g)
  BY <1>8, <1>10, PaperAppend
<1>19. Shows(write_byte(writer, g), Paper(t))
  BY <1>2, <1>8, <1>18, WriteShows DEF ScreenInv
<1>20. writer' = write_byte(writer, g)
  BY <1>1 DEF Write
<1>21. Shows(writer', Paper(t))
  BY <1>19, <1>20
<1>22. Shows(writer', Paper(Shown'))
  BY <1>17, <1>21
<1>23. Shown' \in Seq(Chars)
  BY <1>9, <1>13, <1>17
<1> QED BY <1>22, <1>23, ZenonT(60) DEF Shows, Cell, Paper, Shown, Glyph

(* A step that prints nothing. *)
LEMMA QuietKeepsScreen ==
  ASSUME ScreenInv, UNCHANGED <<writer, output>>
  PROVE  Shown' \in Seq(Chars) /\ Shows(writer, Paper(Shown))'
<1>1. Shown' = Shown
  BY DEF Shown
<1>2. Shown' \in Seq(Chars) /\ Shows(writer', Paper(Shown'))
  BY <1>1 DEF ScreenInv
<1> QED BY <1>2, ZenonT(60) DEF Shows, Cell, Paper, Shown, Glyph

LEMMA NextScreen == ScreenInv /\ [InterruptsNext]_vars => ScreenInv'
<1> SUFFICES ASSUME ScreenInv, [InterruptsNext]_vars PROVE ScreenInv'
  OBVIOUS
<1>1. Inv'
  BY NextInv DEF ScreenInv
<1>2. Inv /\ InterruptsTypeOK
  BY DEF ScreenInv, Inv
<1>3. CASE WriteByte
  <2>1. left \in Seq(STRING) /\ left # << >> /\ mine \in Nat
    BY <1>2, <1>3 DEF WriteByte, InterruptsTypeOK
  <2>2. Head(left) \in STRING
    BY <2>1, HeadTailProperties
  <2>3. Write(Head(left), mine)
    BY <1>3 DEF WriteByte
  <2> QED BY <1>1, <2>1, <2>2, <2>3, WriteKeepsScreen, ZenonT(60) DEF ScreenInv
<1>4. CASE WriteKey
  <2>1. key \in Seq(STRING) /\ key # << >> /\ prints \in Nat
    BY <1>2, <1>4 DEF WriteKey, InterruptsTypeOK
  <2>2. Head(key) \in STRING
    BY <2>1, HeadTailProperties
  <2>3. Write(Head(key), prints)
    BY <1>4 DEF WriteKey
  <2> QED BY <1>1, <2>1, <2>2, <2>3, WriteKeepsScreen, ZenonT(60) DEF ScreenInv
<1>5. CASE ~WriteByte /\ ~WriteKey
  <2>1. UNCHANGED <<writer, output>>
    <3>1. MainStep => UNCHANGED <<writer, output>>
      BY <1>5 DEF MainStep, LockPics, InitPics, EnableInterrupts, LockWriter, UnlockWriter,
                  screenVars
    <3>2. HandlerStep => UNCHANGED <<writer, output>>
      BY <1>5 DEF HandlerStep, Tick, LockKeyboard, DecodeKey, DecodeNothing, LockForKey,
                  UnlockForKey, EndOfInterrupt, Iret, screenVars
    <3>3. (\E i \in Irqs : Raise(i) \/ Deliver(i)) => UNCHANGED <<writer, output>>
      BY DEF Raise, Deliver, screenVars
    <3>4. Wait \/ Spin \/ UNCHANGED vars => UNCHANGED <<writer, output>>
      BY DEF Wait, Spin, vars, screenVars
    <3> QED BY <3>1, <3>2, <3>3, <3>4 DEF InterruptsNext
  <2> QED BY <1>1, <2>1, QuietKeepsScreen DEF ScreenInv
<1> QED BY <1>3, <1>4, <1>5

(* The screen shows the last lines of all that kernel_main and the         *)
(* keyboard handler have printed, however their prints interleave, on a    *)
(* screen of any size: write_byte and new_line lose and repeat nothing.    *)
THEOREM ScreenIsTail == InterruptsSpec => []ScreenShowsTail
<1>1. ScreenInv => ScreenShowsTail
  BY ZenonT(60) DEF ScreenInv, Shows, Shown, ScreenShowsTail
<1> QED BY <1>1, InitScreen, NextScreen, PTL DEF InterruptsSpec
=============================================================================
