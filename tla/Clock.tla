--------------------------------- MODULE Clock ---------------------------------
(***************************************************************************)
(* time.rs, unix_timestamp: six registers of the real-time clock are read  *)
(* one after the other, while the clock goes on, and converted.  A time is *)
(* kept as days since 1970 and seconds of the day, which unix_timestamp    *)
(* adds up to seconds.  The clock counts in BCD and changes all of its     *)
(* registers at once.                                                      *)
(***************************************************************************)
EXTENDS Integers, Sequences, FiniteSets

CONSTANTS
  Starts,    \* the times at which a call may begin, as records of fields
  Resumes,   \* the times at which a machine stopped during a call may go on
  MaxChanges \* bound: changes of the clock during a call

VARIABLES
  clock,    \* the real-time clock, its fields in binary
  began,    \* history: the clock when the call began
  changes,  \* history: how often it has changed since
  regs,     \* the registers read so far, in BCD
  reads     \* how many there are

clockVars == <<clock, began, changes, regs, reads>>

-----------------------------------------------------------------------------
(* The clock. *)
Leap(year) == year % 4 = 0 /\ (year % 100 # 0 \/ year % 400 = 0)

MonthLength(month, year) ==
  IF month = 2 THEN (IF Leap(year) THEN 29 ELSE 28)
  ELSE IF month \in {4, 6, 9, 11} THEN 30 ELSE 31

(* The years a two-digit year stands for. *)
Years == 2000 .. 2099

Times == {t \in [sec : 0 .. 59, min : 0 .. 59, hour : 0 .. 23,
                 day : 1 .. 31, month : 1 .. 12, year : Years] :
            t.day <= MonthLength(t.month, t.year)}

ASSUME ClockAssumption == Starts \subseteq Times /\ Resumes \subseteq Times /\ MaxChanges \in Nat

(* One second later. *)
Later(t) ==
  LET sec == (t.sec + 1) % 60
      min == (t.min + (IF sec = 0 THEN 1 ELSE 0)) % 60
      hour == (t.hour + (IF sec = 0 /\ min = 0 THEN 1 ELSE 0)) % 24
      nextDay == sec = 0 /\ min = 0 /\ hour = 0
      nextMonth == nextDay /\ t.day = MonthLength(t.month, t.year)
      nextYear == nextMonth /\ t.month = 12
  IN  [sec |-> sec, min |-> min, hour |-> hour,
       day |-> IF nextMonth THEN 1 ELSE IF nextDay THEN t.day + 1 ELSE t.day,
       month |-> IF nextYear THEN 1 ELSE IF nextMonth THEN t.month + 1 ELSE t.month,
       year |-> IF nextYear THEN t.year + 1 ELSE t.year]

(* The days from 1970 to the first of January of a year, and from there to *)
(* the first of a month.                                                   *)
DaysToYear(year) == (year - 1970) * 365 + Cardinality({y \in 1970 .. year - 1 : Leap(y)})

DaysToMonth(month, year) ==
  LET upTo[m \in 1 .. 12] == IF m = 1 THEN 0 ELSE upTo[m - 1] + MonthLength(m - 1, year)
  IN  upTo[month]

(* The days and seconds from 1970 to a time, by the calendar. *)
Elapsed(t) ==
  [days |-> DaysToYear(t.year) + DaysToMonth(t.month, t.year) + t.day - 1,
   secs |-> t.hour * 3600 + t.min * 60 + t.sec]

AtMost(a, b) == a.days < b.days \/ (a.days = b.days /\ a.secs <= b.secs)

ToBcd(n) == (n \div 10) * 16 + (n % 10)

-----------------------------------------------------------------------------
bcd_to_bin(bcd) == ((bcd \div 16) % 16) * 10 + (bcd % 16)

month_days(month) ==
  LET CUMULATIVE == <<0, 31, 59, 90, 120, 151, 181, 212, 243, 273, 304, 334>>
  IN  IF month \in 1 .. 12 THEN CUMULATIVE[month] ELSE 0

\* mutant: the leap day counts from the first day of its own year
leap_days_Early(year) == (year - 1968) \div 4

leap_days(year) == (year - 1969) \div 4

(* unix_timestamp, once the registers are read. *)
unix_timestamp ==
  LET year == bcd_to_bin(regs.year) + 2000
  IN  [days |-> (year - 1970) * 365 + leap_days(year)
                  + month_days(bcd_to_bin(regs.month)) + bcd_to_bin(regs.day) - 1,
       secs |-> bcd_to_bin(regs.hour) * 3600 + bcd_to_bin(regs.min) * 60
                  + bcd_to_bin(regs.sec)]

\* mutant: the largest unit is read first
Fields_YearFirst == <<"year", "month", "day", "hour", "min", "sec">>

Fields == <<"sec", "min", "hour", "day", "month", "year">>

(* What a register of the clock holds: BCD, the year without the century. *)
Register(field) == ToBcd(IF field = "year" THEN clock.year % 100 ELSE clock[field])

(* One call of read_cmos. *)
ReadCmos == /\ reads < Len(Fields)
            /\ regs' = [regs EXCEPT ![Fields[reads + 1]] = Register(Fields[reads + 1])]
            /\ reads' = reads + 1
            /\ UNCHANGED <<clock, began, changes>>

(* The clock goes on during a call: a second, or the time for which the
   machine was stopped.  The century does not end, which the clock does not
   tell. *)
Advance == /\ reads < Len(Fields) /\ changes < MaxChanges
           /\ \/ clock' = Later(clock)
              \/ \E t \in Resumes : AtMost(Elapsed(clock), Elapsed(t)) /\ clock' = t
           /\ clock'.year \in Years
           /\ changes' = changes + 1
           /\ UNCHANGED <<began, regs, reads>>

Returned == reads = Len(Fields)

(* The caller has its answer. *)
Finished == Returned /\ UNCHANGED clockVars

ClockInit == /\ clock \in Starts
             /\ began = clock
             /\ changes = 0
             /\ regs = [sec |-> 0, min |-> 0, hour |-> 0, day |-> 0, month |-> 0, year |-> 0]
             /\ reads = 0

ClockNext == ReadCmos \/ Advance \/ Finished

ClockSpec == ClockInit /\ [][ClockNext]_clockVars
-----------------------------------------------------------------------------
(* From March to December of a leap year the formula lacks the leap day: it
   counts (year - 1969) / 4 and the months of a common year. *)
Lag(t) == [days |-> Elapsed(t).days - (IF Leap(t.year) /\ t.month > 2 THEN 1 ELSE 0),
           secs |-> Elapsed(t).secs]

(* A call during which the clock stands still returns the calendar's time
   since 1970, as the year 1970 in the code has it and not since 2000 as the
   comment above unix_timestamp has it, but for the one day that its "rough"
   count of days lacks after February of a leap year. *)
ExactWhenStill == Returned /\ changes = 0 => unix_timestamp = Lag(began)

(* Whatever carries the clock makes between the six reads, unix_timestamp never
   returns a time more than that day before the call began: the seconds are
   read first and the year last, so a torn read errs to the future. *)
NotBeforeCall ==
  Returned => LET now == unix_timestamp
                  then == Elapsed(began)
              IN  AtMost([then EXCEPT !.days = @ - 1], now)
=============================================================================
