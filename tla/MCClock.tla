-------------------------------- MODULE MCClock --------------------------------
(* Calls that begin on any day of a common year, a leap year and the clock's
   last year, shortly before and after a carry. *)
EXTENDS Clock

At(y, m, d, hh, mm, ss) ==
  [sec |-> ss, min |-> mm, hour |-> hh, day |-> d, month |-> m, year |-> y]

MCStarts ==
  UNION {{At(y, m, d, hms[1], hms[2], hms[3]) :
             d \in 1 .. MonthLength(m, y),
             hms \in {<<0, 0, 0>>, <<12, 59, 59>>, <<23, 59, 58>>, <<23, 59, 59>>}} :
         y \in {2023, 2024}, m \in 1 .. 12}
  \cup {At(2000, 2, 29, 23, 59, 59), At(2000, 1, 1, 0, 0, 0), At(2099, 12, 31, 23, 59, 59)}

MCResumes ==
  {At(2024, 2, 29, 0, 0, 0), At(2024, 3, 1, 0, 0, 0), At(2024, 3, 31, 10, 0, 30),
   At(2025, 1, 1, 0, 59, 0), At(2099, 12, 31, 23, 59, 0)}
=============================================================================
