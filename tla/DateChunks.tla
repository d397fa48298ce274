------------------------------ MODULE DateChunks ------------------------------
(***************************************************************************)
(* _date_chunks, which cuts the range of a backfill into closed segments   *)
(* of some years. A year is abstracted to the days at which adding years   *)
(* to a date can go wrong: its first day, 28 February, 29 February (of a   *)
(* leap year) and 1 March. A date is 4 * year + slot.                      *)
(***************************************************************************)
EXTENDS Integers, FiniteSets, FiniteSetsExt

CONSTANTS
  LeapYears, \* the leap years
  LastYear   \* bound: years 0..LastYear

ASSUME DateAssumption == LastYear \in Nat

Feb29 == 2
Mar1 == 3
YearOf(d) == d \div 4
SlotOf(d) == d % 4

Date == {d \in 0..(4 * LastYear + 3) : SlotOf(d) = Feb29 => YearOf(d) \in LeapYears}

\* date.replace(year=...), and 1 March where there is no such date.
YearsLater(d, n) ==
  IF SlotOf(d) = Feb29 /\ YearOf(d) + n \notin LeapYears
  THEN 4 * (YearOf(d) + n) + Mar1
  ELSE d + 4 * n

\* Mutant: neighbouring segments share a day.
NotBefore(d) == d

\* The day before a date, as far as the abstract year has it.
DayBefore(d) == IF d - 1 \in Date THEN d - 1 ELSE d - 2

Segments(first, last, years) ==
  LET segments[s \in 0..(4 * LastYear + 4 * years + 3)] ==
        IF s > last THEN {}
        ELSE LET next == YearsLater(s, years)
             IN  {<<s, Min({DayBefore(next), last})>>} \cup segments[next]
  IN  IF years <= 0 THEN {<<first, last>>} ELSE segments[first]

\* How many of the segments hold a day: one if it is in the range, else none.
EachDayOnce(first, last, years) ==
  \A d \in Date :
    Cardinality({g \in Segments(first, last, years) : g[1] <= d /\ d <= g[2]})
      = IF first <= d /\ d <= last THEN 1 ELSE 0

\* The ranges TLC looks at.
RangesCut ==
  \A first, last \in Date, years \in 0..3 :
    first <= last => EachDayOnce(first, last, years)
=============================================================================
