----------------------------- MODULE MCSentinel -----------------------------
(* Sentinel on a calendar of three-day weeks: Monday, Friday, Saturday.    *)
EXTENDS Sentinel, TLC

CONSTANTS m1, m2, s1

AllKinds == {"daily", "weekly", "monthly", "minute"}

TwoShards == {m1, m2}
OneSource == {s1}

\* Weeks 1-3, 4-6, 7-9, 10-12 with the Friday of the third a holiday and a
\* month that ends on a Saturday.
WithHoliday == {1, 2, 4, 5, 7, 10, 11}
Months == {3, 6, 9, 12}

\* No guard reads the report: it need not tell states apart where only
\* steps are checked.
WithoutReport == <<today, part, newest, shard, done, cooling, rhythm>>

Symmetry == Permutations(Shard)
=============================================================================
