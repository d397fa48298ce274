------------------------------ MODULE MCKline ------------------------------
(* Kline on a few days: the calendar of its runs.                          *)
EXTENDS Kline

\* Every day is a trading day, in weeks of three.
AllDays == 1..LastDay
WeeksOfThree == [d \in 1..LastDay |-> (d + 2) \div 3]
=============================================================================
