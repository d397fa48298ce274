------------------------------ MODULE MCTaskGen ------------------------------
(* A small instance of TaskGen for TLC: two weeks with a weekend of two days *)
(* between them, a month that begins with the second week.                   *)
EXTENDS TaskGen

CONSTANTS old, new

BothStocks == {old, new}
OldStock == {old}
TwoCalibers == {"bare", "qfq"}
ThreeTradingDays == {1, 2, 5}
EveryFourth == {2, 6}
FirstDays ==
  [weekly |-> [d \in Day |-> IF d <= 4 THEN 1 ELSE 5],
   monthly |-> [d \in Day |-> IF d <= 4 THEN -10 ELSE 5]]
=============================================================================
