---------------------------- MODULE MCFetchTask -----------------------------
(* Small instances of FetchTask for TLC. *)
EXTENDS FetchTask, TLC

CONSTANTS s1, s2, m1, m2

MCMinute == {2}
MCHalted == {1}
TwoSlots == {s1, s2}
OneSession == {m1}
TwoSessions == {m1, m2}

\* Futures are interchangeable, and so are maintenance sessions.
Symmetry == Permutations(Slot) \cup Permutations(Session)
=============================================================================
