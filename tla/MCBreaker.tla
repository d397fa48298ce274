------------------------------ MODULE MCBreaker ------------------------------
(* Small instances of Breaker for TLC. *)
EXTENDS Breaker, TLC

CONSTANTS c1, c2, sina, tencent, eastmoney

OneCaller == {c1}
TwoCallers == {c1, c2}
OneSource == {sina}
ThreeSources == {sina, tencent, eastmoney}

\* One source whose calls may end either way, besides the calls of the lists
\* and the calendar.
Moody == [order |-> <<sina>>, fail |-> {sina}, answer |-> {sina}, untagged |-> TRUE]

\* Two dead sources around a healthy one.
TwoDead == [order |-> <<eastmoney, sina, tencent>>, fail |-> {tencent, eastmoney},
            answer |-> {sina}, untagged |-> FALSE]

OneScene == {Moody}
BothScenes == {Moody, TwoDead}

\* Threads are interchangeable; the order of the sources is not.
Symmetry == Permutations(Caller)
=============================================================================
