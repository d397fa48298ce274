-------------------------- MODULE MCRuntimeConfig --------------------------
(* Small instances of RuntimeConfig for TLC. *)
EXTENDS RuntimeConfig

CONSTANTS a1, a2, t1, t2

TwoAdmins == {a1, a2}
TwoThreads == {t1, t2}

\* V5 seeds the rate, V7 a switch that is not modelled.
V5V7 == << {"qps"}, {} >>
=============================================================================
