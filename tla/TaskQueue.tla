----------------------------- MODULE TaskQueue ------------------------------
(***************************************************************************)
(* What the table fetch_task promises those who use it: a queue of leases. *)
(* A row that waits may be leased; only whoever holds the lease settles    *)
(* the row; and a lease is taken back only after its holder is gone. No    *)
(* row is ever held twice, no two of these steps get in each other's way,  *)
(* and a row whose success is reported stays so once nobody holds it.      *)
(*                                                                         *)
(* Who holds a lease - a thread of the pool, or the tick that is about to  *)
(* submit the row - and by which statements and in how many steps a row    *)
(* gets from one status to the next is left to FetchTask.                  *)
(***************************************************************************)

CONSTANT Task  \* the rows

VARIABLES
  status,  \* column status, "ABSENT" before the row is inserted
  held     \* the rows whose lease somebody holds

vars == <<status, held>>

Init ==
  /\ status = [t \in Task |-> "ABSENT"]
  /\ held = {}

\* The rows of S, all of them in one of the statuses `from`, change to `to`.
Move(S, from, to) ==
  /\ \A t \in S : status[t] \in from
  /\ status' = [t \in Task |-> IF t \in S THEN to ELSE status[t]]

Insert(t) == Move({t}, {"ABSENT"}, "PENDING") /\ UNCHANGED held

Lease(S) == Move(S, {"PENDING"}, "RUNNING") /\ held' = held \cup S

\* The holder reports how it went, and that is the end of its lease.
Settle(t, outcome) ==
  /\ t \in held
  /\ Move({t}, {"RUNNING"}, outcome)
  /\ held' = held \ {t}

\* A success that arrives, but not the answer to the holder, who takes it for
\* failed and says so.
Report(t) == t \in held /\ Move({t}, {"RUNNING"}, "SUCCESS") /\ UNCHANGED held

Deny(t) ==
  /\ t \in held
  /\ Move({t}, {"SUCCESS"}, "FAILED")
  /\ held' = held \ {t}

\* The holders of S are gone and have reported nothing.
Abandon(S) ==
  /\ S \subseteq held
  /\ held' = held \ S
  /\ UNCHANGED status

\* Nobody is left to settle the rows of S: they wait again, or are given up.
TakeBack(S, to) ==
  /\ S \cap held = {}
  /\ Move(S, {"RUNNING"}, to)
  /\ UNCHANGED held

\* What has failed or was skipped is asked for again, or set aside.
AskAgain(S) == Move(S, {"FAILED", "SKIPPED"}, "PENDING") /\ UNCHANGED held

SetAside(S) == Move(S, {"FAILED"}, "SKIPPED") /\ UNCHANGED held

Next ==
  \/ \E t \in Task : \/ Insert(t) \/ Report(t) \/ Deny(t)
                     \/ \E outcome \in {"SUCCESS", "FAILED"} : Settle(t, outcome)
  \/ \E S \in SUBSET Task : \/ Lease(S) \/ Abandon(S)
                            \/ \E to \in {"PENDING", "FAILED"} : TakeBack(S, to)
                            \/ AskAgain(S) \/ SetAside(S)

Spec == Init /\ [][Next]_vars
=============================================================================
