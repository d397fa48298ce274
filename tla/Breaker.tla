------------------------------- MODULE Breaker -------------------------------
(***************************************************************************)
(* The guard in front of every outside call: the global circuit breaker,   *)
(* the per-source breakers, the window counters of empty answers, and the  *)
(* worker threads that pass through them in _fetch_with_fallback and       *)
(* _call_with_timeout.                                                     *)
(*                                                                         *)
(* Every method of a breaker holds that breaker's lock, so it is one step; *)
(* between two methods any other thread may run. Clocks are abstracted to  *)
(* "the time is not over yet" flags that a step of the environment drops.  *)
(* A failure count is compared with its threshold only, so it saturates    *)
(* there.                                                                  *)
(***************************************************************************)
EXTENDS Naturals, Sequences, FiniteSets

CONSTANTS
  Caller,          \* the worker threads
  Source,          \* the data sources
  Threshold,       \* CIRCUIT_FAILURE_THRESHOLD
  SourceThreshold, \* DATA_SOURCE_FAIL_THRESHOLD
  EmptyThreshold,  \* _EMPTY_COUNT_THRESHOLD
  MaxTotal,        \* bound: answers counted in one window
  Scenes,          \* environment: the settings a behaviour may take place in
  LongCalls        \* environment: a call admitted while the breaker was
                   \* closed may still run when an open breaker's recovery
                   \* time is over

\* source=None of a call.
NoSource == "no source"

ASSUME BreakerAssumption ==
  /\ IsFiniteSet(Source) /\ NoSource \notin Source
  /\ Threshold \in Nat \ {0} /\ SourceThreshold \in Nat \ {0}
  /\ EmptyThreshold \in Nat /\ MaxTotal \in Nat \ {0}
  /\ LongCalls \in BOOLEAN
  /\ Scenes \subseteq [order : Seq(Source), fail : SUBSET Source,
                      answer : SUBSET Source, untagged : BOOLEAN]

VARIABLES
  scene,      \* the setting, which no step changes
  state,      \* _breaker._state
  failures,   \* _breaker._failures
  cooling,    \* less than _recovery has passed since _opened_at
  inflight,   \* _breaker._half_open_inflight
  sfailures,  \* _failures of a source's breaker
  skipping,   \* the time is before the source's _skip_until
  empty,      \* empty answers in the source's current window
  total,      \* answers in the source's current window
  alerted,    \* the window has raised its alert
  pc,         \* where a thread is
  at,         \* the source the thread is calling
  next,       \* the position in Order the thread has reached
  attempted,  \* attempted_any
  lasterr,    \* last_error is set
  answer,     \* what the last outside call of this fetch returned
  admitted,   \* the state the breaker admitted the running call in
  result      \* what the thread's last fetch returned

global == <<state, failures, cooling, inflight>>
source == <<sfailures, skipping>>
window == <<empty, total, alerted>>
fetch  == <<at, next, attempted, lasterr, answer, result>>
vars == <<scene, state, failures, cooling, inflight, sfailures, skipping, empty, total,
          alerted, pc, at, next, attempted, lasterr, answer, admitted, result>>

Order == scene.order        \* DATA_SOURCE_ORDER restricted to the fetchers at hand
MayFail == scene.fail       \* the sources whose calls may fail
MayAnswer == scene.answer   \* the sources whose calls may answer
Untagged == scene.untagged  \* there are calls without a source (lists, calendar)

Init ==
  /\ scene \in Scenes
  /\ state = "CLOSED" /\ failures = 0 /\ cooling = FALSE /\ inflight = 0
  /\ sfailures = [s \in Source |-> 0]
  /\ skipping = [s \in Source |-> FALSE]
  /\ empty = [s \in Source |-> 0]
  /\ total = [s \in Source |-> 0]
  /\ alerted = [s \in Source |-> FALSE]
  /\ pc = [c \in Caller |-> "idle"]
  /\ at = [c \in Caller |-> NoSource]
  /\ next = [c \in Caller |-> 1]
  /\ attempted = [c \in Caller |-> FALSE]
  /\ lasterr = [c \in Caller |-> FALSE]
  /\ answer = [c \in Caller |-> "none"]
  /\ admitted = [c \in Caller |-> "none"]
  /\ result = [c \in Caller |-> "none"]

-----------------------------------------------------------------------------
Goto(c, l) == pc' = [pc EXCEPT ![c] = l]

Raised(n, limit) == IF n < limit THEN n + 1 ELSE limit

\* _SourceBreaker.is_available
Available(s) == sfailures[s] < SourceThreshold \/ ~skipping[s]

(* _fetch_with_fallback *)

FetchBegin(c) ==
  /\ pc[c] = "idle"
  /\ Goto(c, "pick")
  /\ next' = [next EXCEPT ![c] = 1]
  /\ attempted' = [attempted EXCEPT ![c] = FALSE]
  /\ lasterr' = [lasterr EXCEPT ![c] = FALSE]
  /\ answer' = [answer EXCEPT ![c] = "none"]
  /\ result' = [result EXCEPT ![c] = "none"]
  /\ UNCHANGED <<global, source, window, at, admitted>>

SkipSource(c) ==
  /\ pc[c] = "pick" /\ next[c] <= Len(Order)
  /\ ~Available(Order[next[c]])
  /\ next' = [next EXCEPT ![c] = @ + 1]
  /\ UNCHANGED <<global, source, window, pc, at, attempted, lasterr, answer,
                 admitted, result>>

TrySource(c) ==
  /\ pc[c] = "pick" /\ next[c] <= Len(Order)
  /\ Available(Order[next[c]])
  /\ at' = [at EXCEPT ![c] = Order[next[c]]]
  /\ attempted' = [attempted EXCEPT ![c] = TRUE]
  /\ Goto(c, "admit")
  /\ UNCHANGED <<global, source, window, next, lasterr, answer, admitted, result>>

\* Mutant: no source to ask is taken for no data.
NoSourceIsEmpty(c) == IF lasterr[c] THEN "error" ELSE "empty"

\* The last error, no source at all, or an empty list.
Outcome(c) == IF lasterr[c] \/ ~attempted[c] THEN "error" ELSE "empty"

\* The loop is over.
FetchEnd(c) ==
  /\ pc[c] = "pick" /\ next[c] > Len(Order)
  /\ result' = [result EXCEPT ![c] = Outcome(c)]
  /\ Goto(c, "idle")
  /\ UNCHANGED <<global, source, window, at, next, attempted, lasterr, answer,
                 admitted>>

\* A call without a source: the stock lists and the trade calendar.
PlainBegin(c) ==
  /\ Untagged /\ pc[c] = "idle"
  /\ at' = [at EXCEPT ![c] = NoSource]
  /\ answer' = [answer EXCEPT ![c] = "none"]
  /\ result' = [result EXCEPT ![c] = "none"]
  /\ Goto(c, "admit")
  /\ UNCHANGED <<global, source, window, next, attempted, lasterr, admitted>>

-----------------------------------------------------------------------------
(* _call_with_timeout *)

\* The call has raised: the loop goes on with the next source.
Raise(c) ==
  /\ IF at[c] = NoSource
     THEN /\ Goto(c, "idle")
          /\ result' = [result EXCEPT ![c] = "error"]
          /\ UNCHANGED <<next, lasterr>>
     ELSE /\ Goto(c, "pick")
          /\ next' = [next EXCEPT ![c] = @ + 1]
          /\ lasterr' = [lasterr EXCEPT ![c] = TRUE]
          /\ UNCHANGED result
  /\ UNCHANGED <<at, attempted, answer>>

\* The state acquire decides on: an open breaker that has cooled is half open.
Looked == IF state = "OPEN" /\ ~cooling THEN "HALF_OPEN" ELSE state

\* Mutant: one probe too many.
TwoProbesPass == Looked = "OPEN" \/ (Looked = "HALF_OPEN" /\ inflight > 1)

TurnedAway == Looked = "OPEN" \/ (Looked = "HALF_OPEN" /\ inflight >= 1)

\* acquire admits the call.
Admit(c) ==
  /\ pc[c] = "admit"
  /\ ~TurnedAway
  /\ state' = Looked
  /\ inflight' = IF Looked = "HALF_OPEN" THEN inflight + 1 ELSE inflight
  /\ admitted' = [admitted EXCEPT ![c] = Looked]
  /\ Goto(c, "calling")
  /\ UNCHANGED <<failures, cooling, source, window, fetch>>

\* acquire raises; it stands outside the try, so nothing is recorded.
Reject(c) ==
  /\ pc[c] = "admit"
  /\ TurnedAway
  /\ state' = Looked
  /\ Raise(c)
  /\ UNCHANGED <<failures, cooling, inflight, source, window, admitted>>

\* The outside call returns rows or an empty frame, or raises or times out.
CallReturns(c) ==
  /\ pc[c] = "calling" /\ at[c] \in MayAnswer \cup {NoSource}
  /\ \E a \in {"rows", "empty"} : answer' = [answer EXCEPT ![c] = a]
  /\ Goto(c, "succeeded")
  /\ UNCHANGED <<global, source, window, at, next, attempted, lasterr, admitted,
                 result>>

CallFails(c) ==
  /\ pc[c] = "calling" /\ at[c] \in MayFail \cup {NoSource}
  /\ Goto(c, "failed")
  /\ UNCHANGED <<global, source, window, fetch, admitted>>

-----------------------------------------------------------------------------
(* _record_success and _record_failure: the source first, then the global. *)

\* Mutant: the count runs below zero.
ReleasedBelowZero == inflight - 1
Released == IF inflight > 0 THEN inflight - 1 ELSE 0

SourceSuccess(c) ==
  /\ pc[c] = "succeeded"
  /\ sfailures' = [s \in Source |-> IF s = at[c] THEN 0 ELSE sfailures[s]]
  /\ Goto(c, "success counted")
  /\ UNCHANGED <<global, skipping, window, fetch, admitted>>

GlobalSuccess(c) ==
  /\ pc[c] = "success counted"
  /\ failures' = 0
  /\ state' = "CLOSED"
  /\ inflight' = Released
  /\ admitted' = [admitted EXCEPT ![c] = "none"]
  /\ IF at[c] = NoSource
     THEN Goto(c, "idle") /\ result' = [result EXCEPT ![c] = answer[c]]
     ELSE Goto(c, "answered") /\ UNCHANGED result
  /\ UNCHANGED <<cooling, source, window, at, next, attempted, lasterr, answer>>

SourceFailure(c) ==
  /\ pc[c] = "failed"
  /\ sfailures' = [s \in Source |-> IF s = at[c]
                     THEN Raised(sfailures[s], SourceThreshold) ELSE sfailures[s]]
  /\ skipping' = [s \in Source |->
                    \/ s = at[c] /\ sfailures'[s] >= SourceThreshold
                    \/ skipping[s]]
  /\ Goto(c, "failure counted")
  /\ UNCHANGED <<global, window, fetch, admitted>>

\* Mutant: every failure reaches the global breaker.
NeverIsolated(c) == FALSE

CallsIsolated(c) == at[c] # NoSource /\ ~Available(at[c])

\* A failure of a source that is isolated by now is not counted globally.
GlobalFailureSkipped(c) ==
  /\ pc[c] = "failure counted"
  /\ CallsIsolated(c)
  /\ admitted' = [admitted EXCEPT ![c] = "none"]
  /\ Raise(c)
  /\ UNCHANGED <<global, source, window>>

GlobalFailure(c) ==
  /\ pc[c] = "failure counted"
  /\ ~CallsIsolated(c)
  /\ failures' = Raised(failures, Threshold)
  /\ IF state = "HALF_OPEN" \/ failures' >= Threshold
     THEN state' = "OPEN" /\ cooling' = TRUE
     ELSE UNCHANGED <<state, cooling>>
  /\ inflight' = Released
  /\ admitted' = [admitted EXCEPT ![c] = "none"]
  /\ Raise(c)
  /\ UNCHANGED <<source, window>>

-----------------------------------------------------------------------------
(* _record_empty, after the call has been counted as a success.            *)

\* The window of source s as record leaves it; over: it had expired.
Counted(s, isEmpty, over) ==
  LET n == (IF over THEN 0 ELSE total[s]) + 1
      e == (IF over THEN 0 ELSE empty[s]) + (IF isEmpty THEN 1 ELSE 0)
  IN  [total |-> n, empty |-> e,
       hit |-> /\ over \/ ~alerted[s]
               /\ e > EmptyThreshold
               /\ 10 * e > 9 * n]

CountAnswer(c) ==
  /\ pc[c] = "answered"
  /\ \E over \in BOOLEAN :
       LET s == at[c]
           w == Counted(s, answer[c] = "empty", over)
       IN  /\ w.total <= MaxTotal
           /\ total' = [total EXCEPT ![s] = w.total]
           /\ empty' = [empty EXCEPT ![s] = w.empty]
           /\ alerted' = [alerted EXCEPT ![s] = w.hit \/ (~over /\ @)]
           /\ Goto(c, IF w.hit THEN "isolate" ELSE "idle")
  /\ result' = [result EXCEPT ![c] = answer[c]]
  /\ UNCHANGED <<global, source, at, next, attempted, lasterr, answer, admitted>>

\* force_open, called after the counter's lock is released.
ForceOpen(c) ==
  /\ pc[c] = "isolate"
  /\ sfailures' = [sfailures EXCEPT ![at[c]] = SourceThreshold]
  /\ skipping' = [skipping EXCEPT ![at[c]] = TRUE]
  /\ Goto(c, "idle")
  /\ UNCHANGED <<global, window, fetch, admitted>>

-----------------------------------------------------------------------------
(* Time, and the tick that reads _breaker.state before it claims.          *)

RecoveryElapses ==
  /\ state = "OPEN" /\ cooling
  /\ LongCalls \/ \A c \in Caller : admitted[c] # "CLOSED"
  /\ cooling' = FALSE
  /\ UNCHANGED <<scene, state, failures, inflight, source, window, pc, fetch, admitted>>

\* Five minutes do not pass between the two records of one failure.
IsolationElapses(s) ==
  /\ skipping[s]
  /\ \A c \in Caller : pc[c] = "failure counted" => at[c] # s
  /\ skipping' = [skipping EXCEPT ![s] = FALSE]
  /\ UNCHANGED <<scene, global, sfailures, window, pc, fetch, admitted>>

TickLooks ==
  /\ state = "OPEN" /\ ~cooling
  /\ state' = "HALF_OPEN"
  /\ UNCHANGED <<scene, failures, cooling, inflight, source, window, pc, fetch, admitted>>

Step(c) ==
  /\ UNCHANGED scene
  /\ \/ FetchBegin(c) \/ PlainBegin(c) \/ SkipSource(c) \/ TrySource(c) \/ FetchEnd(c)
     \/ Admit(c) \/ Reject(c) \/ CallReturns(c) \/ CallFails(c)
     \/ SourceSuccess(c) \/ GlobalSuccess(c) \/ SourceFailure(c)
     \/ GlobalFailureSkipped(c) \/ GlobalFailure(c)
     \/ CountAnswer(c) \/ ForceOpen(c)

Next ==
  \/ \E c \in Caller : Step(c)
  \/ RecoveryElapses \/ TickLooks
  \/ \E s \in Source : IsolationElapses(s)

Spec == Init /\ [][Next]_vars

\* New fetches keep coming, the daily refresh of lists and calendar among them,
\* every call ends within its timeout, and time goes on. Which way a call ends
\* is left open.
FairSpec ==
  /\ Spec
  /\ \A c \in Caller : WF_vars(Step(c)) /\ SF_vars(PlainBegin(c) /\ UNCHANGED scene)
  /\ WF_vars(RecoveryElapses) /\ WF_vars(TickLooks)
  /\ \A s \in Source : WF_vars(IsolationElapses(s))

-----------------------------------------------------------------------------
States == {"CLOSED", "OPEN", "HALF_OPEN"}

Places == {"idle", "pick", "admit", "calling", "succeeded", "success counted",
           "failed", "failure counted", "answered", "isolate"}

BreakerType ==
  /\ scene \in Scenes
  /\ state \in States /\ failures \in 0..Threshold
  /\ cooling \in BOOLEAN /\ inflight \in {0, 1}

SourceType ==
  /\ sfailures \in [Source -> 0..SourceThreshold]
  /\ skipping \in [Source -> BOOLEAN]
  /\ empty \in [Source -> Nat] /\ total \in [Source -> Nat]
  /\ alerted \in [Source -> BOOLEAN]

CallerType ==
  /\ pc \in [Caller -> Places]
  /\ at \in [Caller -> Source \cup {NoSource}]
  /\ next \in [Caller -> Nat \ {0}]
  /\ attempted \in [Caller -> BOOLEAN] /\ lasterr \in [Caller -> BOOLEAN]
  /\ answer \in [Caller -> {"none", "rows", "empty"}]
  /\ admitted \in [Caller -> {"none", "CLOSED", "HALF_OPEN"}]
  /\ result \in [Caller -> {"none", "rows", "empty", "error"}]

TypeOK == BreakerType /\ SourceType /\ CallerType

Probes == {c \in Caller : admitted[c] = "HALF_OPEN"}

\* In the half-open state one probe at a time is outside, and while it is,
\* the breaker is half open and every other call is turned away: calls from
\* before the breaker opened are back before it half-opens.
OneProbe ==
  ~LongCalls =>
    /\ \A c, d \in Probes : c = d
    /\ Probes # {} => state = "HALF_OPEN" /\ inflight = 1
    /\ state = "HALF_OPEN" => \A c \in Caller : admitted[c] # "CLOSED"

\* A fetch that reports "no data" has an outside call behind it that answered
\* "no data"; isolated sources, rejected and failed calls end in an error,
\* so the task is retried and not marked SUCCESS.
EmptyIsAnswered ==
  \A c \in Caller : result[c] = "empty" => answer[c] = "empty"

\* Sources that are down do not open the global breaker, however the threads
\* interleave: each is isolated before it has contributed SourceThreshold
\* failures, and failures of an isolated source are not counted
\* (_record_failure). Healthy sources and their windows do not matter.
DeadSourcesContained ==
  ~Untagged /\ MayFail \cap MayAnswer = {} =>
    failures <= Cardinality(MayFail) * (SourceThreshold - 1)

\* The half-open state is left again: the probe succeeds and the breaker
\* closes, or it fails and the breaker reopens (docstring of _CircuitBreaker,
\* client.py:53).
HalfOpenResolves == state = "HALF_OPEN" ~> state # "HALF_OPEN"
=============================================================================
