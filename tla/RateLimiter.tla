----------------------------- MODULE RateLimiter -----------------------------
(***************************************************************************)
(* The token bucket every outside call passes after the breaker, with the  *)
(* change of its rate at run time.                                         *)
(*                                                                         *)
(* A token is worth Cost units; a rate is given in units per tick of the   *)
(* clock, and Second ticks are a second. The rate changes under the lock,  *)
(* so never while a thread sleeps for its token; when and to what it       *)
(* changes is RuntimeConfig's subject.                                     *)
(***************************************************************************)
EXTENDS Integers

CONSTANTS
  Caller,     \* the threads that call acquire
  Cost,       \* the units of one token
  Second,     \* the ticks of a second
  Rates,      \* the rates the configuration can ask for
  MaxRetunes, \* bound: changes of the rate
  MaxTime     \* bound: how far the clock runs

NoCaller == "nobody"

ASSUME RateAssumption ==
  /\ Cost \in Nat \ {0} /\ Second \in Nat \ {0}
  /\ Rates \subseteq Nat \ {0}
  /\ NoCaller \notin Caller

VARIABLES
  now,       \* time.monotonic()
  rate,      \* _qps
  tokens,    \* _tokens
  last,      \* _last
  sleeper,   \* the thread that sleeps inside the lock, if any
  granted,   \* how many calls of acquire have returned
  allowance, \* what may have been let through by now, see TwiceTheRate
  retunes    \* changes of the rate so far

vars == <<now, rate, tokens, last, sleeper, granted, allowance, retunes>>

\* What a second brings, and at least one token.
CapacityAt(r) == IF r * Second < Cost THEN Cost ELSE r * Second

Capacity == CapacityAt(rate)

Init ==
  /\ now = 0 /\ last = 0
  /\ rate \in Rates
  /\ tokens = Capacity
  /\ sleeper = NoCaller
  /\ granted = 0
  /\ allowance = Capacity
  /\ retunes = 0

Least(m, n) == IF m < n THEN m ELSE n

\* The refill of the time since _last, at the rate of now.
Credit == (now - last) * rate

\* Mutant: the bucket has no rim.
UncappedRefill == tokens + Credit

Refilled == Least(Capacity, tokens + Credit)

\* Mutant: the refill is credited and _last stays behind.
TakeKeepingTime(c) ==
  /\ sleeper = NoCaller
  /\ Refilled >= Cost
  /\ tokens' = Refilled - Cost
  /\ granted' = granted + 1
  /\ UNCHANGED <<now, rate, last, sleeper, allowance, retunes>>

\* acquire with a token in the bucket.
Take(c) ==
  /\ sleeper = NoCaller
  /\ Refilled >= Cost
  /\ tokens' = Refilled - Cost
  /\ last' = now
  /\ granted' = granted + 1
  /\ UNCHANGED <<now, rate, sleeper, allowance, retunes>>

\* acquire without: the thread sleeps and keeps the lock.
Sleep(c) ==
  /\ sleeper = NoCaller
  /\ Refilled < Cost
  /\ tokens' = Refilled
  /\ last' = now
  /\ sleeper' = c
  /\ UNCHANGED <<now, rate, granted, allowance, retunes>>

\* The sleep is over, on time or later; _last stays where it was before it.
Wake(c) ==
  /\ sleeper = c
  /\ tokens + Credit >= Cost
  /\ tokens' = 0
  /\ sleeper' = NoCaller
  /\ granted' = granted + 1
  /\ UNCHANGED <<now, rate, last, allowance, retunes>>

\* _sync_qps finds another rate; the bucket keeps what fits into it, and the
\* time since _last will be credited at the new rate.
Retune(r) ==
  /\ sleeper = NoCaller
  /\ r # rate /\ retunes < MaxRetunes
  /\ rate' = r
  /\ tokens' = Least(tokens, CapacityAt(r))
  /\ allowance' = allowance + CapacityAt(r)
  /\ retunes' = retunes + 1
  /\ UNCHANGED <<now, last, sleeper, granted>>

Tick ==
  /\ now < MaxTime
  /\ now' = now + 1
  /\ allowance' = allowance + 2 * rate
  /\ UNCHANGED <<rate, tokens, last, sleeper, granted, retunes>>

Next ==
  \/ Tick
  \/ \E c \in Caller : Take(c) \/ Sleep(c) \/ Wake(c)
  \/ \E r \in Rates : Retune(r)

Spec == Init /\ [][Next]_vars

-----------------------------------------------------------------------------
TypeOK ==
  /\ now \in Nat /\ last \in 0..now
  /\ rate \in Rates
  /\ tokens \in 0..Capacity
  /\ sleeper \in Caller \cup {NoCaller}
  /\ granted \in Nat /\ allowance \in Nat /\ retunes \in Nat

\* Whatever the threads and the configuration do, the calls let through are
\* worth at most the full bucket, once more after each change of the rate,
\* and twice the refill of the time that has passed, each tick at its own
\* rate: the time a thread sleeps for its token is credited to the bucket once
\* more when the next thread comes.
TwiceTheRate == granted * Cost <= allowance
=============================================================================
