-------------------------- MODULE RateLimiterProofs --------------------------
(***************************************************************************)
(* The bound on the rate of outside calls, for every number of threads,    *)
(* every cost of a token and every set of rates.                           *)
(***************************************************************************)
EXTENDS RateLimiter, TLAPS

\* What has been let through.
Spent == granted * Cost

\* While a thread sleeps, the credit of its sleep is still to be used twice;
\* otherwise the bucket can still give what it holds after its next refill.
Balance ==
  /\ sleeper = NoCaller => Spent + Refilled <= allowance
  /\ sleeper # NoCaller => Spent + tokens + 2 * Credit <= allowance /\ tokens <= Cost

Inv == TypeOK /\ Balance

LEMMA OneMoreCall ==
  ASSUME NEW n \in Nat
  PROVE  n * Cost \in Nat /\ (n + 1) * Cost = n * Cost + Cost
BY RateAssumption

\* A bucket holds at least one token.
LEMMA CapacityType ==
  ASSUME NEW r \in Rates
  PROVE  CapacityAt(r) \in Nat /\ CapacityAt(r) >= Cost
<1>1. r \in Nat /\ Second \in Nat /\ Cost \in Nat
  BY RateAssumption
<1>2. r * Second \in Nat
  BY <1>1
<1>3. QED
  BY <1>1, <1>2 DEF CapacityAt

LEMMA CreditType == TypeOK => Credit \in Nat
<1> SUFFICES ASSUME TypeOK PROVE Credit \in Nat
  OBVIOUS
<1>1. now - last \in Nat /\ rate \in Nat
  BY RateAssumption DEF TypeOK
<1>2. QED
  BY <1>1 DEF Credit

\* What the arguments below use of the state and of the products in it.
LEMMA Quantities ==
  ASSUME TypeOK
  PROVE  /\ Cost \in Nat \ {0} /\ rate \in Nat
         /\ Capacity \in Nat /\ Capacity >= Cost
         /\ tokens \in 0..Capacity /\ now \in Nat /\ last \in 0..now
         /\ granted \in Nat /\ allowance \in Nat /\ retunes \in Nat
         /\ Credit \in Nat /\ Spent \in Nat
         /\ Refilled \in 0..Capacity /\ Refilled <= tokens + Credit
<1>1. Capacity \in Nat /\ Capacity >= Cost
  BY CapacityType DEF TypeOK, Capacity
<1>2. Credit \in Nat
  BY CreditType
<1>3. Refilled \in 0..Capacity /\ Refilled <= tokens + Credit
  BY <1>1, <1>2 DEF TypeOK, Refilled, Least
<1>4. Spent \in Nat
  BY OneMoreCall DEF TypeOK, Spent
<1>5. QED
  BY <1>1, <1>2, <1>3, <1>4, RateAssumption DEF TypeOK

LEMMA InitInv == Init => Inv
<1> SUFFICES ASSUME Init PROVE Inv
  OBVIOUS
<1>1. Capacity \in Nat
  BY CapacityType DEF Init, Capacity
<1>2. TypeOK
  BY <1>1 DEF Init, TypeOK
<1>3. Credit = 0 /\ Spent = 0
  BY RateAssumption DEF Init, Credit, Spent
<1>4. QED
  BY <1>1, <1>2, <1>3 DEF Init, Inv, Balance, Refilled, Least

LEMMA TakeKeepsInv ==
  ASSUME Inv, NEW c \in Caller, Take(c)
  PROVE  Inv'
<1>1. TypeOK /\ Balance
  BY DEF Inv
<1>2. /\ sleeper = NoCaller /\ Refilled >= Cost
      /\ tokens' = Refilled - Cost /\ last' = now /\ granted' = granted + 1
      /\ UNCHANGED <<now, rate, sleeper, allowance, retunes>>
  BY DEF Take
<1>3. Capacity' = Capacity
  BY <1>2 DEF Capacity
<1>4. TypeOK'
  BY <1>1, <1>2, <1>3, Quantities DEF TypeOK
<1>5. Spent' = Spent + Cost
  BY <1>1, <1>2, OneMoreCall DEF Spent, TypeOK
<1>6. Credit' = 0
  BY <1>1, <1>2, Quantities DEF Credit
<1>7. Refilled' <= Refilled - Cost /\ Refilled' \in Nat
  <2>1. Refilled - Cost \in Nat /\ Refilled - Cost <= Capacity
    BY <1>1, <1>2, Quantities
  <2>2. Refilled' = Refilled - Cost
    BY <1>1, <1>2, <1>3, <1>6, <2>1, Quantities DEF Refilled, Least
  <2>3. QED
    BY <2>1, <2>2
<1>8. allowance' = allowance /\ sleeper' = NoCaller
  BY <1>2
<1>9. Balance'
  BY <1>1, <1>2, <1>5, <1>7, <1>8, Quantities DEF Balance
<1>10. QED
  BY <1>4, <1>9 DEF Inv

LEMMA SleepKeepsInv ==
  ASSUME Inv, NEW c \in Caller, Sleep(c)
  PROVE  Inv'
<1>1. TypeOK /\ Balance
  BY DEF Inv
<1>2. /\ sleeper = NoCaller /\ Refilled < Cost
      /\ tokens' = Refilled /\ last' = now /\ sleeper' = c
      /\ UNCHANGED <<now, rate, granted, allowance, retunes>>
  BY DEF Sleep
<1>3. Capacity' = Capacity /\ Spent' = Spent
  BY <1>2 DEF Capacity, Spent
<1>4. TypeOK'
  BY <1>1, <1>2, <1>3, Quantities DEF TypeOK
<1>5. Credit' = 0
  BY <1>1, <1>2, Quantities DEF Credit
<1>6. c # NoCaller
  BY RateAssumption
<1>7. Balance'
  BY <1>1, <1>2, <1>3, <1>5, <1>6, Quantities DEF Balance
<1>8. QED
  BY <1>4, <1>7 DEF Inv

LEMMA WakeKeepsInv ==
  ASSUME Inv, NEW c \in Caller, Wake(c)
  PROVE  Inv'
<1>1. TypeOK /\ Balance
  BY DEF Inv
<1>2. /\ sleeper = c /\ tokens + Credit >= Cost
      /\ tokens' = 0 /\ sleeper' = NoCaller /\ granted' = granted + 1
      /\ UNCHANGED <<now, rate, last, allowance, retunes>>
  BY DEF Wake
<1>3. Capacity' = Capacity /\ Credit' = Credit
  BY <1>2 DEF Capacity, Credit
<1>4. TypeOK'
  BY <1>1, <1>2, <1>3, Quantities DEF TypeOK
<1>5. Spent' = Spent + Cost
  BY <1>1, <1>2, OneMoreCall DEF Spent, TypeOK
<1>6. c # NoCaller
  BY RateAssumption
<1>7. Spent + tokens + 2 * Credit <= allowance
  BY <1>1, <1>2, <1>6 DEF Balance
<1>8. Refilled' <= Credit /\ Refilled' \in Nat
  BY <1>1, <1>2, <1>3, Quantities DEF Refilled, Least
<1>9. Balance'
  BY <1>1, <1>2, <1>4, <1>5, <1>7, <1>8, Quantities DEF Balance
<1>10. QED
  BY <1>4, <1>9 DEF Inv

LEMMA TickKeepsInv ==
  ASSUME Inv, Tick
  PROVE  Inv'
<1>1. TypeOK /\ Balance
  BY DEF Inv
<1>2. /\ now' = now + 1 /\ allowance' = allowance + 2 * rate
      /\ UNCHANGED <<rate, tokens, last, sleeper, granted, retunes>>
  BY DEF Tick
<1>3. Capacity' = Capacity /\ Spent' = Spent
  BY <1>2 DEF Capacity, Spent
<1>4. TypeOK'
  BY <1>1, <1>2, <1>3, Quantities DEF TypeOK
<1>5. Credit' = Credit + rate
  <2>1. now - last \in Nat /\ rate \in Nat /\ now' - last' = (now - last) + 1
    BY <1>1, <1>2, Quantities
  <2>2. ((now - last) + 1) * rate = (now - last) * rate + rate
    BY <2>1
  <2>3. QED
    BY <1>2, <2>1, <2>2 DEF Credit
<1>6. Refilled' <= Refilled + rate /\ Refilled' \in Nat
  BY <1>1, <1>2, <1>3, <1>5, Quantities DEF Refilled, Least
<1>7. Balance'
  BY <1>1, <1>2, <1>3, <1>4, <1>5, <1>6, Quantities DEF Balance
<1>8. QED
  BY <1>4, <1>7 DEF Inv

LEMMA RetuneKeepsInv ==
  ASSUME Inv, NEW r \in Rates, Retune(r)
  PROVE  Inv'
<1>1. TypeOK /\ Balance
  BY DEF Inv
<1>2. /\ sleeper = NoCaller /\ rate' = r
      /\ tokens' = Least(tokens, CapacityAt(r))
      /\ allowance' = allowance + CapacityAt(r) /\ retunes' = retunes + 1
      /\ UNCHANGED <<now, last, sleeper, granted>>
  BY DEF Retune
<1>3. Capacity' = CapacityAt(r) /\ CapacityAt(r) \in Nat
  BY <1>2, CapacityType DEF Capacity
<1>4. tokens' \in 0..Capacity'
  BY <1>1, <1>2, <1>3, Quantities DEF Least
<1>5. TypeOK'
  BY <1>1, <1>2, <1>3, <1>4, Quantities DEF TypeOK
<1>6. Spent' = Spent
  BY <1>2 DEF Spent
<1>7. Balance'
  <2>1. Spent <= allowance
    BY <1>1, <1>2, Quantities DEF Balance
  <2>2. Refilled' <= CapacityAt(r) /\ Refilled' \in Nat
    <3>1. now - last \in Nat /\ r \in Nat
      BY <1>1, Quantities, RateAssumption
    <3>2. Credit' = (now - last) * r /\ Credit' \in Nat
      BY <1>2, <3>1 DEF Credit
    <3>3. QED
      BY <1>3, <1>4, <3>2 DEF Refilled, Least
  <2>3. QED
    BY <1>1, <1>2, <1>3, <1>6, <2>1, <2>2, Quantities DEF Balance
<1>8. QED
  BY <1>5, <1>7 DEF Inv

LEMMA StepInv == Inv /\ [Next]_vars => Inv'
<1>1. ASSUME Inv, UNCHANGED vars PROVE Inv'
  BY <1>1 DEF vars, Inv, TypeOK, Balance, Spent, Refilled, Credit, Capacity
<1>2. QED
  BY <1>1, TakeKeepsInv, SleepKeepsInv, WakeKeepsInv, TickKeepsInv, RetuneKeepsInv
     DEF Next

\* Clock, bucket and counters keep their types: the bucket never holds more
\* than its capacity at the rate of the moment.
THEOREM TypeCorrect == Spec => []TypeOK
<1>1. Inv => TypeOK
  BY DEF Inv
<1>2. QED
  BY <1>1, InitInv, StepInv, PTL DEF Spec

\* The calls let through never exceed the buckets of the rates that were asked
\* for and twice the refill.
THEOREM RateBounded == Spec => []TwiceTheRate
<1>1. Inv => TwiceTheRate
  BY Quantities DEF Inv, Balance, Spent, TwiceTheRate
<1>2. QED
  BY <1>1, InitInv, StepInv, PTL DEF Spec
=============================================================================
