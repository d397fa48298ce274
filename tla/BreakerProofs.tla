---------------------------- MODULE BreakerProofs ----------------------------
(***************************************************************************)
(* For every number of threads and sources, every setting and threshold:   *)
(* types are kept, the half-open state admits one probe at a time, a fetch *)
(* reports an empty answer only when a source has given one, and dead      *)
(* sources do not open the global breaker.                                 *)
(***************************************************************************)
EXTENDS Breaker, FiniteSetTheorems, TLAPS

\* The ranges the argument needs.
ProbeType ==
  /\ state \in States
  /\ inflight \in {0, 1}
  /\ pc \in [Caller -> Places]
  /\ admitted \in [Caller -> {"none", "CLOSED", "HALF_OPEN"}]

\* The lines between the admission of a call and the global record of its end.
InCall == {"calling", "succeeded", "success counted", "failed", "failure counted"}

CallsAreAdmitted == \A c \in Caller : pc[c] \in InCall => admitted[c] # "none"

\* Once an open breaker may half-open, the calls from before are back.
Cooled == (state = "OPEN" /\ ~cooling) \/ state = "HALF_OPEN"
NoStragglers == Cooled => \A c \in Caller : admitted[c] # "CLOSED"

ProbeHoldsSlot ==
  \A c \in Caller : admitted[c] = "HALF_OPEN" => state = "HALF_OPEN" /\ inflight = 1

ProbesAgree ==
  \A c, d \in Caller : admitted[c] = "HALF_OPEN" /\ admitted[d] = "HALF_OPEN" => c = d

ProbeInv ==
  ProbeType /\ CallsAreAdmitted /\ NoStragglers /\ ProbeHoldsSlot /\ ProbesAgree

-----------------------------------------------------------------------------
LEMMA PlacesAre ==
  /\ "idle" \in Places /\ "pick" \in Places /\ "admit" \in Places
  /\ "calling" \in Places /\ "succeeded" \in Places /\ "failed" \in Places
  /\ "success counted" \in Places /\ "failure counted" \in Places
  /\ "answered" \in Places /\ "isolate" \in Places
  /\ "idle" \notin InCall /\ "pick" \notin InCall /\ "admit" \notin InCall
  /\ "calling" \in InCall /\ "succeeded" \in InCall /\ "failed" \in InCall
  /\ "success counted" \in InCall /\ "failure counted" \in InCall
  /\ "answered" \notin InCall /\ "isolate" \notin InCall
BY DEF Places, InCall

LEMMA InitProbeInv == Init => ProbeInv
<1> SUFFICES ASSUME Init PROVE ProbeInv
  OBVIOUS
<1>1. /\ state = "CLOSED" /\ inflight = 0
      /\ pc = [c \in Caller |-> "idle"]
      /\ admitted = [c \in Caller |-> "none"]
  BY DEF Init
<1>2. QED
  BY <1>1, PlacesAre
     DEF ProbeInv, ProbeType, States, CallsAreAdmitted, Cooled, NoStragglers,
         ProbeHoldsSlot, ProbesAgree

\* A step that moves one thread and leaves the breaker and the admissions alone.
Walk(c) ==
  /\ \E l \in Places : Goto(c, l) /\ (l \in InCall => pc[c] \in InCall)
  /\ UNCHANGED <<state, cooling, inflight, admitted>>

LEMMA WalkKeepsInv ==
  ASSUME ProbeInv, NEW c \in Caller, Walk(c)
  PROVE  ProbeInv'
BY DEF Walk, Goto, ProbeInv, ProbeType, CallsAreAdmitted, Cooled, NoStragglers,
       ProbeHoldsSlot, ProbesAgree

\* A step that ends a call of thread c: its admission is dropped.
Ends(c) ==
  /\ \E l \in Places \ InCall : Goto(c, l)
  /\ admitted' = [admitted EXCEPT ![c] = "none"]

LEMMA SteppingOut ==
  ASSUME ProbeInv, NEW c \in Caller, Ends(c)
  PROVE  /\ pc' \in [Caller -> Places]
         /\ admitted' \in [Caller -> {"none", "CLOSED", "HALF_OPEN"}]
         /\ CallsAreAdmitted'
         /\ ProbesAgree'
         /\ admitted'[c] = "none"
         /\ \A d \in Caller \ {c} : admitted'[d] = admitted[d]
BY DEF Ends, Goto, ProbeInv, ProbeType, CallsAreAdmitted, ProbesAgree

LEMMA CallEnds ==
  ASSUME NEW c \in Caller, Raise(c) \/ GlobalSuccess(c)
  PROVE  \E l \in Places \ InCall : Goto(c, l)
BY PlacesAre DEF Raise, GlobalSuccess

-----------------------------------------------------------------------------
\* A call is admitted: to the closed breaker, or as the only probe.
LEMMA AdmitKeepsInv ==
  ASSUME ProbeInv, NEW c \in Caller, Admit(c)
  PROVE  ProbeInv'
<1> USE DEF ProbeInv, ProbeType
<1>1. /\ pc' = [pc EXCEPT ![c] = "calling"]
      /\ admitted' = [admitted EXCEPT ![c] = Looked]
      /\ state' = Looked
  BY DEF Admit, Goto
<1>2. CASE Looked = "CLOSED"
  <2>1. state = "CLOSED" /\ inflight' = inflight
    BY <1>2 DEF Looked, Admit
  <2>2. \A d \in Caller : admitted[d] # "HALF_OPEN"
    BY <2>1 DEF ProbeHoldsSlot
  <2>3. QED
    BY <1>1, <1>2, <2>1, <2>2, PlacesAre
       DEF States, CallsAreAdmitted, Cooled, NoStragglers, ProbeHoldsSlot, ProbesAgree
<1>3. CASE Looked = "HALF_OPEN"
  <2>1. inflight = 0 /\ inflight' = 1
    BY <1>3 DEF Admit, TurnedAway, ProbeType
  <2>2. Cooled
    BY <1>3 DEF Looked, Cooled
  <2>3. \A d \in Caller : admitted[d] = "none"
    BY <2>1, <2>2 DEF ProbeHoldsSlot, NoStragglers
  <2>4. QED
    BY <1>1, <1>3, <2>1, <2>3, PlacesAre
       DEF States, CallsAreAdmitted, Cooled, NoStragglers, ProbeHoldsSlot, ProbesAgree
<1>4. Looked \in {"CLOSED", "HALF_OPEN"}
  BY DEF Admit, TurnedAway, Looked, States
<1>5. QED
  BY <1>2, <1>3, <1>4

\* A rejected call may still have turned a cooled breaker half open.
LEMMA RejectKeepsInv ==
  ASSUME ProbeInv, NEW c \in Caller, Reject(c)
  PROVE  ProbeInv'
<1> USE DEF ProbeInv, ProbeType
<1>1. PICK l \in Places \ InCall : pc' = [pc EXCEPT ![c] = l]
  BY CallEnds DEF Reject, Goto
<1>2. state' = Looked /\ UNCHANGED <<cooling, inflight, admitted>>
  BY DEF Reject
<1>3. Looked \in States /\ (Looked = "HALF_OPEN" => Cooled)
  BY DEF Looked, States, Cooled
<1>4. Looked # state => state = "OPEN" /\ ~cooling
  BY DEF Looked
<1>5. NoStragglers'
  BY <1>2, <1>3, <1>4 DEF NoStragglers, Cooled
<1>6. ProbeHoldsSlot'
  BY <1>2, <1>4 DEF ProbeHoldsSlot
<1>7. QED
  BY <1>1, <1>2, <1>3, <1>5, <1>6 DEF CallsAreAdmitted, ProbesAgree

\* A success closes the breaker: the only probe, if there is one, is its own.
LEMMA GlobalSuccessKeepsInv ==
  ASSUME ProbeInv, NEW c \in Caller, GlobalSuccess(c)
  PROVE  ProbeInv'
<1> USE DEF ProbeInv
<1>1. Ends(c)
  BY CallEnds DEF Ends, GlobalSuccess
<1>2. state' = "CLOSED" /\ inflight' \in {0, 1}
  <2>1. state' = "CLOSED" /\ inflight' = Released
    BY DEF GlobalSuccess
  <2>2. QED
    BY <2>1 DEF Released, ProbeType
<1>3. admitted[c] # "none"
  BY PlacesAre DEF GlobalSuccess, CallsAreAdmitted
<1>4. \A d \in Caller \ {c} : admitted[d] # "HALF_OPEN"
  <2>1. CASE admitted[c] = "HALF_OPEN"
    BY <2>1 DEF ProbesAgree
  <2>2. CASE admitted[c] = "CLOSED"
    BY <2>2 DEF ProbeHoldsSlot, NoStragglers, Cooled
  <2>3. QED
    BY <1>3, <2>1, <2>2 DEF ProbeType
<1>5. ProbeHoldsSlot'
  BY <1>1, <1>4, SteppingOut DEF ProbeHoldsSlot
<1>6. NoStragglers'
  BY <1>2 DEF NoStragglers, Cooled
<1>7. QED
  BY <1>1, <1>2, <1>5, <1>6, SteppingOut DEF ProbeType, States

\* A failure of the probe reopens the breaker and frees the slot; a failure
\* of another call meets a breaker without a probe.
LEMMA GlobalFailureKeepsInv ==
  ASSUME ProbeInv, NEW c \in Caller, GlobalFailure(c)
  PROVE  ProbeInv'
<1> USE DEF ProbeInv
<1>1. Ends(c)
  BY CallEnds DEF Ends, GlobalFailure
<1>2. /\ inflight' \in {0, 1}
      /\ \/ state' = "OPEN" /\ cooling'
         \/ state # "HALF_OPEN" /\ UNCHANGED <<state, cooling>>
  <2>1. inflight' = Released
    BY DEF GlobalFailure
  <2>2. inflight' \in {0, 1}
    BY <2>1 DEF Released, ProbeType
  <2>3. \/ state' = "OPEN" /\ cooling' = TRUE
        \/ state # "HALF_OPEN" /\ UNCHANGED <<state, cooling>>
    BY Zenon DEF GlobalFailure
  <2>4. QED
    BY <2>2, <2>3
<1>3. admitted[c] # "none"
  BY PlacesAre DEF GlobalFailure, CallsAreAdmitted
<1>4. \A d \in Caller \ {c} : admitted[d] # "HALF_OPEN"
  <2>1. CASE admitted[c] = "HALF_OPEN"
    BY <2>1 DEF ProbesAgree
  <2>2. CASE admitted[c] = "CLOSED"
    BY <2>2 DEF ProbeHoldsSlot, NoStragglers, Cooled
  <2>3. QED
    BY <1>3, <2>1, <2>2 DEF ProbeType
<1>5. ProbeHoldsSlot'
  BY <1>1, <1>4, SteppingOut DEF ProbeHoldsSlot
<1>6. NoStragglers'
  BY <1>1, <1>2, SteppingOut DEF NoStragglers, Cooled
<1>7. QED
  BY <1>1, <1>2, <1>5, <1>6, SteppingOut DEF ProbeType, States

\* A failure that is not counted leaves the breaker, and the slot, alone.
LEMMA GlobalFailureSkippedKeepsInv ==
  ASSUME ProbeInv, NEW c \in Caller, GlobalFailureSkipped(c)
  PROVE  ProbeInv'
<1>1. Ends(c) /\ UNCHANGED <<state, cooling, inflight>>
  BY CallEnds DEF Ends, GlobalFailureSkipped, global
<1>2. QED
  BY <1>1, SteppingOut
     DEF ProbeInv, ProbeType, Cooled, NoStragglers, ProbeHoldsSlot

-----------------------------------------------------------------------------
LEMMA StepProbeInv == ProbeInv /\ ~LongCalls /\ [Next]_vars => ProbeInv'
<1> SUFFICES ASSUME ProbeInv, ~LongCalls, [Next]_vars PROVE ProbeInv'
  OBVIOUS
<1>1. ASSUME NEW c \in Caller, Step(c) PROVE ProbeInv'
  <2>1. CASE FetchBegin(c) \/ PlainBegin(c) \/ TrySource(c) \/ FetchEnd(c)
    <3>1. Walk(c)
      BY <2>1, PlacesAre
         DEF FetchBegin, PlainBegin, TrySource, FetchEnd, Walk, global
    <3>2. QED
      BY <3>1, WalkKeepsInv
  <2>2. CASE CallReturns(c) \/ CallFails(c) \/ SourceSuccess(c) \/ SourceFailure(c)
    <3>1. Walk(c)
      BY <2>2, PlacesAre
         DEF CallReturns, CallFails, SourceSuccess, SourceFailure, Walk, global
    <3>2. QED
      BY <3>1, WalkKeepsInv
  <2>3. CASE CountAnswer(c)
    <3>1. \E l \in {"isolate", "idle"} : Goto(c, l)
      BY <2>3 DEF CountAnswer
    <3>2. Walk(c)
      BY <2>3, <3>1, PlacesAre DEF CountAnswer, Walk, global
    <3>3. QED
      BY <3>2, WalkKeepsInv
  <2>4. CASE ForceOpen(c)
    <3>1. Walk(c)
      BY <2>4, PlacesAre DEF ForceOpen, Walk, global
    <3>2. QED
      BY <3>1, WalkKeepsInv
  <2>5. CASE SkipSource(c)
    BY <2>5 DEF SkipSource, global, ProbeInv, ProbeType, CallsAreAdmitted, Cooled,
                NoStragglers, ProbeHoldsSlot, ProbesAgree
  <2>6. QED
    BY <1>1, <2>1, <2>2, <2>3, <2>4, <2>5, AdmitKeepsInv, RejectKeepsInv,
       GlobalSuccessKeepsInv, GlobalFailureKeepsInv, GlobalFailureSkippedKeepsInv
       DEF Step
<1>2. CASE RecoveryElapses
  <2>1. /\ \A c \in Caller : admitted[c] # "CLOSED"
        /\ UNCHANGED <<state, inflight, pc, admitted>>
    BY <1>2 DEF RecoveryElapses
  <2>2. QED
    BY <2>1 DEF ProbeInv, ProbeType, CallsAreAdmitted, NoStragglers,
                ProbeHoldsSlot, ProbesAgree
<1>3. CASE TickLooks
  BY <1>3 DEF TickLooks, ProbeInv, ProbeType, States, CallsAreAdmitted, Cooled,
              NoStragglers, ProbeHoldsSlot, ProbesAgree
<1>4. ASSUME NEW s \in Source, IsolationElapses(s) PROVE ProbeInv'
  BY <1>4 DEF IsolationElapses, global, ProbeInv, ProbeType, CallsAreAdmitted,
              Cooled, NoStragglers, ProbeHoldsSlot, ProbesAgree
<1>5. CASE UNCHANGED vars
  BY <1>5 DEF vars, ProbeInv, ProbeType, CallsAreAdmitted, Cooled, NoStragglers,
              ProbeHoldsSlot, ProbesAgree
<1>6. QED
  BY <1>1, <1>2, <1>3, <1>4, <1>5 DEF Next

\* When no call outlives the recovery time, one probe at a time is outside in
\* the half-open state and the breaker stays half open until it is back.
THEOREM ProbesOneByOne == Spec => []OneProbe
<1>1. ProbeInv => OneProbe
  BY DEF ProbeInv, Cooled, NoStragglers, ProbeHoldsSlot, ProbesAgree, OneProbe, Probes
<1>2. CASE LongCalls
  <2>1. OneProbe
    BY <1>2 DEF OneProbe
  <2>2. QED
    BY <2>1, PTL
<1>3. CASE ~LongCalls
  <2>1. ProbeInv /\ [Next]_vars => ProbeInv'
    BY <1>3, StepProbeInv
  <2>2. QED
    BY InitProbeInv, <1>1, <2>1, PTL DEF Spec
<1>4. QED
  BY <1>2, <1>3

-----------------------------------------------------------------------------
(* Types.                                                                  *)

\* The thresholds are numbers.
LEMMA Limits ==
  /\ Threshold \in Nat /\ SourceThreshold \in Nat
  /\ 0 \in 0..Threshold /\ 0 \in 0..SourceThreshold
  /\ SourceThreshold \in 0..SourceThreshold
BY BreakerAssumption

LEMMA InitType == Init => TypeOK
<1> SUFFICES ASSUME Init PROVE TypeOK
  OBVIOUS
<1>1. BreakerType
  BY Limits DEF Init, BreakerType, States
<1>2. SourceType
  BY Limits DEF Init, SourceType
<1>3. CallerType
  BY DEF Init, CallerType, Places
<1>4. QED
  BY <1>1, <1>2, <1>3 DEF TypeOK

\* The source at a position of the order is one of the sources.
LEMMA OrderHoldsSources ==
  ASSUME TypeOK, NEW i \in Nat \ {0}, i <= Len(Order)
  PROVE  Order[i] \in Source
<1>1. Order \in Seq(Source)
  BY BreakerAssumption DEF TypeOK, BreakerType, Order
<1>2. QED
  BY <1>1

\* A switch of one thread is a switch again.
LEMMA SwitchType ==
  ASSUME NEW f \in [Caller -> BOOLEAN], NEW c, NEW b \in BOOLEAN
  PROVE  [f EXCEPT ![c] = b] \in [Caller -> BOOLEAN]
BY Zenon

\* The position of one thread is set back or moved on.
LEMMA PositionType ==
  ASSUME NEW f \in [Caller -> Nat \ {0}], NEW c \in Caller
  PROVE  /\ [f EXCEPT ![c] = 1] \in [Caller -> Nat \ {0}]
         /\ [f EXCEPT ![c] = f[c] + 1] \in [Caller -> Nat \ {0}]
<1>1. f[c] + 1 \in Nat \ {0} /\ 1 \in Nat \ {0}
  OBVIOUS
<1>2. QED
  BY <1>1, Zenon

LEMMA RaiseType ==
  ASSUME TypeOK, NEW c \in Caller, Raise(c), UNCHANGED admitted
           \/ admitted' = [admitted EXCEPT ![c] = "none"]
  PROVE  CallerType'
<1> USE DEF TypeOK, CallerType
<1>1. admitted' \in [Caller -> {"none", "CLOSED", "HALF_OPEN"}]
  OBVIOUS
<1>2. CASE at[c] = NoSource
  <2>1. /\ pc' = [pc EXCEPT ![c] = "idle"]
        /\ result' = [result EXCEPT ![c] = "error"]
        /\ UNCHANGED <<at, next, attempted, lasterr, answer>>
    BY <1>2 DEF Raise, Goto
  <2>2. QED
    BY <1>1, <2>1 DEF Places
<1>3. CASE at[c] # NoSource
  <2>1. lasterr' \in [Caller -> BOOLEAN]
    BY <1>3, Zenon, SwitchType DEF Raise
  <2>2. /\ pc' = [pc EXCEPT ![c] = "pick"]
        /\ next' = [next EXCEPT ![c] = next[c] + 1]
        /\ UNCHANGED <<at, attempted, answer, result>>
    BY <1>3 DEF Raise, Goto
  <2>3. next' \in [Caller -> Nat \ {0}]
    BY <2>2, PositionType
  <2>4. pc' \in [Caller -> Places]
    BY <2>2 DEF Places
  <2>5. QED
    BY <1>1, <2>1, <2>2, <2>3, <2>4
<1>4. QED
  BY <1>2, <1>3

LEMMA RaisedType ==
  ASSUME NEW limit \in Nat, NEW n \in 0..limit
  PROVE  Raised(n, limit) \in 0..limit
BY DEF Raised

LEMMA CountAnswerType ==
  ASSUME TypeOK, NEW c \in Caller, CountAnswer(c)
  PROVE  SourceType' /\ CallerType'
<1> DEFINE s == at[c]
           w(over) == Counted(s, answer[c] = "empty", over)
<1>1. PICK over \in BOOLEAN :
        /\ total' = [total EXCEPT ![s] = w(over).total]
        /\ empty' = [empty EXCEPT ![s] = w(over).empty]
        /\ alerted' = [alerted EXCEPT ![s] = w(over).hit \/ (~over /\ @)]
        /\ Goto(c, IF w(over).hit THEN "isolate" ELSE "idle")
  BY DEF CountAnswer
<1>2. UNCHANGED <<sfailures, skipping, at, next, attempted, lasterr, answer, admitted>>
  BY DEF CountAnswer, source
<1>3. w(over).hit \in BOOLEAN
  BY DEF Counted
<1>4. ASSUME s \in Source PROVE w(over).total \in Nat /\ w(over).empty \in Nat
  BY <1>4 DEF Counted, TypeOK, SourceType
<1>5. total' \in [Source -> Nat] /\ empty' \in [Source -> Nat]
  BY <1>1, <1>4 DEF TypeOK, SourceType
<1>6. alerted' \in [Source -> BOOLEAN]
  BY <1>1, <1>3, Zenon DEF TypeOK, SourceType
<1>7. pc' \in [Caller -> Places]
  BY <1>1 DEF TypeOK, CallerType, Goto, Places
<1>8. result' \in [Caller -> {"none", "rows", "empty", "error"}]
  BY DEF CountAnswer, TypeOK, CallerType
<1>9. QED
  BY <1>2, <1>5, <1>6, <1>7, <1>8 DEF TypeOK, SourceType, CallerType

LEMMA StepType ==
  ASSUME TypeOK, NEW c \in Caller, Step(c)
  PROVE  TypeOK'
<1> USE DEF TypeOK
<1>0. scene' = scene
  BY DEF Step
<1>1. CASE FetchBegin(c) \/ PlainBegin(c) \/ SkipSource(c) \/ FetchEnd(c)
  <2>1. BreakerType' /\ SourceType'
    BY <1>0, <1>1 DEF FetchBegin, PlainBegin, SkipSource, FetchEnd, global, source,
       window, BreakerType, SourceType
  <2>2. CASE FetchBegin(c)
    <3>1. attempted' \in [Caller -> BOOLEAN] /\ lasterr' \in [Caller -> BOOLEAN]
      BY <2>2, Zenon, SwitchType DEF FetchBegin, CallerType
    <3>2. pc' \in [Caller -> Places] /\ next' \in [Caller -> Nat \ {0}]
      <4>1. pc' = [pc EXCEPT ![c] = "pick"] /\ next' = [next EXCEPT ![c] = 1]
        BY <2>2 DEF FetchBegin, Goto
      <4>2. QED
        BY <4>1, PositionType DEF CallerType, Places
    <3>3. QED
      BY <2>1, <2>2, <3>1, <3>2 DEF FetchBegin, CallerType
  <2>3. CASE PlainBegin(c)
    BY <2>1, <2>3 DEF PlainBegin, Goto, CallerType, Places
  <2>4. CASE SkipSource(c)
    BY <2>1, <2>4 DEF SkipSource, CallerType
  <2>5. CASE FetchEnd(c)
    <3>1. Outcome(c) \in {"error", "empty"}
      BY DEF Outcome
    <3>2. QED
      BY <2>1, <2>5, <3>1 DEF FetchEnd, Goto, CallerType, Places
  <2>6. QED
    BY <1>1, <2>2, <2>3, <2>4, <2>5
<1>2. CASE TrySource(c)
  <2>1. next[c] \in Nat \ {0} /\ next[c] <= Len(Order)
    BY <1>2 DEF TrySource, CallerType
  <2>2. Order[next[c]] \in Source
    BY <2>1, OrderHoldsSources
  <2>3. QED
    BY <1>0, <1>2, <2>2 DEF TrySource, Goto, global, source, window,
       BreakerType, SourceType, CallerType, Places
<1>3. CASE Admit(c)
  <2>1. Looked \in {"CLOSED", "HALF_OPEN"}
    BY <1>3 DEF Admit, TurnedAway, Looked, BreakerType, States
  <2>2. inflight' \in {0, 1}
    BY <1>3 DEF Admit, TurnedAway, BreakerType
  <2>3. QED
    BY <1>0, <1>3, <2>1, <2>2 DEF Admit, Goto, source, window, fetch,
       BreakerType, SourceType, CallerType, States, Places
<1>4. CASE Reject(c)
  <2>1. CallerType'
    BY <1>4, RaiseType DEF Reject
  <2>2. QED
    BY <1>0, <1>4, <2>1 DEF Reject, Looked, source, window, BreakerType,
       SourceType, States
<1>5. CASE CallReturns(c) \/ CallFails(c) \/ SourceSuccess(c)
  <2>1. BreakerType'
    BY <1>0, <1>5 DEF CallReturns, CallFails, SourceSuccess, global, BreakerType
  <2>2. SourceType'
    BY <1>5, Limits DEF CallReturns, CallFails, SourceSuccess, source, window,
       SourceType
  <2>3. CASE CallReturns(c)
    BY <2>1, <2>2, <2>3 DEF CallReturns, Goto, CallerType, Places
  <2>4. CASE CallFails(c) \/ SourceSuccess(c)
    BY <2>1, <2>2, <2>4 DEF CallFails, SourceSuccess, fetch, Goto, CallerType, Places
  <2>5. QED
    BY <1>5, <2>3, <2>4
<1>6. CASE GlobalSuccess(c)
  <2>1. BreakerType'
    <3>1. inflight' \in {0, 1}
      <4>1. inflight' = Released /\ inflight \in {0, 1}
        BY <1>6 DEF GlobalSuccess, BreakerType
      <4>2. QED
        BY <4>1 DEF Released
    <3>2. QED
      BY <1>0, <1>6, <3>1, Limits DEF GlobalSuccess, BreakerType, States
  <2>2. QED
    BY <1>6, <2>1 DEF GlobalSuccess, Goto, source, window, SourceType, CallerType,
       Places
<1>7. CASE SourceFailure(c)
  <2>1. sfailures' \in [Source -> 0..SourceThreshold]
    BY <1>7, RaisedType, BreakerAssumption DEF SourceFailure, SourceType
  <2>2. skipping' \in [Source -> BOOLEAN]
    BY <1>7, Zenon DEF SourceFailure
  <2>3. QED
    BY <1>0, <1>7, <2>1, <2>2 DEF SourceFailure, Goto, global, window, fetch,
       BreakerType, SourceType, CallerType, Places
<1>8. CASE GlobalFailureSkipped(c)
  <2>1. CallerType'
    BY <1>8, RaiseType DEF GlobalFailureSkipped
  <2>2. QED
    BY <1>0, <1>8, <2>1 DEF GlobalFailureSkipped, global, source, window,
       BreakerType, SourceType
<1>9. CASE GlobalFailure(c)
  <2>1. CallerType'
    BY <1>9, RaiseType DEF GlobalFailure
  <2>2. failures' \in 0..Threshold /\ inflight' \in {0, 1}
    <3>1. failures' = Raised(failures, Threshold) /\ inflight' = Released
      BY <1>9 DEF GlobalFailure
    <3>2. failures \in 0..Threshold /\ inflight \in {0, 1} /\ Threshold \in Nat
      BY BreakerAssumption DEF BreakerType
    <3>3. QED
      BY <3>1, <3>2, RaisedType DEF Released
  <2>3. state' \in States /\ cooling' \in BOOLEAN
    BY <1>9, Zenon DEF GlobalFailure, BreakerType, States
  <2>4. QED
    BY <1>0, <1>9, <2>1, <2>2, <2>3 DEF GlobalFailure, source, window,
       BreakerType, SourceType
<1>10. CASE CountAnswer(c)
  <2>1. BreakerType'
    BY <1>0, <1>10 DEF CountAnswer, global, BreakerType
  <2>2. QED
    BY <1>10, <2>1, CountAnswerType
<1>11. CASE ForceOpen(c)
  <2>1. sfailures' \in [Source -> 0..SourceThreshold]
    BY <1>11, Limits DEF ForceOpen, SourceType
  <2>2. skipping' \in [Source -> BOOLEAN]
    BY <1>11, Zenon DEF ForceOpen, SourceType
  <2>3. pc' \in [Caller -> Places]
    BY <1>11 DEF ForceOpen, Goto, CallerType, Places
  <2>4. QED
    BY <1>0, <1>11, <2>1, <2>2, <2>3 DEF ForceOpen, global, window, fetch,
       BreakerType, SourceType, CallerType
<1>12. QED
  BY <1>1, <1>2, <1>3, <1>4, <1>5, <1>6, <1>7, <1>8, <1>9, <1>10, <1>11 DEF Step

\* Breakers, windows and threads keep their types, whatever the setting.
THEOREM TypeCorrect == Spec => []TypeOK
<1>1. TypeOK /\ [Next]_vars => TypeOK'
  <2> SUFFICES ASSUME TypeOK, [Next]_vars PROVE TypeOK'
    OBVIOUS
  <2>1. ASSUME NEW s \in Source, IsolationElapses(s) PROVE TypeOK'
    BY <2>1 DEF IsolationElapses, global, window, fetch, TypeOK, BreakerType,
                SourceType, CallerType
  <2>2. CASE RecoveryElapses \/ TickLooks
    BY <2>2 DEF RecoveryElapses, TickLooks, source, window, fetch, TypeOK,
                BreakerType, SourceType, CallerType, States
  <2>3. CASE UNCHANGED vars
    BY <2>3 DEF vars, TypeOK, BreakerType, SourceType, CallerType
  <2>4. QED
    BY <2>1, <2>2, <2>3, StepType DEF Next
<1>2. QED
  BY InitType, <1>1, PTL DEF Spec

-----------------------------------------------------------------------------
(* Empty answers.                                                          *)

\* A thread has no result before its fetch is over, and a thread that is back
\* in the loop after a source has an error to report: only an answer leaves
\* the loop otherwise.
AnswerInv ==
  /\ TypeOK
  /\ EmptyIsAnswered
  /\ \A c \in Caller : pc[c] \notin {"idle", "isolate"} => result[c] = "none"
  /\ \A c \in Caller : pc[c] = "pick" /\ attempted[c] => lasterr[c]

LEMMA StepAnswerInv ==
  ASSUME AnswerInv, NEW c \in Caller, Step(c)
  PROVE  AnswerInv'
<1> USE DEF AnswerInv, EmptyIsAnswered
<1>0. TypeOK'
  BY StepType
<1>1. CASE FetchBegin(c) \/ PlainBegin(c) \/ SkipSource(c) \/ TrySource(c)
  <2>1. CASE FetchBegin(c)
    <3>1. /\ pc' = [pc EXCEPT ![c] = "pick"]
          /\ attempted' = [attempted EXCEPT ![c] = FALSE]
          /\ lasterr' = [lasterr EXCEPT ![c] = FALSE]
          /\ answer' = [answer EXCEPT ![c] = "none"]
          /\ result' = [result EXCEPT ![c] = "none"]
      BY <2>1 DEF FetchBegin, Goto
    <3>2. ~attempted'[c]
      BY <3>1, Zenon DEF TypeOK, CallerType
    <3>3. \A d \in Caller \ {c} : attempted'[d] = attempted[d] /\ lasterr'[d] = lasterr[d]
      BY <3>1, Zenon DEF TypeOK, CallerType
    <3>4. QED
      BY <1>0, <3>1, <3>2, <3>3 DEF TypeOK, CallerType
  <2>2. CASE PlainBegin(c)
    BY <1>0, <2>2 DEF PlainBegin, Goto, TypeOK, CallerType
  <2>3. CASE SkipSource(c)
    BY <1>0, <2>3 DEF SkipSource
  <2>4. CASE TrySource(c)
    <3>1. /\ pc' = [pc EXCEPT ![c] = "admit"] /\ pc[c] = "pick"
          /\ attempted' = [attempted EXCEPT ![c] = TRUE]
          /\ UNCHANGED <<lasterr, answer, result>>
      BY <2>4 DEF TrySource, Goto
    <3>2. \A d \in Caller \ {c} : attempted'[d] = attempted[d]
      BY <3>1, Zenon DEF TypeOK, CallerType
    <3>3. QED
      BY <1>0, <3>1, <3>2 DEF TypeOK, CallerType
  <2>5. QED
    BY <1>1, <2>1, <2>2, <2>3, <2>4
<1>2. CASE FetchEnd(c)
  <2>1. /\ pc[c] = "pick" /\ pc' = [pc EXCEPT ![c] = "idle"]
        /\ result' = [result EXCEPT ![c] = Outcome(c)]
        /\ UNCHANGED <<attempted, lasterr, answer>>
    BY <1>2 DEF FetchEnd, Goto
  <2>2. Outcome(c) = "error"
    BY <2>1 DEF Outcome
  <2>3. QED
    BY <1>0, <2>1, <2>2 DEF TypeOK, CallerType
<1>3. ASSUME Raise(c), pc[c] \in {"admit", "failure counted"} PROVE AnswerInv'
  <2>1. CASE at[c] = NoSource
    <3>1. /\ pc' = [pc EXCEPT ![c] = "idle"]
          /\ result' = [result EXCEPT ![c] = "error"]
          /\ UNCHANGED <<attempted, lasterr, answer>>
      BY <1>3, <2>1 DEF Raise, Goto
    <3>2. QED
      BY <1>0, <3>1 DEF TypeOK, CallerType
  <2>2. CASE at[c] # NoSource
    <3>1. /\ pc' = [pc EXCEPT ![c] = "pick"]
          /\ lasterr' = [lasterr EXCEPT ![c] = TRUE]
          /\ UNCHANGED <<attempted, answer, result>>
      BY <1>3, <2>2 DEF Raise, Goto
    <3>2. lasterr'[c] /\ \A d \in Caller \ {c} : lasterr'[d] = lasterr[d]
      BY <3>1, Zenon DEF TypeOK, CallerType
    <3>3. result[c] = "none" /\ \A d \in Caller \ {c} : pc'[d] = pc[d]
      BY <1>3, <3>1 DEF TypeOK, CallerType
    <3>4. \A d \in Caller : pc'[d] = "pick" /\ attempted'[d] => lasterr'[d]
      BY <3>1, <3>2, <3>3
    <3>5. QED
      BY <1>0, <3>1, <3>3, <3>4
  <2>3. QED
    BY <2>1, <2>2
<1>4. CASE Reject(c) \/ GlobalFailure(c) \/ GlobalFailureSkipped(c)
  <2>1. Raise(c) /\ pc[c] \in {"admit", "failure counted"}
    BY <1>4 DEF Reject, GlobalFailure, GlobalFailureSkipped
  <2>2. QED
    BY <1>3, <2>1
<1>5. CASE Admit(c) \/ CallFails(c) \/ SourceSuccess(c) \/ SourceFailure(c)
  <2>1. /\ \E l \in Places \ {"pick", "idle", "isolate"} : pc' = [pc EXCEPT ![c] = l]
        /\ pc[c] \notin {"idle", "isolate"}
        /\ UNCHANGED <<attempted, lasterr, answer, result>>
    BY <1>5 DEF Admit, CallFails, SourceSuccess, SourceFailure, Goto, fetch, Places
  <2>2. QED
    BY <1>0, <2>1 DEF TypeOK, CallerType
<1>6. CASE CallReturns(c)
  BY <1>0, <1>6 DEF CallReturns, Goto, TypeOK, CallerType
<1>7. CASE GlobalSuccess(c)
  <2>1. CASE at[c] = NoSource
    <3>1. /\ pc' = [pc EXCEPT ![c] = "idle"]
          /\ result' = [result EXCEPT ![c] = answer[c]]
          /\ UNCHANGED <<attempted, lasterr, answer>>
      BY <1>7, <2>1 DEF GlobalSuccess, Goto
    <3>2. QED
      BY <1>0, <3>1 DEF TypeOK, CallerType
  <2>2. CASE at[c] # NoSource
    <3>1. /\ pc' = [pc EXCEPT ![c] = "answered"] /\ pc[c] = "success counted"
          /\ UNCHANGED <<attempted, lasterr, answer, result>>
      BY <1>7, <2>2 DEF GlobalSuccess, Goto
    <3>2. QED
      BY <1>0, <3>1 DEF TypeOK, CallerType
  <2>3. QED
    BY <2>1, <2>2
<1>8. CASE CountAnswer(c)
  <2>1. /\ \E l \in {"isolate", "idle"} : pc' = [pc EXCEPT ![c] = l]
        /\ result' = [result EXCEPT ![c] = answer[c]]
        /\ UNCHANGED <<attempted, lasterr, answer>>
    BY <1>8 DEF CountAnswer, Goto
  <2>2. QED
    BY <1>0, <2>1 DEF TypeOK, CallerType
<1>9. CASE ForceOpen(c)
  BY <1>0, <1>9 DEF ForceOpen, Goto, fetch, TypeOK, CallerType
<1>10. QED
  BY <1>1, <1>2, <1>4, <1>5, <1>6, <1>7, <1>8, <1>9 DEF Step

\* A fetch reports an empty answer only when its last outside call has given
\* one: isolated, rejected and failed sources are never taken for "no data".
THEOREM EmptyAnswersAreGiven == Spec => []EmptyIsAnswered
<1>1. Init => AnswerInv
  BY InitType DEF Init, AnswerInv, EmptyIsAnswered
<1>2. AnswerInv /\ TypeOK' /\ [Next]_vars => AnswerInv'
  <2> SUFFICES ASSUME AnswerInv, TypeOK', [Next]_vars PROVE AnswerInv'
    OBVIOUS
  <2>1. ASSUME UNCHANGED <<pc, fetch>> PROVE AnswerInv'
    BY <2>1 DEF fetch, AnswerInv, EmptyIsAnswered
  <2>2. ASSUME NEW s \in Source, IsolationElapses(s) PROVE AnswerInv'
    BY <2>1, <2>2 DEF IsolationElapses
  <2>3. CASE RecoveryElapses \/ TickLooks \/ UNCHANGED vars
    BY <2>1, <2>3 DEF RecoveryElapses, TickLooks, vars, fetch
  <2>4. QED
    BY <2>2, <2>3, StepAnswerInv DEF Next
<1>3. AnswerInv => EmptyIsAnswered
  BY DEF AnswerInv
<1>4. QED
  BY <1>1, <1>2, <1>3, TypeCorrect, PTL DEF Spec

-----------------------------------------------------------------------------
(* Dead sources.                                                           *)

\* The scenes the property speaks of: some sources only fail, no others fail.
DeadApart == ~Untagged /\ MayFail \cap MayAnswer = {}

\* The failures of a source between its own count and the global one.
Counting(s) == {c \in Caller : pc[c] = "failure counted" /\ at[c] = s}

\* What a source may have contributed to the global count: the failures it has
\* counted itself without those on their way, and all but the last one once it
\* is isolated.
Share(s) == IF sfailures[s] < SourceThreshold
            THEN sfailures[s] - Cardinality(Counting(s))
            ELSE SourceThreshold - 1

\* The shares laid side by side: a set as large as their sum.
Shares == {p \in MayFail \X (1..SourceThreshold - 1) : p[2] <= Share(p[1])}

\* A call that has failed was one of a dead source, one that has answered was
\* not.
SidesKept ==
  \A c \in Caller :
    /\ pc[c] \in {"admit", "calling"} => at[c] \in Source
    /\ pc[c] \in {"failed", "failure counted"} => at[c] \in MayFail
    /\ pc[c] \in {"succeeded", "success counted", "answered", "isolate"} =>
         at[c] \in MayAnswer

\* Failures on their way are among those the source has counted, and a source
\* at its limit keeps being skipped while one is.
CountsHeld ==
  \A s \in MayFail :
    /\ IsFiniteSet(Counting(s))
    /\ sfailures[s] < SourceThreshold => Cardinality(Counting(s)) <= sfailures[s]
    /\ sfailures[s] >= SourceThreshold /\ Counting(s) # {} => skipping[s]

ContainInv ==
  DeadApart => SidesKept /\ CountsHeld /\ failures <= Cardinality(Shares)

LEMMA Bounds ==
  ASSUME TypeOK
  PROVE  /\ SourceThreshold \in Nat \ {0} /\ Threshold \in Nat \ {0}
         /\ MayFail \subseteq Source /\ MayAnswer \subseteq Source
         /\ IsFiniteSet(MayFail) /\ Cardinality(MayFail) \in Nat
         /\ failures \in Nat
         /\ \A s \in MayFail : sfailures[s] \in Nat /\ sfailures[s] <= SourceThreshold
<1>1. MayFail \subseteq Source /\ MayAnswer \subseteq Source
  BY BreakerAssumption DEF TypeOK, BreakerType, MayFail, MayAnswer
<1>2. IsFiniteSet(MayFail) /\ Cardinality(MayFail) \in Nat
  BY <1>1, BreakerAssumption, FS_Subset, FS_CardinalityType
<1>3. QED
  BY <1>1, <1>2, BreakerAssumption DEF TypeOK, BreakerType, SourceType

\* A set of shares is finite, and none exceeds the last failure but one.
LEMMA SharesBounded ==
  ASSUME TypeOK, NEW S \in SUBSET (MayFail \X (1..SourceThreshold - 1))
  PROVE  /\ IsFiniteSet(S) /\ Cardinality(S) \in Nat
         /\ Cardinality(S) <= Cardinality(MayFail) * (SourceThreshold - 1)
<1> DEFINE I == 1..SourceThreshold - 1
<1>1. IsFiniteSet(I) /\ Cardinality(I) = SourceThreshold - 1
  <2>1. 1 \in Int /\ SourceThreshold - 1 \in Int /\ SourceThreshold - 1 >= 0
    BY Bounds
  <2>2. QED
    BY <2>1, FS_Interval
<1>2. /\ IsFiniteSet(MayFail \X I)
      /\ Cardinality(MayFail \X I) = Cardinality(MayFail) * (SourceThreshold - 1)
  BY <1>1, Bounds, FS_Product
<1>3. QED
  BY <1>2, FS_Subset, FS_CardinalityType

LEMMA SharesCounted ==
  ASSUME TypeOK
  PROVE  /\ IsFiniteSet(Shares) /\ Cardinality(Shares) \in Nat
         /\ Cardinality(Shares) <= Cardinality(MayFail) * (SourceThreshold - 1)
         /\ scene' = scene => IsFiniteSet(Shares') /\ Cardinality(Shares') \in Nat
<1>1. Shares \in SUBSET (MayFail \X (1..SourceThreshold - 1))
  BY DEF Shares
<1>2. scene' = scene => Shares' \in SUBSET (MayFail \X (1..SourceThreshold - 1))
  BY DEF Shares, MayFail
<1>3. QED
  BY <1>1, <1>2, SharesBounded

\* Where every share is kept or grows, so does the set of them.
LEMMA SharesGrow ==
  ASSUME TypeOK, TypeOK', scene' = scene,
         \A s \in MayFail : Share(s) \in Int /\ Share(s)' \in Int /\ Share(s) <= Share(s)'
  PROVE  /\ Shares \subseteq Shares'
         /\ Cardinality(Shares) <= Cardinality(Shares')
<1>1. MayFail' = MayFail
  BY DEF MayFail
<1>2. Shares \subseteq Shares'
  BY <1>1 DEF Shares
<1>3. IsFiniteSet(Shares')
  BY SharesCounted
<1>4. QED
  BY <1>2, <1>3, FS_Subset

\* A source that neither counts nor passes on a failure keeps its account.
LEMMA AccountKept ==
  ASSUME TypeOK, TypeOK', CountsHeld, scene' = scene, NEW s \in MayFail,
         sfailures'[s] = sfailures[s], skipping[s] => skipping'[s],
         Counting(s)' = Counting(s)
  PROVE  /\ Share(s) \in Int /\ Share(s)' = Share(s)
         /\ IsFiniteSet(Counting(s)')
         /\ sfailures'[s] < SourceThreshold => Cardinality(Counting(s)') <= sfailures'[s]
         /\ sfailures'[s] >= SourceThreshold /\ Counting(s)' # {} => skipping'[s]
<1>1. /\ IsFiniteSet(Counting(s)) /\ Cardinality(Counting(s)) \in Nat
      /\ sfailures[s] < SourceThreshold => Cardinality(Counting(s)) <= sfailures[s]
      /\ sfailures[s] >= SourceThreshold /\ Counting(s) # {} => skipping[s]
  BY FS_CardinalityType DEF CountsHeld
<1>2. Share(s) \in Int
  BY <1>1, Bounds DEF Share
<1>3. Share(s)' = Share(s)
  BY DEF Share
<1>4. QED
  BY <1>1, <1>2, <1>3

\* A step that leaves the accounts of the dead sources alone keeps the bound,
\* if it does not raise the global count.
LEMMA LedgerKept ==
  ASSUME TypeOK, TypeOK', scene' = scene, CountsHeld, failures <= Cardinality(Shares),
         \A s \in MayFail : /\ sfailures'[s] = sfailures[s]
                            /\ skipping[s] => skipping'[s]
                            /\ Counting(s)' = Counting(s),
         failures' = failures \/ failures' = 0
  PROVE  CountsHeld' /\ failures' <= Cardinality(Shares')
<1>1. MayFail' = MayFail
  BY DEF MayFail
<1>2. CountsHeld'
  BY <1>1, AccountKept DEF CountsHeld
<1>3. Cardinality(Shares) <= Cardinality(Shares')
  <2>1. \A s \in MayFail : Share(s) \in Int /\ Share(s)' = Share(s)
    BY AccountKept
  <2>2. QED
    BY <2>1, SharesGrow
<1>4. Cardinality(Shares) \in Nat /\ Cardinality(Shares') \in Nat
  BY SharesCounted
<1>5. QED
  BY <1>2, <1>3, <1>4, Bounds

\* A source's own count: the failure is on its way to the global one.
LEMMA SourceFailureKeepsAccount ==
  ASSUME TypeOK, TypeOK', CountsHeld, scene' = scene, NEW c \in Caller,
         SourceFailure(c), at[c] \in MayFail, NEW s \in MayFail
  PROVE  /\ Share(s) \in Int /\ Share(s)' \in Int /\ Share(s) <= Share(s)'
         /\ IsFiniteSet(Counting(s)')
         /\ sfailures'[s] < SourceThreshold => Cardinality(Counting(s)') <= sfailures'[s]
         /\ sfailures'[s] >= SourceThreshold /\ Counting(s)' # {} => skipping'[s]
<1> USE DEF TypeOK, SourceType, CallerType
<1>1. /\ pc[c] = "failed" /\ at' = at
      /\ pc' = [pc EXCEPT ![c] = "failure counted"]
      /\ sfailures' = [t \in Source |-> IF t = at[c]
            THEN Raised(sfailures[t], SourceThreshold) ELSE sfailures[t]]
      /\ skipping' = [t \in Source |->
            (t = at[c] /\ sfailures'[t] >= SourceThreshold) \/ skipping[t]]
  BY DEF SourceFailure, Goto, fetch
<1>2. s \in Source
  BY Bounds
<1>3. skipping'[s] <=> (s = at[c] /\ sfailures'[s] >= SourceThreshold) \/ skipping[s]
  BY <1>1, <1>2, Zenon
<1>4. CASE s # at[c]
  <2>1. Counting(s)' = Counting(s)
    BY <1>1, <1>4 DEF Counting
  <2>2. sfailures'[s] = sfailures[s]
    BY <1>1, <1>2, <1>4
  <2>3. Share(s) \in Int /\ Share(s)' = Share(s)
    BY <1>3, <2>1, <2>2, AccountKept
  <2>4. QED
    BY <1>3, <2>1, <2>2, <2>3, AccountKept
<1>5. CASE s = at[c]
  <2>1. Counting(s)' = Counting(s) \cup {c} /\ c \notin Counting(s)
    BY <1>1, <1>5 DEF Counting
  <2>2. IsFiniteSet(Counting(s)) /\ Cardinality(Counting(s)) \in Nat
    BY FS_CardinalityType DEF CountsHeld
  <2>3. /\ IsFiniteSet(Counting(s)')
        /\ Cardinality(Counting(s)') = Cardinality(Counting(s)) + 1
    BY <2>1, <2>2, FS_AddElement
  <2>4. sfailures'[s] = Raised(sfailures[s], SourceThreshold)
    BY <1>1, <1>2, <1>5
  <2>5. /\ sfailures[s] < SourceThreshold => sfailures'[s] = sfailures[s] + 1
        /\ sfailures[s] >= SourceThreshold => sfailures'[s] = SourceThreshold
    BY <2>4, Bounds DEF Raised
  <2>6. sfailures[s] < SourceThreshold => Cardinality(Counting(s)) <= sfailures[s]
    BY DEF CountsHeld
  <2>7. /\ Share(s) = IF sfailures[s] < SourceThreshold
                      THEN sfailures[s] - Cardinality(Counting(s))
                      ELSE SourceThreshold - 1
        /\ Share(s)' = IF sfailures'[s] < SourceThreshold
                       THEN sfailures'[s] - Cardinality(Counting(s)')
                       ELSE SourceThreshold - 1
    BY DEF Share
  <2>8. Share(s) \in Int /\ Share(s)' \in Int /\ Share(s) <= Share(s)'
    BY <2>2, <2>3, <2>5, <2>7, Bounds
  <2>9. sfailures'[s] >= SourceThreshold => skipping'[s]
    BY <1>3, <1>5
  <2>10. QED
    BY <2>2, <2>3, <2>5, <2>6, <2>8, <2>9, Bounds
<1>6. QED
  BY <1>4, <1>5

\* The global count takes one failure over: the share of its source grows by it.
LEMMA GlobalFailureKeepsAccount ==
  ASSUME TypeOK, TypeOK', CountsHeld, scene' = scene, NEW c \in Caller,
         at[c] \in MayFail, c \in Counting(at[c]),
         \A t \in MayFail : Counting(t)' = Counting(t) \ {c},
         at' = at, sfailures' = sfailures, skipping' = skipping, NEW s \in MayFail
  PROVE  /\ Share(s) \in Int /\ Share(s)' \in Int /\ Share(s) <= Share(s)'
         /\ s = at[c] /\ sfailures[s] < SourceThreshold => Share(s)' = Share(s) + 1
         /\ IsFiniteSet(Counting(s)')
         /\ sfailures'[s] < SourceThreshold => Cardinality(Counting(s)') <= sfailures'[s]
         /\ sfailures'[s] >= SourceThreshold /\ Counting(s)' # {} => skipping'[s]
<1>1. CASE s # at[c]
  <2>1. Counting(s)' = Counting(s)
    <3>1. c \notin Counting(s)
      BY <1>1 DEF Counting
    <3>2. QED
      BY <3>1
  <2>2. Share(s) \in Int /\ Share(s)' = Share(s)
    BY <2>1, AccountKept
  <2>3. /\ IsFiniteSet(Counting(s)')
        /\ sfailures'[s] < SourceThreshold => Cardinality(Counting(s)') <= sfailures'[s]
        /\ sfailures'[s] >= SourceThreshold /\ Counting(s)' # {} => skipping'[s]
    BY <2>1, AccountKept
  <2>4. Share(s) <= Share(s)'
    BY <2>2
  <2>5. QED
    BY <1>1, <2>2, <2>3, <2>4, Zenon
<1>2. CASE s = at[c]
  <2>1. Counting(s)' = Counting(s) \ {c} /\ c \in Counting(s)
    BY <1>2
  <2>2. IsFiniteSet(Counting(s)) /\ Cardinality(Counting(s)) \in Nat
    BY FS_CardinalityType DEF CountsHeld
  <2>3. /\ IsFiniteSet(Counting(s)')
        /\ Cardinality(Counting(s)') = Cardinality(Counting(s)) - 1
    <3> DEFINE C == Counting(s)
    <3>1. IsFiniteSet(C) /\ c \in C
      BY <2>1, <2>2
    <3>2. IsFiniteSet(C \ {c}) /\ Cardinality(C \ {c}) = Cardinality(C) - 1
      <4> HIDE DEF C
      <4>1. QED
        BY <3>1, FS_RemoveElement
    <3>3. QED
      BY <2>1, <3>2
  <2>4. /\ Share(s) = IF sfailures[s] < SourceThreshold
                      THEN sfailures[s] - Cardinality(Counting(s))
                      ELSE SourceThreshold - 1
        /\ Share(s)' = IF sfailures[s] < SourceThreshold
                       THEN sfailures[s] - Cardinality(Counting(s)')
                       ELSE SourceThreshold - 1
    BY DEF Share
  <2>5. sfailures[s] < SourceThreshold => Cardinality(Counting(s)) <= sfailures[s]
    BY DEF CountsHeld
  <2>6. sfailures[s] >= SourceThreshold => skipping[s]
    BY <2>1 DEF CountsHeld
  <2>7. /\ Share(s) \in Int /\ Share(s)' \in Int /\ Share(s) <= Share(s)'
        /\ sfailures[s] < SourceThreshold => Share(s)' = Share(s) + 1
    BY <2>2, <2>3, <2>4, <2>5, Bounds
  <2>8. sfailures'[s] < SourceThreshold => Cardinality(Counting(s)') <= sfailures'[s]
    BY <2>2, <2>3, <2>5, Bounds
  <2>9. QED
    BY <1>2, <2>3, <2>6, <2>7, <2>8, Zenon
<1>3. QED
  BY <1>1, <1>2

\* A raised call is over: its thread is idle or picks the next source.
LEMMA RaiseLeaves ==
  ASSUME TypeOK, NEW c \in Caller, Raise(c)
  PROVE  /\ pc'[c] \in {"idle", "pick"} /\ at' = at
         /\ \A d \in Caller \ {c} : pc'[d] = pc[d]
BY DEF Raise, Goto, TypeOK, CallerType

LEMMA StepSidesKept ==
  ASSUME TypeOK, DeadApart, SidesKept, NEW c \in Caller, Step(c)
  PROVE  SidesKept'
<1> USE DEF TypeOK, CallerType, SidesKept
<1>0. MayFail' = MayFail /\ MayAnswer' = MayAnswer
  BY DEF Step, MayFail, MayAnswer
<1>1. CASE FetchBegin(c) \/ SkipSource(c) \/ FetchEnd(c)
  BY <1>0, <1>1 DEF FetchBegin, SkipSource, FetchEnd, Goto
<1>2. ~PlainBegin(c)
  BY DEF PlainBegin, DeadApart
<1>3. CASE TrySource(c)
  <2>1. Order[next[c]] \in Source
    BY <1>3, OrderHoldsSources DEF TrySource
  <2>2. QED
    BY <1>0, <1>3, <2>1 DEF TrySource, Goto
<1>4. CASE Admit(c)
  BY <1>0, <1>4 DEF Admit, Goto, fetch
<1>5. CASE Reject(c) \/ GlobalFailureSkipped(c) \/ GlobalFailure(c)
  <2>1. /\ pc'[c] \in {"idle", "pick"} /\ at' = at
        /\ \A d \in Caller \ {c} : pc'[d] = pc[d]
    BY <1>5, RaiseLeaves DEF Reject, GlobalFailureSkipped, GlobalFailure
  <2>2. QED
    BY <1>0, <2>1
<1>6. CASE CallReturns(c)
  <2>1. at[c] \in MayAnswer
    BY <1>6, BreakerAssumption DEF CallReturns
  <2>2. QED
    BY <1>0, <1>6, <2>1 DEF CallReturns, Goto
<1>7. CASE CallFails(c)
  <2>1. at[c] \in MayFail
    BY <1>7, BreakerAssumption DEF CallFails
  <2>2. QED
    BY <1>0, <1>7, <2>1 DEF CallFails, Goto, fetch
<1>8. CASE SourceSuccess(c) \/ SourceFailure(c)
  BY <1>0, <1>8 DEF SourceSuccess, SourceFailure, Goto, fetch
<1>9. CASE GlobalSuccess(c)
  BY <1>0, <1>9 DEF GlobalSuccess, Goto
<1>10. CASE CountAnswer(c) \/ ForceOpen(c)
  <2>1. /\ at' = at /\ pc[c] \in {"answered", "isolate"}
        /\ \E l \in {"isolate", "idle"} : pc' = [pc EXCEPT ![c] = l]
    BY <1>10 DEF CountAnswer, ForceOpen, Goto, fetch
  <2>2. QED
    BY <1>0, <2>1
<1>11. QED
  BY <1>1, <1>2, <1>3, <1>4, <1>5, <1>6, <1>7, <1>8, <1>9, <1>10 DEF Step

\* A step that neither enters nor leaves the place between the two counts leaves
\* every source the failures it has there.
LEMMA CountingKept ==
  ASSUME TypeOK, NEW c \in Caller, pc[c] # "failure counted",
         pc'[c] # "failure counted", \A d \in Caller \ {c} : pc'[d] = pc[d],
         \A d \in Caller \ {c} : at'[d] = at[d]
  PROVE  \A s : Counting(s)' = Counting(s)
BY DEF Counting

LEMMA StepContainInv ==
  ASSUME TypeOK, TypeOK', ContainInv, NEW c \in Caller, Step(c)
  PROVE  ContainInv'
<1>0. scene' = scene /\ MayFail' = MayFail
  BY DEF Step, MayFail
<1> SUFFICES ASSUME DeadApart PROVE ContainInv'
  BY <1>0 DEF ContainInv, DeadApart, Untagged, MayFail, MayAnswer
<1>1. SidesKept /\ CountsHeld /\ failures <= Cardinality(Shares) /\ SidesKept'
  BY StepSidesKept DEF ContainInv
<1>2. SUFFICES CountsHeld' /\ failures' <= Cardinality(Shares')
  BY <1>1 DEF ContainInv
<1>3. ASSUME failures' = failures \/ failures' = 0,
             \A s \in MayFail : sfailures'[s] = sfailures[s] /\ (skipping[s] => skipping'[s]),
             pc[c] # "failure counted", pc'[c] # "failure counted",
             \A d \in Caller \ {c} : pc'[d] = pc[d] /\ at'[d] = at[d]
      PROVE  CountsHeld' /\ failures' <= Cardinality(Shares')
  <2>1. \A s : Counting(s)' = Counting(s)
    BY <1>3, CountingKept
  <2>2. QED
    BY <1>0, <1>1, <1>3, <2>1, LedgerKept
<1>4. CASE FetchBegin(c) \/ PlainBegin(c) \/ SkipSource(c) \/ TrySource(c)
             \/ FetchEnd(c) \/ Admit(c) \/ CallReturns(c) \/ CallFails(c)
  <2>1. UNCHANGED <<failures, sfailures, skipping>>
    BY <1>4 DEF FetchBegin, PlainBegin, SkipSource, TrySource, FetchEnd, Admit,
                CallReturns, CallFails, global, source
  <2>2. /\ pc[c] # "failure counted" /\ pc'[c] # "failure counted"
        /\ \A d \in Caller \ {c} : pc'[d] = pc[d] /\ at'[d] = at[d]
    <3>1. CASE FetchBegin(c) \/ SkipSource(c) \/ FetchEnd(c) \/ CallReturns(c)
      BY <3>1 DEF FetchBegin, SkipSource, FetchEnd, CallReturns, Goto, TypeOK, CallerType
    <3>2. CASE PlainBegin(c) \/ TrySource(c)
      BY <3>2 DEF PlainBegin, TrySource, Goto, TypeOK, CallerType
    <3>3. CASE Admit(c) \/ CallFails(c)
      BY <3>3 DEF Admit, CallFails, Goto, fetch, TypeOK, CallerType
    <3>4. QED
      BY <1>4, <3>1, <3>2, <3>3
  <2>3. QED
    BY <1>3, <2>1, <2>2
<1>5. CASE Reject(c)
  <2>1. UNCHANGED <<failures, sfailures, skipping>> /\ pc[c] = "admit"
    BY <1>5 DEF Reject, source
  <2>2. /\ pc'[c] # "failure counted"
        /\ \A d \in Caller \ {c} : pc'[d] = pc[d] /\ at'[d] = at[d]
    BY <1>5, RaiseLeaves DEF Reject
  <2>3. QED
    BY <1>3, <2>1, <2>2
<1>6. CASE SourceSuccess(c) \/ ForceOpen(c)
  <2>1. at[c] \notin MayFail
    BY <1>1, <1>6 DEF SourceSuccess, ForceOpen, SidesKept, DeadApart
  <2>2. \A s \in MayFail : sfailures'[s] = sfailures[s]
    <3>1. CASE SourceSuccess(c)
      BY <2>1, <3>1, Bounds DEF SourceSuccess
    <3>2. CASE ForceOpen(c)
      BY <2>1, <3>2, Bounds DEF ForceOpen, TypeOK, SourceType
    <3>3. QED
      BY <1>6, <3>1, <3>2
  <2>3. \A s \in MayFail : skipping[s] => skipping'[s]
    BY <1>6, <2>1, Bounds, Zenon DEF SourceSuccess, ForceOpen, TypeOK, SourceType
  <2>4. /\ failures' = failures
        /\ pc[c] # "failure counted" /\ pc'[c] # "failure counted"
        /\ \A d \in Caller \ {c} : pc'[d] = pc[d] /\ at'[d] = at[d]
    <3>1. CASE SourceSuccess(c)
      BY <3>1 DEF SourceSuccess, Goto, global, fetch, TypeOK, CallerType
    <3>2. CASE ForceOpen(c)
      BY <3>2 DEF ForceOpen, Goto, global, fetch, TypeOK, CallerType
    <3>3. QED
      BY <1>6, <3>1, <3>2
  <2>5. QED
    BY <1>3, <2>2, <2>3, <2>4
<1>7. CASE GlobalSuccess(c) \/ CountAnswer(c)
  <2>1. /\ failures' = failures \/ failures' = 0
        /\ UNCHANGED <<sfailures, skipping, at>>
        /\ pc[c] \in {"success counted", "answered"}
        /\ \E l \in {"idle", "answered", "isolate"} : pc' = [pc EXCEPT ![c] = l]
    BY <1>7 DEF GlobalSuccess, CountAnswer, Goto, global, source
  <2>2. /\ pc[c] # "failure counted" /\ pc'[c] # "failure counted"
        /\ \A d \in Caller \ {c} : pc'[d] = pc[d] /\ at'[d] = at[d]
    BY <2>1 DEF TypeOK, CallerType
  <2>3. QED
    BY <1>3, <2>1, <2>2
<1>8. CASE SourceFailure(c)
  <2>1. at[c] \in MayFail /\ failures' = failures
    BY <1>1, <1>8 DEF SourceFailure, SidesKept, global
  <2>2. CountsHeld'
    BY <1>0, <1>1, <1>8, <2>1, SourceFailureKeepsAccount DEF CountsHeld
  <2>3. \A s \in MayFail : Share(s) \in Int /\ Share(s)' \in Int /\ Share(s) <= Share(s)'
    BY <1>0, <1>1, <1>8, <2>1, SourceFailureKeepsAccount
  <2>4. Cardinality(Shares) <= Cardinality(Shares')
    BY <1>0, <2>3, SharesGrow
  <2>5. Cardinality(Shares) \in Nat /\ Cardinality(Shares') \in Nat
    BY <1>0, SharesCounted
  <2>6. QED
    BY <1>1, <2>1, <2>2, <2>4, <2>5, Bounds
<1>9. CASE GlobalFailureSkipped(c) \/ GlobalFailure(c)
  <2>1. /\ pc[c] = "failure counted" /\ at[c] \in MayFail
        /\ at' = at /\ sfailures' = sfailures /\ skipping' = skipping
    BY <1>1, <1>9, RaiseLeaves DEF GlobalFailureSkipped, GlobalFailure, SidesKept, source
  <2>2. /\ c \in Counting(at[c])
        /\ \A s : Counting(s)' = Counting(s) \ {c}
    <3>1. pc'[c] # "failure counted" /\ \A d \in Caller \ {c} : pc'[d] = pc[d]
      BY <1>9, RaiseLeaves DEF GlobalFailureSkipped, GlobalFailure
    <3>2. ASSUME NEW s PROVE Counting(s)' = Counting(s) \ {c}
      <4>1. \A d \in Caller : (pc'[d] = "failure counted" /\ at'[d] = s) <=>
              (pc[d] = "failure counted" /\ at[d] = s /\ d # c)
        BY <2>1, <3>1
      <4>2. QED
        BY <4>1, Zenon DEF Counting
    <3>3. QED
      BY <2>1, <3>2 DEF Counting
  <2>3. CountsHeld'
    BY <1>0, <1>1, <2>1, <2>2, GlobalFailureKeepsAccount DEF CountsHeld
  <2>4. \A s \in MayFail :
          /\ Share(s) \in Int /\ Share(s)' \in Int /\ Share(s) <= Share(s)'
          /\ s = at[c] /\ sfailures[s] < SourceThreshold => Share(s)' = Share(s) + 1
    BY <1>0, <1>1, <2>1, <2>2, GlobalFailureKeepsAccount
  <2>5. /\ Shares \subseteq Shares'
        /\ Cardinality(Shares) <= Cardinality(Shares')
    BY <1>0, <2>4, SharesGrow
  <2>6. /\ IsFiniteSet(Shares) /\ IsFiniteSet(Shares')
        /\ Cardinality(Shares) \in Nat /\ Cardinality(Shares') \in Nat
    BY <1>0, SharesCounted
  <2>7. CASE GlobalFailureSkipped(c)
    <3>1. failures' = failures
      BY <2>7 DEF GlobalFailureSkipped, global
    <3>2. QED
      BY <1>1, <2>3, <2>5, <2>6, <3>1, Bounds
  <2>8. CASE GlobalFailure(c)
    <3> DEFINE s == at[c]
               p == <<s, Share(s)'>>
    <3>1. sfailures[s] < SourceThreshold
      <4>1. at[c] # NoSource
        BY <2>1, Bounds, BreakerAssumption
      <4>2. Available(s)
        BY <2>8, <4>1, Zenon DEF GlobalFailure, CallsIsolated
      <4>3. sfailures[s] >= SourceThreshold => skipping[s]
        BY <1>1, <2>1, <2>2, Zenon DEF CountsHeld
      <4>4. sfailures[s] >= SourceThreshold \/ sfailures[s] < SourceThreshold
        <5>1. sfailures[s] \in Nat /\ SourceThreshold \in Nat
          BY <2>1, Bounds
        <5>2. QED
          BY <5>1
      <4>5. QED
        BY <4>2, <4>3, <4>4, Zenon DEF Available
    <3>2. /\ Share(s)' = Share(s) + 1 /\ Share(s) \in Int
          /\ Share(s) >= 0 /\ Share(s)' <= SourceThreshold - 1
      <4>1. Share(s) = sfailures[s] - Cardinality(Counting(s))
        BY <3>1 DEF Share
      <4>2. /\ Cardinality(Counting(s)) \in Nat
            /\ Cardinality(Counting(s)) <= sfailures[s]
        BY <1>1, <2>1, <3>1, FS_CardinalityType DEF CountsHeld
      <4>3. Cardinality(Counting(s)) # 0
        BY <1>1, <2>1, <2>2, FS_EmptySet DEF CountsHeld
      <4>4. Share(s)' = Share(s) + 1 /\ Share(s) \in Int
        BY <2>1, <2>4, <3>1
      <4>5. sfailures[s] \in Nat
        BY <2>1, Bounds
      <4>6. QED
        BY <3>1, <4>1, <4>2, <4>3, <4>4, <4>5, Bounds
    <3>3. p \in Shares' /\ p \notin Shares
      <4>1. Share(s)' \in 1..SourceThreshold - 1
        BY <3>2, Bounds
      <4>2. p \in MayFail \X (1..SourceThreshold - 1) /\ p[1] = s /\ p[2] = Share(s)'
        BY <2>1, <4>1
      <4>3. p \in Shares'
        <5>1. \A t \in MayFail : \A n \in 1..SourceThreshold - 1 :
                n <= Share(t)' => <<t, n>> \in Shares'
          BY <1>0 DEF Shares
        <5>2. Share(s)' <= Share(s)'
          BY <3>2
        <5>3. QED
          BY <2>1, <4>1, <5>1, <5>2
      <4>4. p \notin Shares
        BY <3>2, <4>2 DEF Shares
      <4>5. QED
        BY <4>3, <4>4
    <3>4. Cardinality(Shares) + 1 <= Cardinality(Shares')
      <4>1. Shares \cup {p} \in SUBSET Shares'
        BY <2>5, <3>3
      <4>2. Cardinality(Shares \cup {p}) = Cardinality(Shares) + 1
        BY <2>6, <3>3, FS_AddElement
      <4>3. QED
        BY <2>6, <4>1, <4>2, FS_Subset
    <3>5. failures' <= failures + 1
      <4>1. failures' = Raised(failures, Threshold)
        BY <2>8 DEF GlobalFailure
      <4>2. failures \in 0..Threshold /\ Threshold \in Nat
        BY BreakerAssumption DEF TypeOK, BreakerType
      <4>3. QED
        BY <4>1, <4>2 DEF Raised
    <3>6. failures' \in Nat
      BY BreakerAssumption DEF TypeOK, BreakerType
    <3>7. QED
      BY <1>1, <2>3, <2>6, <3>4, <3>5, <3>6, Bounds
  <2>9. QED
    BY <1>9, <2>7, <2>8
<1>10. QED
  BY <1>4, <1>5, <1>6, <1>7, <1>8, <1>9 DEF Step

\* Time that passes leaves the accounts alone: five minutes are not over while a
\* failure of the source is on its way.
LEMMA TimeContainInv ==
  ASSUME TypeOK, TypeOK', ContainInv,
         \/ RecoveryElapses \/ TickLooks \/ UNCHANGED vars
         \/ \E s \in Source : IsolationElapses(s)
  PROVE  ContainInv'
<1>1. UNCHANGED <<scene, failures, sfailures, pc, at>>
  BY DEF RecoveryElapses, TickLooks, IsolationElapses, vars, global, source, fetch
<1>2. SUFFICES ASSUME DeadApart PROVE SidesKept' /\ CountsHeld' /\ failures' <= Cardinality(Shares')
  BY <1>1 DEF ContainInv, DeadApart, Untagged, MayFail, MayAnswer
<1>3. SidesKept /\ CountsHeld /\ failures <= Cardinality(Shares)
  BY <1>2 DEF ContainInv
<1>4. SidesKept'
  BY <1>1, <1>3 DEF SidesKept, MayFail, MayAnswer
<1>5. Shares' = Shares /\ MayFail' = MayFail
  BY <1>1 DEF Shares, Share, Counting, MayFail
<1>6. ASSUME NEW s \in MayFail
      PROVE  /\ Counting(s)' = Counting(s) /\ sfailures'[s] = sfailures[s]
             /\ skipping[s] /\ Counting(s) # {} => skipping'[s]
  <2>1. Counting(s)' = Counting(s) /\ sfailures'[s] = sfailures[s]
    BY <1>1 DEF Counting
  <2>2. CASE RecoveryElapses \/ TickLooks \/ UNCHANGED vars
    BY <2>1, <2>2 DEF RecoveryElapses, TickLooks, vars, source
  <2>3. ASSUME NEW t \in Source, IsolationElapses(t), skipping[s], Counting(s) # {}
        PROVE  skipping'[s]
    <3>1. s # t
      BY <2>3 DEF IsolationElapses, Counting
    <3>2. skipping' = [skipping EXCEPT ![t] = FALSE]
      BY <2>3 DEF IsolationElapses
    <3>3. QED
      BY <2>3, <3>1, <3>2, Bounds, Zenon DEF TypeOK, SourceType
  <2>4. QED
    BY <2>1, <2>2, <2>3
<1>7. CountsHeld'
  BY <1>3, <1>5, <1>6, Zenon DEF CountsHeld
<1>8. QED
  BY <1>1, <1>3, <1>4, <1>5, <1>7

LEMMA InitContainInv == Init => ContainInv
<1> SUFFICES ASSUME Init, DeadApart
             PROVE  SidesKept /\ CountsHeld /\ failures <= Cardinality(Shares)
  BY DEF ContainInv
<1>1. SidesKept
  BY DEF Init, SidesKept
<1>2. \A s : Counting(s) = {}
  BY DEF Init, Counting
<1>3. TypeOK
  BY InitType
<1>4. CountsHeld
  <2> SUFFICES ASSUME NEW s \in MayFail
               PROVE  IsFiniteSet({}) /\ Cardinality({}) <= sfailures[s]
    BY <1>2 DEF CountsHeld
  <2>1. IsFiniteSet({}) /\ Cardinality({}) = 0
    BY FS_EmptySet
  <2>2. sfailures[s] \in Nat
    BY <1>3, Bounds
  <2>3. QED
    BY <2>1, <2>2
<1>5. failures = 0 /\ Cardinality(Shares) \in Nat
  BY <1>3, SharesCounted DEF Init
<1>6. QED
  BY <1>1, <1>4, <1>5

\* However many threads walk the sources at once, sources that only fail add at
\* most SourceThreshold - 1 failures each to the global count: each is isolated
\* in time, and from then on its failures are not counted.
THEOREM DeadAreContained == Spec => []DeadSourcesContained
<1>1. ContainInv /\ TypeOK /\ TypeOK' /\ [Next]_vars => ContainInv'
  BY StepContainInv, TimeContainInv DEF Next
<1>2. TypeOK /\ ContainInv => DeadSourcesContained
  <2> SUFFICES ASSUME TypeOK, ContainInv, DeadApart
               PROVE  failures <= Cardinality(MayFail) * (SourceThreshold - 1)
    BY DEF DeadSourcesContained, DeadApart
  <2>1. failures <= Cardinality(Shares)
    BY DEF ContainInv
  <2>2. /\ Cardinality(Shares) \in Nat
        /\ Cardinality(Shares) <= Cardinality(MayFail) * (SourceThreshold - 1)
    BY SharesCounted
  <2> DEFINE limit == Cardinality(MayFail) * (SourceThreshold - 1)
  <2>3. limit \in Int
    BY Bounds
  <2> HIDE DEF limit
  <2>4. failures <= limit
    BY <2>1, <2>2, <2>3, Bounds DEF limit
  <2>5. QED
    BY <2>4 DEF limit
<1>3. QED
  BY InitContainInv, <1>1, <1>2, TypeCorrect, PTL DEF Spec

\* Where the sources cannot reach the global threshold that way (the defaults: two
\* failures of each of three sources, a threshold of ten), the breaker stays
\* closed for good.
StaysClosed ==
  DeadApart /\ Cardinality(MayFail) * (SourceThreshold - 1) < Threshold =>
    state = "CLOSED"

LEMMA SceneKept == [Next]_vars => scene' = scene
<1>1. RecoveryElapses \/ TickLooks \/ UNCHANGED vars => scene' = scene
  BY DEF RecoveryElapses, TickLooks, vars
<1>2. ASSUME NEW s \in Source, IsolationElapses(s) PROVE scene' = scene
  BY <1>2 DEF IsolationElapses
<1>3. ASSUME NEW c \in Caller, Step(c) PROVE scene' = scene
  BY <1>3 DEF Step
<1>4. QED
  BY <1>1, <1>2, <1>3 DEF Next

\* Dead sources alone never open the global breaker, so the healthy sources are
\* asked all the time.
THEOREM DeadSourcesDoNotOpen == Spec => []StaysClosed
<1>1. Init => StaysClosed
  BY DEF Init, StaysClosed
<1>2. TypeOK /\ TypeOK' /\ DeadSourcesContained' /\ StaysClosed /\ [Next]_vars => StaysClosed'
  <2> SUFFICES ASSUME TypeOK, TypeOK', DeadSourcesContained', StaysClosed, [Next]_vars
               PROVE  StaysClosed'
    OBVIOUS
  <2>0. scene' = scene
    BY SceneKept
  <2> SUFFICES ASSUME DeadApart, Cardinality(MayFail) * (SourceThreshold - 1) < Threshold
               PROVE  state' = "CLOSED"
    BY <2>0 DEF StaysClosed, DeadApart, Untagged, MayFail, MayAnswer
  <2>1. state = "CLOSED"
    BY DEF StaysClosed
  <2>2. failures' < Threshold
    <3> DEFINE limit == Cardinality(MayFail) * (SourceThreshold - 1)
    <3>1. failures' <= limit
      BY <2>0 DEF DeadSourcesContained, DeadApart, Untagged, MayFail, MayAnswer
    <3>2. limit \in Int /\ limit < Threshold /\ Threshold \in Nat
      BY Bounds
    <3>3. failures' \in Nat
      BY BreakerAssumption DEF TypeOK, BreakerType
    <3> HIDE DEF limit
    <3>4. QED
      BY <3>1, <3>2, <3>3
  <2>3. ASSUME NEW c \in Caller, Step(c) PROVE state' = "CLOSED"
    <3>1. CASE GlobalFailure(c)
      <4>1. ~(failures' >= Threshold)
        <5>1. failures' \in Nat /\ Threshold \in Nat
          BY BreakerAssumption DEF TypeOK, BreakerType
        <5>2. QED
          BY <2>2, <5>1
      <4>2. QED
        BY <2>1, <3>1, <4>1 DEF GlobalFailure
    <3>2. CASE Admit(c) \/ Reject(c)
      BY <2>1, <3>2 DEF Admit, Reject, Looked
    <3>3. QED
      BY <2>1, <2>3, <3>1, <3>2 DEF Step, FetchBegin, PlainBegin, SkipSource, TrySource,
         FetchEnd, CallReturns, CallFails, SourceSuccess, GlobalSuccess, SourceFailure,
         GlobalFailureSkipped, CountAnswer, ForceOpen, global
  <2>4. CASE RecoveryElapses \/ TickLooks \/ UNCHANGED vars
    BY <2>1, <2>4 DEF RecoveryElapses, TickLooks, vars
  <2>5. ASSUME NEW s \in Source, IsolationElapses(s) PROVE state' = "CLOSED"
    BY <2>1, <2>5 DEF IsolationElapses, global
  <2>6. QED
    BY <2>3, <2>4, <2>5 DEF Next
<1>3. QED
  BY <1>1, <1>2, TypeCorrect, DeadAreContained, PTL DEF Spec
=============================================================================
