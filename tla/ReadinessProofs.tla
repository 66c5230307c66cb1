--------------------------- MODULE ReadinessProofs ---------------------------
(***************************************************************************)
(* Proofs about Readiness for every window, ttl, probe and threshold.      *)
(***************************************************************************)
EXTENDS Readiness, TLAPS

(* Age of what Ready compares with the window.                             *)
SignOfLife == IF hasOK THEN lastOK ELSE startedAt

(* Prometheus has been silent no longer than the cached reading is old.    *)
ReadingTellsSilence == cached <= TTL => silence <= cached

(* A success recorded within the window was at most a ttl late.            *)
LifeTellsSilence == SignOfLife < Window => silence <= SignOfLife + TTL

(* Each probe that failed accounts for one period the pod stayed in.       *)
EndpointTellsSilence ==
  endpoint =>
    /\ failed < FailureThreshold
    /\ silence < Window + TTL + failed * ProbePeriod + sinceProbe

Inv == TypeOK /\ ReadingTellsSilence /\ LifeTellsSilence /\ EndpointTellsSilence

-----------------------------------------------------------------------------

(* Products of naturals, as the probe periods need them.                   *)
LEMMA OneMore ==
  ASSUME NEW a \in Nat, NEW b \in Nat
  PROVE  (a + 1) * b = a * b + b
  OBVIOUS

(* A product of naturals is a natural.                                     *)
LEMMA ProductNat ==
  ASSUME NEW a \in Nat, NEW b \in Nat
  PROVE  a * b \in Nat
  OBVIOUS

(* A product grows with its factors.                                       *)
LEMMA ProductMonotone ==
  ASSUME NEW a \in Nat, NEW b \in Nat, NEW c \in Nat, a <= b
  PROVE  a * c <= b * c
  <1>1. b - a \in Nat /\ b = a + (b - a)
    OBVIOUS
  <1>2. b * c = a * c + (b - a) * c
    BY <1>1
  <1>3. (b - a) * c \in Nat
    BY <1>1, ProductNat
  <1> QED
    BY <1>2, <1>3, ProductNat

(* The constants and the bounds built from them are naturals.              *)
LEMMA Bounds ==
  /\ Window \in Nat /\ Window > 0 /\ TTL \in Nat
  /\ ProbePeriod \in Nat /\ FailureThreshold \in Nat /\ FailureThreshold > 0
  /\ NoReading \in Nat /\ NoReading = TTL + 1
  /\ MaxQuiet \in Nat
  /\ ProbeDelay \in Nat
  /\ MaxSilence \in Nat /\ MaxSilence = Window + TTL + ProbeDelay
  BY ReadinessAssumption, ProductNat DEF NoReading, MaxQuiet, ProbeDelay, MaxSilence

(* Older counts up to its limit.                                           *)
LEMMA OlderCounts ==
  ASSUME NEW limit \in Nat, NEW a \in 0..limit
  PROVE  /\ Older(a, limit) \in 0..limit
         /\ Older(a, limit) <= a + 1
         /\ a < limit => Older(a, limit) = a + 1
         /\ a >= limit => Older(a, limit) = a
  BY DEF Older

-----------------------------------------------------------------------------

(* The initial states satisfy the invariant.                               *)
LEMMA InitInv == Init => Inv
  <1> SUFFICES ASSUME Init PROVE Inv
    OBVIOUS
  <1>1. up \in BOOLEAN /\ hasOK \in BOOLEAN /\ endpoint \in BOOLEAN /\ connected \in BOOLEAN
    BY Zenon DEF Init
  <1>2. ~endpoint
    BY Zenon DEF Init
  <1>3. TypeOK
    BY <1>1, Bounds, ReadinessAssumption, SMT DEF Init, TypeOK
  <1>4. ReadingTellsSilence /\ LifeTellsSilence /\ EndpointTellsSilence
    BY <1>2, Bounds, SMT
    DEF Init, ReadingTellsSilence, LifeTellsSilence, EndpointTellsSilence, SignOfLife
  <1> QED BY <1>3, <1>4 DEF Inv

(* TypeOK in two parts: the provers do not mix truth values and numbers.   *)
Flags == up \in BOOLEAN /\ hasOK \in BOOLEAN /\ endpoint \in BOOLEAN /\ connected \in BOOLEAN
Ages ==
  /\ lastOK \in 0..Window /\ startedAt \in 0..Window
  /\ cached \in 0..NoReading /\ silence \in 0..MaxSilence
  /\ failed \in 0..FailureThreshold
  /\ quiet \in 0..MaxQuiet /\ sinceProbe \in 0..ProbePeriod

(* The type invariant, flags apart from ages.                              *)
LEMMA TypeParts == TypeOK <=> Flags /\ Ages
  BY DEF TypeOK, Flags, Ages

(* Flags stay truth values.                                                *)
LEMMA FlagsStep == TypeOK /\ [Next]_vars => Flags'
  <1> SUFFICES ASSUME TypeOK, [Next]_vars PROVE Flags'
    OBVIOUS
  <1>0. Flags /\ Ages
    BY TypeParts
  <1>1. CASE QueryHit
    BY <1>0, <1>1, Zenon DEF QueryHit, RecordSuccess, pod, Flags
  <1>2. CASE QueryAnswered
    BY <1>0, <1>2, Zenon DEF QueryAnswered, RecordSuccess, pod, Flags
  <1>3. CASE QueryFails
    BY <1>0, <1>3, Zenon DEF QueryFails, health, pod, Flags
  <1>4. CASE ProbePasses
    BY <1>0, <1>4, Zenon DEF ProbePasses, health, Ready, Flags
  <1>5. CASE ProbeFails
    BY <1>0, <1>5, Zenon DEF ProbeFails, health, Ready, Flags
  <1>6. CASE Connect
    BY <1>0, <1>6, Zenon DEF Connect, health, pod, Flags
  <1>7. CASE Disconnect
    BY <1>0, <1>7, Zenon DEF Disconnect, health, pod, Flags
  <1>8. CASE Restart
    BY <1>0, <1>8, Zenon DEF Restart, Flags
  <1>9. CASE PrometheusChanges
    BY <1>0, <1>9, Zenon DEF PrometheusChanges, health, pod, Flags
  <1>10. CASE Tick
    BY <1>0, <1>10, Zenon DEF Tick, Flags
  <1>11. CASE UNCHANGED vars
    BY <1>0, <1>11 DEF vars, health, pod, Flags
  <1> QED
    BY <1>1, <1>2, <1>3, <1>4, <1>5, <1>6, <1>7, <1>8, <1>9, <1>10, <1>11 DEF Next, Query, Probe

(* Ages stay within their bounds.                                          *)
LEMMA AgesStep == TypeOK /\ [Next]_vars => Ages'
  <1> SUFFICES ASSUME TypeOK, [Next]_vars PROVE Ages'
    OBVIOUS
  <1>0. Flags /\ Ages
    BY TypeParts
  <1>1. CASE QueryHit
    BY <1>0, <1>1, Bounds, ReadinessAssumption, SMT DEF QueryHit, RecordSuccess, pod, Ages
  <1>2. CASE QueryAnswered
    BY <1>0, <1>2, Bounds, ReadinessAssumption, SMT DEF QueryAnswered, RecordSuccess, pod, Ages
  <1>3. CASE QueryFails
    BY <1>0, <1>3, Bounds, ReadinessAssumption, SMT DEF QueryFails, health, pod, Ages
  <1>4. CASE ProbePasses
    BY <1>0, <1>4, Bounds, ReadinessAssumption, SMT DEF ProbePasses, health, Ready, Ages
  <1>5. CASE ProbeFails
    BY <1>0, <1>5, Bounds, ReadinessAssumption, SMT DEF ProbeFails, health, Ready, Ages
  <1>6. CASE Connect
    BY <1>0, <1>6, Bounds, ReadinessAssumption, SMT DEF Connect, health, pod, Ages
  <1>7. CASE Disconnect
    BY <1>0, <1>7, Bounds, ReadinessAssumption, SMT DEF Disconnect, health, pod, Ages
  <1>8. CASE Restart
    BY <1>0, <1>8, Bounds, ReadinessAssumption, SMT DEF Restart, Ages
  <1>9. CASE PrometheusChanges
    BY <1>0, <1>9, Bounds, ReadinessAssumption, SMT DEF PrometheusChanges, health, pod, Ages
  <1>10. CASE Tick
    BY <1>0, <1>10, Bounds, ReadinessAssumption, OlderCounts, SMT DEF Tick, Ages
  <1>11. CASE UNCHANGED vars
    BY <1>0, <1>11 DEF vars, health, pod, Ages
  <1> QED
    BY <1>1, <1>2, <1>3, <1>4, <1>5, <1>6, <1>7, <1>8, <1>9, <1>10, <1>11 DEF Next, Query, Probe

(* What a clock tick does to the ages the invariant relates.               *)
LEMMA TickAges ==
  ASSUME Ages, Tick
  PROVE  /\ silence' <= silence + 1 /\ silence' \in Nat
         /\ cached < NoReading => cached' = cached + 1
         /\ cached >= NoReading => cached' = cached
         /\ lastOK < Window => lastOK' = lastOK + 1
         /\ lastOK >= Window => lastOK' = lastOK
         /\ startedAt < Window => startedAt' = startedAt + 1
         /\ startedAt >= Window => startedAt' = startedAt
         /\ sinceProbe' = sinceProbe + 1
  <1>1. /\ silence \in 0..MaxSilence /\ silence' = Older(silence, MaxSilence)
        /\ sinceProbe' = sinceProbe + 1
    BY DEF Ages, Tick
  <1>2. silence' \in 0..MaxSilence /\ silence' <= silence + 1
    BY <1>1, Bounds, OlderCounts
  <1>3. /\ cached \in 0..NoReading /\ cached' = Older(cached, NoReading)
        /\ lastOK \in 0..Window /\ lastOK' = Older(lastOK, Window)
        /\ startedAt \in 0..Window /\ startedAt' = Older(startedAt, Window)
    BY DEF Ages, Tick
  <1>4. /\ cached < NoReading => cached' = cached + 1
        /\ cached >= NoReading => cached' = cached
    BY <1>3, Bounds DEF Older
  <1>5. /\ lastOK < Window => lastOK' = lastOK + 1
        /\ lastOK >= Window => lastOK' = lastOK
    BY <1>3, Bounds DEF Older
  <1>6. /\ startedAt < Window => startedAt' = startedAt + 1
        /\ startedAt >= Window => startedAt' = startedAt
    BY <1>3, Bounds DEF Older
  <1> QED
    BY <1>1, <1>2, <1>4, <1>5, <1>6, Bounds

(* Only an answer makes a reading young, and it ends the silence too.      *)
LEMMA ReadingStep == Inv /\ [Next]_vars => ReadingTellsSilence'
  <1> SUFFICES ASSUME Inv, [Next]_vars PROVE ReadingTellsSilence'
    OBVIOUS
  <1>0. Ages /\ ReadingTellsSilence
    BY TypeParts DEF Inv
  <1> USE DEF ReadingTellsSilence
  <1>1. CASE QueryAnswered
    BY <1>1, Bounds DEF QueryAnswered
  <1>2. CASE Restart
    BY <1>2, Bounds DEF Restart
  <1>3. CASE Tick
    BY <1>0, <1>3, TickAges, Bounds DEF Ages
  <1>4. CASE QueryHit
    BY <1>0, <1>4 DEF QueryHit
  <1>5. CASE QueryFails
    BY <1>0, <1>5 DEF QueryFails
  <1>6. CASE Probe
    BY <1>0, <1>6 DEF Probe, ProbePasses, ProbeFails
  <1>7. CASE Connect \/ Disconnect \/ PrometheusChanges
    BY <1>0, <1>7 DEF Connect, Disconnect, PrometheusChanges
  <1>8. CASE UNCHANGED vars
    BY <1>0, <1>8 DEF vars
  <1> QED
    BY <1>1, <1>2, <1>3, <1>4, <1>5, <1>6, <1>7, <1>8 DEF Next, Query

(* A success is recorded for an answer, or for a reading at most a ttl old. *)
LEMMA LifeStep == Inv /\ [Next]_vars => LifeTellsSilence'
  <1> SUFFICES ASSUME Inv, [Next]_vars PROVE LifeTellsSilence'
    OBVIOUS
  <1>0. Ages /\ ReadingTellsSilence /\ LifeTellsSilence
    BY TypeParts DEF Inv
  <1> USE DEF LifeTellsSilence, SignOfLife
  <1>1. CASE QueryAnswered
    BY <1>1, Bounds DEF QueryAnswered, RecordSuccess
  <1>2. CASE QueryHit
    <2>1. hasOK' = TRUE /\ lastOK' = 0 /\ silence' = silence /\ cached <= TTL
      BY <1>2 DEF QueryHit, RecordSuccess, Hit
    <2> QED
      BY <1>0, <2>1, Bounds DEF ReadingTellsSilence, Ages
  <1>3. CASE Restart
    BY <1>3, Bounds DEF Restart
  <1>4. CASE Tick
    <2>1. hasOK' = hasOK
      BY <1>4 DEF Tick
    <2>2. CASE hasOK
      BY <1>0, <1>4, <2>1, <2>2, TickAges, Bounds DEF Ages
    <2>3. CASE ~hasOK
      BY <1>0, <1>4, <2>1, <2>3, TickAges, Bounds DEF Ages
    <2> QED BY <2>2, <2>3
  <1>5. CASE QueryFails
    BY <1>0, <1>5 DEF QueryFails, health
  <1>6. CASE Probe
    BY <1>0, <1>6 DEF Probe, ProbePasses, ProbeFails, health
  <1>7. CASE Connect \/ Disconnect \/ PrometheusChanges
    BY <1>0, <1>7 DEF Connect, Disconnect, PrometheusChanges, health
  <1>8. CASE UNCHANGED vars
    BY <1>0, <1>8 DEF vars, health
  <1> QED
    BY <1>1, <1>2, <1>3, <1>4, <1>5, <1>6, <1>7, <1>8 DEF Next, Query

(* A probe that passes found a recent sign of life; each one that fails    *)
(* came a period after the one before.                                     *)
LEMMA EndpointStep == Inv /\ [Next]_vars => EndpointTellsSilence'
  <1> SUFFICES ASSUME Inv, [Next]_vars, endpoint' PROVE EndpointTellsSilence'
    BY DEF EndpointTellsSilence
  <1>0. Ages /\ LifeTellsSilence /\ EndpointTellsSilence
    BY TypeParts DEF Inv
  <1>p. failed * ProbePeriod \in Nat
    BY <1>0, Bounds, ProductNat DEF Ages
  <1> USE DEF EndpointTellsSilence
  <1>1. CASE ProbePasses
    <2>1. /\ failed' = 0 /\ sinceProbe' = 0 /\ silence' = silence
          /\ SignOfLife < Window
      BY <1>1 DEF ProbePasses, Ready, SignOfLife
    <2>2. silence < Window + TTL
      <3>1. SignOfLife \in Nat
        BY <1>0, Bounds DEF Ages, SignOfLife
      <3> QED
        BY <1>0, <2>1, <3>1, Bounds DEF LifeTellsSilence, Ages
    <2>3. failed' * ProbePeriod = 0
      BY <2>1, Bounds
    <2> QED
      BY <1>0, <2>1, <2>2, <2>3, Bounds DEF Ages
  <1>2. CASE ProbeFails
    <2>1. /\ sinceProbe = ProbePeriod /\ sinceProbe' = 0 /\ silence' = silence
          /\ endpoint /\ failed' < FailureThreshold
          /\ failed < FailureThreshold => failed' = failed + 1
      BY <1>2 DEF ProbeFails
    <2>2. failed' = failed + 1
      BY <1>0, <2>1
    <2>3. failed' * ProbePeriod = failed * ProbePeriod + ProbePeriod
      BY <1>0, <2>2, Bounds, OneMore DEF Ages
    <2> QED
      BY <1>0, <1>p, <2>1, <2>3, Bounds DEF Ages
  <1>3. CASE Tick
    <2>1. failed' = failed /\ endpoint
      BY <1>3 DEF Tick
    <2> QED
      BY <1>0, <1>3, <1>p, <2>1, TickAges, Bounds DEF Ages
  <1>4. CASE QueryAnswered
    <2>1. /\ failed' = failed /\ sinceProbe' = sinceProbe /\ silence' = 0 /\ endpoint
      BY <1>4 DEF QueryAnswered, pod
    <2> QED
      BY <1>0, <1>p, <2>1, Bounds DEF Ages
  <1>5. CASE Restart
    BY <1>5 DEF Restart
  <1>6. CASE QueryHit \/ QueryFails \/ Connect \/ Disconnect \/ PrometheusChanges
    <2>1. failed' = failed /\ sinceProbe' = sinceProbe /\ silence' = silence /\ endpoint
      BY <1>6 DEF QueryHit, QueryFails, Connect, Disconnect, PrometheusChanges, pod
    <2> QED BY <1>0, <2>1
  <1>7. CASE UNCHANGED vars
    <2>1. failed' = failed /\ sinceProbe' = sinceProbe /\ silence' = silence /\ endpoint
      BY <1>7 DEF vars, pod
    <2> QED BY <1>0, <2>1
  <1> QED
    BY <1>1, <1>2, <1>3, <1>4, <1>5, <1>6, <1>7 DEF Next, Query, Probe

(* Every step preserves the invariant.                                     *)
LEMMA NextInv == Inv /\ [Next]_vars => Inv'
  <1> SUFFICES ASSUME Inv, [Next]_vars PROVE Inv'
    OBVIOUS
  <1>1. TypeOK
    BY DEF Inv
  <1>2. Flags' /\ Ages'
    BY <1>1, FlagsStep, AgesStep
  <1>3. TypeOK'
    BY <1>2 DEF TypeOK, Flags, Ages
  <1>4. ReadingTellsSilence' /\ LifeTellsSilence' /\ EndpointTellsSilence'
    BY ReadingStep, LifeStep, EndpointStep
  <1> QED BY <1>3, <1>4 DEF Inv

(* Every reachable state satisfies the invariant.                          *)
THEOREM ReadinessInvariance == Spec => []Inv
  BY InitInv, NextInv, PTL DEF Spec

(* Every age of the readiness loop stays within its bound.                 *)
THEOREM ReadinessTypeCorrect == Spec => []TypeOK
  <1>1. Inv => TypeOK
    BY DEF Inv
  <1> QED BY <1>1, ReadinessInvariance, PTL

(* /readyz passes for less than a window and a ttl, and the Service routes *)
(* for less than FailureThreshold probe periods more, after Prometheus's   *)
(* last answer or the process's start.                                     *)
THEOREM ReadinessIsRecent == Spec => []EndpointMeansRecentAnswer
  <1>1. Inv => EndpointMeansRecentAnswer
    <2> SUFFICES ASSUME Inv PROVE EndpointMeansRecentAnswer
      OBVIOUS
    <2>0. Ages /\ LifeTellsSilence /\ EndpointTellsSilence
      BY TypeParts DEF Inv
    <2>1. Ready => silence < Window + TTL
      <3> SUFFICES ASSUME Ready PROVE silence < Window + TTL
        OBVIOUS
      <3>1. SignOfLife < Window /\ SignOfLife \in Nat
        BY <2>0, Bounds DEF Ready, SignOfLife, Ages
      <3> QED
        BY <2>0, <3>1, Bounds DEF LifeTellsSilence, Ages
    <2>2. endpoint => silence < Window + TTL + ProbeDelay
      <3> SUFFICES ASSUME endpoint PROVE silence < Window + TTL + ProbeDelay
        OBVIOUS
      <3>1. failed \in Nat /\ failed + 1 \in Nat /\ failed + 1 <= FailureThreshold
        BY <2>0, Bounds DEF EndpointTellsSilence, Ages
      <3>2. (failed + 1) * ProbePeriod <= ProbeDelay
        BY <3>1, Bounds, ProductMonotone DEF ProbeDelay
      <3>3. (failed + 1) * ProbePeriod = failed * ProbePeriod + ProbePeriod
        BY <3>1, Bounds, OneMore
      <3>4. failed * ProbePeriod \in Nat
        BY <3>1, Bounds, ProductNat
      <3>5. silence < Window + TTL + failed * ProbePeriod + sinceProbe /\ sinceProbe <= ProbePeriod
        BY <2>0 DEF EndpointTellsSilence, Ages
      <3> QED
        BY <2>0, <3>2, <3>3, <3>4, <3>5, Bounds DEF Ages
    <2> QED BY <2>1, <2>2 DEF EndpointMeansRecentAnswer
  <1> QED BY <1>1, ReadinessInvariance, PTL

=============================================================================
