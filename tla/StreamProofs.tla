----------------------------- MODULE StreamProofs -----------------------------
(***************************************************************************)
(* Proofs about Stream for every metadata KEDA may send.                   *)
(***************************************************************************)
EXTENDS Stream, TLAPS

(* What the loop knows outside its select: the backoff it would double     *)
(* next is the one its failures so far have led to.                        *)
LoopKnows ==
  /\ loop # "closed" => failures < max /\ backoff = Law(failures)
  /\ loop = "send" => failures = 0
  /\ loop = "select" => timer # "off" /\ wait = backoff
  /\ loop # "select" => timer = "off"

Inv == TypeOK /\ LoopKnows

-----------------------------------------------------------------------------

(* Durations within the range of int64 are not changed by it.              *)
LEMMA WrapFits ==
  ASSUME NEW d \in 0..MaxInt
  PROVE  Wrap(d) = d
  <1>1. MaxInt \in Nat /\ d \in Nat
    BY StreamAssumption
  <1>2. d + MaxInt + 1 \in 0..(2 * MaxInt + 1)
    BY <1>1
  <1>3. (d + MaxInt + 1) % (2 * MaxInt + 2) = d + MaxInt + 1
    BY <1>1, <1>2
  <1> QED
    BY <1>1, <1>3 DEF Wrap

(* One more failure takes the backoff from one value of the law to the     *)
(* next, without overflow.                                                 *)
LEMMA BackoffStep ==
  ASSUME NEW i \in Interval, NEW n \in Nat, interval = i
  PROVE  nextStreamBackoff(Law(n), i) = Law(n + 1)
  <1>1. i \in Nat /\ i > 0 /\ 16 * i <= MaxInt /\ MaxInt \in Nat
    BY StreamAssumption DEF Interval
  <1>2. Law(n) \in {i, 2 * i, 4 * i, 8 * i}
    BY <1>1 DEF Law
  <1>3. Wrap(Law(n) * 2) = Law(n) * 2
    <2>1. Law(n) * 2 \in 0..MaxInt
      BY <1>1, <1>2
    <2> QED BY <2>1, WrapFits
  <1>4. Wrap(i * 8) = i * 8
    <2>1. i * 8 \in 0..MaxInt
      BY <1>1
    <2> QED BY <2>1, WrapFits
  <1>5. nextStreamBackoff(Law(n), i) = IF Law(n) * 2 > i * 8 THEN i * 8 ELSE Law(n) * 2
    BY <1>3, <1>4 DEF nextStreamBackoff, maxStreamBackoffMultiplier
  <1>6. CASE n = 0
    BY <1>1, <1>5, <1>6 DEF Law
  <1>7. CASE n = 1
    BY <1>1, <1>5, <1>7 DEF Law
  <1>8. CASE n = 2
    BY <1>1, <1>5, <1>8 DEF Law
  <1>9. CASE n > 2
    BY <1>1, <1>5, <1>9 DEF Law
  <1> QED
    BY <1>6, <1>7, <1>8, <1>9

-----------------------------------------------------------------------------

(* Whatever Parse finds in the two keys, it returns settings the loop can  *)
(* work with: a default or a positive value.                               *)
LEMMA ParsedSettings ==
  ASSUME NEW m \in Metadata
  PROVE  /\ Parse(m).StreamPollInterval \in Interval
         /\ Parse(m).StreamMaxConsecutiveFailures \in MaxFailures
  <1> DEFINE d == Field(m, "streamPollInterval")
             n == Field(m, "streamMaxConsecutiveFailures")
             D == Default.StreamPollInterval
             N == Default.StreamMaxConsecutiveFailures
  <1>1. /\ D \in Interval /\ N \in MaxFailures
        /\ \A x \in d : x \in Int /\ 16 * x <= MaxInt
        /\ n \subseteq Int
    BY StreamAssumption
  <1>2. parsedOr(d, D) = D \/ parsedOr(d, D) \in d
    BY DEF parsedOr
  <1>3. parsedOr(n, N) = N \/ parsedOr(n, N) \in n
    BY DEF parsedOr
  <1>4. positiveDurationOr(d, D) \in Interval
    <2> HIDE DEF d, D
    <2> QED BY <1>1, <1>2 DEF positiveDurationOr, Interval
  <1>5. positiveIntOr(n, N) \in MaxFailures
    <2>1. parsedOr(n, N) \in Int
      BY <1>1, <1>3 DEF MaxFailures
    <2> HIDE DEF n, N
    <2>2. CASE parsedOr(n, N) < 1
      BY <1>1, <2>2 DEF positiveIntOr
    <2>3. CASE ~(parsedOr(n, N) < 1)
      <3>1. parsedOr(n, N) > 0
        BY <2>1, <2>3
      <3> QED BY <2>1, <2>3, <3>1 DEF positiveIntOr, MaxFailures
    <2> QED BY <2>2, <2>3
  <1> QED
    BY <1>4, <1>5 DEF Parse

(* The initial states satisfy the invariant.                               *)
LEMMA InitInv == Init => Inv
  <1> SUFFICES ASSUME Init PROVE Inv
    OBVIOUS
  <1> USE StreamAssumption DEF Interval, MaxFailures
  <1>1. TypeOK
    <2>1. client \in BOOLEAN /\ up \in BOOLEAN
      BY Zenon DEF Init
    <2> QED BY <2>1, SMT DEF Init, TypeOK
  <1>2. LoopKnows
    BY DEF Init, LoopKnows
  <1> QED BY <1>1, <1>2 DEF Inv

(* Every step of the loop and of its environment preserves it.             *)
LEMMA NextInv == Inv /\ [Next]_vars => Inv'
  <1> SUFFICES ASSUME Inv, [Next]_vars PROVE Inv'
    OBVIOUS
  <1> USE DEF Inv
  <1>i. /\ interval \in Interval /\ interval \in Nat /\ max \in MaxFailures /\ max \in Nat
        /\ max > 0 /\ failures \in Nat
    BY StreamAssumption DEF TypeOK, Interval, MaxFailures
  <1>1. CASE Open
    <2>0. PICK m \in Metadata : /\ interval' = Parse(m).StreamPollInterval
                                /\ max' = Parse(m).StreamMaxConsecutiveFailures
      BY <1>1 DEF Open
    <2>1. /\ interval' \in Interval /\ interval' \in Nat /\ interval' \in Int
          /\ max' \in MaxFailures /\ max' \in Nat /\ max' > 0
      BY <2>0, ParsedSettings DEF Interval, MaxFailures
    <2>2. TypeOK'
      BY <1>1, <2>1 DEF Open, Arm, TypeOK
    <2>3. LoopKnows'
      BY <1>1, <2>1 DEF Open, Arm, LoopKnows, Law
    <2> QED BY <2>2, <2>3
  <1>2. CASE TimerFires
    BY <1>2 DEF TimerFires, config, TypeOK, LoopKnows, Law
  <1>3. CASE SelectDone
    BY <1>3 DEF SelectDone, Close, config, TypeOK, LoopKnows, Law
  <1>4. CASE SelectTick
    BY <1>4 DEF SelectTick, config, TypeOK, LoopKnows, Law
  <1>5. CASE PollFails
    <2>1. /\ backoff = Law(failures) /\ failures' = failures + 1 /\ failures' < max
          /\ interval' = interval /\ max' = max
      BY <1>5 DEF PollFails, config, LoopKnows
    <2>2. backoff' = Law(failures + 1)
      BY <1>5, <2>1, <1>i, BackoffStep DEF PollFails
    <2>3. Law(failures + 1) \in Int
      BY <1>i DEF Law
    <2>4. Law(failures + 1) = Law(failures)'
      BY <2>1 DEF Law
    <2>5. TypeOK'
      BY <1>5, <1>i, <2>1, <2>2, <2>3 DEF PollFails, Arm, config, TypeOK
    <2>6. LoopKnows'
      BY <1>5, <2>1, <2>2, <2>4 DEF PollFails, Arm, LoopKnows
    <2> QED BY <2>5, <2>6
  <1>6. CASE PollFailsForGood
    BY <1>6 DEF PollFailsForGood, Close, config, TypeOK, LoopKnows
  <1>7. CASE PollSucceeds
    BY <1>7, <1>i DEF PollSucceeds, config, TypeOK, LoopKnows, Law
  <1>8. CASE SendSucceeds
    BY <1>8, <1>i DEF SendSucceeds, Arm, config, TypeOK, LoopKnows, Law
  <1>9. CASE SendFails
    BY <1>9 DEF SendFails, Close, config, TypeOK, LoopKnows, Law
  <1>10. CASE ClientLeaves
    BY <1>10 DEF ClientLeaves, config, TypeOK, LoopKnows, Law
  <1>11. CASE PrometheusChanges
    BY <1>11 DEF PrometheusChanges, config, TypeOK, LoopKnows, Law
  <1>12. CASE UNCHANGED vars
    BY <1>12 DEF vars, TypeOK, LoopKnows, Law
  <1> QED
    BY <1>1, <1>2, <1>3, <1>4, <1>5, <1>6, <1>7, <1>8, <1>9, <1>10, <1>11, <1>12
    DEF Next, Poll, Send

(* Every reachable state satisfies the invariant.                          *)
THEOREM StreamInvariance == Spec => []Inv
  BY InitInv, NextInv, PTL DEF Spec

(* Every variable of StreamIsActive's loop stays in its type: durations do *)
(* not overflow for the intervals allowed.                                 *)
THEOREM StreamTypeCorrect == Spec => []TypeOK
  <1>1. Inv => TypeOK
    BY DEF Inv
  <1> QED BY <1>1, StreamInvariance, PTL

(* The wait of a select is the interval doubled per failure since the last *)
(* success, at most eightfold, whatever interval and limit KEDA configures. *)
THEOREM BackoffIsLawful == Spec => []BackoffLaw
  <1>1. Inv => BackoffLaw
    BY DEF Inv, LoopKnows, BackoffLaw
  <1> QED BY <1>1, StreamInvariance, PTL

(* No metadata, however malformed, and no run of failures makes the loop   *)
(* of StreamIsActive spin: each of its waits is positive.                  *)
THEOREM StreamNeverSpins == Spec => []NeverSpins
  <1>1. Inv => NeverSpins
    <2> SUFFICES ASSUME Inv, loop = "select" PROVE wait > 0 /\ max > 0
      BY DEF NeverSpins
    <2>1. interval \in Nat /\ interval > 0 /\ failures \in Nat /\ max > 0
      BY DEF Inv, TypeOK, Interval, MaxFailures
    <2>2. Law(failures) > 0
      BY <2>1 DEF Law
    <2> QED BY <2>1, <2>2 DEF Inv, LoopKnows
  <1> QED BY <1>1, StreamInvariance, PTL

=============================================================================
