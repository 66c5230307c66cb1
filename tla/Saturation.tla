------------------------------ MODULE Saturation ------------------------------
(***************************************************************************)
(* internal/saturation and the float64 arithmetic it rests on.             *)
(*                                                                         *)
(* A float64 is a pair <<p, q>> with q >= 0: the rational p/q, +Inf when   *)
(* q = 0 < p, -Inf when p < 0 = q, NaN when both are 0.  Rounding, the     *)
(* range of float64 and the sign of zero are left out: no property is      *)
(* about them.                                                             *)
(***************************************************************************)
EXTENDS Integers

Float == Int \X Nat

Zero == <<0, 1>>
Inf == <<1, 0>>
NaN == <<0, 0>>
TargetValue == <<100, 1>>

IsNaN(x) == x[1] = 0 /\ x[2] = 0
IsInf(x) == x[1] > 0 /\ x[2] = 0

(* x < y, false as soon as one of them is NaN.                             *)
Less(x, y) ==
  /\ ~IsNaN(x) /\ ~IsNaN(y)
  /\ IF x[2] = 0 /\ y[2] = 0 THEN x[1] < 0 /\ y[1] > 0 ELSE x[1] * y[2] < y[1] * x[2]

(* x / t for a positive t: NaN when x is NaN or both are infinite.         *)
Divide(x, t) == <<x[1] * t[2], x[2] * t[1]>>
Times(x, y) == <<x[1] * y[1], x[2] * y[2]>>

(* math.Max: an infinity wins over a NaN, a NaN over any number.           *)
GoMax(x, y) ==
  IF IsInf(x) \/ IsInf(y) THEN Inf
  ELSE IF IsNaN(x) \/ IsNaN(y) THEN NaN
  ELSE IF Less(x, y) THEN y ELSE x

RatioUnguarded(reading, threshold) == Divide(reading, threshold)   \* mutant: no test
Ratio(reading, threshold) ==
  IF Less(Zero, threshold) THEN Divide(reading, threshold) ELSE Zero

(* Mutant: the kv reading only counts when the queue is empty.             *)
ScoreQueueFirst(queue, queueThreshold, kv, kvThreshold) ==
  Times(TargetValue, IF Less(Zero, queue) THEN Ratio(queue, queueThreshold)
                                          ELSE Ratio(kv, kvThreshold))
Score(queue, queueThreshold, kv, kvThreshold) ==
  Times(TargetValue, GoMax(Ratio(queue, queueThreshold), Ratio(kv, kvThreshold)))

(* IsActive's test on the score.                                           *)
Active(score, activation) == Less(activation, score)

=============================================================================
