---------------------------- MODULE SaturationProofs ----------------------------
(***************************************************************************)
(* Proofs about the score, for all readings, thresholds and activations.   *)
(***************************************************************************)
EXTENDS MCSaturation, TLAPS

(* A positive factor of both sides cancels.                                *)
LEMMA Cancel ==
  ASSUME NEW a \in Int, NEW b \in Int, NEW c \in Nat \ {0}
  PROVE  a * c < b * c <=> a < b
  OBVIOUS

(* A product with a positive factor has the sign of the other one.         *)
LEMMA Sign ==
  ASSUME NEW a \in Int, NEW c \in Nat \ {0}
  PROVE  /\ a * c \in Int /\ c * a = a * c
         /\ a * c < 0 <=> a < 0
         /\ a * c > 0 <=> a > 0
         /\ a * c = 0 <=> a = 0
  OBVIOUS

(* A product of three integers, reordered.                                 *)
LEMMA Commute ==
  ASSUME NEW a \in Int, NEW b \in Int, NEW c \in Int
  PROVE  (a * b) * c = (a * c) * b
  OBVIOUS

(* A product of four integers, reordered.                                  *)
LEMMA CommuteFour ==
  ASSUME NEW a \in Int, NEW b \in Int, NEW c \in Int, NEW d \in Int
  PROVE  (a * b) * (c * d) = (a * c) * (b * d)
  OBVIOUS

-----------------------------------------------------------------------------

(* The comparison, where one side is infinite and where none is.           *)
LEMMA LessCases ==
  ASSUME NEW x \in Float, NEW y \in Float, ~IsNaN(x), ~IsNaN(y)
  PROVE  /\ x[2] > 0 /\ y[2] > 0 => (Less(x, y) <=> x[1] * y[2] < y[1] * x[2])
         /\ x[2] = 0 => (Less(x, y) <=> x[1] < 0 /\ (y[2] > 0 \/ y[1] > 0))
         /\ y[2] = 0 => (Less(x, y) <=> y[1] > 0 /\ (x[2] > 0 \/ x[1] < 0))
<1>1. x[1] \in Int /\ y[1] \in Int /\ x[2] \in Nat /\ y[2] \in Nat
  BY DEF Float
<1>2. Less(x, y) <=> IF x[2] = 0 /\ y[2] = 0 THEN x[1] < 0 /\ y[1] > 0
                     ELSE x[1] * y[2] < y[1] * x[2]
  BY DEF Less
<1>3. (x[2] = 0 => x[1] # 0) /\ (y[2] = 0 => y[1] # 0)
  BY DEF IsNaN
<1>4. CASE x[2] > 0 /\ y[2] > 0
  BY <1>2, <1>4
<1>5. CASE x[2] = 0 /\ y[2] = 0
  BY <1>1, <1>2, <1>3, <1>5
<1>6. CASE x[2] = 0 /\ y[2] > 0
  <2>1. y[1] * x[2] = 0 /\ (x[1] * y[2] < 0 <=> x[1] < 0)
    BY <1>1, <1>6, Sign
  <2> QED
    BY <1>2, <1>6, <2>1
<1>7. CASE x[2] > 0 /\ y[2] = 0
  <2>1. x[1] * y[2] = 0 /\ (y[1] * x[2] > 0 <=> y[1] > 0)
    BY <1>1, <1>7, Sign
  <2>2. 0 < y[1] * x[2] <=> y[1] * x[2] > 0
    BY <1>1
  <2> QED
    BY <1>2, <1>7, <2>1, <2>2
<1> QED
  BY <1>1, <1>4, <1>5, <1>6, <1>7

(* Only numbers and infinities compare.                                    *)
LEMMA LessNumbers ==
  ASSUME NEW x, NEW y, Less(x, y)
  PROVE  ~IsNaN(x) /\ ~IsNaN(y)
  BY DEF Less

(* A number that is less than another is less than all that are not less   *)
(* than that one.                                                          *)
LEMMA LessLess ==
  ASSUME NEW x \in Float, NEW y \in Float, NEW z \in Float, ~IsNaN(z),
         Less(x, y), ~Less(z, y)
  PROVE  Less(x, z)
<1>1. /\ x[1] \in Int /\ y[1] \in Int /\ z[1] \in Int
      /\ x[2] \in Nat /\ y[2] \in Nat /\ z[2] \in Nat
  BY DEF Float
<1>2. ~IsNaN(x) /\ ~IsNaN(y)
  BY LessNumbers
<1>3. CASE x[2] > 0 /\ y[2] > 0 /\ z[2] > 0
  <2>1. x[1] * y[2] < y[1] * x[2] /\ ~(z[1] * y[2] < y[1] * z[2])
    BY <1>2, <1>3, LessCases
  <2> DEFINE p == x[1] * y[2]
             q == y[1] * x[2]
             u == z[1] * y[2]
             v == y[1] * z[2]
  <2>2. p \in Int /\ q \in Int /\ u \in Int /\ v \in Int
    BY <1>1
  <2>3. p * z[2] < q * z[2] /\ ~(u * x[2] < v * x[2])
    BY <1>1, <1>3, <2>1, <2>2, Cancel
  <2>4. /\ p * z[2] = (x[1] * z[2]) * y[2]
        /\ u * x[2] = (z[1] * x[2]) * y[2]
        /\ q * z[2] = v * x[2]
    BY <1>1, Commute
  <2>5. q * z[2] \in Int /\ u * x[2] \in Int /\ v * x[2] \in Int /\ p * z[2] \in Int
    BY <1>1, <2>2
  <2> HIDE DEF p, q, u, v
  <2>6. (x[1] * z[2]) * y[2] < (z[1] * x[2]) * y[2]
    BY <2>3, <2>4, <2>5
  <2>7. x[1] * z[2] \in Int /\ z[1] * x[2] \in Int
    BY <1>1
  <2>8. x[1] * z[2] < z[1] * x[2]
    BY <1>1, <1>3, <2>6, <2>7, Cancel
  <2> QED
    BY <1>2, <1>3, <2>8, LessCases
<1>4. CASE x[2] = 0
  BY <1>1, <1>2, <1>4, LessCases DEF IsNaN
<1>5. CASE y[2] = 0
  BY <1>1, <1>2, <1>5, LessCases DEF IsNaN
<1>6. CASE z[2] = 0 /\ y[2] > 0
  BY <1>1, <1>2, <1>6, LessCases DEF IsNaN
<1> QED
  BY <1>1, <1>3, <1>4, <1>5, <1>6

(* Of two, at most one is less than the other.                             *)
LEMMA LessAsymmetric ==
  ASSUME NEW x \in Float, NEW y \in Float, Less(x, y)
  PROVE  ~Less(y, x)
<1>1. /\ x[1] \in Int /\ y[1] \in Int /\ x[2] \in Nat /\ y[2] \in Nat
  BY DEF Float
<1>2. ~IsNaN(x) /\ ~IsNaN(y)
  BY LessNumbers
<1>3. CASE x[2] > 0 /\ y[2] > 0
  <2>1. x[1] * y[2] < y[1] * x[2] /\ x[1] * y[2] \in Int /\ y[1] * x[2] \in Int
    BY <1>1, <1>2, <1>3, LessCases
  <2>2. ~(y[1] * x[2] < x[1] * y[2])
    BY <2>1
  <2> QED
    BY <1>2, <1>3, <2>2, LessCases
<1>4. CASE x[2] = 0
  BY <1>1, <1>2, <1>4, LessCases
<1>5. CASE y[2] = 0
  BY <1>1, <1>2, <1>5, LessCases
<1> QED
  BY <1>1, <1>3, <1>4, <1>5

(* What is not more than a number is less than what that one is less than. *)
LEMMA LessOfLess ==
  ASSUME NEW x \in Float, NEW y \in Float, NEW z \in Float, ~IsNaN(z),
         Less(x, y), ~Less(x, z)
  PROVE  Less(z, y)
  BY LessLess

-----------------------------------------------------------------------------

(* Percentages are in the order of what they are percentages of.           *)
LEMMA Percent ==
  ASSUME NEW x \in Float
  PROVE  /\ Times(TargetValue, x) = <<100 * x[1], x[2]>>
         /\ Times(TargetValue, x) \in Float
         /\ IsNaN(Times(TargetValue, x)) <=> IsNaN(x)
<1>1. x[1] \in Int /\ x[2] \in Nat
  BY DEF Float
<1>2. Times(TargetValue, x) = <<100 * x[1], x[2]>>
  BY <1>1 DEF Times, TargetValue
<1> QED
  BY <1>1, <1>2 DEF Float, IsNaN

(* The percentages of two ratios compare as the ratios do.                 *)
LEMMA PercentLess ==
  ASSUME NEW x \in Float, NEW y \in Float
  PROVE  Less(Times(TargetValue, x), Times(TargetValue, y)) <=> Less(x, y)
<1> DEFINE X == Times(TargetValue, x)
           Y == Times(TargetValue, y)
<1>1. /\ x[1] \in Int /\ y[1] \in Int /\ x[2] \in Nat /\ y[2] \in Nat
  BY DEF Float
<1>2. /\ X \in Float /\ X[1] = 100 * x[1] /\ X[2] = x[2] /\ (IsNaN(X) <=> IsNaN(x))
      /\ Y \in Float /\ Y[1] = 100 * y[1] /\ Y[2] = y[2] /\ (IsNaN(Y) <=> IsNaN(y))
  BY Percent
<1> SUFFICES Less(X, Y) <=> Less(x, y)
  OBVIOUS
<1> HIDE DEF X, Y
<1>3. CASE IsNaN(x) \/ IsNaN(y)
  BY <1>2, <1>3, LessNumbers
<1>4. CASE ~IsNaN(x) /\ ~IsNaN(y) /\ x[2] > 0 /\ y[2] > 0
  <2>1. x[1] * y[2] \in Int /\ y[1] * x[2] \in Int
    BY <1>1
  <2>2. X[1] * Y[2] = 100 * (x[1] * y[2]) /\ Y[1] * X[2] = 100 * (y[1] * x[2])
    BY <1>1, <1>2
  <2>3. X[1] * Y[2] < Y[1] * X[2] <=> x[1] * y[2] < y[1] * x[2]
    BY <2>1, <2>2
  <2> QED
    BY <1>2, <1>4, <2>3, LessCases
<1>5. CASE ~IsNaN(x) /\ ~IsNaN(y) /\ (x[2] = 0 \/ y[2] = 0)
  <2>1. /\ (X[1] > 0 <=> x[1] > 0) /\ (X[1] < 0 <=> x[1] < 0)
        /\ (Y[1] > 0 <=> y[1] > 0) /\ (Y[1] < 0 <=> y[1] < 0)
    BY <1>1, <1>2
  <2>2. CASE x[2] = 0
    BY <1>2, <1>5, <2>1, <2>2, LessCases
  <2>3. CASE y[2] = 0
    BY <1>2, <1>5, <2>1, <2>3, LessCases
  <2> QED
    BY <1>5, <2>2, <2>3
<1> QED
  BY <1>1, <1>3, <1>4, <1>5, <1>2

(* A quotient by a threshold that limits scaling.                          *)
LEMMA Quotient ==
  ASSUME NEW x \in Float, NEW t \in Float, Limits(t)
  PROVE  /\ t[1] \in Nat \ {0}
         /\ Divide(x, t) = <<x[1] * t[2], x[2] * t[1]>>
         /\ Divide(x, t) \in Float
         /\ IsNaN(Divide(x, t)) <=> IsNaN(x) \/ (x[2] = 0 /\ t[2] = 0)
<1>1. /\ x[1] \in Int /\ x[2] \in Nat /\ t[1] \in Int /\ t[2] \in Nat
  BY DEF Float
<1>2. Zero \in Float /\ ~IsNaN(Zero) /\ Zero[1] = 0 /\ Zero[2] = 1
  BY DEF Zero, Float, IsNaN
<1>3. ~IsNaN(t) /\ Less(Zero, t)
  BY LessNumbers DEF Limits
<1>4. t[1] > 0
  <2>1. CASE t[2] = 0
    BY <1>2, <1>3, <2>1, LessCases
  <2>2. CASE t[2] > 0
    <3>1. Zero[1] * t[2] < t[1] * Zero[2]
      BY <1>2, <1>3, <2>2, LessCases
    <3> QED
      BY <1>1, <1>2, <3>1
  <2> QED
    BY <1>1, <2>1, <2>2
<1>5. Divide(x, t) = <<x[1] * t[2], x[2] * t[1]>>
  BY DEF Divide
<1>6. x[1] * t[2] \in Int /\ x[2] * t[1] \in Nat
  BY <1>1, <1>4
<1>7. x[2] * t[1] = 0 <=> x[2] = 0
  BY <1>1, <1>4, Sign
<1>8. x[1] * t[2] = 0 <=> x[1] = 0 \/ t[2] = 0
  BY <1>1, Sign
<1> QED
  BY <1>1, <1>4, <1>5, <1>6, <1>7, <1>8 DEF Float, IsNaN

(* More of a reading is no less a ratio.                                   *)
LEMMA RatioMonotone ==
  ASSUME NEW x \in Float, NEW u \in Float, NEW t \in Float,
         ~IsNaN(x), ~IsNaN(u), ~Less(u, x)
  PROVE  ~Less(Ratio(u, t), Ratio(x, t))
<1>1. CASE ~Limits(t)
  <2>1. Ratio(u, t) = Zero /\ Ratio(x, t) = Zero
    BY <1>1 DEF Limits, Ratio
  <2>2. ~Less(Zero, Zero)
    BY DEF Less, Zero
  <2> QED
    BY <2>1, <2>2
<1>2. CASE Limits(t)
  <2> DEFINE r == Divide(u, t)
             s == Divide(x, t)
  <2>0. /\ x[1] \in Int /\ x[2] \in Nat /\ u[1] \in Int /\ u[2] \in Nat
        /\ t[2] \in Nat
    BY DEF Float
  <2>1. /\ t[1] \in Nat \ {0} /\ r \in Float /\ s \in Float
        /\ r[1] = u[1] * t[2] /\ r[2] = u[2] * t[1]
        /\ s[1] = x[1] * t[2] /\ s[2] = x[2] * t[1]
    BY <1>2, Quotient
  <2>2. Ratio(u, t) = r /\ Ratio(x, t) = s
    BY <1>2 DEF Limits, Ratio
  <2> HIDE DEF r, s
  <2>3. ASSUME Less(r, s)
        PROVE  FALSE
    <3>1. ~IsNaN(r) /\ ~IsNaN(s)
      BY <2>3, LessNumbers
    <3>2. /\ (r[2] = 0 <=> u[2] = 0) /\ (s[2] = 0 <=> x[2] = 0)
      BY <2>0, <2>1, Sign
    <3>3. t[2] > 0 => /\ (r[1] < 0 <=> u[1] < 0) /\ (r[1] > 0 <=> u[1] > 0)
                      /\ (s[1] < 0 <=> x[1] < 0) /\ (s[1] > 0 <=> x[1] > 0)
      BY <2>0, <2>1, Sign
    <3>4. t[2] = 0 => r[1] = 0 /\ s[1] = 0
      BY <2>0, <2>1
    <3>5. CASE u[2] = 0
      BY <2>0, <2>1, <2>3, <3>1, <3>2, <3>3, <3>4, <3>5, LessCases
    <3>6. CASE x[2] = 0
      <4>1. s[1] > 0 /\ (r[2] > 0 \/ r[1] < 0)
        BY <2>1, <2>3, <3>1, <3>2, <3>6, LessCases
      <4>2. x[1] > 0 /\ (u[2] > 0 \/ u[1] < 0)
        BY <2>0, <2>1, <3>2, <3>3, <3>4, <4>1
      <4> QED
        BY <3>6, <4>2, LessCases
    <3>7. CASE u[2] > 0 /\ x[2] > 0
      <4>0. r[2] > 0 /\ s[2] > 0
        BY <2>0, <2>1, <3>2, <3>7 DEF Float
      <4>1. r[1] * s[2] < s[1] * r[2]
        BY <2>1, <2>3, <3>1, <4>0, LessCases
      <4>2. /\ r[1] * s[2] = (u[1] * x[2]) * (t[2] * t[1])
            /\ s[1] * r[2] = (x[1] * u[2]) * (t[2] * t[1])
        BY <2>0, <2>1, CommuteFour
      <4>3. t[2] > 0
        BY <2>0, <2>1, <3>4, <4>1
      <4>4. /\ t[2] * t[1] \in Nat \ {0}
            /\ u[1] * x[2] \in Int /\ x[1] * u[2] \in Int
        BY <2>0, <2>1, <4>3
      <4>5. u[1] * x[2] < x[1] * u[2]
        BY <4>1, <4>2, <4>4, Cancel
      <4> QED
        BY <3>7, <4>5, LessCases
    <3> QED
      BY <2>0, <3>5, <3>6, <3>7
  <2> QED
    BY <2>2, <2>3
<1> QED
  BY <1>1, <1>2

(* A reading exceeds a per cent of its threshold when its ratio does.      *)
LEMMA OverByRatio ==
  ASSUME NEW a \in Float, NEW x \in Float, NEW t \in Float, Limits(t),
         ~IsNaN(Divide(x, t))
  PROVE  Less(a, Times(TargetValue, Divide(x, t)))
           <=> Less(Times(a, t), Times(TargetValue, x))
<1> DEFINE L == Times(TargetValue, Divide(x, t))
           A == Times(a, t)
           R == Times(TargetValue, x)
<1>0. /\ a[1] \in Int /\ a[2] \in Nat /\ x[1] \in Int /\ x[2] \in Nat /\ t[2] \in Nat
  BY DEF Float
<1>1. /\ t[1] \in Nat \ {0} /\ Divide(x, t) \in Float
      /\ Divide(x, t) = <<x[1] * t[2], x[2] * t[1]>>
      /\ ~IsNaN(x) /\ (x[2] > 0 \/ t[2] > 0)
  BY <1>0, Quotient
<1>2. /\ L \in Float /\ ~IsNaN(L) /\ L[1] = 100 * (x[1] * t[2]) /\ L[2] = x[2] * t[1]
  BY <1>1, Percent
<1>3. /\ R \in Float /\ ~IsNaN(R) /\ R[1] = 100 * x[1] /\ R[2] = x[2]
  BY <1>1, Percent
<1>4. A[1] = a[1] * t[1] /\ A[2] = a[2] * t[2] /\ A \in Float
  BY <1>0, <1>1 DEF Times, Float
<1> SUFFICES Less(a, L) <=> Less(A, R)
  OBVIOUS
<1> HIDE DEF L, A, R
<1>5. /\ (L[2] = 0 <=> x[2] = 0) /\ (A[2] = 0 <=> a[2] = 0 \/ t[2] = 0)
      /\ (A[1] < 0 <=> a[1] < 0) /\ (A[1] > 0 <=> a[1] > 0) /\ (A[1] = 0 <=> a[1] = 0)
  BY <1>0, <1>1, <1>2, <1>4, Sign
<1>6. /\ t[2] > 0 => (L[1] > 0 <=> x[1] > 0)
      /\ t[2] = 0 => L[1] = 0
      /\ R[1] > 0 <=> x[1] > 0
  BY <1>0, <1>2, <1>3, Sign
<1>7. CASE IsNaN(a)
  <2>1. IsNaN(A)
    BY <1>5, <1>7 DEF IsNaN
  <2> QED
    BY <1>7, <2>1, LessNumbers
<1>8. CASE ~IsNaN(a) /\ a[2] = 0
  <2>1. ~IsNaN(A)
    BY <1>5, <1>8 DEF IsNaN
  <2>2. Less(a, L) <=> a[1] < 0 /\ (L[2] > 0 \/ L[1] > 0)
    BY <1>2, <1>8, LessCases
  <2>3. Less(A, R) <=> A[1] < 0 /\ (R[2] > 0 \/ R[1] > 0)
    BY <1>3, <1>4, <1>5, <1>8, <2>1, LessCases
  <2>4. (L[2] > 0 \/ L[1] > 0) <=> (R[2] > 0 \/ R[1] > 0)
    <3>1. L[2] \in Nat /\ R[2] \in Nat
      BY <1>2, <1>3 DEF Float
    <3> QED
      BY <1>0, <1>1, <1>3, <1>5, <1>6, <3>1
  <2> QED
    BY <1>5, <2>2, <2>3, <2>4
<1>9. CASE ~IsNaN(a) /\ a[2] > 0 /\ t[2] > 0
  <2>1. ~IsNaN(A) /\ A[2] > 0 /\ A[2] \in Nat
    BY <1>0, <1>4, <1>5, <1>9 DEF IsNaN, Float
  <2>2. CASE x[2] = 0
    <3>1. Less(a, L) <=> L[1] > 0
      BY <1>2, <1>5, <1>9, <2>2, LessCases
    <3>2. Less(A, R) <=> R[1] > 0
      BY <1>3, <1>4, <2>1, <2>2, LessCases
    <3> QED
      BY <1>6, <1>9, <3>1, <3>2
  <2>3. CASE x[2] > 0
    <3>1. L[2] > 0
      BY <1>2, <1>5, <2>3 DEF Float
    <3>2. Less(a, L) <=> a[1] * L[2] < L[1] * a[2]
      BY <1>2, <1>9, <3>1, LessCases
    <3>3. Less(A, R) <=> A[1] * R[2] < R[1] * A[2]
      BY <1>3, <1>4, <2>1, <2>3, LessCases
    <3>4. a[1] * L[2] = A[1] * R[2]
      BY <1>0, <1>1, <1>2, <1>3, <1>4
    <3>5. L[1] * a[2] = R[1] * A[2]
      BY <1>0, <1>1, <1>2, <1>3, <1>4
    <3> QED
      BY <3>2, <3>3, <3>4, <3>5
  <2> QED
    BY <1>0, <2>2, <2>3
<1>10. CASE ~IsNaN(a) /\ a[2] > 0 /\ t[2] = 0
  <2>1. x[2] > 0 /\ L[2] > 0 /\ L[1] = 0
    BY <1>1, <1>2, <1>5, <1>6, <1>10 DEF Float
  <2>2. Less(a, L) <=> a[1] < 0
    <3>1. Less(a, L) <=> a[1] * L[2] < L[1] * a[2]
      BY <1>2, <1>10, <2>1, LessCases
    <3>2. L[1] * a[2] = 0 /\ L[2] \in Nat \ {0}
      BY <1>0, <1>2, <2>1 DEF Float
    <3> QED
      BY <1>0, <3>1, <3>2, Sign
  <2>3. CASE a[1] = 0
    <3>1. IsNaN(A)
      BY <1>5, <1>10, <2>3 DEF IsNaN
    <3> QED
      BY <2>2, <2>3, <3>1, LessNumbers
  <2>4. CASE a[1] # 0
    <3>1. ~IsNaN(A)
      BY <1>5, <2>4 DEF IsNaN
    <3>2. Less(A, R) <=> A[1] < 0 /\ (R[2] > 0 \/ R[1] > 0)
      BY <1>3, <1>4, <1>5, <1>10, <3>1, LessCases
    <3> QED
      BY <1>3, <1>5, <2>1, <2>2, <3>2
  <2> QED
    BY <2>3, <2>4
<1> QED
  BY <1>0, <1>7, <1>8, <1>9, <1>10

-----------------------------------------------------------------------------

(* math.Max of two float64s is one.                                        *)
LEMMA MaxIsFloat ==
  ASSUME NEW x \in Float, NEW y \in Float
  PROVE  GoMax(x, y) \in Float
<1>1. Inf \in Float /\ NaN \in Float
  BY DEF Inf, NaN, Float
<1> QED
  BY <1>1 DEF GoMax

(* What is below an infinity is all that can be below anything.            *)
LEMMA BelowInfinity ==
  ASSUME NEW a \in Float, NEW z \in Float, IsInf(z)
  PROVE  /\ Less(a, z) <=> ~IsNaN(a) /\ (a[2] > 0 \/ a[1] < 0)
         /\ Less(a, Times(TargetValue, z)) <=> Less(a, z)
<1>1. z[2] = 0 /\ z[1] > 0 /\ ~IsNaN(z) /\ z[1] \in Int
  BY DEF IsInf, IsNaN, Float
<1>2. Less(a, z) <=> ~IsNaN(a) /\ (a[2] > 0 \/ a[1] < 0)
  BY <1>1, LessCases, LessNumbers
<1> DEFINE Z == Times(TargetValue, z)
<1>3. Z \in Float /\ Z[1] = 100 * z[1] /\ Z[2] = 0 /\ ~IsNaN(Z)
  BY <1>1, Percent
<1> HIDE DEF Z
<1>4. Less(a, Z) <=> ~IsNaN(a) /\ (a[2] > 0 \/ a[1] < 0)
  BY <1>1, <1>3, LessCases, LessNumbers
<1> QED
  BY <1>2, <1>4 DEF Z

(* What is less than anything is not NaN and not +Inf.                     *)
LEMMA BelowSomething ==
  ASSUME NEW a \in Float, NEW z \in Float, Less(a, z)
  PROVE  ~IsNaN(a) /\ (a[2] > 0 \/ a[1] < 0)
<1>1. ~IsNaN(a) /\ ~IsNaN(z) /\ a[2] \in Nat
  BY LessNumbers DEF Float
<1> QED
  BY <1>1, LessCases

(* The larger of two numbers exceeds what one of them exceeds.             *)
LEMMA MaxExceeds ==
  ASSUME NEW a \in Float, NEW x \in Float, NEW y \in Float, ~IsNaN(x), ~IsNaN(y)
  PROVE  Less(a, Times(TargetValue, GoMax(x, y)))
           <=> Less(a, Times(TargetValue, x)) \/ Less(a, Times(TargetValue, y))
<1> DEFINE X == Times(TargetValue, x)
           Y == Times(TargetValue, y)
<1>1. X \in Float /\ Y \in Float /\ ~IsNaN(X) /\ ~IsNaN(Y)
  BY Percent
<1>2. CASE IsInf(x) \/ IsInf(y)
  <2>1. GoMax(x, y) = Inf /\ Inf \in Float /\ IsInf(Inf)
    BY <1>2 DEF GoMax, Inf, Float, IsInf
  <2>2. Less(a, Times(TargetValue, GoMax(x, y))) <=> ~IsNaN(a) /\ (a[2] > 0 \/ a[1] < 0)
    BY <2>1, BelowInfinity
  <2>3. Less(a, X) \/ Less(a, Y) => ~IsNaN(a) /\ (a[2] > 0 \/ a[1] < 0)
    BY <1>1, BelowSomething
  <2>4. ~IsNaN(a) /\ (a[2] > 0 \/ a[1] < 0) => Less(a, X) \/ Less(a, Y)
    BY <1>2, BelowInfinity
  <2> QED
    BY <2>2, <2>3, <2>4
<1>3. CASE ~IsInf(x) /\ ~IsInf(y) /\ Less(x, y)
  <2>1. GoMax(x, y) = y
    BY <1>3 DEF GoMax
  <2>2. ~Less(Y, X)
    BY <1>3, LessAsymmetric, PercentLess
  <2> QED
    BY <1>1, <2>1, <2>2, LessLess
<1>4. CASE ~IsInf(x) /\ ~IsInf(y) /\ ~Less(x, y)
  <2>1. GoMax(x, y) = x
    BY <1>4 DEF GoMax
  <2>2. ~Less(X, Y)
    BY <1>4, PercentLess
  <2> QED
    BY <1>1, <2>1, <2>2, LessLess
<1> QED
  BY <1>2, <1>3, <1>4

(* The larger of two does not fall when none of them does.                 *)
LEMMA MaxMonotone ==
  ASSUME NEW x \in Float, NEW y \in Float, NEW u \in Float, NEW v \in Float,
         ~Less(u, x), ~Less(v, y)
  PROVE  ~Less(GoMax(u, v), GoMax(x, y))
<1> SUFFICES ASSUME Less(GoMax(u, v), GoMax(x, y))
             PROVE  FALSE
  OBVIOUS
<1>1. ~IsNaN(GoMax(u, v)) /\ ~IsNaN(GoMax(x, y)) /\ IsNaN(NaN)
  BY LessNumbers DEF NaN, IsNaN
<1>2. ~IsInf(GoMax(u, v))
  <2>1. GoMax(u, v) \in Float /\ GoMax(x, y) \in Float
    BY MaxIsFloat
  <2>2. GoMax(u, v)[2] > 0 \/ GoMax(u, v)[1] < 0
    BY <2>1, BelowSomething
  <2>3. GoMax(u, v)[1] \in Int /\ GoMax(u, v)[2] \in Nat
    BY <2>1 DEF Float
  <2> QED
    BY <2>2, <2>3 DEF IsInf
<1>3. /\ ~IsInf(u) /\ ~IsInf(v) /\ ~IsNaN(u) /\ ~IsNaN(v)
      /\ GoMax(u, v) = IF Less(u, v) THEN v ELSE u
  <2>1. IsInf(Inf)
    BY DEF IsInf, Inf
  <2> QED
    BY <1>1, <1>2, <2>1 DEF GoMax
<1>4. ASSUME NEW z \in Float, NEW w \in Float, ~IsNaN(w), ~IsInf(w), ~Less(w, z)
      PROVE  ~IsInf(z)
  <2>1. w[1] \in Int /\ w[2] \in Nat
    BY DEF Float
  <2>2. w[2] > 0 \/ w[1] < 0
    BY <1>4, <2>1 DEF IsNaN, IsInf
  <2> QED
    BY <1>4, <2>2, BelowInfinity
<1>5. ~IsInf(x) /\ ~IsInf(y)
  BY <1>3, <1>4
<1>6. ~IsNaN(x) /\ ~IsNaN(y) /\ GoMax(x, y) = IF Less(x, y) THEN y ELSE x
  BY <1>1, <1>5 DEF GoMax
<1>7. ~Less(GoMax(u, v), u) /\ ~Less(GoMax(u, v), v)
  <2>1. ~Less(u, u)
    BY LessAsymmetric
  <2>2. ~Less(v, v)
    BY LessAsymmetric
  <2> QED
    BY <1>3, <2>1, <2>2, LessAsymmetric
<1>8. CASE GoMax(x, y) = x
  <2>1. Less(u, x)
    BY <1>3, <1>7, <1>8, MaxIsFloat, LessOfLess
  <2> QED
    BY <2>1
<1>9. CASE GoMax(x, y) = y
  <2>1. Less(v, y)
    BY <1>3, <1>7, <1>9, MaxIsFloat, LessOfLess
  <2> QED
    BY <2>1
<1> QED
  BY <1>6, <1>8, <1>9

-----------------------------------------------------------------------------

(* What Parse and Instant return is made of float64s.                      *)
Float64s ==
  /\ conf.QueueThreshold \in Float /\ conf.KVThreshold \in Float /\ conf.Activation \in Float
  /\ queue.err = "nil" => queue.value \in Float
  /\ kv.err = "nil" => kv.value \in Float

(* floatOr returns a float64.                                              *)
LEMMA ParsedNumber ==
  ASSUME NEW s \in SUBSET Float, NEW def \in Float
  PROVE  parsedOr(s, def) \in Float
  BY DEF parsedOr

(* The two thresholds and the activation that Parse returns are float64s.  *)
LEMMA ParsedSettings ==
  ASSUME NEW m \in Metadata
  PROVE  /\ Parse(m).QueueThreshold \in Float
         /\ Parse(m).KVThreshold \in Float
         /\ Parse(m).Activation \in Float
  BY NumbersAssumption, ParsedNumber DEF Parse

(* A value that Instant returns is a float64.                              *)
LEMMA InstantValue ==
  ASSUME NEW r \in Reply, P!Instant(r).err = "nil"
  PROVE  P!Instant(r).value \in Float
<1>1. /\ r.result # <<>> /\ Head(r.result).number # {}
      /\ P!Instant(r).value = CHOOSE v \in Head(r.result).number : TRUE
  BY DEF P!Instant
<1> QED
  BY <1>1, NumbersAssumption

(* The numbers a decision rests on are float64s: settings and readings     *)
(* come from strconv.ParseFloat, whatever the metadata and the replies.    *)
THEOREM NumbersAreFloats == Spec => []Float64s
<1>1. Init => Float64s
  <2> SUFFICES ASSUME Init
               PROVE  Float64s
    OBVIOUS
  <2>1. PICK m \in Metadata : conf = Parse(m)
    BY DEF Init
  <2>2. queue.err = "missing" /\ kv.err = "missing"
    BY DEF Init
  <2> QED
    BY <2>1, <2>2, ParsedSettings DEF Float64s
<1>2. Float64s /\ [Decide]_vars => Float64s'
  <2>1. ASSUME Float64s, Decide
        PROVE  Float64s'
    <3>1. PICK asked \in Reply, other \in Reply :
            queue' = P!Instant(asked) /\ kv' = P!Instant(other)
      BY <2>1 DEF Decide
    <3>2. conf' = conf
      BY <2>1 DEF Decide
    <3> QED
      BY <2>1, <3>1, <3>2, InstantValue DEF Float64s
  <2>2. ASSUME Float64s, UNCHANGED vars
        PROVE  Float64s'
    BY <2>2 DEF Float64s, vars
  <2> QED
    BY <2>1, <2>2
<1> QED
  BY <1>1, <1>2, PTL DEF Spec

(* A reading, and its ratio to a threshold.                                *)
LEMMA Ratios ==
  ASSUME NEW x \in Float, NEW t \in Float
  PROVE  /\ Ratio(x, t) \in Float
         /\ Limits(t) => Ratio(x, t) = Divide(x, t)
         /\ ~Limits(t) => Ratio(x, t) = Zero /\ Times(TargetValue, Ratio(x, t)) = Zero
<1>1. Zero \in Float /\ Times(TargetValue, Zero) = Zero
  BY DEF Zero, Float, Times, TargetValue
<1> QED
  BY <1>1, Quotient DEF Ratio, Limits

(* One dimension, seen through its ratio or on its own.                    *)
LEMMA OverOrNot ==
  ASSUME NEW got, Reading(got) \in Float, NEW t \in Float, conf.Activation \in Float,
         Usable(got, t)
  PROVE  /\ ~IsNaN(Ratio(Reading(got), t))
         /\ Less(conf.Activation, Times(TargetValue, Ratio(Reading(got), t))) <=> Over(got, t)
<1>1. CASE Limits(t)
  <2>1. ~IsNaN(Divide(Reading(got), t))
    BY <1>1, Quotient DEF Usable
  <2> QED
    BY <1>1, <2>1, Ratios, OverByRatio DEF Over
<1>2. CASE ~Limits(t)
  <2>1. ~IsNaN(Zero)
    BY DEF Zero, IsNaN
  <2> QED
    BY <1>2, <2>1, Ratios DEF Over
<1> QED
  BY <1>1, <1>2

(* IsActive's test of the score decides as each dimension would decide on  *)
(* its own, whatever Parse made of the metadata and Instant of the replies.*)
THEOREM ActiveIsOver == Spec => []ActiveIffADimensionIsOver
<1>1. Float64s => ActiveIffADimensionIsOver
  <2> SUFFICES ASSUME Float64s, Usable(queue, conf.QueueThreshold), Usable(kv, conf.KVThreshold)
               PROVE  Active(score, conf.Activation)
                        <=> Over(queue, conf.QueueThreshold) \/ Over(kv, conf.KVThreshold)
    BY DEF ActiveIffADimensionIsOver
  <2>1. Reading(queue) \in Float /\ Reading(kv) \in Float
    BY DEF Float64s, Reading, Zero, Float
  <2> DEFINE x == Ratio(Reading(queue), conf.QueueThreshold)
             y == Ratio(Reading(kv), conf.KVThreshold)
  <2>2. /\ x \in Float /\ ~IsNaN(x)
        /\ Less(conf.Activation, Times(TargetValue, x)) <=> Over(queue, conf.QueueThreshold)
    BY <2>1, Ratios, OverOrNot DEF Float64s
  <2>3. /\ y \in Float /\ ~IsNaN(y)
        /\ Less(conf.Activation, Times(TargetValue, y)) <=> Over(kv, conf.KVThreshold)
    BY <2>1, Ratios, OverOrNot DEF Float64s
  <2>4. Active(score, conf.Activation)
          <=> Less(conf.Activation, Times(TargetValue, GoMax(x, y)))
    BY DEF Active, score, Score
  <2>5. conf.Activation \in Float
    BY DEF Float64s
  <2> HIDE DEF x, y
  <2> QED
    BY <2>2, <2>3, <2>4, <2>5, MaxExceeds
<1> QED
  BY <1>1, NumbersAreFloats, PTL

(* The score never falls while the load rises, infinite or not.            *)
THEOREM ScoreIsMonotone == Spec => MoreLoadNeverScoresLess
<1>1. ASSUME Float64s, Float64s', [Decide]_vars,
             RisesOrStays(queue, queue'), RisesOrStays(kv, kv')
      PROVE  ~Less(score', score)
  <2>1. /\ Reading(queue) \in Float /\ Reading(kv) \in Float
        /\ Reading(queue') \in Float /\ Reading(kv') \in Float
    BY <1>1 DEF Float64s, Reading, Zero, Float
  <2>2. conf' = conf /\ conf.QueueThreshold \in Float /\ conf.KVThreshold \in Float
    BY <1>1 DEF Decide, vars, Float64s
  <2> DEFINE x == Ratio(Reading(queue), conf.QueueThreshold)
             y == Ratio(Reading(kv), conf.KVThreshold)
             u == Ratio(Reading(queue'), conf.QueueThreshold)
             v == Ratio(Reading(kv'), conf.KVThreshold)
  <2>3. x \in Float /\ y \in Float /\ u \in Float /\ v \in Float
    BY <2>1, <2>2, Ratios
  <2>4. ~Less(u, x) /\ ~Less(v, y)
    BY <1>1, <2>1, <2>2, RatioMonotone DEF RisesOrStays
  <2>5. score = Times(TargetValue, GoMax(x, y)) /\ score' = Times(TargetValue, GoMax(u, v))
    BY <2>2 DEF score, Score, Reading
  <2> HIDE DEF x, y, u, v
  <2>6. ~Less(GoMax(u, v), GoMax(x, y)) /\ GoMax(u, v) \in Float /\ GoMax(x, y) \in Float
    BY <2>3, <2>4, MaxMonotone, MaxIsFloat
  <2> QED
    BY <2>5, <2>6, PercentLess
<1>2. Float64s /\ Float64s' /\ [Decide]_vars =>
        [ Replies /\ Replies' /\ RisesOrStays(queue, queue') /\ RisesOrStays(kv, kv')
            => ~Less(score', score) ]_vars
  BY <1>1
<1> QED
  BY <1>2, NumbersAreFloats, PTL DEF Spec, MoreLoadNeverScoresLess

=============================================================================
