---------------------------- MODULE GoogCcProofs ----------------------------
(* Theorems about GoogCc, for every size of the window, every threshold,   *)
(* all bounds and factors of the rate, any sources, clocks and transits.   *)
EXTENDS GoogCc, SequenceLemmas

-----------------------------------------------------------------------------
(* The regression. *)

(* The running sums of integers exist, which is what the recursive         *)
(* functions of the model choose, and are integers.                        *)
LEMMA RunningSum ==
    ASSUME NEW n \in Nat, NEW c \in [1..n -> Int]
    PROVE  \E h : h = [i \in 0..n |-> IF i = 0 THEN 0 ELSE h[i - 1] + c[i]]
<1>1. PICK z \in Int, m \in Int : z = 0 /\ m = 1
  OBVIOUS
<1>2. PICK h \in [0..n -> Int] : h[0] = z /\ \A i \in 1..n : h[i] = h[i - 1] * m + c[i]
  BY Recurrence, ZenonT(60)
<1>3. \A i \in 1..n : h[i] = h[i - 1] + c[i]
  BY <1>1, <1>2
<1>4. h = [i \in 0..n |-> IF i = 0 THEN 0 ELSE h[i - 1] + c[i]]
  BY <1>1, <1>2, <1>3
<1> QED BY <1>4

LEMMA RunningSumType ==
    ASSUME NEW n \in Nat, NEW c \in [1..n -> Int],
           NEW h, h = [i \in 0..n |-> h[i]], h[0] = 0,
           \A i \in 1..n : h[i] = h[i - 1] + c[i]
    PROVE  h \in [0..n -> Int]
<1>1. \A i \in 1..n : h[i - 1] \in Int => h[i] \in Int
  <2> SUFFICES ASSUME NEW i \in 1..n, h[i - 1] \in Int PROVE h[i] \in Int
    OBVIOUS
  <2>1. c[i] \in Int /\ h[i] = h[i - 1] + c[i]
    OBVIOUS
  <2> QED BY <2>1
<1>2. h[0] \in Int
  OBVIOUS
<1> QED BY <1>1, <1>2, IntegersThroughout

(* Accumulated and Covariance are the running sums that their definitions  *)
(* say they are.                                                           *)
LEMMA AccumulatedSteps ==
    ASSUME NEW ds \in Seq(Int)
    PROVE  /\ Accumulated(ds) \in [0..Len(ds) -> Int]
           /\ Accumulated(ds)[0] = 0
           /\ \A i \in 1..Len(ds) : Accumulated(ds)[i] = Accumulated(ds)[i - 1] + ds[i]
<1> DEFINE P(h) == h = [i \in 0..Len(ds) |-> IF i = 0 THEN 0 ELSE h[i - 1] + ds[i]]
<1>1. Len(ds) \in Nat /\ ds \in [1..Len(ds) -> Int]
  OBVIOUS
<1>2. \E h : P(h)
  BY <1>1, RunningSum
<1>3. Accumulated(ds) = CHOOSE h : P(h)
  BY DEF Accumulated
<1>4. P(Accumulated(ds))
  <2> HIDE DEF P
  <2> QED BY <1>2, <1>3
<1> DEFINE a == Accumulated(ds)
<1>5. a = [i \in 0..Len(ds) |-> a[i]] /\ a[0] = 0 /\ \A i \in 1..Len(ds) : a[i] = a[i - 1] + ds[i]
  BY <1>1, <1>4
<1> QED BY <1>1, <1>5, RunningSumType

LEMMA CovarianceSteps ==
    ASSUME NEW n \in Nat, NEW y \in [0..n -> Int]
    PROVE  /\ Covariance(n, y) \in [0..n -> Int]
           /\ Covariance(n, y)[0] = 0
           /\ \A i \in 1..n :
                 Covariance(n, y)[i] = Covariance(n, y)[i - 1] + (2 * i - (n + 1)) * y[i]
<1> DEFINE c == [i \in 1..n |-> (2 * i - (n + 1)) * y[i]]
           P(h) == h = [i \in 0..n |-> IF i = 0 THEN 0 ELSE h[i - 1] + (2 * i - (n + 1)) * y[i]]
           Q(h) == h = [i \in 0..n |-> IF i = 0 THEN 0 ELSE h[i - 1] + c[i]]
<1>1. c \in [1..n -> Int] /\ \A i \in 1..n : c[i] = (2 * i - (n + 1)) * y[i]
  OBVIOUS
<1>2. \A h : P(h) <=> Q(h)
  <2> SUFFICES ASSUME NEW h
               PROVE  [i \in 0..n |-> IF i = 0 THEN 0 ELSE h[i - 1] + (2 * i - (n + 1)) * y[i]]
                      = [i \in 0..n |-> IF i = 0 THEN 0 ELSE h[i - 1] + c[i]]
    OBVIOUS
  <2>1. \A i \in 0..n : i # 0 => c[i] = (2 * i - (n + 1)) * y[i]
    BY <1>1
  <2> HIDE DEF c
  <2> QED BY <2>1
<1>3. Covariance(n, y) = CHOOSE h : P(h)
  BY DEF Covariance
<1> HIDE DEF c
<1>4. \E h : Q(h)
  BY <1>1, RunningSum
<1>5. Q(Covariance(n, y))
  <2> HIDE DEF P, Q
  <2> QED BY <1>2, <1>3, <1>4
<1> DEFINE a == Covariance(n, y)
<1>6. a = [i \in 0..n |-> a[i]] /\ a[0] = 0 /\ \A i \in 1..n : a[i] = a[i - 1] + c[i]
  BY <1>5
<1> QED BY <1>1, <1>6, RunningSumType

(* The regression weighs the delta of step j + 1 by j * (n - j), the       *)
(* oldest one not at all (summation by parts, one step of it).             *)
LEMMA SlopeByDeltas ==
    ASSUME NEW ds \in Seq(Int), NEW k \in 1..(Len(ds) - 1)
    PROVE  LET n == Len(ds)
               y == Accumulated(ds)
               num == Covariance(n, y)
           IN  num[k + 1] - ((k + 1) * (k + 1 - n)) * y[k + 1]
               = (num[k] - (k * (k - n)) * y[k]) + (k * (n - k)) * ds[k + 1]
<1> DEFINE n == Len(ds)
           y == Accumulated(ds)
           num == Covariance(n, y)
<1>1. n \in Nat /\ k \in Int /\ k + 1 \in 1..n /\ k \in 0..n
  OBVIOUS
<1>2. y \in [0..n -> Int] /\ y[k + 1] = y[k] + ds[k + 1]
  <2>1. (k + 1) - 1 = k
    BY <1>1
  <2> QED BY <1>1, <2>1, AccumulatedSteps
<1>3. num \in [0..n -> Int] /\ num[k + 1] = num[k] + (2 * (k + 1) - (n + 1)) * y[k + 1]
  <2>1. (k + 1) - 1 = k
    BY <1>1
  <2> HIDE DEF y, n
  <2> QED BY <1>1, <1>2, <2>1, CovarianceSteps
<1>4. y[k] \in Int /\ ds[k + 1] \in Int /\ num[k] \in Int
  <2> HIDE DEF y, num
  <2>1. ds[k + 1] \in Int
    BY <1>1
  <2> QED BY <1>1, <1>2, <1>3, <2>1
<1> DEFINE a == y[k]
           b == ds[k + 1]
           m == num[k]
<1>5. (m + (2 * (k + 1) - (n + 1)) * (a + b)) - ((k + 1) * (k + 1 - n)) * (a + b)
      = (m - (k * (k - n)) * a) + (k * (n - k)) * b
  <2>1. a \in Int /\ b \in Int /\ m \in Int
    BY <1>4
  <2> HIDE DEF a, b, m, n
  <2> QED BY <1>1, <2>1
<1> QED BY <1>2, <1>3, <1>5

(* One step of the bound below: what the weights add up to. *)
LEMMA WeightStep ==
    ASSUME NEW n \in Int, NEW k \in Int, NEW th \in Int
    PROVE  th * (((k + 1) * k) * (3 * n - 2 * (k + 1) + 1))
           = th * ((k * (k - 1)) * (3 * n - 2 * k + 1)) + 6 * ((k * (n - k)) * th)
OBVIOUS

(* Deltas that all but the oldest exceed the threshold have a slope that   *)
(* exceeds it, and deltas that all but the oldest stay within it a slope   *)
(* that does: the weights are positive and add up to the denominator.      *)
LEMMA SlopeBounds ==
    ASSUME NEW ds \in Seq(Int), Len(ds) >= 2, NEW th \in Int
    PROVE  /\ SlopeNum(ds) \in Int /\ SlopeDen(ds) \in Int
           /\ (\A j \in 2..Len(ds) : ds[j] > th) => SlopeNum(ds) > th * SlopeDen(ds)
           /\ (\A j \in 2..Len(ds) : ds[j] <= th) => SlopeNum(ds) <= th * SlopeDen(ds)
<1> DEFINE n == Len(ds)
           y == Accumulated(ds)
           num == Covariance(n, y)
           E(k) == num[k] - (k * (k - n)) * y[k]
           W(k) == th * ((k * (k - 1)) * (3 * n - 2 * k + 1))
           AllOver == \A j \in 2..n : ds[j] > th
           AllWithin == \A j \in 2..n : ds[j] <= th
           Good(k) == /\ AllOver => 6 * E(k) >= W(k) + (k - 1)
                      /\ AllWithin => 6 * E(k) <= W(k)
           Bad == {k \in 1..n : ~Good(k)}
<1>1. n \in Nat /\ n >= 2 /\ y \in [0..n -> Int] /\ num \in [0..n -> Int]
  <2>1. n \in Nat /\ n >= 2 /\ y \in [0..n -> Int]
    BY AccumulatedSteps
  <2> HIDE DEF n, y
  <2> QED BY <2>1, CovarianceSteps
<1>2. num[1] = (2 - (n + 1)) * y[1] /\ y[1] \in Int
  <2>1. 1 \in 1..n /\ 1 - 1 = 0 /\ 1 \in 0..n
    BY <1>1
  <2>2. num[1] = num[1 - 1] + (2 * 1 - (n + 1)) * y[1] /\ num[0] = 0
    <3> HIDE DEF n, y
    <3> QED BY <1>1, <2>1, CovarianceSteps
  <2>3. y[1] \in Int
    <3> HIDE DEF n, y
    <3> QED BY <1>1, <2>1
  <2> HIDE DEF n, y, num
  <2> QED BY <1>1, <2>1, <2>2, <2>3
<1>3. \A k \in 1..n : E(k) \in Int /\ W(k) \in Int
  <2> SUFFICES ASSUME NEW k \in 1..n PROVE E(k) \in Int /\ W(k) \in Int
    OBVIOUS
  <2>1. num[k] \in Int /\ y[k] \in Int
    <3> HIDE DEF n, y, num
    <3> QED BY <1>1
  <2> HIDE DEF n, y, num
  <2> QED BY <1>1, <2>1
<1>4. \A k \in 1..(n - 1) : E(k + 1) = E(k) + (k * (n - k)) * ds[k + 1]
  BY SlopeByDeltas
<1>5. \A k \in 1..(n - 1) : W(k + 1) = W(k) + 6 * ((k * (n - k)) * th)
  <2> SUFFICES ASSUME NEW k \in 1..(n - 1)
               PROVE  W(k + 1) = W(k) + 6 * ((k * (n - k)) * th)
    OBVIOUS
  <2>1. (k + 1) - 1 = k /\ k \in Int /\ n \in Int
    BY <1>1
  <2> HIDE DEF n
  <2> QED BY <2>1, WeightStep
<1>6. E(1) = 0 /\ W(1) = 0
  <2> HIDE DEF n, y, num
  <2> QED BY <1>1, <1>2
<1>7. \A k \in 1..(n - 1) : ds[k + 1] \in Int /\ k + 1 \in 2..n /\ k \in 1..n /\ k + 1 \in 1..n
  BY <1>1
<1> HIDE DEF E, W
<1>8. Good(1)
  BY <1>6
<1>9. ASSUME NEW k \in 1..(n - 1), Good(k) PROVE Good(k + 1)
  <2> DEFINE w == k * (n - k)
             d == ds[k + 1]
  <2>1. w \in Int /\ w >= 1 /\ d \in Int /\ k \in Int
    <3>1. k >= 1 /\ n - k >= 1 /\ k \in Int /\ n - k \in Int
      BY <1>1
    <3> HIDE DEF n
    <3>2. k * (n - k) \in Int /\ k * (n - k) >= 1
      BY <3>1
    <3> QED BY <3>1, <3>2, <1>7
  <2>2. E(k + 1) = E(k) + w * d /\ W(k + 1) = W(k) + 6 * (w * th)
    BY <1>4, <1>5
  <2>3. E(k) \in Int /\ W(k) \in Int
    BY <1>3, <1>7
  <2>4. (AllOver => d >= th + 1) /\ (AllWithin => d <= th)
    BY <1>7, <2>1
  <2> DEFINE x == w * d
             z == w * th
             e == E(k)
             v == W(k)
  <2> HIDE DEF w, d, n, AllOver, AllWithin
  <2>5. E(k + 1) = e + x /\ W(k + 1) = v + 6 * z /\ e \in Int /\ v \in Int
          /\ x \in Int /\ z \in Int
    BY <2>1, <2>2, <2>3
  <2>6. ASSUME AllOver PROVE 6 * E(k + 1) >= W(k + 1) + ((k + 1) - 1)
    <3>1. 6 * E(k) >= W(k) + (k - 1) /\ d >= th + 1
      BY <2>4, <2>6, <1>9
    <3>2. 6 * e >= v + (k - 1) /\ x >= z + w
      BY <2>1, <3>1
    <3> HIDE DEF x, z, e, v
    <3> QED BY <2>1, <2>5, <3>2
  <2>7. ASSUME AllWithin PROVE 6 * E(k + 1) <= W(k + 1)
    <3>1. 6 * E(k) <= W(k) /\ d <= th
      BY <2>4, <2>7, <1>9
    <3>2. 6 * e <= v /\ x <= z
      BY <2>1, <3>1
    <3> HIDE DEF x, z, e, v
    <3> QED BY <2>5, <3>2
  <2> QED BY <2>6, <2>7
<1> HIDE DEF Good
<1>10. ASSUME Bad # {} PROVE FALSE
  <2>1. PICK k \in Bad : \A l \in Bad : k <= l
    <3>1. Bad \in SUBSET Nat
      BY <1>1
    <3> HIDE DEF Bad
    <3> QED BY <1>10, <3>1, LeastNumber
  <2>2. k \in 1..n /\ k # 1 /\ ~Good(k)
    BY <1>8, <2>1
  <2>3. k - 1 \in 1..(n - 1) /\ k - 1 \in 1..n /\ ~(k <= k - 1) /\ (k - 1) + 1 = k
    BY <1>1, <2>2
  <2>4. Good(k - 1)
    BY <2>1, <2>3
  <2>5. Good((k - 1) + 1)
    BY <1>9, <2>3, <2>4
  <2> QED BY <2>2, <2>3, <2>5
<1>11. Good(n)
  BY <1>1, <1>10
<1>12. 6 * E(n) = SlopeNum(ds) /\ W(n) = th * SlopeDen(ds) /\ SlopeDen(ds) \in Int
  <2>1. SlopeNum(ds) = 6 * num[n] /\ SlopeDen(ds) = n * (n * n - 1)
    BY DEF SlopeNum, SlopeDen
  <2>2. num[n] \in Int /\ y[n] \in Int
    <3> HIDE DEF n, y, num
    <3> QED BY <1>1
  <2> HIDE DEF n, y, num
  <2>3. E(n) = num[n]
    BY <1>1, <2>2 DEF E
  <2>4. W(n) = th * SlopeDen(ds) /\ SlopeDen(ds) \in Int
    BY <1>1, <2>1 DEF W
  <2> QED BY <2>1, <2>3, <2>4
<1>13. E(n) \in Int /\ W(n) \in Int
  BY <1>1, <1>3
<1>14. 6 * E(n) \in Int
  BY <1>13
<1>15. ASSUME AllOver PROVE SlopeNum(ds) > th * SlopeDen(ds)
  <2> DEFINE e == 6 * E(n)
             w == W(n)
  <2>1. e >= w + (n - 1)
    BY <1>11, <1>15 DEF Good
  <2>2. e \in Int /\ w \in Int /\ n \in Int /\ n >= 2
    BY <1>1, <1>13, <1>14
  <2> HIDE DEF e, w, n
  <2>3. e > w
    BY <2>1, <2>2
  <2> QED BY <1>12, <2>3 DEF e, w
<1>16. ASSUME AllWithin PROVE SlopeNum(ds) <= th * SlopeDen(ds)
  BY <1>11, <1>12, <1>16 DEF Good
<1>17. SlopeNum(ds) \in Int
  BY <1>12, <1>14
<1> QED BY <1>12, <1>15, <1>16, <1>17, Zenon

(* The product of two numbers is at most that of their bounds. *)
LEMMA ProductBound ==
    ASSUME NEW w \in Int, NEW e \in Int, NEW c \in Nat, NEW t \in Nat,
           -c <= w, w <= c, -t <= e, e <= t
    PROVE  w * e <= t * c
<1>1. CASE w >= 0
  <2>1. w * e <= w * t
    BY <1>1
  <2>2. w * t <= c * t
    BY <1>1
  <2>3. w * e \in Int /\ w * t \in Int /\ c * t \in Int /\ c * t = t * c
    OBVIOUS
  <2> QED BY <2>1, <2>2, <2>3
<1>2. CASE w < 0
  <2> DEFINE v == -w
  <2>1. v \in Int /\ v >= 0 /\ v <= c /\ w * e = v * (-e) /\ -e <= t
    BY <1>2
  <2> HIDE DEF v
  <2>2. v * (-e) <= v * t /\ v * t <= c * t
    BY <2>1
  <2>3. v * (-e) \in Int /\ v * t \in Int /\ c * t \in Int /\ c * t = t * c
    BY <2>1
  <2> QED BY <2>1, <2>2, <2>3
<1> QED BY <1>1, <1>2

(* Numbers that lie within 2 * th of one another lie within th of some one *)
(* number: the least of them, plus th.                                     *)
LEMMA Midpoint ==
    ASSUME NEW n \in Nat, n >= 1, NEW y \in [0..n -> Int], NEW th \in Nat,
           \A i, j \in 1..n : y[i] - y[j] <= 2 * th
    PROVE  \E m \in Int : \A i \in 1..n : -th <= y[i] - m /\ y[i] - m <= th
<1> DEFINE S == {(y[i] - y[1]) + 2 * th : i \in 1..n}
<1>1. 1 \in 1..n /\ \A i \in 1..n : y[i] \in Int
  OBVIOUS
<1>2. S \in SUBSET Nat /\ S # {}
  <2>1. \A i \in 1..n : (y[i] - y[1]) + 2 * th \in Nat
    <3> SUFFICES ASSUME NEW i \in 1..n PROVE (y[i] - y[1]) + 2 * th \in Nat
      OBVIOUS
    <3>1. y[1] - y[i] <= 2 * th /\ y[1] \in Int /\ y[i] \in Int
      BY <1>1
    <3> QED BY <3>1
  <2> QED BY <1>1, <2>1
<1>3. PICK v \in S : \A x \in S : v <= x
  <2> HIDE DEF S
  <2> QED BY <1>2, LeastNumber
<1>4. PICK l \in 1..n : v = (y[l] - y[1]) + 2 * th
  BY <1>3
<1>5. \A i \in 1..n : -th <= y[i] - (y[l] + th) /\ y[i] - (y[l] + th) <= th
  <2> SUFFICES ASSUME NEW i \in 1..n
               PROVE  -th <= y[i] - (y[l] + th) /\ y[i] - (y[l] + th) <= th
    OBVIOUS
  <2>1. v <= (y[i] - y[1]) + 2 * th
    BY <1>3
  <2>2. y[i] \in Int /\ y[l] \in Int /\ y[1] \in Int /\ y[i] - y[l] <= 2 * th
    BY <1>1
  <2> DEFINE a == y[i]
             b == y[l]
             c == y[1]
  <2>3. v = (b - c) + 2 * th /\ v <= (a - c) + 2 * th /\ a - b <= 2 * th
          /\ a \in Int /\ b \in Int /\ c \in Int
    BY <1>4, <2>1, <2>2
  <2> HIDE DEF a, b, c
  <2>4. b <= a
    BY <2>3
  <2>5. -th <= a - (b + th) /\ a - (b + th) <= th
    BY <2>3, <2>4
  <2> QED BY <2>5 DEF a, b
<1>6. y[l] + th \in Int
  BY <1>1
<1> QED BY <1>5, <1>6

(* The weights of the regression add up to zero, so it is of the           *)
(* deviations from any one number; each weight is at most n - 1.           *)
LEMMA SwingBound ==
    ASSUME NEW n \in Nat, n >= 1, NEW y \in [0..n -> Int], NEW th \in Nat, NEW m \in Int,
           \A i \in 1..n : -th <= y[i] - m /\ y[i] - m <= th
    PROVE  Covariance(n, y)[n] <= th * (n * (n - 1))
<1> DEFINE num == Covariance(n, y)
           F(k) == num[k] - m * (k * (k - n))
           Good(k) == F(k) <= th * (k * (n - 1))
           Bad == {k \in 0..n : ~Good(k)}
<1>1. num \in [0..n -> Int] /\ num[0] = 0
        /\ \A i \in 1..n : num[i] = num[i - 1] + (2 * i - (n + 1)) * y[i]
  BY CovarianceSteps
<1> HIDE DEF num
<1>2. Good(0)
  BY <1>1
<1>3. ASSUME NEW k \in 1..n, Good(k - 1) PROVE Good(k)
  <2> DEFINE a == num[k - 1]
             b == y[k]
             w == 2 * k - (n + 1)
  <2>1. a \in Int /\ b \in Int /\ w \in Int /\ num[k] = a + w * b /\ k - 1 \in 0..n
    BY <1>1
  <2>2. -(n - 1) <= w /\ w <= n - 1 /\ n - 1 \in Nat
    OBVIOUS
  <2>3. -th <= b - m /\ b - m <= th /\ b - m \in Int
    BY <2>1
  <2>4. w * (b - m) <= th * (n - 1)
    <3> HIDE DEF w, b
    <3> QED BY <2>1, <2>2, <2>3, ProductBound
  <2>5. a - m * ((k - 1) * ((k - 1) - n)) <= th * ((k - 1) * (n - 1))
    BY <1>3
  <2> HIDE DEF a, b
  <2>6. (a + w * b) - m * (k * (k - n))
        = (a - m * ((k - 1) * ((k - 1) - n))) + w * (b - m)
    BY <2>1
  <2>7. th * (k * (n - 1)) = th * ((k - 1) * (n - 1)) + th * (n - 1)
    OBVIOUS
  <2> DEFINE u == a - m * ((k - 1) * ((k - 1) - n))
             v == w * (b - m)
             p == th * ((k - 1) * (n - 1))
             q == th * (n - 1)
  <2>8. u \in Int /\ v \in Int /\ p \in Int /\ q \in Int /\ u <= p /\ v <= q
    BY <2>1, <2>3, <2>4, <2>5
  <2>9. F(k) = u + v /\ th * (k * (n - 1)) = p + q
    BY <2>1, <2>6, <2>7
  <2> HIDE DEF u, v, p, q, F
  <2> QED BY <2>8, <2>9
<1>4. ASSUME Bad # {} PROVE FALSE
  <2> HIDE DEF Good
  <2>1. PICK k \in Bad : \A l \in Bad : k <= l
    <3>1. Bad \in SUBSET Nat
      OBVIOUS
    <3> HIDE DEF Bad
    <3> QED BY <1>4, <3>1, LeastNumber
  <2>2. k \in 1..n /\ ~Good(k) /\ k - 1 \in 0..n /\ ~(k <= k - 1)
    BY <1>2, <2>1
  <2>3. Good(k - 1)
    BY <2>1, <2>2
  <2> QED BY <1>3, <2>2, <2>3
<1>5. Good(n)
  <2> HIDE DEF Good
  <2> QED BY <1>4
<1>6. F(n) = num[n]
  BY <1>1
<1> HIDE DEF F
<1> QED BY <1>5, <1>6 DEF num

(* The numerator over the shortest windows. *)
LEMMA CovarianceOfThree ==
    ASSUME NEW y \in [0..3 -> Int]
    PROVE  Covariance(3, y)[3] = 2 * (y[3] - y[1])
<1> DEFINE num == Covariance(3, y)
<1>1. 3 \in Nat /\ 1 \in 1..3 /\ 2 \in 1..3 /\ 3 \in 1..3
  OBVIOUS
<1>2. num[0] = 0 /\ \A i \in 1..3 : num[i] = num[i - 1] + (2 * i - (3 + 1)) * y[i]
  BY <1>1, CovarianceSteps
<1> HIDE DEF num
<1>3. /\ num[1] = num[0] + (2 * 1 - (3 + 1)) * y[1]
      /\ num[2] = num[1] + (2 * 2 - (3 + 1)) * y[2]
      /\ num[3] = num[2] + (2 * 3 - (3 + 1)) * y[3]
  BY <1>1, <1>2
<1>4. y[1] \in Int /\ y[2] \in Int /\ y[3] \in Int
  OBVIOUS
<1>5. num[3] = 2 * (y[3] - y[1])
  BY <1>2, <1>3, <1>4
<1> QED BY <1>5 DEF num

LEMMA CovarianceOfFour ==
    ASSUME NEW y \in [0..4 -> Int]
    PROVE  Covariance(4, y)[4] = 3 * (y[4] - y[1]) + (y[3] - y[2])
<1> DEFINE num == Covariance(4, y)
<1>1. 4 \in Nat /\ 1 \in 1..4 /\ 2 \in 1..4 /\ 3 \in 1..4 /\ 4 \in 1..4
  OBVIOUS
<1>2. num[0] = 0 /\ \A i \in 1..4 : num[i] = num[i - 1] + (2 * i - (4 + 1)) * y[i]
  BY <1>1, CovarianceSteps
<1> HIDE DEF num
<1>3. /\ num[1] = num[0] + (2 * 1 - (4 + 1)) * y[1]
      /\ num[2] = num[1] + (2 * 2 - (4 + 1)) * y[2]
      /\ num[3] = num[2] + (2 * 3 - (4 + 1)) * y[3]
      /\ num[4] = num[3] + (2 * 4 - (4 + 1)) * y[4]
  BY <1>1, <1>2
<1>4. y[1] \in Int /\ y[2] \in Int /\ y[3] \in Int /\ y[4] \in Int
  OBVIOUS
<1>5. num[4] = 3 * (y[4] - y[1]) + (y[3] - y[2])
  BY <1>2, <1>3, <1>4
<1> QED BY <1>5 DEF num

(* Running delays that lie within twice the threshold of one another have  *)
(* a slope within it.  Windows of three and four are too short for the     *)
(* general bound and are worked out.                                       *)
LEMMA SmallSwing ==
    ASSUME NEW ds \in Seq(Int), Len(ds) >= 3, NEW th \in Nat,
           \A i, j \in 1..Len(ds) : Accumulated(ds)[i] - Accumulated(ds)[j] <= 2 * th
    PROVE  SlopeNum(ds) <= th * SlopeDen(ds)
<1> DEFINE n == Len(ds)
           y == Accumulated(ds)
           num == Covariance(n, y)
<1>1. n \in Nat /\ n >= 3 /\ y \in [0..n -> Int]
  BY AccumulatedSteps
<1>2. \A i, j \in 1..n : y[i] - y[j] <= 2 * th
  OBVIOUS
<1>3. SlopeNum(ds) = 6 * num[n] /\ SlopeDen(ds) = n * (n * n - 1)
  BY DEF SlopeNum, SlopeDen
<1> HIDE DEF n, y
<1>4. /\ num \in [0..n -> Int] /\ num[0] = 0
      /\ \A i \in 1..n : num[i] = num[i - 1] + (2 * i - (n + 1)) * y[i]
  BY <1>1, CovarianceSteps
<1> HIDE DEF num
<1>5. CASE n = 3
  <2>1. y \in [0..3 -> Int] /\ 3 \in 1..3 /\ 1 \in 1..3
    BY <1>1, <1>5
  <2>2. num[n] = 2 * (y[3] - y[1])
    BY <1>5, <2>1, CovarianceOfThree DEF num
  <2>3. y[3] - y[1] \in Int /\ y[3] - y[1] <= 2 * th
    BY <1>2, <1>5, <2>1
  <2> DEFINE a == y[3] - y[1]
  <2> HIDE DEF a
  <2>4. SlopeNum(ds) = 6 * (2 * a) /\ SlopeDen(ds) = 24 /\ a \in Int /\ a <= 2 * th
    BY <1>3, <1>5, <2>2, <2>3 DEF a
  <2> QED BY <2>4
<1>6. CASE n = 4
  <2>1. y \in [0..4 -> Int] /\ 4 \in 1..4 /\ 3 \in 1..4 /\ 2 \in 1..4 /\ 1 \in 1..4
    BY <1>1, <1>6
  <2>2. num[n] = 3 * (y[4] - y[1]) + (y[3] - y[2])
    BY <1>6, <2>1, CovarianceOfFour DEF num
  <2>3. y[4] - y[1] \in Int /\ y[4] - y[1] <= 2 * th /\ y[3] - y[2] \in Int /\ y[3] - y[2] <= 2 * th
    <3>1. y[4] - y[1] <= 2 * th
      BY <1>2, <1>6, <2>1
    <3>2. y[3] - y[2] <= 2 * th
      BY <1>2, <1>6, <2>1
    <3>3. y[4] \in Int /\ y[3] \in Int /\ y[2] \in Int /\ y[1] \in Int
      BY <2>1
    <3>4. y[4] - y[1] \in Int
      BY <3>3
    <3>5. y[3] - y[2] \in Int
      BY <3>3
    <3> QED BY <3>1, <3>2, <3>4, <3>5, Zenon
  <2> DEFINE a == y[4] - y[1]
             b == y[3] - y[2]
  <2> HIDE DEF a, b
  <2>4. SlopeNum(ds) = 6 * (3 * a + b) /\ SlopeDen(ds) = 60 /\ a \in Int /\ b \in Int
          /\ a <= 2 * th /\ b <= 2 * th
    BY <1>3, <1>6, <2>2, <2>3 DEF a, b
  <2> QED BY <2>4
<1>7. CASE n >= 5
  <2>1. PICK m \in Int : \A i \in 1..n : -th <= y[i] - m /\ y[i] - m <= th
    <3>1. n >= 1
      BY <1>1
    <3> QED BY <1>1, <1>2, <3>1, Midpoint
  <2>2. num[n] <= th * (n * (n - 1))
    <3>1. n >= 1
      BY <1>1
    <3>2. Covariance(n, y)[n] <= th * (n * (n - 1))
      BY <1>1, <2>1, <3>1, SwingBound
    <3> QED BY <3>2 DEF num
  <2> DEFINE q == th * (n * (n - 1))
  <2>3. q \in Int /\ q >= 0
    <3>1. n * (n - 1) \in Nat
      BY <1>1
    <3> QED BY <3>1
  <2>4. th * (n * (n * n - 1)) = q * (n + 1)
    BY <1>1
  <2> HIDE DEF q
  <2>5. q * 6 <= q * (n + 1)
    BY <1>1, <1>7, <2>3
  <2>6. num[n] \in Int /\ num[n] <= q
    BY <1>1, <1>4, <2>2 DEF q
  <2>7. 6 * num[n] <= q * 6
    BY <2>3, <2>6
  <2>8. q * (n + 1) \in Int /\ q * 6 \in Int /\ 6 * num[n] \in Int
    BY <1>1, <2>3, <2>6
  <2> QED BY <1>3, <2>4, <2>5, <2>7, <2>8
<1> QED BY <1>1, <1>5, <1>6, <1>7

-----------------------------------------------------------------------------
(* The rate. *)

LEMMA MinMaxOfTwo ==
    ASSUME NEW a \in Int, NEW b \in Int
    PROVE  /\ Min({a, b}) = IF a <= b THEN a ELSE b
           /\ Max({a, b}) = IF a >= b THEN a ELSE b
<1>1. Min({a, b}) = IF a <= b THEN a ELSE b
  BY DEF Min
<1>2. Max({a, b}) = IF a >= b THEN a ELSE b
  BY DEF Max
<1> QED BY <1>1, <1>2

(* A percentage of a rate is none of it to all of it. *)
LEMMA PercentOf ==
    ASSUME NEW b \in Nat, NEW pct \in 0..100
    PROVE  (b * pct) \div 100 \in 0..b
<1>1. b * pct \in Int /\ 0 <= b * pct /\ b * pct <= b * 100
  OBVIOUS
<1> DEFINE x == b * pct
<1> HIDE DEF x
<1>2. x \div 100 \in Int /\ 0 <= x \div 100 /\ x \div 100 <= b
  BY <1>1 DEF x
<1> QED BY <1>2 DEF x

(* Both arms of update_loss keep the rate in its bounds, and only the      *)
(* high-loss one lowers it.                                                *)
LEMMA RateInBounds ==
    ASSUME NEW b \in GOOGCC_MIN_BPS..GOOGCC_MAX_BPS
    PROVE  /\ Decrease(b) \in GOOGCC_MIN_BPS..GOOGCC_MAX_BPS
           /\ \A loss \in Losses :
                 /\ UpdateLoss(b, loss) \in GOOGCC_MIN_BPS..GOOGCC_MAX_BPS
                 /\ loss # "high" => UpdateLoss(b, loss) >= b
<1>1. /\ b \in Nat /\ GOOGCC_MIN_BPS \in Nat /\ GOOGCC_MAX_BPS \in Nat /\ MinIncrease \in Nat
      /\ GOOGCC_MIN_BPS <= b /\ b <= GOOGCC_MAX_BPS
      /\ AI_PERCENT \in 0..100 /\ MD_PERCENT \in 0..100
  BY BoundsAssumption
<1> DEFINE up == (b * AI_PERCENT) \div 100
           down == (b * MD_PERCENT) \div 100
<1>2. up \in 0..b /\ down \in 0..b
  BY <1>1, PercentOf
<1> HIDE DEF up, down
<1>3. Decrease(b) \in GOOGCC_MIN_BPS..GOOGCC_MAX_BPS
  <2>1. Decrease(b) = IF down >= GOOGCC_MIN_BPS THEN down ELSE GOOGCC_MIN_BPS
    BY <1>1, <1>2, MinMaxOfTwo DEF Decrease, down
  <2> QED BY <1>1, <1>2, <2>1
<1>4. Increase(b) \in GOOGCC_MIN_BPS..GOOGCC_MAX_BPS /\ Increase(b) >= b
  <2> DEFINE s == IF up >= MinIncrease THEN up ELSE MinIncrease
  <2>1. Max({up, MinIncrease}) = s /\ s \in Nat
    BY <1>1, <1>2, MinMaxOfTwo
  <2>2. Increase(b) = Min({b + s, GOOGCC_MAX_BPS})
    BY <2>1 DEF Increase, up
  <2> HIDE DEF s
  <2>3. Increase(b) = IF b + s <= GOOGCC_MAX_BPS THEN b + s ELSE GOOGCC_MAX_BPS
    BY <1>1, <2>1, <2>2, MinMaxOfTwo
  <2> QED BY <1>1, <2>1, <2>3
<1> QED BY <1>1, <1>3, <1>4 DEF UpdateLoss, Losses

-----------------------------------------------------------------------------
(* The detector. *)

(* The state is what the window says, and Normal before three samples. *)
StateFromWindow ==
    state = IF Len(deltas) < 3 THEN "Normal" ELSE Classify(deltas)

(* The counts of the history are borne out by the end of the window. *)
CountsFromWindow ==
    /\ last = Unset => deltas = <<>>
    /\ \A j \in 1..Len(deltas) :
          /\ j > Len(deltas) - rising => deltas[j] > OVERUSE_THRESHOLD
          /\ j > Len(deltas) - sinceRise => deltas[j] <= OVERUSE_THRESHOLD

GInv == TypeOK /\ StateFromWindow /\ CountsFromWindow

LEMMA ClassifyType ==
    ASSUME NEW ds \in Seq(Int), Len(ds) >= 3
    PROVE  /\ Classify(ds) \in {"Underuse", "Normal", "Overuse"}
           /\ (\A j \in 2..Len(ds) : ds[j] > OVERUSE_THRESHOLD) => Classify(ds) = "Overuse"
           /\ (\A j \in 2..Len(ds) : ds[j] <= OVERUSE_THRESHOLD) => Classify(ds) # "Overuse"
<1>1. Len(ds) >= 2 /\ OVERUSE_THRESHOLD \in Int
  BY ThresholdAssumption
<1> DEFINE num == SlopeNum(ds)
           bar == OVERUSE_THRESHOLD * SlopeDen(ds)
<1>2. /\ num \in Int /\ bar \in Int
      /\ (\A j \in 2..Len(ds) : ds[j] > OVERUSE_THRESHOLD) => num > bar
      /\ (\A j \in 2..Len(ds) : ds[j] <= OVERUSE_THRESHOLD) => num <= bar
  BY <1>1, SlopeBounds
<1>3. Classify(ds) = CASE num > bar -> "Overuse" [] num < -bar -> "Underuse" [] OTHER -> "Normal"
  BY DEF Classify
<1>4. bar >= 0
  <2>1. Len(ds) * (Len(ds) * Len(ds) - 1) >= 0 /\ SlopeDen(ds) \in Int
    <3> DEFINE n == Len(ds)
    <3>1. n \in Int /\ n >= 3
      OBVIOUS
    <3> HIDE DEF n
    <3>2. n * (n * n - 1) >= 0 /\ n * (n * n - 1) \in Int
      BY <3>1
    <3> QED BY <3>2 DEF n, SlopeDen
  <2> DEFINE den == SlopeDen(ds)
  <2>2. den >= 0 /\ den \in Int
    BY <2>1 DEF SlopeDen
  <2> HIDE DEF den
  <2> QED BY <1>1, <2>2, ThresholdAssumption DEF den
<1> HIDE DEF num, bar
<1>5. CASE num > bar
  <2>1. ~(num < -bar) /\ ~(num <= bar)
    BY <1>2, <1>4, <1>5
  <2> QED BY <1>2, <1>3, <1>5, <2>1
<1>6. CASE ~(num > bar)
  BY <1>2, <1>3, <1>6
<1> QED BY <1>5, <1>6

(* Update slides the window by one: the newest delta comes last, and the   *)
(* rest keep their places from the end.                                    *)
LEMMA UpdateSlides ==
    ASSUME TypeOK, NEW delta \in Int, Update(delta)
    PROVE  /\ deltas' \in Seq(Int)
           /\ Len(deltas') \in 1..WINDOW /\ Len(deltas') >= Len(deltas)
           /\ deltas'[Len(deltas')] = delta
           /\ \A j \in 1..Len(deltas') : j < Len(deltas') =>
                 LET k == j + (Len(deltas) + 1 - Len(deltas'))
                 IN  k \in 1..Len(deltas) /\ deltas'[j] = deltas[k]
<1>1. WINDOW \in Nat /\ WINDOW >= 4 /\ deltas \in Seq(Int) /\ Len(deltas) \in Nat
        /\ Len(deltas) <= WINDOW
  BY WindowAssumption DEF TypeOK
<1>2. CASE Len(deltas) >= WINDOW
  <2> DEFINE s == Tail(deltas)
  <2>1. deltas' = Append(s, delta)
    BY <1>2 DEF Update
  <2>2. s \in Seq(Int) /\ Len(s) = Len(deltas) - 1 /\ \A j \in 1..Len(s) : s[j] = deltas[j + 1]
    <3>1. deltas # <<>>
      BY <1>1, <1>2
    <3> QED BY <1>1, <3>1
  <2> HIDE DEF s
  <2>3. /\ deltas' \in Seq(Int) /\ Len(deltas') = Len(s) + 1 /\ deltas'[Len(s) + 1] = delta
        /\ \A j \in 1..Len(s) : deltas'[j] = s[j]
    BY <2>1, <2>2
  <2>4. Len(deltas') = Len(deltas) /\ Len(deltas') \in 1..WINDOW
    BY <1>1, <1>2, <2>2, <2>3
  <2>5. ASSUME NEW j \in 1..Len(deltas'), j < Len(deltas')
        PROVE  LET k == j + (Len(deltas) + 1 - Len(deltas'))
               IN  k \in 1..Len(deltas) /\ deltas'[j] = deltas[k]
    <3>1. j + (Len(deltas) + 1 - Len(deltas')) = j + 1 /\ j \in 1..Len(s) /\ j + 1 \in 1..Len(deltas)
      BY <1>1, <2>2, <2>3, <2>4, <2>5
    <3>2. deltas'[j] = deltas[j + 1]
      BY <3>1, <2>2, <2>3
    <3> QED BY <3>1, <3>2
  <2> QED BY <2>2, <2>3, <2>4, <2>5
<1>3. CASE ~(Len(deltas) >= WINDOW)
  <2>1. deltas' = Append(deltas, delta)
    BY <1>3 DEF Update
  <2>2. /\ deltas' \in Seq(Int) /\ Len(deltas') = Len(deltas) + 1
        /\ deltas'[Len(deltas) + 1] = delta
        /\ \A j \in 1..Len(deltas) : deltas'[j] = deltas[j]
    BY <1>1, <2>1
  <2>3. Len(deltas') \in 1..WINDOW
    BY <1>1, <1>3, <2>2
  <2>4. ASSUME NEW j \in 1..Len(deltas'), j < Len(deltas')
        PROVE  LET k == j + (Len(deltas) + 1 - Len(deltas'))
               IN  k \in 1..Len(deltas) /\ deltas'[j] = deltas[k]
    <3>1. j + (Len(deltas) + 1 - Len(deltas')) = j /\ j \in 1..Len(deltas)
      BY <1>1, <2>2, <2>4
    <3> QED BY <3>1, <2>2
  <2> QED BY <2>2, <2>3, <2>4
<1> QED BY <1>2, <1>3

LEMMA GInvInit == Init => GInv
<1> SUFFICES ASSUME Init PROVE GInv
  OBVIOUS
<1>1. deltas \in Seq(Int) /\ Len(deltas) = 0 /\ WINDOW \in Nat /\ WINDOW >= 4
  BY WindowAssumption DEF Init
<1>2. TypeOK
  <2>1. bitrate_bps \in GOOGCC_MIN_BPS..GOOGCC_MAX_BPS /\ rising \in 0..WINDOW
          /\ sinceRise \in 0..WINDOW /\ Len(deltas) <= WINDOW
    BY <1>1, BoundsAssumption DEF Init
  <2>2. enabled \in BOOLEAN /\ path \in Paths \cup {<<>>} /\ lossy \in BOOLEAN
    BY Zenon DEF Init
  <2>4. steadyFor \in 0..(WINDOW + 1)
    BY <1>1 DEF Init
  <2>3. state \in {"Underuse", "Normal", "Overuse"} /\ last \in Samples \cup {Unset}
    BY DEF Init
  <2> QED BY <1>1, <2>1, <2>2, <2>3, <2>4 DEF TypeOK
<1>3. StateFromWindow /\ CountsFromWindow
  BY <1>1 DEF Init, StateFromWindow, CountsFromWindow
<1> QED BY <1>2, <1>3 DEF GInv

(* A sample, from poll_all or from the application. *)
LEMMA SampleStep ==
    ASSUME GInv, NEW d \in Samples, NEW loss \in Losses, OnReceive(d, loss),
           steadyFor' \in 0..(WINDOW + 1)
    PROVE  GInv'
<1>1. d \in Int /\ last \in Samples \cup {Unset} /\ (last # Unset => last \in Int)
  BY SamplesAssumption DEF GInv, TypeOK, Samples, Sources
<1>2. WINDOW \in Nat /\ WINDOW >= 4 /\ rising \in 0..WINDOW /\ sinceRise \in 0..WINDOW
        /\ OVERUSE_THRESHOLD \in Nat /\ deltas \in Seq(Int) /\ Len(deltas) \in Nat
  BY WindowAssumption, ThresholdAssumption DEF GInv, TypeOK
<1>3. /\ rising' = IF Rise(d) THEN Min({rising + 1, WINDOW}) ELSE 0
      /\ sinceRise' = IF Rise(d) THEN 0 ELSE Min({sinceRise + 1, WINDOW})
      /\ last' = d /\ enabled' = enabled /\ path' = path
      /\ lossy' = (loss = "high")
  BY DEF OnReceive
<1>4. /\ rising' \in 0..WINDOW /\ (Rise(d) => rising' <= rising + 1) /\ (~Rise(d) => rising' = 0)
      /\ sinceRise' \in 0..WINDOW /\ (Rise(d) => sinceRise' = 0)
      /\ (~Rise(d) => sinceRise' <= sinceRise + 1)
  <2>1. /\ Min({rising + 1, WINDOW}) = IF rising + 1 <= WINDOW THEN rising + 1 ELSE WINDOW
        /\ Min({sinceRise + 1, WINDOW}) = IF sinceRise + 1 <= WINDOW THEN sinceRise + 1 ELSE WINDOW
    <3>1. rising + 1 \in Int /\ sinceRise + 1 \in Int /\ WINDOW \in Int
      BY <1>2
    <3> DEFINE a == rising + 1
               b == sinceRise + 1
    <3>2. a \in Int /\ b \in Int
      BY <3>1
    <3> HIDE DEF a, b
    <3>3. Min({a, WINDOW}) = IF a <= WINDOW THEN a ELSE WINDOW
      BY <3>1, <3>2, MinMaxOfTwo, Zenon
    <3>4. Min({b, WINDOW}) = IF b <= WINDOW THEN b ELSE WINDOW
      BY <3>1, <3>2, MinMaxOfTwo, Zenon
    <3> QED BY <3>3, <3>4, Zenon DEF a, b
  <2> QED BY <1>2, <1>3, <2>1
<1>5. bitrate_bps' \in GOOGCC_MIN_BPS..GOOGCC_MAX_BPS
  <2>1. bitrate_bps \in GOOGCC_MIN_BPS..GOOGCC_MAX_BPS
    BY DEF GInv, TypeOK
  <2>2. bitrate_bps' \in {Decrease(bitrate_bps), UpdateLoss(bitrate_bps, loss)}
    BY DEF OnReceive
  <2> QED BY <2>1, <2>2, RateInBounds
<1>6. /\ deltas' \in Seq(Int) /\ Len(deltas') <= WINDOW
      /\ state' \in {"Underuse", "Normal", "Overuse"}
      /\ StateFromWindow' /\ CountsFromWindow'
  <2>1. CASE last = Unset
    <3>1. deltas' = deltas /\ state' = state /\ deltas = <<>>
      BY <2>1 DEF OnReceive, GInv, CountsFromWindow
    <3> QED BY <1>2, <3>1 DEF GInv, TypeOK, StateFromWindow, CountsFromWindow
  <2>2. CASE last # Unset
    <3> DEFINE delta == d - last
    <3>1. delta \in Int /\ Update(delta) /\ (Rise(d) <=> delta > OVERUSE_THRESHOLD)
      BY <1>1, <2>2 DEF OnReceive, Rise
    <3> HIDE DEF delta
    <3>2. /\ deltas' \in Seq(Int)
          /\ Len(deltas') \in 1..WINDOW /\ Len(deltas') >= Len(deltas)
          /\ deltas'[Len(deltas')] = delta
          /\ \A j \in 1..Len(deltas') : j < Len(deltas') =>
                LET k == j + (Len(deltas) + 1 - Len(deltas'))
                IN  k \in 1..Len(deltas) /\ deltas'[j] = deltas[k]
      BY <3>1, UpdateSlides DEF GInv
    <3>3. StateFromWindow'
      <4>1. state' = IF Len(deltas') < 3 THEN state ELSE Classify(deltas')
        BY <3>1 DEF Update
      <4>2. Len(deltas') < 3 => state = "Normal"
        BY <1>2, <3>2 DEF GInv, StateFromWindow
      <4> QED BY <4>1, <4>2 DEF StateFromWindow, Classify, SlopeNum, SlopeDen
    <3>4. state' \in {"Underuse", "Normal", "Overuse"}
      <4>1. CASE Len(deltas') < 3
        BY <4>1, <3>1 DEF Update, GInv, TypeOK
      <4>2. CASE Len(deltas') >= 3
        <5>1. state' = Classify(deltas')
          BY <3>1, <3>2, <4>2 DEF Update
        <5> QED BY <3>2, <4>2, <5>1, ClassifyType
      <4> QED BY <3>2, <4>1, <4>2
    <3>5. ASSUME NEW j \in 1..Len(deltas')
          PROVE  /\ j > Len(deltas') - rising' => deltas'[j] > OVERUSE_THRESHOLD
                 /\ j > Len(deltas') - sinceRise' => deltas'[j] <= OVERUSE_THRESHOLD
      <4>1. CASE j = Len(deltas')
        BY <1>2, <1>4, <3>1, <3>2, <4>1
      <4>2. CASE j < Len(deltas')
        <5> DEFINE k == j + (Len(deltas) + 1 - Len(deltas'))
        <5>1. k \in 1..Len(deltas) /\ deltas'[j] = deltas[k]
          BY <3>2, <4>2
        <5>2. /\ j > Len(deltas') - rising' => k > Len(deltas) - rising
              /\ j > Len(deltas') - sinceRise' => k > Len(deltas) - sinceRise
          <6>1. rising' <= rising + 1 /\ sinceRise' <= sinceRise + 1
                  /\ rising' \in Int /\ sinceRise' \in Int
            BY <1>2, <1>4
          <6>2. j \in Int /\ Len(deltas') \in Int
            BY <3>2
          <6> QED BY <1>2, <6>1, <6>2
        <5> HIDE DEF k
        <5> QED BY <5>1, <5>2 DEF GInv, CountsFromWindow
      <4> QED BY <3>2, <4>1, <4>2
    <3>6. CountsFromWindow'
      <4>1. last' # Unset
        BY <1>1, <1>3, UnsetAssumption
      <4> QED BY <3>5, <4>1 DEF CountsFromWindow
    <3> QED BY <1>2, <3>2, <3>3, <3>4, <3>6
  <2> QED BY <2>1, <2>2
<1>7. TypeOK'
  BY <1>3, <1>4, <1>5, <1>6 DEF GInv, TypeOK, Samples, Sources, Paths
<1> QED BY <1>6, <1>7 DEF GInv

LEMMA GInvStep == GInv /\ [Next]_vars => GInv'
<1> SUFFICES ASSUME GInv, [Next]_vars PROVE GInv'
  OBVIOUS
<1>1. ASSUME NEW s \in Sources, NEW t \in Transits, NEW loss \in Losses,
             Delivers(s, t, loss), OnReceive(Clock[s] + t, loss)
      PROVE  GInv'
  <2>1. Clock[s] + t \in Samples
    BY DEF Samples
  <2>2. steadyFor' \in 0..(WINDOW + 1)
    <3>1. steadyFor \in 0..(WINDOW + 1) /\ WINDOW \in Nat
      BY WindowAssumption DEF GInv, TypeOK
    <3>2. Min({steadyFor + 1, WINDOW + 1})
            = IF steadyFor + 1 <= WINDOW + 1 THEN steadyFor + 1 ELSE WINDOW + 1
      BY <3>1, MinMaxOfTwo
    <3> QED BY <1>1, <3>1, <3>2 DEF Delivers
  <2> QED BY <1>1, <2>1, <2>2, SampleStep
<1>2. CASE PollAll
  BY <1>1, <1>2 DEF PollAll, Losses, Sources
<1>5. ASSUME NEW t \in Transits, NEW loss \in Losses, ManualFeed(t, loss) PROVE GInv'
  BY <1>1, <1>5 DEF ManualFeed, Sources
<1>3. CASE Enable
  <2>1. deltas' \in Seq(Int) /\ Len(deltas') = 0 /\ WINDOW \in Nat /\ WINDOW >= 4
    BY <1>3, WindowAssumption DEF Enable
  <2>2. TypeOK'
    <3>1. bitrate_bps' \in GOOGCC_MIN_BPS..GOOGCC_MAX_BPS /\ rising' \in 0..WINDOW
            /\ sinceRise' \in 0..WINDOW /\ Len(deltas') <= WINDOW
      BY <1>3, <2>1, BoundsAssumption DEF Enable
    <3>2. enabled' \in BOOLEAN /\ lossy' \in BOOLEAN
      BY <1>3, Zenon DEF Enable
    <3>4. path' \in Paths \cup {<<>>} /\ steadyFor' \in 0..(WINDOW + 1)
      BY <1>3 DEF Enable, GInv, TypeOK
    <3>3. state' \in {"Underuse", "Normal", "Overuse"} /\ last' \in Samples \cup {Unset}
      BY <1>3 DEF Enable
    <3> QED BY <2>1, <3>1, <3>2, <3>3, <3>4 DEF TypeOK, Paths, Samples, Sources
  <2>3. StateFromWindow' /\ CountsFromWindow'
    BY <1>3, <2>1 DEF Enable, StateFromWindow, CountsFromWindow
  <2> QED BY <2>2, <2>3 DEF GInv
<1>4. CASE ReapDead \/ Settle \/ UNCHANGED vars
  <2>1. UNCHANGED <<deltas, state, last, bitrate_bps, lossy, rising, sinceRise, steadyFor>>
          /\ enabled' \in BOOLEAN /\ path' \in Paths \cup {<<>>}
    BY <1>4 DEF ReapDead, Settle, vars, history, GInv, TypeOK
  <2> QED BY <2>1 DEF GInv, TypeOK, StateFromWindow, CountsFromWindow, Samples, Sources, Paths, Classify,
         SlopeNum, SlopeDen
<1> QED BY <1>2, <1>3, <1>4, <1>5 DEF Next

(* The window, the state and the counts agree in every state. *)
THEOREM DetectorFollowsWindow == Spec => []GInv
BY GInvInit, GInvStep, PTL DEF Spec

(* AimdController keeps its rate within the bounds it was made with and    *)
(* TrendlineDetector its window within WINDOW, every field in its type,    *)
(* for any factors, bounds and feeds.                                      *)
THEOREM EstimatorTypes == Spec => []TypeOK
<1>1. GInv => TypeOK
  BY DEF GInv
<1> QED BY <1>1, DetectorFollowsWindow, PTL

(* TrendlineDetector has no false negative, at any WINDOW: the slope of    *)
(* deltas that exceed the threshold, but perhaps the oldest, exceeds it.   *)
THEOREM NoFalseNegative == Spec => []SteadyGrowthIsOveruse
<1>1. ASSUME GInv PROVE SteadyGrowthIsOveruse
  <2> SUFFICES ASSUME Len(deltas) >= 3, rising >= Len(deltas) - 1
               PROVE  state = "Overuse"
    BY DEF SteadyGrowthIsOveruse
  <2>1. deltas \in Seq(Int) /\ Len(deltas) \in Nat /\ rising \in Int
    BY <1>1, WindowAssumption DEF GInv, TypeOK
  <2>2. \A j \in 2..Len(deltas) : deltas[j] > OVERUSE_THRESHOLD
    BY <1>1, <2>1 DEF GInv, CountsFromWindow
  <2>3. state = Classify(deltas)
    BY <1>1, <2>1 DEF GInv, StateFromWindow
  <2> QED BY <2>1, <2>2, <2>3, ClassifyType
<1> QED BY <1>1, DetectorFollowsWindow, PTL

(* No false positive either: on_receive cuts the rate without high loss    *)
(* only while one of the last WINDOW - 1 samples rose by more than the     *)
(* threshold, whatever the other deltas are.                               *)
THEOREM CutsAreJustified == Spec => CutsFollowARise
<1>1. ASSUME GInv, GInv', [Next]_vars
      PROVE  [enabled /\ bitrate_bps' < bitrate_bps =>
                 lossy' \/ sinceRise' < WINDOW - 1]_<<enabled, bitrate_bps>>
  <2> SUFFICES ASSUME enabled, bitrate_bps' < bitrate_bps, ~lossy'
               PROVE  sinceRise' < WINDOW - 1
    OBVIOUS
  <2>1. bitrate_bps \in GOOGCC_MIN_BPS..GOOGCC_MAX_BPS /\ bitrate_bps \in Int /\ bitrate_bps' \in Int
          /\ WINDOW \in Nat /\ WINDOW >= 4
    BY <1>1, BoundsAssumption, WindowAssumption DEF GInv, TypeOK
  <2>2. bitrate_bps' # bitrate_bps
    BY <2>1
  <2>3. PICK d \in Samples, loss \in Losses : OnReceive(d, loss)
    <3>1. ASSUME NEW s \in Sources, NEW t \in Transits, NEW l \in Losses,
                 OnReceive(Clock[s] + t, l)
          PROVE  \E d \in Samples, loss \in Losses : OnReceive(d, loss)
      <4>1. Clock[s] + t \in Samples
        BY DEF Samples
      <4> QED BY <3>1, <4>1
    <3>2. CASE PollAll
      BY <3>1, <3>2 DEF PollAll, Losses, Sources
    <3>3. ASSUME NEW t \in Transits, NEW l \in Losses, ManualFeed(t, l)
          PROVE  \E d \in Samples, loss \in Losses : OnReceive(d, loss)
      BY <3>1, <3>3 DEF ManualFeed, Sources
    <3>4. ~(Enable \/ ReapDead \/ Settle \/ UNCHANGED vars)
      BY <2>2 DEF Enable, ReapDead, Settle, vars
    <3> QED BY <1>1, <3>2, <3>3, <3>4 DEF Next
  <2>4. loss # "high" /\ ~(UpdateLoss(bitrate_bps, loss) < bitrate_bps)
    <3>1. loss # "high"
      BY <2>3 DEF OnReceive
    <3>2. UpdateLoss(bitrate_bps, loss) >= bitrate_bps /\ UpdateLoss(bitrate_bps, loss) \in Int
      BY <2>1, <3>1, RateInBounds, BoundsAssumption
    <3> QED BY <2>1, <3>1, <3>2
  <2>5. state' = "Overuse"
    BY <2>3, <2>4 DEF OnReceive
  <2>6. Len(deltas') >= 3 /\ deltas' \in Seq(Int) /\ Len(deltas') <= WINDOW /\ sinceRise' \in Int
          /\ Classify(deltas') = "Overuse"
    BY <1>1, <2>5, <2>1 DEF GInv, StateFromWindow, TypeOK, Classify, SlopeNum, SlopeDen
  <2>7. PICK j \in 2..Len(deltas') : ~(deltas'[j] <= OVERUSE_THRESHOLD)
    BY <2>6, ClassifyType
  <2>8. ~(j > Len(deltas') - sinceRise')
    BY <1>1, <2>6, <2>7 DEF GInv, CountsFromWindow
  <2> QED BY <2>1, <2>6, <2>7, <2>8
<1> QED BY <1>1, DetectorFollowsWindow, PTL DEF Spec, CutsFollowARise

(* TrendlineDetector tolerates jitter, and publishers whose RTP clocks are *)
(* close, at any WINDOW: samples within twice the threshold of one another *)
(* are not taken for overuse.  (Farther apart they can be, which the run   *)
(* googcc_clocks shows.)                                                   *)
THEOREM JitterTolerated == Spec => []JitterIsHarmless
<1>1. ASSUME GInv PROVE JitterIsHarmless
  <2> SUFFICES ASSUME \A i, j \in 1..Len(deltas) :
                          Accumulated(deltas)[i] - Accumulated(deltas)[j] <= 2 * OVERUSE_THRESHOLD
               PROVE  state # "Overuse"
    BY DEF JitterIsHarmless
  <2>1. deltas \in Seq(Int) /\ Len(deltas) \in Nat
    BY <1>1 DEF GInv, TypeOK
  <2>2. CASE Len(deltas) < 3
    BY <1>1, <2>2 DEF GInv, StateFromWindow
  <2>3. CASE Len(deltas) >= 3
    <3> DEFINE num == SlopeNum(deltas)
               bar == OVERUSE_THRESHOLD * SlopeDen(deltas)
    <3>1. num <= bar
      BY <2>1, <2>3, SmallSwing, ThresholdAssumption
    <3>2. num \in Int /\ bar \in Int
      BY <2>1, <2>3, SlopeBounds, ThresholdAssumption
    <3>3. state = CASE num > bar -> "Overuse" [] num < -bar -> "Underuse" [] OTHER -> "Normal"
      BY <1>1, <2>1, <2>3 DEF GInv, StateFromWindow, Classify
    <3> HIDE DEF num, bar
    <3>4. ~(num > bar)
      BY <3>1, <3>2
    <3> QED BY <3>3, <3>4
  <2> QED BY <2>1, <2>2, <2>3
<1> QED BY <1>1, DetectorFollowsWindow, PTL

=============================================================================
