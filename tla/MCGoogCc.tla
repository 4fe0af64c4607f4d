------------------------------ MODULE MCGoogCc ------------------------------
(* Instances of GoogCc for TLC.  Sources whose clocks are four apart, and  *)
(* transits two apart, twice the threshold: one rise among three samples   *)
(* has the threshold itself for a slope, and three rises in a row fit.  A  *)
(* window of four is one more than the three samples the detector waits    *)
(* for.  The rates run from where the fraction rounds to nothing, and      *)
(* MinIncrease takes over, to where it is more than that; coarser steps    *)
(* than 8 % and 15 % keep them few.                                        *)
EXTENDS GoogCc, TLC

CONSTANTS p1, p2

FewTransits == {0, 2}
Apart       == (p1 :> 0) @@ (p2 :> 4) @@ (App :> 4)

SumOf(c, n) == MapThenSumSet(LAMBDA i : c[i], 1..n)

(* The slope of the model is the quotient num / den of the loop of         *)
(* trendline_slope, here with each deviation from x_bar doubled and each   *)
(* from y_bar times n: over all windows of up to four small deltas.        *)
ASSUME SlopeIsRegression ==
    \A n \in 3..4 : \A ds \in [1..n -> -2..3] :
        LET y   == [i \in 1..n |-> SumOf(ds, i)]
            x   == [i \in 1..n |-> 2 * (i - 1) - (n - 1)]
            num == SumOf([i \in 1..n |-> x[i] * (n * y[i] - SumOf(y, n))], n)
            den == SumOf([i \in 1..n |-> x[i] * x[i]], n)
        IN  SlopeNum(ds) * (n * den) = (2 * num) * SlopeDen(ds)

=============================================================================
