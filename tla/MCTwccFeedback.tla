--------------------------- MODULE MCTwccFeedback ---------------------------
(* An instance of TwccFeedback for TLC: three packets of which the map     *)
(* holds two, delays that differ by more than the threshold (the filter    *)
(* passes through every value between), and a window of three samples in   *)
(* which one loss is held and two are too many.                            *)
EXTENDS TwccFeedback

SomeDelays == {0, 2}

=============================================================================
