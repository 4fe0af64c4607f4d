------------------------- MODULE MCPacedSubscriber -------------------------
(* Instances of PacedSubscriber for TLC.  The default thresholds (10, 80,  *)
(* 150, 350 and 700 kbps) cut the bitrates into six classes, 0 to 5, and   *)
(* every constant of the code is given the class it falls in: 30 kbps is   *)
(* 1, 100 kbps 2, 300 kbps 3.  Class 4 is left out as a rate, and GoogCC   *)
(* starts at 3 instead of 4, to keep the liveness check small; the pacer   *)
(* meets every class in MCSubscriberPacer.                                 *)
EXTENDS PacedSubscriber

SixClasses == 0..5
AnyRates   == {0, 1, 3, 5}
FewRates   == {3, 5}
LowOrHigh  == {0, 5}
OnlyLow    == {"LOW"}
AllRids    == Rids

Defaults ==
    [suspend_video_bps |-> 1, audio_only_bps |-> 2, low_min_bps |-> 3,
     medium_min_bps |-> 4, high_min_bps |-> 5,
     suspend_streak |-> 2, upgrade_streak |-> 3]

=============================================================================
