------------------------- MODULE MCSubscriberPacer -------------------------
(* Instances of SubscriberPacer for TLC: a handful of bitrates stands for  *)
(* the u64 range (what matters is which of the five thresholds a reading   *)
(* clears, and which thresholds coincide) and a small U8Max lets a streak  *)
(* limit sit at the width of its counter.                                  *)
EXTENDS SubscriberPacer

BpsUpTo5 == 0..5

=============================================================================
