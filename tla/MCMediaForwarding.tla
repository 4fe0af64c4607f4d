------------------------- MODULE MCMediaForwarding -------------------------
(* Instances of MediaForwarding for TLC.  Two of the three layers are      *)
(* sent, by the publisher and by the subscriber itself: the layer asked    *)
(* for may be one that is not sent.  Bytes of two bits, two to a KID,      *)
(* stand for the four bytes of the code.                                   *)
EXTENDS MediaForwarding

LowMedium   == {"LOW", "MEDIUM"}
NoCap       == [av1_dd |-> 3, vfm_fm |-> 3]

=============================================================================
