--------------------------- MODULE MCSfuRegistry ---------------------------
(* Instances of SfuRegistry for TLC: three clients, one of them a relay,   *)
(* so that a join, a leave and an old member can meet.                     *)
EXTENDS SfuRegistry

CONSTANTS a, b, r

ThreeIds == {a, b, r}
OneRelay == {r}
TwoIds   == {a, r}
OneMid   == {"video"}

(* Retain is the standard filter of a sequence. *)
ASSUME RetainIsSelectSeq ==
    \A s \in SetToAllKPermutations(ThreeIds), drop \in SUBSET ThreeIds :
        Retain(s, drop) = SelectSeq(s, LAMBDA c : c \notin drop)

=============================================================================
