---------------------------- MODULE VideoLadder ----------------------------
(***************************************************************************)
(* What a pacer promises, without its streaks and flags: a ladder of five  *)
(* rungs with hysteresis.  0 is suspended, 1 audio-only, 2 to 4 the video  *)
(* layers.  Each reading moves the subscriber at most once.  It climbs     *)
(* only onto a rung whose entry threshold the reading meets and, below     *)
(* video, one rung at a time; it drops only off a rung whose exit          *)
(* threshold the reading misses.                                           *)
(***************************************************************************)
EXTENDS Integers

VARIABLES
    entry, exit,  \* thresholds of rung r at index r + 1, fixed for a pacer
    rung,         \* where the subscriber stands
    reading       \* the last reading

vars == <<entry, exit, rung, reading>>

Rungs == 0..4

(* Hysteresis needs every exit threshold at or below the entry threshold. *)
Init ==
    /\ \A r \in Rungs : exit[r + 1] <= entry[r + 1]
    /\ rung = 2

Climb ==
    \E r \in Rungs :
        /\ r > rung
        /\ rung < 2 => r = rung + 1
        /\ reading' >= entry[r + 1]
        /\ rung' = r

Drop ==
    \E r \in Rungs :
        /\ r < rung
        /\ reading' < exit[rung + 1]
        /\ rung' = r

Stay == rung' = rung

Next ==
    /\ Climb \/ Drop \/ Stay
    /\ UNCHANGED <<entry, exit>>

Spec == Init /\ [][Next]_vars

=============================================================================
