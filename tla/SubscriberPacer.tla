-------------------------- MODULE SubscriberPacer --------------------------
(***************************************************************************)
(* bwe/hysteresis.rs: the per-subscriber hysteretic layer selector.  One   *)
(* call of SubscriberPacer::update(bps) is one step; each return path of   *)
(* the method is an action of its own.  The configuration is a field of    *)
(* the pacer, chosen once and accepted only by PacerConfig::validate       *)
(* (bwe/pacer_config.rs), so every valid configuration is an initial       *)
(* state.                                                                  *)
(***************************************************************************)
EXTENDS SimulcastLayers

CONSTANTS
    Bps,      \* bitrates: the readings fed to update and the thresholds
    U8Max     \* u8::MAX, the width of the two streak counters

ASSUME BpsAssumption == Bps \subseteq Nat
ASSUME U8Assumption  == U8Max \in Nat \ {0}

VARIABLES
    config, current_layer, audio_only, suspended,
    upgrade_streak, suspend_streak,
    action,   \* the PacerAction the last update returned
    \* History, read by no action:
    bps,      \* the last reading (NoReading before the first)
    lowRun,   \* how many of the latest readings in a row were below suspend_video_bps
    askRun,   \* the same, readings below suspend_video_bps not interrupting the row
    trend     \* the last move of the rung under the present, unchanged, reading

pacer   == <<current_layer, audio_only, suspended, upgrade_streak, suspend_streak>>
history == <<bps, lowRun, askRun, trend>>
vars    == <<config, pacer, action, history>>

NoReading == -1
Actions   == {"NoChange", "ChangeLayer", "GoAudioOnly", "RestoreVideo",
              "SuspendVideo", "RestoreAudio"}

PacerConfig ==
    [suspend_video_bps : Bps, audio_only_bps : Bps, low_min_bps : Bps,
     medium_min_bps : Bps, high_min_bps : Bps,
     suspend_streak : 0..U8Max, upgrade_streak : 0..U8Max]

(* A validate that checks the streaks and forgets the ordering. *)
ValidateNoOrder(c) == c.upgrade_streak # 0 /\ c.suspend_streak # 0

(* PacerConfig::validate. *)
Validate(c) ==
    /\ c.upgrade_streak # 0
    /\ c.suspend_streak # 0
    /\ c.suspend_video_bps <= c.audio_only_bps
    /\ c.audio_only_bps <= c.low_min_bps
    /\ c.low_min_bps <= c.medium_min_bps
    /\ c.medium_min_bps <= c.high_min_bps

(* try_with_config: a pacer exists only for a configuration that validates. *)
TryWithConfig(c) ==
    /\ Validate(c)
    /\ config = c
    /\ current_layer = "LOW"
    /\ audio_only = FALSE
    /\ suspended = FALSE
    /\ upgrade_streak = 0
    /\ suspend_streak = 0
    /\ action = "NoChange"
    /\ bps = NoReading /\ lowRun = 0 /\ askRun = 0 /\ trend = "none"

(* An increment that stops one short of the width of the counter. *)
SaturatingIncShort(n) == IF n < U8Max - 1 THEN n + 1 ELSE n

(* u8::saturating_add(1). *)
SaturatingInc(n) == IF n < U8Max THEN n + 1 ELSE n

(* fn layer_for_bps. *)
LayerForBps(b) ==
    CASE b >= config.high_min_bps -> "HIGH"
      [] b >= config.medium_min_bps /\ b < config.high_min_bps -> "MEDIUM"
      [] b < config.medium_min_bps /\ b < config.high_min_bps -> "LOW"

(* Where the subscriber stands: suspended, audio-only, or on a video layer. *)
Rung == IF suspended THEN 0 ELSE IF audio_only THEN 1 ELSE 2 + Rank[current_layer]

-----------------------------------------------------------------------------
(* The return paths of update, in the order of the method.  Each is one    *)
(* conjunction of the conditions that lead to the return, the assignments  *)
(* on the way and the value returned.                                      *)

StaySuspended(b) ==
    /\ suspended
    /\ b < config.audio_only_bps
    /\ action' = "NoChange"
    /\ UNCHANGED pacer

(* A restore that forgets that audio-only is the continuation. *)
RestoreAudioToVideo(b) ==
    /\ suspended
    /\ b >= config.audio_only_bps
    /\ suspended' = FALSE
    /\ audio_only' = FALSE
    /\ upgrade_streak' = 0
    /\ suspend_streak' = 0
    /\ action' = "RestoreAudio"
    /\ UNCHANGED current_layer

RestoreAudio(b) ==
    /\ suspended
    /\ b >= config.audio_only_bps
    /\ suspended' = FALSE
    /\ audio_only' = TRUE
    /\ upgrade_streak' = 0
    /\ suspend_streak' = 0
    /\ action' = "RestoreAudio"
    /\ UNCHANGED current_layer

SuspendVideo(b) ==
    /\ ~suspended
    /\ b < config.suspend_video_bps
    /\ SaturatingInc(suspend_streak) >= config.suspend_streak
    /\ suspended' = TRUE
    /\ audio_only' = TRUE
    /\ upgrade_streak' = 0
    /\ suspend_streak' = 0
    /\ action' = "SuspendVideo"
    /\ UNCHANGED current_layer

DebounceSuspend(b) ==
    /\ ~suspended
    /\ b < config.suspend_video_bps
    /\ SaturatingInc(suspend_streak) < config.suspend_streak
    /\ suspend_streak' = SaturatingInc(suspend_streak)
    /\ action' = "NoChange"
    /\ UNCHANGED <<current_layer, audio_only, suspended, upgrade_streak>>

(* A rejected spike that still counts. *)
NotSuspendingKeepStreak(b) ==
    /\ ~suspended
    /\ b >= config.suspend_video_bps
    /\ UNCHANGED <<suspended, suspend_streak>>

(* The spike was rejected: suspend_streak is reset before every path below. *)
NotSuspending(b) ==
    /\ ~suspended
    /\ b >= config.suspend_video_bps
    /\ suspend_streak' = 0
    /\ UNCHANGED suspended

StayAudioOnly(b) ==
    /\ NotSuspending(b)
    /\ audio_only
    /\ b < config.low_min_bps
    /\ action' = "NoChange"
    /\ UNCHANGED <<current_layer, audio_only, upgrade_streak>>

RestoreVideo(b) ==
    /\ NotSuspending(b)
    /\ audio_only
    /\ b >= config.low_min_bps
    /\ audio_only' = FALSE
    /\ current_layer' = "LOW"
    /\ upgrade_streak' = 0
    /\ action' = "RestoreVideo"

(* Entering audio-only without resetting the upgrade streak. *)
GoAudioOnlyKeepStreak(b) ==
    /\ NotSuspending(b)
    /\ ~audio_only
    /\ b < config.audio_only_bps
    /\ audio_only' = TRUE
    /\ action' = "GoAudioOnly"
    /\ UNCHANGED <<current_layer, upgrade_streak>>

GoAudioOnly(b) ==
    /\ NotSuspending(b)
    /\ ~audio_only
    /\ b < config.audio_only_bps
    /\ audio_only' = TRUE
    /\ upgrade_streak' = 0
    /\ action' = "GoAudioOnly"
    /\ UNCHANGED current_layer

(* Video continues: the reading asks for the layer LayerForBps(b). *)
Video(b) ==
    /\ NotSuspending(b)
    /\ ~audio_only
    /\ b >= config.audio_only_bps
    /\ UNCHANGED audio_only

Downgrade(b) ==
    /\ Video(b)
    /\ Rank[LayerForBps(b)] < Rank[current_layer]
    /\ current_layer' = LayerForBps(b)
    /\ upgrade_streak' = 0
    /\ action' = "ChangeLayer"

Upgrade(b) ==
    /\ Video(b)
    /\ Rank[LayerForBps(b)] > Rank[current_layer]
    /\ SaturatingInc(upgrade_streak) >= config.upgrade_streak
    /\ current_layer' = LayerForBps(b)
    /\ upgrade_streak' = 0
    /\ action' = "ChangeLayer"

(* A streak compared with > instead of >=. *)
CountUpgradeOffByOne(b) ==
    /\ Video(b)
    /\ Rank[LayerForBps(b)] > Rank[current_layer]
    /\ SaturatingInc(upgrade_streak) <= config.upgrade_streak
    /\ upgrade_streak' = SaturatingInc(upgrade_streak)
    /\ action' = "NoChange"
    /\ UNCHANGED current_layer

CountUpgrade(b) ==
    /\ Video(b)
    /\ Rank[LayerForBps(b)] > Rank[current_layer]
    /\ SaturatingInc(upgrade_streak) < config.upgrade_streak
    /\ upgrade_streak' = SaturatingInc(upgrade_streak)
    /\ action' = "NoChange"
    /\ UNCHANGED current_layer

(* A path for an on-target reading that keeps the streak running. *)
AtTargetKeepStreak(b) ==
    /\ Video(b)
    /\ Rank[LayerForBps(b)] = Rank[current_layer]
    /\ action' = "NoChange"
    /\ UNCHANGED <<current_layer, upgrade_streak>>

AtTarget(b) ==
    /\ Video(b)
    /\ Rank[LayerForBps(b)] = Rank[current_layer]
    /\ upgrade_streak' = 0
    /\ action' = "NoChange"
    /\ UNCHANGED current_layer

-----------------------------------------------------------------------------
(* What the readings said, kept for the properties. *)

AsksHigher(b) ==
    /\ ~audio_only
    /\ b >= config.suspend_video_bps
    /\ b >= config.audio_only_bps
    /\ Rank[LayerForBps(b)] > Rank[current_layer]

Record(b) ==
    /\ bps' = b
    /\ lowRun' = IF b < config.suspend_video_bps THEN SaturatingInc(lowRun) ELSE 0
    /\ askRun' = CASE Rung' # Rung -> 0
                   [] Rung' = Rung /\ AsksHigher(b) -> SaturatingInc(askRun)
                   [] Rung' = Rung /\ ~AsksHigher(b) ->
                         IF b < config.suspend_video_bps THEN askRun ELSE 0
    /\ trend' = CASE Rung' > Rung -> "up"
                  [] Rung' < Rung -> "down"
                  [] OTHER -> IF b = bps THEN trend ELSE "none"

(* SubscriberPacer::update. *)
Update(b) ==
    /\ \/ StaySuspended(b)
       \/ RestoreAudio(b)
       \/ SuspendVideo(b)
       \/ DebounceSuspend(b)
       \/ StayAudioOnly(b)
       \/ RestoreVideo(b)
       \/ GoAudioOnly(b)
       \/ Downgrade(b)
       \/ Upgrade(b)
       \/ CountUpgrade(b)
       \/ AtTarget(b)
    /\ Record(b)
    /\ UNCHANGED config

Init == \E c \in PacerConfig : TryWithConfig(c)

Next == \E b \in Bps : Update(b)

Spec == Init /\ [][Next]_vars

(* The registry feeds a reading whenever the estimate changes or media     *)
(* flows; a subscriber in a live room is fed for ever.                     *)
FairSpec == Spec /\ WF_vars(Next)

-----------------------------------------------------------------------------
(* What the pacer promises. *)

Streak == 0..U8Max

(* Every field keeps the type of the Rust struct, the configuration stays  *)
(* one that validate accepts, and the streaks stay below the limit at      *)
(* which update fires and resets them, so saturating_add never saturates.  *)
TypeOK ==
    /\ config \in PacerConfig /\ Validate(config)
    /\ current_layer \in Rids
    /\ audio_only \in BOOLEAN
    /\ suspended \in BOOLEAN
    /\ upgrade_streak \in Streak /\ upgrade_streak < config.upgrade_streak
    /\ suspend_streak \in Streak /\ suspend_streak < config.suspend_streak
    /\ action \in Actions
    /\ bps \in Bps \cup {NoReading}
    /\ lowRun \in Streak /\ askRun \in Streak
    /\ trend \in {"none", "up", "down"}

(* The sub-state discipline of the struct's comment: suspended implies     *)
(* audio_only, and no streak survives into a mode that does not count it,  *)
(* so leaving a mode always starts the debounce afresh.                    *)
SubStates ==
    /\ suspended => audio_only /\ suspend_streak = 0
    /\ audio_only => upgrade_streak = 0

(* Debounced suspend entry: all video is stopped only when at least        *)
(* suspend_streak readings in a row were below suspend_video_bps; one      *)
(* anomalous reading, or several that were interrupted, never do it.       *)
SuspendDebounced ==
    [][suspended' /\ ~suspended => lowRun' >= config.suspend_streak]_vars

(* Debounced upgrade: the layer is raised only when upgrade_streak         *)
(* readings asked for a higher layer, with none at or above                *)
(* suspend_video_bps in between that did not.  They need not be            *)
(* consecutive, as the comments have it: the debounce path of a reading    *)
(* below suspend_video_bps leaves upgrade_streak alone.                    *)
UpgradeDebounced ==
    [][Rung >= 2 /\ Rung' > Rung => askRun + 1 >= config.upgrade_streak]_vars

(* No flapping: while the reading stays the same the subscriber never      *)
(* moves up and then down, or down and then up, whatever validated         *)
(* configuration is in force.                                              *)
NoFlapping ==
    [][bps' = bps => /\ trend = "up" => Rung' >= Rung
                     /\ trend = "down" => Rung' <= Rung]_vars

(* Recovery: readings that stay at or above high_min_bps bring the         *)
(* subscriber to the HIGH layer for good, from any mode.                   *)
Recovers == <>[](bps >= config.high_min_bps) => <>[](Rung = 4)

(* Shedding: readings that stay below suspend_video_bps suspend video for  *)
(* good, from any mode.                                                    *)
Sheds ==
    <>[](bps # NoReading /\ bps < config.suspend_video_bps) => <>[](suspended)

(* The pacer is a hysteresis ladder. *)
Ladder ==
    INSTANCE VideoLadder WITH
        entry <- <<0, config.audio_only_bps, config.low_min_bps,
                   config.medium_min_bps, config.high_min_bps>>,
        exit  <- <<0, config.suspend_video_bps, config.audio_only_bps,
                   config.medium_min_bps, config.high_min_bps>>,
        rung  <- Rung, reading <- bps

(* The pacer implements the hysteresis ladder: update never climbs onto a  *)
(* rung the reading does not pay for, never climbs two rungs below video,  *)
(* and never drops off a rung the reading still pays for.                  *)
ImplementsLadder == Ladder!Spec

=============================================================================
