----------------------- MODULE SubscriberPacerProofs -----------------------
(***************************************************************************)
(* Proofs about SubscriberPacer for every set of bitrates, every validated *)
(* configuration and every width of the streak counters.                   *)
(***************************************************************************)
EXTENDS SubscriberPacer, TLAPS

(* How the streaks relate to the readings: a streak never overstates the   *)
(* readings it stands for.                                                 *)
StreaksBacked ==
    /\ suspend_streak <= lowRun
    /\ upgrade_streak <= askRun

(* After a move up the reading still pays for the rung it reached; after a *)
(* move down it does not pay for the next one.                             *)
TrendBacked ==
    /\ trend # "none" => bps \in Bps
    /\ trend = "up" =>
          /\ ~suspended
          /\ bps >= config.suspend_video_bps
          /\ ~audio_only =>
                /\ bps >= config.audio_only_bps
                /\ current_layer = "MEDIUM" => bps >= config.medium_min_bps
                /\ current_layer = "HIGH" => bps >= config.high_min_bps
    /\ trend = "down" =>
          /\ suspended => bps < config.audio_only_bps
          /\ audio_only => bps < config.low_min_bps
          /\ ~audio_only =>
                /\ current_layer = "LOW" => bps < config.medium_min_bps
                /\ current_layer = "MEDIUM" => bps < config.high_min_bps

IInv == TypeOK /\ SubStates /\ StreaksBacked /\ TrendBacked

-----------------------------------------------------------------------------
(* Facts about the ladder and the thresholds. *)

(* The ranks of the three layers, as numbers the provers can compare. *)
LEMMA RankValues ==
    /\ Rank["LOW"] = 0 /\ Rank["MEDIUM"] = 1 /\ Rank["HIGH"] = 2
    /\ \A r \in Rids : Rank[r] \in 0..2
  BY DEF Rank, Rids

(* layer_for_bps returns a layer of the ladder and, for a validated        *)
(* configuration, the highest one whose minimum the reading meets.         *)
LEMMA LayerForBpsValue ==
    ASSUME config \in PacerConfig, NEW b \in Bps, Validate(config)
    PROVE  /\ LayerForBps(b) \in Rids
           /\ Rank[LayerForBps(b)] \in 0..2
           /\ Rank[LayerForBps(b)] = 2 <=> b >= config.high_min_bps
           /\ Rank[LayerForBps(b)] >= 1 <=> b >= config.medium_min_bps
<1>1. /\ b \in Nat
      /\ config.high_min_bps \in Nat
      /\ config.medium_min_bps \in Nat
      /\ config.medium_min_bps <= config.high_min_bps
  BY BpsAssumption DEF PacerConfig, Validate
<1>2. CASE b >= config.high_min_bps
  <2>1. LayerForBps(b) = "HIGH"
    BY <1>1, <1>2 DEF LayerForBps
  <2>2. QED
    BY <1>1, <1>2, <2>1, RankValues DEF Rids
<1>3. CASE b < config.high_min_bps /\ b >= config.medium_min_bps
  <2>1. LayerForBps(b) = "MEDIUM"
    BY <1>1, <1>3 DEF LayerForBps
  <2>2. QED
    BY <1>1, <1>3, <2>1, RankValues DEF Rids
<1>4. CASE b < config.medium_min_bps
  <2>1. LayerForBps(b) = "LOW"
    BY <1>1, <1>4 DEF LayerForBps
  <2>2. QED
    BY <1>1, <1>4, <2>1, RankValues DEF Rids
<1>5. QED
  BY <1>1, <1>2, <1>3, <1>4

(* A validated configuration is a chain of natural numbers. *)
LEMMA ConfigValues ==
    ASSUME config \in PacerConfig, Validate(config)
    PROVE  /\ config.suspend_video_bps \in Nat /\ config.audio_only_bps \in Nat
           /\ config.low_min_bps \in Nat /\ config.medium_min_bps \in Nat
           /\ config.high_min_bps \in Nat
           /\ config.suspend_streak \in 1..U8Max /\ config.upgrade_streak \in 1..U8Max
           /\ config.suspend_video_bps <= config.audio_only_bps
           /\ config.audio_only_bps <= config.low_min_bps
           /\ config.low_min_bps <= config.medium_min_bps
           /\ config.medium_min_bps <= config.high_min_bps
<1>1. /\ config.suspend_video_bps \in Bps /\ config.audio_only_bps \in Bps
      /\ config.low_min_bps \in Bps /\ config.medium_min_bps \in Bps
      /\ config.high_min_bps \in Bps
      /\ config.suspend_streak \in 0..U8Max /\ config.upgrade_streak \in 0..U8Max
  BY DEF PacerConfig
<1>2. config.suspend_streak \in 1..U8Max /\ config.upgrade_streak \in 1..U8Max
  BY <1>1, U8Assumption DEF Validate
<1>3. QED
  BY <1>1, <1>2, BpsAssumption DEF Validate

(* The layer a reading asks for, compared with the present one. *)
LEMMA AskedLayer ==
    ASSUME TypeOK, NEW b \in Bps
    PROVE  /\ LayerForBps(b) \in Rids
           /\ Rank[LayerForBps(b)] \in 0..2 /\ Rank[current_layer] \in 0..2
           /\ Rank[LayerForBps(b)] >= Rank[current_layer] =>
                /\ current_layer = "MEDIUM" => b >= config.medium_min_bps
                /\ current_layer = "HIGH" => b >= config.high_min_bps
           /\ Rank[LayerForBps(b)] <= Rank[current_layer] =>
                /\ current_layer = "LOW" => b < config.medium_min_bps
                /\ current_layer = "MEDIUM" => b < config.high_min_bps
           /\ LayerForBps(b) = "LOW" => b < config.medium_min_bps
           /\ LayerForBps(b) = "MEDIUM" =>
                b >= config.medium_min_bps /\ b < config.high_min_bps
           /\ LayerForBps(b) = "HIGH" =>
                b >= config.medium_min_bps /\ b >= config.high_min_bps
<1>1. /\ config \in PacerConfig /\ Validate(config) /\ current_layer \in Rids
  BY DEF TypeOK
<1>2. /\ b \in Nat
      /\ config.high_min_bps \in Nat /\ config.medium_min_bps \in Nat
      /\ config.medium_min_bps <= config.high_min_bps
  BY <1>1, ConfigValues, BpsAssumption
<1>3. QED
  BY <1>1, <1>2, LayerForBpsValue, RankValues DEF Rids

(* Rung, spelled out. *)
LEMMA RungValue ==
    ASSUME TypeOK
    PROVE  /\ Rung \in 0..4
           /\ suspended => Rung = 0
           /\ ~suspended /\ audio_only => Rung = 1
           /\ ~suspended /\ ~audio_only => Rung = 2 + Rank[current_layer]
  BY RankValues DEF TypeOK, Rung

-----------------------------------------------------------------------------
(* IInv is inductive. *)

(* A pacer fresh from try_with_config satisfies the inductive invariant. *)
LEMMA InitEstablishesIInv == Init => IInv
<1>1. SUFFICES ASSUME NEW c \in PacerConfig, TryWithConfig(c) PROVE IInv
  BY DEF Init
<1>2. config \in PacerConfig /\ Validate(config)
  BY <1>1 DEF TryWithConfig
<1>3. config.suspend_streak \in 1..U8Max /\ config.upgrade_streak \in 1..U8Max
  BY <1>2, ConfigValues
<1>4. TypeOK
  <2>1. audio_only \in BOOLEAN /\ suspended \in BOOLEAN
    BY <1>1, Zenon DEF TryWithConfig
  <2>2. upgrade_streak \in Streak /\ upgrade_streak < config.upgrade_streak
    BY <1>1, <1>3, U8Assumption DEF TryWithConfig, Streak
  <2>3. suspend_streak \in Streak /\ suspend_streak < config.suspend_streak
    BY <1>1, <1>3, U8Assumption DEF TryWithConfig, Streak
  <2>4. lowRun \in Streak /\ askRun \in Streak
    BY <1>1, U8Assumption DEF TryWithConfig, Streak
  <2>5. /\ current_layer \in Rids /\ action \in Actions
        /\ bps \in Bps \cup {NoReading} /\ trend \in {"none", "up", "down"}
    BY <1>1 DEF TryWithConfig, Rids, Actions
  <2>6. QED
    BY <1>2, <2>1, <2>2, <2>3, <2>4, <2>5 DEF TypeOK
<1>5. QED
  BY <1>1, <1>4 DEF TryWithConfig, IInv, SubStates, StreaksBacked, TrendBacked

(* The types after one update, path by path. *)
LEMMA UpdateKeepsTypeOK ==
    ASSUME IInv, NEW b \in Bps, Update(b)
    PROVE  TypeOK'
<1>1. /\ TypeOK /\ SubStates
      /\ config' = config /\ bps' = b /\ b \in Nat
      /\ upgrade_streak \in Nat /\ suspend_streak \in Nat
  BY BpsAssumption, U8Assumption DEF IInv, Update, Record, TypeOK, Streak
<1>2. /\ config.suspend_streak \in 1..U8Max /\ config.upgrade_streak \in 1..U8Max
  BY <1>1, ConfigValues DEF TypeOK
<1>3. \A n \in Streak : SaturatingInc(n) \in Streak
  BY U8Assumption DEF Streak, SaturatingInc
<1>4. config' \in PacerConfig /\ Validate(config')
  BY <1>1 DEF TypeOK
<1>5. lowRun' \in Streak /\ askRun' \in Streak
  BY <1>1, <1>3, U8Assumption DEF Update, Record, TypeOK, Streak
<1>6. trend' \in {"none", "up", "down"}
  BY <1>1, Zenon DEF Update, Record, TypeOK
<1>7. audio_only' \in BOOLEAN /\ suspended' \in BOOLEAN
  <2>1. audio_only \in BOOLEAN /\ suspended \in BOOLEAN
    BY <1>1 DEF TypeOK
  <2>2. CASE StaySuspended(b)
    BY <2>1, <2>2, Zenon DEF StaySuspended, pacer
  <2>3. CASE RestoreAudio(b)
    BY <2>1, <2>3, Zenon DEF RestoreAudio
  <2>4. CASE SuspendVideo(b)
    BY <2>1, <2>4, Zenon DEF SuspendVideo
  <2>5. CASE DebounceSuspend(b)
    BY <2>1, <2>5, Zenon DEF DebounceSuspend
  <2>6. CASE StayAudioOnly(b)
    BY <2>1, <2>6, Zenon DEF StayAudioOnly, NotSuspending
  <2>7. CASE RestoreVideo(b)
    BY <2>1, <2>7, Zenon DEF RestoreVideo, NotSuspending
  <2>8. CASE GoAudioOnly(b)
    BY <2>1, <2>8, Zenon DEF GoAudioOnly, NotSuspending
  <2>9. CASE Downgrade(b)
    BY <2>1, <2>9, Zenon DEF Downgrade, Video, NotSuspending
  <2>10. CASE Upgrade(b)
    BY <2>1, <2>10, Zenon DEF Upgrade, Video, NotSuspending
  <2>11. CASE CountUpgrade(b)
    BY <2>1, <2>11, Zenon DEF CountUpgrade, Video, NotSuspending
  <2>12. CASE AtTarget(b)
    BY <2>1, <2>12, Zenon DEF AtTarget, Video, NotSuspending
  <2>13. QED
    BY <2>2, <2>3, <2>4, <2>5, <2>6, <2>7, <2>8, <2>9, <2>10, <2>11, <2>12 DEF Update
<1>8. current_layer' \in Rids /\ action' \in Actions
  <2>1. LayerForBps(b) \in Rids /\ "LOW" \in Rids /\ current_layer \in Rids
    BY <1>1, AskedLayer DEF Rids, TypeOK
  <2>2. CASE StaySuspended(b)
    BY <2>1, <2>2 DEF StaySuspended, pacer, Actions
  <2>3. CASE RestoreAudio(b)
    BY <2>1, <2>3 DEF RestoreAudio, Actions
  <2>4. CASE SuspendVideo(b)
    BY <2>1, <2>4 DEF SuspendVideo, Actions
  <2>5. CASE DebounceSuspend(b)
    BY <2>1, <2>5 DEF DebounceSuspend, Actions
  <2>6. CASE StayAudioOnly(b)
    BY <2>1, <2>6 DEF StayAudioOnly, NotSuspending, Actions
  <2>7. CASE RestoreVideo(b)
    BY <2>1, <2>7 DEF RestoreVideo, NotSuspending, Actions
  <2>8. CASE GoAudioOnly(b)
    BY <2>1, <2>8 DEF GoAudioOnly, NotSuspending, Actions
  <2>9. CASE Downgrade(b)
    BY <2>1, <2>9 DEF Downgrade, Video, NotSuspending, Actions
  <2>10. CASE Upgrade(b)
    BY <2>1, <2>10 DEF Upgrade, Video, NotSuspending, Actions
  <2>11. CASE CountUpgrade(b)
    BY <2>1, <2>11 DEF CountUpgrade, Video, NotSuspending, Actions
  <2>12. CASE AtTarget(b)
    BY <2>1, <2>12 DEF AtTarget, Video, NotSuspending, Actions
  <2>13. QED
    BY <2>2, <2>3, <2>4, <2>5, <2>6, <2>7, <2>8, <2>9, <2>10, <2>11, <2>12 DEF Update
<1>9. /\ upgrade_streak' \in Streak /\ upgrade_streak' < config'.upgrade_streak
      /\ suspend_streak' \in Streak /\ suspend_streak' < config'.suspend_streak
  <2>1. /\ upgrade_streak \in Streak /\ upgrade_streak < config.upgrade_streak
        /\ suspend_streak \in Streak /\ suspend_streak < config.suspend_streak
        /\ 0 \in Streak /\ 0 < config.upgrade_streak /\ 0 < config.suspend_streak
    BY <1>1, <1>2, U8Assumption DEF TypeOK, Streak
  <2>2. CASE StaySuspended(b)
    BY <1>1, <1>3, <2>1, <2>2 DEF StaySuspended, pacer
  <2>3. CASE RestoreAudio(b)
    BY <1>1, <1>3, <2>1, <2>3 DEF RestoreAudio
  <2>4. CASE SuspendVideo(b)
    BY <1>1, <1>3, <2>1, <2>4 DEF SuspendVideo
  <2>5. CASE DebounceSuspend(b)
    BY <1>1, <1>3, <2>1, <2>5 DEF DebounceSuspend
  <2>6. CASE StayAudioOnly(b)
    BY <1>1, <1>3, <2>1, <2>6 DEF StayAudioOnly, NotSuspending
  <2>7. CASE RestoreVideo(b)
    BY <1>1, <1>3, <2>1, <2>7 DEF RestoreVideo, NotSuspending
  <2>8. CASE GoAudioOnly(b)
    BY <1>1, <1>3, <2>1, <2>8 DEF GoAudioOnly, NotSuspending
  <2>9. CASE Downgrade(b)
    BY <1>1, <1>3, <2>1, <2>9 DEF Downgrade, Video, NotSuspending
  <2>10. CASE Upgrade(b)
    BY <1>1, <1>3, <2>1, <2>10 DEF Upgrade, Video, NotSuspending
  <2>11. CASE CountUpgrade(b)
    BY <1>1, <1>3, <2>1, <2>11 DEF CountUpgrade, Video, NotSuspending
  <2>12. CASE AtTarget(b)
    BY <1>1, <1>3, <2>1, <2>12 DEF AtTarget, Video, NotSuspending
  <2>13. QED
    BY <2>2, <2>3, <2>4, <2>5, <2>6, <2>7, <2>8, <2>9, <2>10, <2>11, <2>12 DEF Update
<1>10. QED
  BY <1>1, <1>4, <1>5, <1>6, <1>7, <1>8, <1>9 DEF TypeOK

(* The sub-state discipline after one update. *)
LEMMA UpdateKeepsSubStates ==
    ASSUME IInv, NEW b \in Bps, Update(b)
    PROVE  SubStates'
<1>1. SubStates
  BY DEF IInv
<1>2. CASE StaySuspended(b)
  BY <1>1, <1>2 DEF StaySuspended, pacer, SubStates
<1>3. CASE RestoreAudio(b)
  BY <1>1, <1>3 DEF RestoreAudio, SubStates
<1>4. CASE SuspendVideo(b)
  BY <1>1, <1>4 DEF SuspendVideo, SubStates
<1>5. CASE DebounceSuspend(b)
  BY <1>1, <1>5 DEF DebounceSuspend, SubStates
<1>6. CASE StayAudioOnly(b)
  BY <1>1, <1>6 DEF StayAudioOnly, NotSuspending, SubStates
<1>7. CASE RestoreVideo(b)
  BY <1>1, <1>7 DEF RestoreVideo, NotSuspending, SubStates
<1>8. CASE GoAudioOnly(b)
  BY <1>1, <1>8 DEF GoAudioOnly, NotSuspending, SubStates
<1>9. CASE Downgrade(b)
  BY <1>1, <1>9 DEF Downgrade, Video, NotSuspending, SubStates
<1>10. CASE Upgrade(b)
  BY <1>1, <1>10 DEF Upgrade, Video, NotSuspending, SubStates
<1>11. CASE CountUpgrade(b)
  BY <1>1, <1>11 DEF CountUpgrade, Video, NotSuspending, SubStates
<1>12. CASE AtTarget(b)
  BY <1>1, <1>12 DEF AtTarget, Video, NotSuspending, SubStates
<1>13. QED
  BY <1>2, <1>3, <1>4, <1>5, <1>6, <1>7, <1>8, <1>9, <1>10, <1>11, <1>12 DEF Update

(* A streak and the run of readings it stands for advance together. *)
LEMMA UpdateKeepsStreaksBacked ==
    ASSUME IInv, NEW b \in Bps, Update(b)
    PROVE  StreaksBacked'
<1>1. /\ upgrade_streak \in Nat /\ suspend_streak \in Nat /\ lowRun \in Nat /\ askRun \in Nat
      /\ suspend_streak <= U8Max /\ lowRun <= U8Max
      /\ upgrade_streak <= U8Max /\ askRun <= U8Max
      /\ suspend_streak <= lowRun /\ upgrade_streak <= askRun
      /\ suspended => suspend_streak = 0
      /\ audio_only => upgrade_streak = 0
      /\ suspended => audio_only
      /\ b \in Nat /\ config.suspend_video_bps \in Nat
  BY ConfigValues, BpsAssumption, U8Assumption
     DEF IInv, TypeOK, SubStates, StreaksBacked, Streak
<1>2. \A m, n \in Nat : m <= n => SaturatingInc(m) <= SaturatingInc(n)
  BY U8Assumption DEF SaturatingInc
<1>3. lowRun' \in Nat /\ askRun' \in Nat
  BY UpdateKeepsTypeOK, U8Assumption DEF TypeOK, Streak
<1>4. lowRun' = IF b < config.suspend_video_bps THEN SaturatingInc(lowRun) ELSE 0
  BY DEF Update, Record
<1>5. /\ Rung' = Rung /\ AsksHigher(b) => askRun' = SaturatingInc(askRun)
      /\ Rung' = Rung /\ ~AsksHigher(b) /\ b < config.suspend_video_bps => askRun' = askRun
  BY DEF Update, Record
<1>6. CASE StaySuspended(b)
  BY <1>1, <1>2, <1>3, <1>4, <1>6 DEF StaySuspended, pacer, StreaksBacked
<1>7. CASE RestoreAudio(b)
  BY <1>1, <1>2, <1>3, <1>4, <1>7 DEF RestoreAudio, StreaksBacked
<1>8. CASE SuspendVideo(b)
  BY <1>1, <1>2, <1>3, <1>4, <1>8 DEF SuspendVideo, StreaksBacked
<1>9. CASE DebounceSuspend(b)
  BY <1>1, <1>2, <1>3, <1>4, <1>5, <1>9 DEF DebounceSuspend, StreaksBacked, AsksHigher, Rung
<1>10. CASE StayAudioOnly(b)
  BY <1>1, <1>2, <1>3, <1>4, <1>10 DEF StayAudioOnly, NotSuspending, StreaksBacked
<1>11. CASE RestoreVideo(b)
  BY <1>1, <1>2, <1>3, <1>4, <1>11 DEF RestoreVideo, NotSuspending, StreaksBacked
<1>12. CASE GoAudioOnly(b)
  BY <1>1, <1>2, <1>3, <1>4, <1>12 DEF GoAudioOnly, NotSuspending, StreaksBacked
<1>13. CASE Downgrade(b)
  BY <1>1, <1>2, <1>3, <1>4, <1>13 DEF Downgrade, Video, NotSuspending, StreaksBacked
<1>14. CASE Upgrade(b)
  BY <1>1, <1>2, <1>3, <1>4, <1>14 DEF Upgrade, Video, NotSuspending, StreaksBacked
<1>15. CASE CountUpgrade(b)
  BY <1>1, <1>2, <1>3, <1>4, <1>5, <1>15 DEF CountUpgrade, Video, NotSuspending, StreaksBacked, AsksHigher, Rung
<1>16. CASE AtTarget(b)
  BY <1>1, <1>2, <1>3, <1>4, <1>16 DEF AtTarget, Video, NotSuspending, StreaksBacked
<1>17. QED
  BY <1>6, <1>7, <1>8, <1>9, <1>10, <1>11, <1>12, <1>13, <1>14, <1>15, <1>16 DEF Update

(* What each path of update does to the rung: five paths leave the whole   *)
(* mode and layer alone, three climb and three drop.                       *)
Still(b) == \/ StaySuspended(b) \/ DebounceSuspend(b) \/ StayAudioOnly(b)
            \/ CountUpgrade(b) \/ AtTarget(b)

(* The five paths that return NoChange leave the subscriber where it stands. *)
LEMMA StillKeepsRung ==
    ASSUME NEW b \in Bps, Still(b)
    PROVE  /\ suspended' = suspended /\ audio_only' = audio_only
           /\ current_layer' = current_layer /\ Rung' = Rung
<1>1. /\ suspended' = suspended /\ audio_only' = audio_only
      /\ current_layer' = current_layer
  BY Zenon DEF Still, StaySuspended, DebounceSuspend, StayAudioOnly, CountUpgrade,
               AtTarget, Video, NotSuspending, pacer
<1>2. QED
  BY <1>1, Zenon DEF Rung

(* A climb: where it starts, where it ends, and what the reading pays for. *)
LEMMA ClimbFacts ==
    ASSUME IInv, NEW b \in Bps, RestoreAudio(b) \/ RestoreVideo(b) \/ Upgrade(b)
    PROVE  /\ Rung' > Rung /\ Rung' \in 0..4 /\ Rung \in 0..4
           /\ Rung < 2 => Rung' = Rung + 1
           /\ Rung' = 1 => b >= config.audio_only_bps
           /\ Rung' = 2 => b >= config.low_min_bps
           /\ Rung' = 3 => b >= config.medium_min_bps
           /\ Rung' = 4 => b >= config.high_min_bps
           /\ ~suspended'
           /\ b >= config.suspend_video_bps
           /\ ~audio_only' => /\ b >= config.audio_only_bps
                              /\ current_layer' = "MEDIUM" => b >= config.medium_min_bps
                              /\ current_layer' = "HIGH" => b >= config.high_min_bps
<1>1. TypeOK /\ SubStates
  BY DEF IInv
<1>2. /\ b \in Nat
      /\ config.suspend_video_bps \in Nat /\ config.audio_only_bps \in Nat
      /\ config.low_min_bps \in Nat /\ config.medium_min_bps \in Nat
      /\ config.high_min_bps \in Nat
      /\ config.suspend_video_bps <= config.audio_only_bps
      /\ config.audio_only_bps <= config.low_min_bps
  BY <1>1, ConfigValues, BpsAssumption DEF TypeOK
<1>3. CASE RestoreAudio(b)
  <2>1. Rung = 0 /\ Rung' = 1
    BY <1>3 DEF RestoreAudio, Rung
  <2>2. QED
    BY <1>2, <1>3, <2>1 DEF RestoreAudio
<1>4. CASE RestoreVideo(b)
  <2>1. Rung = 1 /\ Rung' = 2
    BY <1>4, RankValues DEF RestoreVideo, NotSuspending, Rung
  <2>2. QED
    BY <1>2, <1>4, <2>1 DEF RestoreVideo, NotSuspending
<1>5. CASE Upgrade(b)
  <2>1. /\ Rung = 2 + Rank[current_layer] /\ Rung' = 2 + Rank[current_layer']
        /\ current_layer' = LayerForBps(b)
        /\ Rank[current_layer'] > Rank[current_layer]
    BY <1>5 DEF Upgrade, Video, NotSuspending, Rung
  <2>2. /\ Rank[current_layer] \in 0..2 /\ Rank[current_layer'] \in 0..2
        /\ current_layer' \in Rids
    BY <1>1, <2>1, AskedLayer
  <2>3. /\ Rung' = 3 => current_layer' = "MEDIUM"
        /\ Rung' = 4 => current_layer' = "HIGH"
        /\ Rung' > Rung /\ Rung' >= 3
    BY <2>1, <2>2, RankValues DEF Rids
  <2>4. QED
    BY <1>1, <1>2, <1>5, <2>1, <2>2, <2>3, AskedLayer DEF Upgrade, Video, NotSuspending
<1>6. QED
  BY <1>3, <1>4, <1>5

(* A drop: where it starts, where it ends, and what the reading misses. *)
LEMMA DropFacts ==
    ASSUME IInv, NEW b \in Bps, SuspendVideo(b) \/ GoAudioOnly(b) \/ Downgrade(b)
    PROVE  /\ Rung' < Rung /\ Rung' \in 0..4 /\ Rung \in 0..4
           /\ Rung = 1 => b < config.suspend_video_bps
           /\ Rung = 2 => b < config.audio_only_bps
           /\ Rung = 3 => b < config.medium_min_bps
           /\ Rung = 4 => b < config.high_min_bps
           /\ suspended' => b < config.audio_only_bps
           /\ audio_only' => b < config.low_min_bps
           /\ ~audio_only' => /\ current_layer' = "LOW" => b < config.medium_min_bps
                              /\ current_layer' = "MEDIUM" => b < config.high_min_bps
<1>1. TypeOK /\ SubStates
  BY DEF IInv
<1>2. /\ b \in Nat
      /\ config.suspend_video_bps \in Nat /\ config.audio_only_bps \in Nat
      /\ config.low_min_bps \in Nat /\ config.medium_min_bps \in Nat
      /\ config.high_min_bps \in Nat
      /\ config.suspend_video_bps <= config.audio_only_bps
      /\ config.audio_only_bps <= config.low_min_bps
      /\ config.low_min_bps <= config.medium_min_bps
      /\ config.medium_min_bps <= config.high_min_bps
  BY <1>1, ConfigValues, BpsAssumption DEF TypeOK
<1>3. Rung \in 0..4 /\ (~suspended => Rung >= 1)
  BY <1>1, RungValue, RankValues DEF TypeOK
<1>4. CASE SuspendVideo(b)
  <2>1. Rung' = 0 /\ ~suspended
    BY <1>4 DEF SuspendVideo, Rung
  <2>2. QED
    BY <1>2, <1>3, <1>4, <2>1 DEF SuspendVideo
<1>5. CASE GoAudioOnly(b)
  <2>1. Rung' = 1 /\ Rung >= 2
    BY <1>1, <1>5, RankValues DEF GoAudioOnly, NotSuspending, Rung, TypeOK
  <2>2. QED
    BY <1>2, <1>3, <1>5, <2>1 DEF GoAudioOnly, NotSuspending
<1>6. CASE Downgrade(b)
  <2>1. /\ Rung = 2 + Rank[current_layer] /\ Rung' = 2 + Rank[current_layer']
        /\ current_layer' = LayerForBps(b)
        /\ Rank[current_layer'] < Rank[current_layer]
    BY <1>6 DEF Downgrade, Video, NotSuspending, Rung
  <2>2. /\ Rank[current_layer] \in 0..2 /\ Rank[current_layer'] \in 0..2
        /\ current_layer' \in Rids /\ current_layer \in Rids
    BY <1>1, <2>1, AskedLayer DEF TypeOK
  <2>3. /\ Rung = 3 => current_layer' = "LOW"
        /\ Rung = 4 => current_layer' \in {"LOW", "MEDIUM"}
        /\ Rung' < Rung /\ Rung >= 3 /\ Rung' \in 0..4
    BY <2>1, <2>2, RankValues DEF Rids
  <2>4. ~suspended' /\ ~audio_only'
    BY <1>6 DEF Downgrade, Video, NotSuspending
  <2>5. QED
    BY <1>1, <1>2, <1>3, <2>1, <2>2, <2>3, <2>4, AskedLayer
<1>7. QED
  BY <1>4, <1>5, <1>6

(* Every update keeps still, climbs or drops. *)
LEMMA UpdateMoves ==
    ASSUME NEW b \in Bps, Update(b)
    PROVE  \/ Still(b)
           \/ RestoreAudio(b) \/ RestoreVideo(b) \/ Upgrade(b)
           \/ SuspendVideo(b) \/ GoAudioOnly(b) \/ Downgrade(b)
  BY Zenon DEF Update, Still

(* What a repeated reading remembers of the last move survives an update. *)
LEMMA UpdateKeepsTrendBacked ==
    ASSUME IInv, NEW b \in Bps, Update(b)
    PROVE  TrendBacked'
<1>1. /\ config' = config /\ bps' = b
      /\ trend' = CASE Rung' > Rung -> "up"
                    [] Rung' < Rung -> "down"
                    [] OTHER -> IF b = bps THEN trend ELSE "none"
  BY DEF Update, Record
<1>2. CASE Still(b)
  <2>1. /\ suspended' = suspended /\ audio_only' = audio_only
        /\ current_layer' = current_layer /\ Rung' = Rung
    BY <1>2, StillKeepsRung
  <2>2. Rung \in 0..4
    BY RungValue DEF IInv
  <2>3. trend' = IF b = bps THEN trend ELSE "none"
    BY <1>1, <2>1, <2>2
  <2>4. CASE b = bps
    BY <1>1, <2>1, <2>3, <2>4 DEF IInv, TrendBacked
  <2>5. CASE b # bps
    BY <2>3, <2>5 DEF TrendBacked
  <2>6. QED
    BY <2>4, <2>5
<1>3. CASE RestoreAudio(b) \/ RestoreVideo(b) \/ Upgrade(b)
  <2>1. trend' = "up"
    BY <1>1, <1>3, ClimbFacts
  <2>2. QED
    BY <1>1, <1>3, <2>1, ClimbFacts DEF TrendBacked
<1>4. CASE SuspendVideo(b) \/ GoAudioOnly(b) \/ Downgrade(b)
  <2>1. trend' = "down"
    BY <1>1, <1>4, DropFacts
  <2>2. QED
    BY <1>1, <1>4, <2>1, DropFacts DEF TrendBacked
<1>5. QED
  BY <1>2, <1>3, <1>4, UpdateMoves

(* One update, or none, preserves the inductive invariant. *)
LEMMA NextKeepsIInv == IInv /\ [Next]_vars => IInv'
<1>1. ASSUME IInv, NEW b \in Bps, Update(b) PROVE IInv'
  BY <1>1, UpdateKeepsTypeOK, UpdateKeepsSubStates, UpdateKeepsStreaksBacked,
     UpdateKeepsTrendBacked DEF IInv
<1>2. ASSUME IInv, UNCHANGED vars PROVE IInv'
  BY <1>2 DEF vars, pacer, history, IInv, TypeOK, SubStates, StreaksBacked, TrendBacked
<1>3. QED
  BY <1>1, <1>2 DEF Next

(* The inductive invariant holds in every reachable state. *)
LEMMA IInvHolds == Spec => []IInv
  BY InitEstablishesIInv, NextKeepsIInv, PTL DEF Spec

-----------------------------------------------------------------------------
(* The theorems. *)

(* Type correctness of the pacer, with the streaks strictly below their    *)
(* limits: update's saturating_add never saturates.                        *)
THEOREM TypeCorrect == Spec => []TypeOK
<1>1. IInv => TypeOK
  BY DEF IInv
<1>2. QED
  BY <1>1, IInvHolds, PTL

(* suspended is a sub-state of audio-only and no streak outlives its mode. *)
THEOREM SubStatesHold == Spec => []SubStates
<1>1. IInv => SubStates
  BY DEF IInv
<1>2. QED
  BY <1>1, IInvHolds, PTL

(* Video is suspended only after suspend_streak low readings in a row. *)
THEOREM SuspendIsDebounced == Spec => SuspendDebounced
<1>1. ASSUME IInv, [Next]_vars
      PROVE  [suspended' /\ ~suspended => lowRun' >= config.suspend_streak]_vars
  <2>1. SUFFICES ASSUME NEW b \in Bps, Update(b), suspended', ~suspended
                 PROVE  lowRun' >= config.suspend_streak
    BY <1>1 DEF Next
  <2>2. SuspendVideo(b)
    BY <2>1, Zenon DEF Update, StaySuspended, RestoreAudio, DebounceSuspend, StayAudioOnly,
       RestoreVideo, GoAudioOnly, Downgrade, Upgrade, CountUpgrade, AtTarget, Video,
       NotSuspending, pacer
  <2>3. lowRun' = SaturatingInc(lowRun)
    BY <2>1, <2>2 DEF Update, Record, SuspendVideo
  <2>4. /\ suspend_streak \in Nat /\ lowRun \in Nat /\ suspend_streak <= lowRun
        /\ config.suspend_streak \in Nat
    BY <1>1, ConfigValues, U8Assumption DEF IInv, TypeOK, StreaksBacked, Streak
  <2>5. SaturatingInc(suspend_streak) <= SaturatingInc(lowRun)
    BY <2>4, U8Assumption DEF SaturatingInc
  <2>6. SaturatingInc(suspend_streak) \in Nat /\ SaturatingInc(lowRun) \in Nat
    BY <2>4, U8Assumption DEF SaturatingInc
  <2>7. QED
    BY <2>2, <2>3, <2>4, <2>5, <2>6 DEF SuspendVideo
<1>2. QED
  BY <1>1, IInvHolds, PTL DEF Spec, SuspendDebounced

(* The layer is raised only after upgrade_streak readings asked for more. *)
THEOREM UpgradeIsDebounced == Spec => UpgradeDebounced
<1>1. ASSUME IInv, [Next]_vars
      PROVE  [Rung >= 2 /\ Rung' > Rung => askRun + 1 >= config.upgrade_streak]_vars
  <2>1. SUFFICES ASSUME NEW b \in Bps, Update(b), Rung >= 2, Rung' > Rung
                 PROVE  askRun + 1 >= config.upgrade_streak
    BY <1>1 DEF Next
  <2>2. Rung \in 0..4
    BY <1>1, RungValue DEF IInv
  <2>3. ~Still(b)
    BY <2>1, <2>2, StillKeepsRung
  <2>4. ~(SuspendVideo(b) \/ GoAudioOnly(b) \/ Downgrade(b))
    BY <1>1, <2>1, <2>2, DropFacts
  <2>5. ~RestoreAudio(b) /\ ~RestoreVideo(b)
    BY <2>1, <2>2 DEF RestoreAudio, RestoreVideo, NotSuspending, Rung
  <2>6. Upgrade(b)
    BY <2>1, <2>3, <2>4, <2>5, UpdateMoves
  <2>7. /\ upgrade_streak \in Nat /\ askRun \in Nat /\ upgrade_streak <= askRun
        /\ config.upgrade_streak \in Nat
    BY <1>1, ConfigValues, U8Assumption DEF IInv, TypeOK, StreaksBacked, Streak
  <2>8. SaturatingInc(upgrade_streak) <= upgrade_streak + 1
    BY <2>7, U8Assumption DEF SaturatingInc
  <2>9. SaturatingInc(upgrade_streak) \in Nat
    BY <2>7, U8Assumption DEF SaturatingInc
  <2>10. QED
    BY <2>6, <2>7, <2>8, <2>9 DEF Upgrade
<1>2. QED
  BY <1>1, IInvHolds, PTL DEF Spec, UpgradeDebounced

(* Under one unchanging reading the subscriber moves in one direction. *)
THEOREM NeverFlaps == Spec => NoFlapping
<1>1. ASSUME IInv, [Next]_vars
      PROVE  [bps' = bps => /\ trend = "up" => Rung' >= Rung
                            /\ trend = "down" => Rung' <= Rung]_vars
  <2>1. SUFFICES ASSUME NEW b \in Bps, Update(b), bps' = bps
                 PROVE  /\ trend = "up" => Rung' >= Rung
                        /\ trend = "down" => Rung' <= Rung
    BY <1>1 DEF Next
  <2>2. bps = b
    BY <2>1 DEF Update, Record
  <2>3. Rung \in 0..4 /\ TypeOK /\ SubStates /\ TrendBacked
    BY <1>1, RungValue DEF IInv
  <2>4. /\ b \in Nat
        /\ config.suspend_video_bps \in Nat /\ config.audio_only_bps \in Nat
        /\ config.low_min_bps \in Nat /\ config.medium_min_bps \in Nat
        /\ config.high_min_bps \in Nat
    BY <2>3, ConfigValues, BpsAssumption DEF TypeOK
  <2>5. current_layer \in Rids /\ config \in PacerConfig /\ Validate(config)
    BY <2>3 DEF TypeOK
  <2>6. /\ Rank[LayerForBps(b)] \in 0..2
        /\ Rank[LayerForBps(b)] = 2 <=> b >= config.high_min_bps
        /\ Rank[LayerForBps(b)] >= 1 <=> b >= config.medium_min_bps
        /\ current_layer = "LOW" => Rank[current_layer] = 0
        /\ current_layer = "MEDIUM" => Rank[current_layer] = 1
        /\ current_layer = "HIGH" => Rank[current_layer] = 2
        /\ current_layer \in Rids
    BY <2>5, LayerForBpsValue, RankValues
  <2>7. CASE Still(b)
    BY <2>3, <2>7, StillKeepsRung
  <2>8. CASE RestoreAudio(b) \/ RestoreVideo(b) \/ Upgrade(b)
    <3>1. Rung' > Rung /\ Rung' \in 0..4
      BY <1>1, <2>8, ClimbFacts
    <3>2. trend # "down"
      <4>1. CASE RestoreAudio(b)
        BY <2>2, <2>3, <2>4, <4>1 DEF TrendBacked, RestoreAudio
      <4>2. CASE RestoreVideo(b)
        BY <2>2, <2>3, <2>4, <4>2 DEF TrendBacked, RestoreVideo, NotSuspending
      <4>3. CASE Upgrade(b)
        BY <2>2, <2>3, <2>4, <2>6, <4>3 DEF TrendBacked, Upgrade, Video, NotSuspending, Rids
      <4>4. QED
        BY <2>8, <4>1, <4>2, <4>3
    <3>3. QED
      BY <2>3, <3>1, <3>2
  <2>9. CASE SuspendVideo(b) \/ GoAudioOnly(b) \/ Downgrade(b)
    <3>1. Rung' < Rung /\ Rung' \in 0..4
      BY <1>1, <2>9, DropFacts
    <3>2. trend # "up"
      <4>1. CASE SuspendVideo(b)
        BY <2>2, <2>3, <2>4, <4>1 DEF TrendBacked, SuspendVideo
      <4>2. CASE GoAudioOnly(b)
        BY <2>2, <2>3, <2>4, <4>2 DEF TrendBacked, GoAudioOnly, NotSuspending
      <4>3. CASE Downgrade(b)
        BY <2>2, <2>3, <2>4, <2>6, <4>3 DEF TrendBacked, Downgrade, Video, NotSuspending, Rids
      <4>4. QED
        BY <2>9, <4>1, <4>2, <4>3
    <3>3. QED
      BY <2>3, <3>1, <3>2
  <2>10. QED
    BY <2>1, <2>7, <2>8, <2>9, UpdateMoves
<1>2. QED
  BY <1>1, IInvHolds, PTL DEF Spec, NoFlapping

(* The pacer implements the hysteresis ladder. *)
THEOREM PacerImplementsLadder == Spec => ImplementsLadder
<1>1. Init => Ladder!Init
  <2>1. SUFFICES ASSUME NEW c \in PacerConfig, TryWithConfig(c) PROVE Ladder!Init
    BY DEF Init
  <2>2. config \in PacerConfig /\ Validate(config)
    BY <2>1 DEF TryWithConfig
  <2>3. Rung = 2
    BY <2>1, RankValues DEF TryWithConfig, Rung
  <2>4. /\ config.suspend_video_bps \in Nat /\ config.audio_only_bps \in Nat
        /\ config.low_min_bps \in Nat /\ config.medium_min_bps \in Nat
        /\ config.high_min_bps \in Nat
        /\ config.suspend_video_bps <= config.audio_only_bps
        /\ config.audio_only_bps <= config.low_min_bps
    BY <2>2, ConfigValues
  <2>5. QED
    BY <2>3, <2>4 DEF Ladder!Init, Ladder!Rungs
<1>2. ASSUME IInv, [Next]_vars
      PROVE  [Ladder!Next]_(Ladder!vars)
  <2>1. CASE UNCHANGED vars
    BY <2>1 DEF vars, pacer, history, Ladder!vars, Rung
  <2>2. ASSUME NEW b \in Bps, Update(b) PROVE Ladder!Next
    <3>1. config' = config /\ bps' = b
      BY <2>2 DEF Update, Record
    <3>2. CASE Still(b)
      BY <3>1, <3>2, StillKeepsRung DEF Ladder!Next, Ladder!Stay
    <3>3. CASE RestoreAudio(b) \/ RestoreVideo(b) \/ Upgrade(b)
      BY <1>2, <3>1, <3>3, ClimbFacts DEF Ladder!Next, Ladder!Climb, Ladder!Rungs
    <3>4. CASE SuspendVideo(b) \/ GoAudioOnly(b) \/ Downgrade(b)
      BY <1>2, <3>1, <3>4, DropFacts DEF Ladder!Next, Ladder!Drop, Ladder!Rungs
    <3>5. QED
      BY <2>2, <3>2, <3>3, <3>4, UpdateMoves
  <2>3. QED
    BY <1>2, <2>1, <2>2 DEF Next
<1>3. QED
  BY <1>1, <1>2, IInvHolds, PTL DEF Spec, ImplementsLadder, Ladder!Spec

=============================================================================
