----------------------- MODULE PacedSubscriberProofs -----------------------
(***************************************************************************)
(* Proofs about PacedSubscriber for every set of rates, every default      *)
(* configuration that validates, every floor and every hint age.           *)
(***************************************************************************)
EXTENDS PacedSubscriber, SubscriberPacerProofs

(* The pacer of a client keeps the configuration it was created with. *)
ConfigIsDefault == config = DefaultConfig

(* The window the low readings span: k of them, each a floor apart. *)
StreakSpans ==
    /\ lowFor \in Nat \cup {None}
    /\ kalman_bwe /\ suspend_streak > 0 =>
          /\ lowFor # None /\ last_pacer_drive # None
          /\ \/ lowFor >= SuspendSpan
             \/ lowFor >= (suspend_streak - 1) * MinTick + last_pacer_drive

PacedInv ==
    /\ IInv
    /\ PacedTypeOK
    /\ EveryoneKnowsTheMode
    /\ DesiredAtLeastPaced
    /\ UnmeasuredIsNotPaced
    /\ ConfigIsDefault
    /\ StreakSpans

-----------------------------------------------------------------------------
(* The composition drives the pacer and does nothing else to it.           *)

(* A step of the subscriber either drives the pacer with one reading or    *)
(* leaves it alone.                                                        *)
LEMMA PacedStepIsPacerStep == PacedNext => [Next]_vars
<1>1. ASSUME NEW b \in Bps, UpdatePacerLayers(b) \/ PollAllDrives(b)
      PROVE  Next
  BY <1>1 DEF UpdatePacerLayers, PollAllDrives, DrivePacer, Next
<1>2. ASSUME \/ \E b \in Ceilings : RecordNativeEstimate(b) \/ RecordClientHint(b)
             \/ \E d, l \in Rates : OnTwccFeedback(d, l)
             \/ EnableGoogcc
             \/ \E g \in Rates : GoogccOnReceive(g)
             \/ Tick
      PROVE  UNCHANGED vars
  BY <1>2 DEF RecordNativeEstimate, RecordClientHint, OnTwccFeedback, EnableGoogcc,
              GoogccOnReceive, Tick
<1>3. QED
  BY <1>1, <1>2 DEF PacedNext

(* A new client starts with a pacer that try_with_config made. *)
LEMMA PacedInitIsPacerInit == PacedInit => Init
  BY ConfigAssumption DEF PacedInit, Init

(* The pacer inside a client behaves as a pacer: whatever holds of every   *)
(* SubscriberPacer holds of the one the registry drives.                   *)
THEOREM PacedImplementsPacer == PacedSpec => Spec
<1>1. [PacedNext]_pacedVars => [Next]_vars
  BY PacedStepIsPacerStep DEF pacedVars
<1>2. QED
  BY <1>1, PacedInitIsPacerInit, PTL DEF PacedSpec, Spec

-----------------------------------------------------------------------------
(* What an update does, by the action it returns. *)

(* The action returned says how mode and layer moved: the caller needs     *)
(* nothing else to follow the pacer.                                       *)
LEMMA UpdateByAction ==
    ASSUME NEW b \in Bps, Update(b)
    PROVE  \/ /\ action' = "NoChange"
              /\ UNCHANGED <<current_layer, audio_only, suspended>>
           \/ /\ action' = "ChangeLayer" /\ ~suspended /\ ~audio_only
              /\ UNCHANGED <<audio_only, suspended>>
           \/ /\ action' = "GoAudioOnly" /\ ~suspended
              /\ audio_only' = TRUE /\ UNCHANGED <<current_layer, suspended>>
           \/ /\ action' = "RestoreVideo" /\ ~suspended
              /\ audio_only' = FALSE /\ current_layer' = "LOW" /\ UNCHANGED suspended
           \/ /\ action' = "SuspendVideo" /\ ~suspended /\ b < config.suspend_video_bps
              /\ audio_only' = TRUE /\ suspended' = TRUE /\ UNCHANGED current_layer
           \/ /\ action' = "RestoreAudio" /\ suspended
              /\ audio_only' = TRUE /\ suspended' = FALSE /\ UNCHANGED current_layer
<1>1. CASE Still(b)
  BY <1>1, Zenon DEF Still, StaySuspended, DebounceSuspend, StayAudioOnly, CountUpgrade,
                     AtTarget, Video, NotSuspending, pacer
<1>2. CASE Downgrade(b) \/ Upgrade(b)
  BY <1>2, Zenon DEF Downgrade, Upgrade, Video, NotSuspending
<1>3. CASE GoAudioOnly(b) \/ RestoreVideo(b)
  BY <1>3, Zenon DEF GoAudioOnly, RestoreVideo, NotSuspending
<1>4. CASE SuspendVideo(b) \/ RestoreAudio(b)
  BY <1>4, Zenon DEF SuspendVideo, RestoreAudio
<1>5. QED
  BY <1>1, <1>2, <1>3, <1>4, UpdateMoves

(* What drive_pacer and apply_pacer_action make of it. *)
Drives(b) == DrivePacer(b) /\ ApplyPacerAction

(* Flags and events follow the pacer through one drive. *)
LEMMA DriveKeepsMode ==
    ASSUME NEW b \in Bps, Drives(b), IInv, EveryoneKnowsTheMode
    PROVE  EveryoneKnowsTheMode'
<1>1. Update(b)
  BY DEF Drives, DrivePacer
<1>2. QED
  BY <1>1, UpdateByAction, Zenon
     DEF Drives, ApplyPacerAction, EveryoneKnowsTheMode, IInv, SubStates, TypeOK

(* The layer the client asks for stays at or above the pacer's. *)
LEMMA DriveKeepsDesired ==
    ASSUME NEW b \in Bps, Drives(b), IInv, IInv', desired_layer \in Rids,
           DesiredAtLeastPaced
    PROVE  desired_layer' \in Rids /\ DesiredAtLeastPaced'
<1>1. Update(b)
  BY DEF Drives, DrivePacer
<1>2. current_layer' \in Rids
  BY DEF IInv, TypeOK
<1>3. CASE action' = "ChangeLayer"
  BY <1>2, <1>3, RankValues DEF Drives, DrivePacer, DesiredAtLeastPaced
<1>4. CASE action' # "ChangeLayer"
  <2>1. desired_layer' = desired_layer
    BY <1>4 DEF Drives, DrivePacer
  <2>2. current_layer' = current_layer \/ current_layer' = "LOW"
    BY <1>1, <1>4, UpdateByAction
  <2>3. QED
    BY <2>1, <2>2, RankValues DEF DesiredAtLeastPaced
<1>5. QED
  BY <1>3, <1>4

-----------------------------------------------------------------------------
(* The parts of the inductive invariant, each through one step. *)

(* The steps that feed the estimator and leave pacer and client alone. *)
Feeds ==
    \/ \E b \in Ceilings : RecordNativeEstimate(b) \/ RecordClientHint(b)
    \/ \E d, l \in Rates : OnTwccFeedback(d, l)
    \/ EnableGoogcc
    \/ \E g \in Rates : GoogccOnReceive(g)

(* A step feeds, drives or lets time pass. *)
LEMMA PacedSteps ==
    ASSUME PacedNext
    PROVE  \/ Feeds
           \/ \E b \in Bps : UpdatePacerLayers(b)
           \/ \E b \in Bps : PollAllDrives(b)
           \/ Tick
  BY Zenon DEF PacedNext, Feeds

(* No feed touches the pacer, the client or the history. *)
LEMMA FeedsLeave ==
    ASSUME Feeds
    PROVE  /\ UNCHANGED <<vars, kalman_bwe, client, told, lowFor>>
           /\ (kalman_bwe /\ tracked' = TRUE) \/ UNCHANGED tracked
  BY DEF Feeds, RecordNativeEstimate, RecordClientHint, OnTwccFeedback, EnableGoogcc,
         GoogccOnReceive

(* The part of the type invariant that is about the estimator. *)
EstimatorOK ==
    /\ tracked \in BOOLEAN
    /\ delay \in Rates /\ delay >= MinBitrate
    /\ loss \in Rates /\ loss >= MinBitrate
    /\ native \in OptionalRate
    /\ googcc \in Rates \cup {None} /\ (googcc # None => googcc >= GoogccMin)
    /\ client_hint \in OptionalRate
    /\ hint_age \in 0..HintMaxAge \cup {None}

(* A feed leaves every term of the estimate in its range. *)
LEMMA FeedsKeepEstimator ==
    ASSUME EstimatorOK, Feeds
    PROVE  EstimatorOK'
<1>1. ASSUME NEW b \in Ceilings, RecordNativeEstimate(b) PROVE EstimatorOK'
  BY <1>1, RatesAssumption DEF RecordNativeEstimate, EstimatorOK, OptionalRate
<1>2. ASSUME NEW b \in Ceilings, RecordClientHint(b) PROVE EstimatorOK'
  BY <1>2, RatesAssumption, AgesAssumption DEF RecordClientHint, EstimatorOK, OptionalRate
<1>3. ASSUME NEW d \in Rates, NEW l \in Rates, OnTwccFeedback(d, l) PROVE EstimatorOK'
  BY <1>3 DEF OnTwccFeedback, DelayRates, LossRates, EstimatorOK
<1>4. CASE EnableGoogcc
  BY <1>4, RatesAssumption DEF EnableGoogcc, EstimatorOK
<1>5. ASSUME NEW g \in Rates, GoogccOnReceive(g) PROVE EstimatorOK'
  BY <1>5 DEF GoogccOnReceive, EstimatorOK
<1>6. QED
  BY <1>1, <1>2, <1>3, <1>4, <1>5 DEF Feeds

(* An age that has reached its limit stays there. *)
LEMMA OlderRange ==
    ASSUME NEW limit \in Nat, NEW age \in 0..limit \cup {None}
    PROVE  Older(age, limit) \in 0..limit \cup {None}
  BY DEF Older, None

(* Every step keeps the fields of client and estimator in their types. *)
LEMMA PacedTypeStep ==
    ASSUME IInv', PacedTypeOK, DesiredAtLeastPaced, IInv, PacedNext
    PROVE  PacedTypeOK'
<1>1. EstimatorOK /\ TypeOK'
  BY DEF PacedTypeOK, EstimatorOK, IInv
<1>2. CASE Feeds
  <2>1. /\ kalman_bwe' = kalman_bwe /\ desired_layer' = desired_layer
        /\ client_suspended' = client_suspended
        /\ last_pacer_drive' = last_pacer_drive /\ told' = told
    BY <1>2, FeedsLeave DEF client
  <2>2. EstimatorOK'
    BY <1>1, <1>2, FeedsKeepEstimator
  <2>3. QED
    BY <1>1, <2>1, <2>2 DEF PacedTypeOK, EstimatorOK
<1>3. ASSUME NEW b \in Bps, UpdatePacerLayers(b) \/ PollAllDrives(b) PROVE PacedTypeOK'
  <2>1. Drives(b)
    BY <1>3 DEF Drives, UpdatePacerLayers, PollAllDrives
  <2>2. desired_layer' \in Rids
    BY <2>1, DriveKeepsDesired DEF PacedTypeOK
  <2>3. client_suspended' \in BOOLEAN /\ told' \in {"video", "audio", "suspended"}
    BY <2>1, Zenon DEF Drives, ApplyPacerAction, PacedTypeOK
  <2>4. last_pacer_drive' \in 0..MinTick \cup {None}
    BY <1>3, AgesAssumption DEF UpdatePacerLayers, PollAllDrives, PacedTypeOK
  <2>5. kalman_bwe' = kalman_bwe /\ UNCHANGED estimator
    BY <1>3 DEF UpdatePacerLayers, PollAllDrives
  <2>6. EstimatorOK'
    BY <1>1, <2>5 DEF EstimatorOK, estimator
  <2>7. QED
    BY <1>1, <2>2, <2>3, <2>4, <2>5, <2>6 DEF PacedTypeOK, EstimatorOK
<1>4. CASE Tick
  <2>1. /\ hint_age' \in 0..HintMaxAge \cup {None}
        /\ last_pacer_drive' \in 0..MinTick \cup {None}
    BY <1>4, OlderRange, AgesAssumption DEF Tick, PacedTypeOK
  <2>2. QED
    BY <1>1, <1>4, <2>1 DEF Tick, PacedTypeOK
<1>5. QED
  BY <1>2, <1>3, <1>4, PacedSteps

(* Every step keeps mode, layer and configuration in line. *)
LEMMA PacedModeStep ==
    ASSUME PacedInv, IInv', PacedNext
    PROVE  EveryoneKnowsTheMode' /\ DesiredAtLeastPaced' /\ ConfigIsDefault'
<1>1. CASE Feeds \/ Tick
  <2>1. UNCHANGED <<vars, desired_layer, client_suspended, told>>
    BY <1>1, FeedsLeave DEF Tick, client
  <2>2. QED
    BY <2>1 DEF vars, pacer, PacedInv, EveryoneKnowsTheMode, DesiredAtLeastPaced,
                ConfigIsDefault
<1>2. ASSUME NEW b \in Bps, UpdatePacerLayers(b) \/ PollAllDrives(b)
      PROVE  EveryoneKnowsTheMode' /\ DesiredAtLeastPaced' /\ ConfigIsDefault'
  <2>1. Drives(b)
    BY <1>2 DEF Drives, UpdatePacerLayers, PollAllDrives
  <2>2. config' = config
    BY <2>1 DEF Drives, DrivePacer, Update
  <2>3. QED
    BY <2>1, <2>2, DriveKeepsMode, DriveKeepsDesired
       DEF PacedInv, PacedTypeOK, ConfigIsDefault
<1>3. QED
  BY <1>1, <1>2, PacedSteps

(* An unmeasured subscriber stays undriven: only a feed can end that. *)
LEMMA PacedUnmeasuredStep ==
    ASSUME PacedInv, PacedNext
    PROVE  UnmeasuredIsNotPaced'
<1>1. tracked \in BOOLEAN /\ UnmeasuredIsNotPaced
  BY DEF PacedInv, PacedTypeOK
<1>2. CASE Feeds
  <2>1. /\ kalman_bwe' = kalman_bwe /\ last_pacer_drive' = last_pacer_drive
        /\ bps' = bps /\ audio_only' = audio_only
        /\ (kalman_bwe /\ tracked' = TRUE) \/ tracked' = tracked
    BY <1>2, FeedsLeave DEF client, vars, pacer, history
  <2>2. QED
    BY <1>1, <2>1 DEF UnmeasuredIsNotPaced
<1>3. ASSUME NEW b \in Bps, UpdatePacerLayers(b) \/ PollAllDrives(b)
      PROVE  UnmeasuredIsNotPaced'
  <2>1. kalman_bwe' = kalman_bwe /\ tracked' = tracked
    BY <1>3 DEF UpdatePacerLayers, PollAllDrives, estimator
  <2>2. ~kalman_bwe \/ tracked
    BY <1>3, Zenon DEF UpdatePacerLayers, PollAllDrives
  <2>3. QED
    BY <2>1, <2>2, Zenon DEF UnmeasuredIsNotPaced
<1>4. CASE Tick
  BY <1>1, <1>4 DEF Tick, Older, vars, pacer, history, UnmeasuredIsNotPaced
<1>5. QED
  BY <1>2, <1>3, <1>4, PacedSteps

-----------------------------------------------------------------------------
(* The window of time the debounce stands for. *)

(* One more reading adds one interval to the window. *)
LEMMA OneMoreInterval ==
    ASSUME NEW k \in Nat, NEW m \in Nat
    PROVE  /\ (k - 1) * m \in Int /\ k * m \in Nat
           /\ (k - 1) * m + m = k * m
           /\ (k + 1 - 1) * m = k * m
  OBVIOUS

(* While time passes the window ages with the last drive. *)
LEMMA WindowAges ==
    ASSUME NEW w \in Int, NEW low \in Nat, NEW drive \in Nat, NEW later \in Nat,
           low >= w + drive, later <= drive + 1
    PROVE  low + 1 >= w + later
  OBVIOUS

(* A drive counts at most one low reading, and counts it below the limit. *)
LEMMA StreakMoves ==
    ASSUME IInv, NEW b \in Bps, Update(b)
    PROVE  \/ suspend_streak' = 0 /\ suspended' = suspended
           \/ suspend_streak' = 0 /\ suspended /\ ~suspended'
           \/ /\ b < config.suspend_video_bps
              /\ suspend_streak' = suspend_streak + 1 /\ suspended' = suspended
           \/ /\ b < config.suspend_video_bps /\ ~suspended /\ suspended'
              /\ suspend_streak' = 0 /\ suspend_streak + 1 = config.suspend_streak
<1>1. /\ suspend_streak \in Nat /\ suspend_streak < config.suspend_streak
      /\ config.suspend_streak \in Nat /\ config.suspend_streak <= U8Max
      /\ suspended => suspend_streak = 0
  BY ConfigValues, U8Assumption DEF IInv, TypeOK, SubStates, Streak, PacerConfig
<1>2. SaturatingInc(suspend_streak) = suspend_streak + 1
  BY <1>1, U8Assumption DEF SaturatingInc
<1>3. CASE StaySuspended(b)
  BY <1>1, <1>3 DEF StaySuspended, pacer
<1>4. CASE DebounceSuspend(b)
  BY <1>2, <1>4 DEF DebounceSuspend
<1>5. CASE SuspendVideo(b)
  <2>1. suspend_streak + 1 = config.suspend_streak
    BY <1>1, <1>2, <1>5 DEF SuspendVideo
  <2>2. QED
    BY <1>5, <2>1 DEF SuspendVideo
<1>6. CASE RestoreAudio(b)
  BY <1>6 DEF RestoreAudio
<1>7. CASE NotSuspending(b)
  BY <1>7 DEF NotSuspending
<1>8. QED
  BY <1>3, <1>4, <1>5, <1>6, <1>7
     DEF Update, StayAudioOnly, RestoreVideo, GoAudioOnly, Downgrade, Upgrade,
         CountUpgrade, AtTarget, Video

(* When the floor lets a drive through, a whole interval has been added    *)
(* to the window since the last one.                                       *)
LEMMA ReadyWindow ==
    ASSUME PacedInv, kalman_bwe, PacerTickReady, NEW b \in Bps, RecordLow(b),
           b < config.suspend_video_bps
    PROVE  /\ lowFor' \in Nat
           /\ lowFor' >= SuspendSpan \/ lowFor' >= suspend_streak * MinTick
<1>1. /\ suspend_streak \in Nat /\ MinTick \in Nat /\ MinTick # 0
      /\ config.suspend_video_bps \in Nat /\ b \in Nat
      /\ lowFor \in Nat \cup {None}
      /\ last_pacer_drive \in 0..MinTick \cup {None}
  BY ConfigValues, BpsAssumption, AgesAssumption
     DEF PacedInv, PacedTypeOK, TypeOK, Streak, StreakSpans
<1>2. lowFor' = IF lowFor = None THEN 0 ELSE lowFor
  BY <1>1 DEF RecordLow
<1>3. lowFor' \in Nat
  BY <1>1, <1>2
<1>4. CASE suspend_streak = 0
  BY <1>1, <1>3, <1>4
<1>5. CASE suspend_streak > 0
  <2>1. /\ lowFor # None /\ last_pacer_drive # None
        /\ \/ lowFor >= SuspendSpan
           \/ lowFor >= (suspend_streak - 1) * MinTick + last_pacer_drive
    BY <1>5 DEF PacedInv, StreakSpans
  <2>2. last_pacer_drive = MinTick
    BY <1>1, <2>1 DEF PacerTickReady, None
  <2>3. (suspend_streak - 1) * MinTick + MinTick = suspend_streak * MinTick
    BY <1>1, OneMoreInterval
  <2>4. QED
    BY <1>2, <1>3, <2>1, <2>2, <2>3
<1>6. QED
  BY <1>1, <1>3, <1>4, <1>5

(* Every step keeps the window as long as the streak says. *)
LEMMA PacedStreakStep ==
    ASSUME PacedInv, PacedNext
    PROVE  StreakSpans'
<1>1. /\ suspend_streak \in Nat /\ MinTick \in Nat /\ MinTick # 0
      /\ config.suspend_streak \in Nat
      /\ config.suspend_video_bps \in Nat
      /\ lowFor \in Nat \cup {None}
      /\ last_pacer_drive \in 0..MinTick \cup {None}
  BY ConfigValues, AgesAssumption, U8Assumption
     DEF PacedInv, PacedTypeOK, TypeOK, Streak, StreakSpans, PacerConfig
<1>2. StreakSpans
  BY DEF PacedInv
<1>3. CASE Feeds
  <2>1. UNCHANGED <<lowFor, kalman_bwe, suspend_streak, last_pacer_drive, config>>
    BY <1>3, FeedsLeave DEF client, vars, pacer
  <2>2. QED
    BY <1>2, <2>1 DEF StreakSpans, SuspendSpan
<1>4. ASSUME NEW b \in Bps, UpdatePacerLayers(b) PROVE StreakSpans'
  <2>1. /\ kalman_bwe /\ PacerTickReady /\ last_pacer_drive' = 0 /\ RecordLow(b)
        /\ Update(b) /\ config' = config
    BY <1>4 DEF UpdatePacerLayers, DrivePacer, Update
  <2>2. lowFor' \in Nat \cup {None}
    BY <1>1, <2>1 DEF RecordLow
  <2>3. CASE suspend_streak' = 0
    BY <2>2, <2>3 DEF StreakSpans
  <2>4. CASE b < config.suspend_video_bps /\ suspend_streak' = suspend_streak + 1
    <3>1. /\ lowFor' \in Nat
          /\ lowFor' >= SuspendSpan \/ lowFor' >= suspend_streak * MinTick
      BY <2>1, <2>4, ReadyWindow
    <3>2. /\ (suspend_streak' - 1) * MinTick + last_pacer_drive' = suspend_streak * MinTick
          /\ SuspendSpan' = SuspendSpan
      BY <1>1, <2>1, <2>4, OneMoreInterval DEF SuspendSpan
    <3>3. QED
      BY <2>1, <3>1, <3>2 DEF StreakSpans, None
  <2>5. QED
    BY <2>1, <2>3, <2>4, StreakMoves DEF PacedInv
<1>5. ASSUME NEW b \in Bps, PollAllDrives(b) PROVE StreakSpans'
  <2>1. ~kalman_bwe' /\ RecordLow(b)
    BY <1>5 DEF PollAllDrives
  <2>2. QED
    BY <1>1, <2>1 DEF StreakSpans, RecordLow
<1>6. CASE Tick
  <2>1. /\ lowFor' = Older(lowFor, SuspendSpan)
        /\ last_pacer_drive' = Older(last_pacer_drive, MinTick)
        /\ UNCHANGED <<kalman_bwe, suspend_streak, config>>
    BY <1>6 DEF Tick, vars, pacer
  <2>2. SuspendSpan' = SuspendSpan /\ SuspendSpan \in Int
    BY <1>1, <2>1 DEF SuspendSpan
  <2>3. lowFor' \in Nat \cup {None}
    BY <1>1, <2>1, <2>2 DEF Older
  <2>4. ASSUME kalman_bwe', suspend_streak' > 0
        PROVE  /\ lowFor' # None /\ last_pacer_drive' # None
               /\ \/ lowFor' >= SuspendSpan
                  \/ lowFor' >= (suspend_streak - 1) * MinTick + last_pacer_drive'
    <3>1. /\ lowFor # None /\ last_pacer_drive # None
          /\ \/ lowFor >= SuspendSpan
             \/ lowFor >= (suspend_streak - 1) * MinTick + last_pacer_drive
      BY <1>2, <2>1, <2>4 DEF StreakSpans
    <3>2. last_pacer_drive' <= last_pacer_drive + 1 /\ last_pacer_drive' \in Nat
      BY <1>1, <2>1, <3>1 DEF Older, None
    <3>3. (suspend_streak - 1) * MinTick \in Int
      BY <1>1
    <3>4. CASE lowFor >= SuspendSpan
      BY <1>1, <2>1, <2>2, <3>1, <3>2, <3>4 DEF Older, None
    <3>5. CASE ~(lowFor >= SuspendSpan)
      <4>1. lowFor' = lowFor + 1
        BY <2>1, <3>1, <3>5 DEF Older
      <4>2. PICK w \in Int : w = (suspend_streak - 1) * MinTick
        BY <3>3
      <4>3. /\ lowFor >= w + last_pacer_drive
            /\ lowFor \in Nat /\ last_pacer_drive \in Nat
        BY <1>1, <3>1, <3>5, <4>2
      <4>4. lowFor + 1 >= w + last_pacer_drive'
        BY <3>2, <4>2, <4>3, WindowAges
      <4>5. lowFor' # None /\ last_pacer_drive' # None
        BY <3>2, <4>1, <4>3 DEF None
      <4>6. QED
        BY <4>1, <4>2, <4>4, <4>5
    <3>6. QED
      BY <3>4, <3>5
  <2>5. QED
    BY <2>1, <2>2, <2>3, <2>4 DEF StreakSpans
<1>7. QED
  BY <1>3, <1>4, <1>5, <1>6, PacedSteps

-----------------------------------------------------------------------------
(* The inductive invariant. *)

(* A new client satisfies it. *)
LEMMA PacedInitInv == PacedInit => PacedInv
<1>1. SUFFICES ASSUME PacedInit PROVE PacedInv
  OBVIOUS
<1>2. IInv /\ TypeOK
  BY <1>1, PacedInitIsPacerInit, InitEstablishesIInv DEF IInv
<1>3. PacedTypeOK
  <2>1. EstimatorOK
    BY <1>1, RatesAssumption DEF PacedInit, EstimatorOK, OptionalRate
  <2>2. QED
    BY <1>1, <1>2, <2>1, DesiredAssumption DEF PacedInit, PacedTypeOK, EstimatorOK
<1>4. DesiredAtLeastPaced
  <2>1. desired_layer \in Rids /\ current_layer = "LOW"
    BY <1>1, DesiredAssumption DEF PacedInit, TryWithConfig
  <2>2. QED
    BY <2>1, RankValues DEF DesiredAtLeastPaced
<1>5. EveryoneKnowsTheMode /\ UnmeasuredIsNotPaced /\ ConfigIsDefault
  BY <1>1 DEF PacedInit, TryWithConfig, EveryoneKnowsTheMode, UnmeasuredIsNotPaced,
              ConfigIsDefault
<1>6. StreakSpans
  BY <1>1 DEF PacedInit, TryWithConfig, StreakSpans
<1>7. QED
  BY <1>2, <1>3, <1>4, <1>5, <1>6 DEF PacedInv

(* Every step, and every stuttering step, keeps it. *)
LEMMA PacedNextInv == PacedInv /\ [PacedNext]_pacedVars => PacedInv'
<1>1. ASSUME PacedInv, PacedNext PROVE PacedInv'
  <2>1. IInv'
    BY <1>1, PacedStepIsPacerStep, NextKeepsIInv DEF PacedInv
  <2>2. PacedTypeOK'
    BY <1>1, <2>1, PacedTypeStep DEF PacedInv
  <2>3. QED
    BY <1>1, <2>1, <2>2, PacedModeStep, PacedUnmeasuredStep, PacedStreakStep DEF PacedInv
<1>2. ASSUME PacedInv, UNCHANGED pacedVars PROVE PacedInv'
  <2>1. IInv' /\ TypeOK'
    BY <1>2, NextKeepsIInv DEF PacedInv, pacedVars, IInv
  <2>2. /\ config' = config /\ suspended' = suspended /\ audio_only' = audio_only
        /\ current_layer' = current_layer /\ suspend_streak' = suspend_streak
        /\ bps' = bps /\ UNCHANGED <<kalman_bwe, client, estimator, told, lowFor>>
    BY <1>2 DEF pacedVars, vars, pacer, history
  <2>3. PacedTypeOK'
    BY <1>2, <2>1, <2>2 DEF PacedInv, PacedTypeOK, client, estimator
  <2>4. EveryoneKnowsTheMode' /\ DesiredAtLeastPaced' /\ ConfigIsDefault'
    BY <1>2, <2>2 DEF PacedInv, EveryoneKnowsTheMode, DesiredAtLeastPaced,
                      ConfigIsDefault, client
  <2>5. UnmeasuredIsNotPaced' /\ StreakSpans'
    BY <1>2, <2>2 DEF PacedInv, UnmeasuredIsNotPaced, StreakSpans, SuspendSpan,
                      client, estimator
  <2>6. QED
    BY <2>1, <2>3, <2>4, <2>5 DEF PacedInv
<1>3. QED
  BY <1>1, <1>2

(* It holds in every reachable state. *)
LEMMA PacedInvHolds == PacedSpec => []PacedInv
  BY PacedInitInv, PacedNextInv, PTL DEF PacedSpec

-----------------------------------------------------------------------------
(* The theorems. *)

(* Type correctness of client and estimator, with every controller of the  *)
(* kit at or above the minimum it clamps to.                               *)
THEOREM PacedTypeCorrect == PacedSpec => []PacedTypeOK
<1>1. PacedInv => PacedTypeOK
  BY DEF PacedInv
<1>2. QED
  BY <1>1, PacedInvHolds, PTL

(* The client's flag and the events emitted always name the pacer's mode. *)
THEOREM ModeIsKnown == PacedSpec => []EveryoneKnowsTheMode
<1>1. PacedInv => EveryoneKnowsTheMode
  BY DEF PacedInv
<1>2. QED
  BY <1>1, PacedInvHolds, PTL

(* A client never asks for less than its pacer selected. *)
THEOREM DesiredCoversPaced == PacedSpec => []DesiredAtLeastPaced
<1>1. PacedInv => DesiredAtLeastPaced
  BY DEF PacedInv
<1>2. QED
  BY <1>1, PacedInvHolds, PTL

(* A subscriber without a measurement is not paced. *)
THEOREM UnmeasuredIsSafe == PacedSpec => []UnmeasuredIsNotPaced
<1>1. PacedInv => UnmeasuredIsNotPaced
  BY DEF PacedInv
<1>2. QED
  BY <1>1, PacedInvHolds, PTL

(* A step that suspends is a drive with a low reading, the last of the     *)
(* streak.                                                                 *)
LEMMA SuspendingDrive ==
    ASSUME PacedInv, [PacedNext]_pacedVars, suspended', ~suspended, kalman_bwe
    PROVE  \E b \in Bps : /\ UpdatePacerLayers(b) /\ b < config.suspend_video_bps
                          /\ suspend_streak + 1 = config.suspend_streak
<1>1. ~UNCHANGED vars
  BY DEF vars, pacer
<1>2. PacedNext
  BY <1>1 DEF pacedVars
<1>3. ~Feeds /\ ~Tick
  BY <1>1, FeedsLeave DEF Tick
<1>4. ASSUME NEW b \in Bps, PollAllDrives(b) PROVE FALSE
  BY <1>4 DEF PollAllDrives
<1>5. PICK b \in Bps : UpdatePacerLayers(b)
  BY <1>2, <1>3, <1>4, PacedSteps
<1>6. Update(b)
  BY <1>5 DEF UpdatePacerLayers, DrivePacer
<1>7. b < config.suspend_video_bps /\ suspend_streak + 1 = config.suspend_streak
  BY <1>6, StreakMoves DEF PacedInv, IInv, TypeOK
<1>8. QED
  BY <1>5, <1>7

(* The floor turns the debounce into a window of time. *)
THEOREM SuspendTakesTime == PacedSpec => SuspendSpansTime
<1>1. ASSUME PacedInv, [PacedNext]_pacedVars
      PROVE  [kalman_bwe /\ suspended' /\ ~suspended => lowFor' >= SuspendSpan]_pacedVars
  <2>1. SUFFICES ASSUME kalman_bwe, suspended', ~suspended PROVE lowFor' >= SuspendSpan
    OBVIOUS
  <2>2. PICK b \in Bps : /\ UpdatePacerLayers(b) /\ b < config.suspend_video_bps
                         /\ suspend_streak + 1 = config.suspend_streak
    BY <1>1, <2>1, SuspendingDrive
  <2>3. lowFor' >= SuspendSpan \/ lowFor' >= suspend_streak * MinTick
    BY <1>1, <2>1, <2>2, ReadyWindow DEF UpdatePacerLayers
  <2>4. suspend_streak \in Nat
    BY <1>1 DEF PacedInv, IInv, TypeOK, Streak
  <2>5. SuspendSpan = suspend_streak * MinTick
    BY <2>2, <2>4, AgesAssumption DEF SuspendSpan
  <2>6. QED
    BY <2>3, <2>5
<1>2. QED
  BY <1>1, PacedInvHolds, PTL DEF PacedSpec, SuspendSpansTime

(* The combined estimate is one of its terms: the delay or loss rate, or   *)
(* a ceiling that is present.                                              *)
LEMMA CombinedIsATerm ==
    \/ CombinedBps \in {delay, loss}
    \/ CombinedBps # None /\ CombinedBps \in {native, googcc, FreshHint}
  BY DEF CombinedBps, MinUpdate

(* With the kit's minimum rates no estimator of its own suspends video. *)
THEOREM CeilingsSuspend == PacedSpec => OnlyCeilingsSuspend
<1>1. ASSUME PacedInv, [PacedNext]_pacedVars
      PROVE  [kalman_bwe /\ suspended' /\ ~suspended =>
                \/ native # None /\ native < config.suspend_video_bps
                \/ /\ client_hint # None /\ client_hint < config.suspend_video_bps
                   /\ hint_age < HintMaxAge]_pacedVars
  <2>1. SUFFICES ASSUME kalman_bwe, suspended', ~suspended
                 PROVE  \/ native # None /\ native < config.suspend_video_bps
                        \/ /\ client_hint # None
                           /\ client_hint < config.suspend_video_bps
                           /\ hint_age < HintMaxAge
    OBVIOUS
  <2>2. CombinedBps < config.suspend_video_bps
    <3>1. PICK b \in Bps : UpdatePacerLayers(b) /\ b < config.suspend_video_bps
      BY <1>1, <2>1, SuspendingDrive
    <3>2. QED
      BY <3>1 DEF UpdatePacerLayers
  <2>3. /\ config.suspend_video_bps \in Nat
        /\ delay >= config.suspend_video_bps /\ delay \in Nat
        /\ loss >= config.suspend_video_bps /\ loss \in Nat
        /\ googcc # None => googcc >= config.suspend_video_bps /\ googcc \in Nat
    BY <1>1, ConfigValues, FloorAssumption, RatesAssumption, BpsAssumption
       DEF PacedInv, PacedTypeOK, TypeOK, ConfigIsDefault
  <2>4. CombinedBps # None /\ CombinedBps \in {native, FreshHint}
    BY <2>2, <2>3, CombinedIsATerm
  <2>5. QED
    BY <2>2, <2>4 DEF FreshHint
<1>2. QED
  BY <1>1, PacedInvHolds, PTL DEF PacedSpec, OnlyCeilingsSuspend

=============================================================================
