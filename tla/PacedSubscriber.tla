-------------------------- MODULE PacedSubscriber --------------------------
(***************************************************************************)
(* One subscriber of a room: its pacer, the client fields the pacer        *)
(* drives (client/accessors.rs), its entry in the BandwidthEstimator       *)
(* (bwe/subscriber.rs, bwe/estimator.rs) and the two sites of              *)
(* registry/drive.rs that feed and drive it.                               *)
(*                                                                         *)
(* Which site drives is a compile-time feature, chosen here in the initial *)
(* state.  With kalman-bwe, poll_all only records the native estimate and  *)
(* update_pacer_layers drives on media, behind the min-tick floor; without *)
(* it poll_all drives on every native estimate.                            *)
(*                                                                         *)
(* Instants are kept as ages, which grow to the one threshold they are     *)
(* compared with and stay there.  The rate controllers of the delay, loss  *)
(* and GoogCC estimators are abstracted to the bounds they clamp to: one   *)
(* feedback moves each to some rate at or above its minimum.               *)
(***************************************************************************)
EXTENDS SubscriberPacer

CONSTANTS
    DefaultConfig,     \* PacerConfig::default()
    Rates,             \* rates the delay, loss and GoogCC controllers take
    Ceilings,          \* rates a native estimate or a client hint takes
    MinBitrate,        \* kalman::MIN_BITRATE_BPS
    InitialBitrate,    \* subscriber::INITIAL_BITRATE_BPS
    GoogccMin,         \* GOOGCC_MIN_BPS
    GoogccInitial,     \* GOOGCC_INITIAL_BPS
    MinTick,           \* PACER_MIN_TICK_INTERVAL
    HintMaxAge,        \* CLIENT_HINT_MAX_AGE
    DesiredAtInsert,   \* layers set_desired_layer may have left before insert
    TwccReports        \* the application calls Registry::on_twcc_feedback

ASSUME ConfigAssumption == DefaultConfig \in PacerConfig /\ Validate(DefaultConfig)
ASSUME RatesAssumption ==
    /\ Rates \subseteq Bps /\ Ceilings \subseteq Bps
    /\ {InitialBitrate, GoogccInitial} \subseteq Rates
    /\ MinBitrate \in Nat /\ InitialBitrate >= MinBitrate
    /\ GoogccMin \in Nat /\ GoogccInitial >= GoogccMin
ASSUME AgesAssumption == MinTick \in Nat \ {0} /\ HintMaxAge \in Nat \ {0}
ASSUME DesiredAssumption == DesiredAtInsert \subseteq Rids
ASSUME TwccAssumption == TwccReports \in BOOLEAN
(* The defaults: 10 000 bps suspends, no controller goes below 30 000.     *)
ASSUME FloorAssumption ==
    /\ MinBitrate >= DefaultConfig.suspend_video_bps
    /\ GoogccMin >= DefaultConfig.suspend_video_bps

VARIABLES
    kalman_bwe,        \* the cargo feature: which site drives
    desired_layer,     \* Client::desired_layer
    client_suspended,  \* Client::suspended, what the fanout filter reads
    last_pacer_drive,  \* age of Client::last_pacer_drive
    tracked,           \* the estimator holds an entry for the subscriber
    delay, loss, native, googcc, client_hint, hint_age,
    \* History, read by no action:
    told,              \* the mode the emitted events add up to
    lowFor             \* time since the first reading of the present low row

client    == <<desired_layer, client_suspended, last_pacer_drive>>
estimator == <<tracked, delay, loss, native, googcc, client_hint, hint_age>>
pacedVars == <<vars, kalman_bwe, client, estimator, told, lowFor>>

None == -1

Older(age, limit) == IF age = None \/ age >= limit THEN age ELSE age + 1

(* How long the low readings of one suspend must span. *)
SuspendSpan == (config.suspend_streak - 1) * MinTick

-----------------------------------------------------------------------------
(* bwe/estimator.rs and bwe/subscriber.rs. *)

(* A hint that never expires. *)
FreshHintForever == client_hint

(* The hint arm of combined_bps_with_term: a stale hint is discarded. *)
FreshHint == IF hint_age < HintMaxAge THEN client_hint ELSE None

(* fn min_update. *)
MinUpdate(best, cand) == IF cand # None /\ cand < best THEN cand ELSE best

(* combine_terms: the running minimum, in the order of the chain. *)
CombinedBps ==
    MinUpdate(MinUpdate(MinUpdate(MinUpdate(delay, loss), native), googcc), FreshHint)

(* record_native_estimate, from the BandwidthEstimate arm of poll_all. *)
RecordNativeEstimate(b) ==
    /\ kalman_bwe
    /\ tracked' = TRUE
    /\ native' = b
    /\ UNCHANGED <<vars, kalman_bwe, client, delay, loss, googcc, client_hint,
                   hint_age, told, lowFor>>

(* record_client_hint, from the ClientBudgetHint arm of fanout_pending.    *)
(* (Nothing in the kit queues that event: it comes from the application.)  *)
RecordClientHint(b) ==
    /\ kalman_bwe
    /\ tracked' = TRUE
    /\ client_hint' = b
    /\ hint_age' = 0
    /\ UNCHANGED <<vars, kalman_bwe, client, delay, loss, native, googcc, told, lowFor>>

(* What apply_rate_control of the delay and of the loss controller may     *)
(* leave: one multiplicative decrease, clamped to MIN_BITRATE_BPS, one     *)
(* additive increase, or the rate as it was.                               *)
DelayRates == {r \in Rates : r >= MinBitrate}
LossRates  == {r \in Rates : r >= MinBitrate}

(* on_twcc_feedback: ingest_twcc ends with a step of both controllers.     *)
(* The application calls it; nothing in the kit does.                      *)
OnTwccFeedback(d, l) ==
    /\ kalman_bwe
    /\ TwccReports
    /\ d \in DelayRates /\ l \in LossRates
    /\ tracked' = TRUE
    /\ delay' = d
    /\ loss' = l
    /\ UNCHANGED <<vars, kalman_bwe, client, native, googcc, client_hint, hint_age,
                   told, lowFor>>

(* enable_googcc_for_subscriber: idempotent. *)
EnableGoogcc ==
    /\ kalman_bwe
    /\ tracked' = TRUE
    /\ googcc' = IF googcc = None THEN GoogccInitial ELSE googcc
    /\ UNCHANGED <<vars, kalman_bwe, client, delay, loss, native, client_hint, hint_age,
                   told, lowFor>>

(* A GoogCC controller that decreases past its minimum. *)
GoogccOnReceiveUnclamped(g) ==
    /\ googcc # None
    /\ googcc' = g
    /\ UNCHANGED <<vars, kalman_bwe, client, tracked, delay, loss, native, client_hint,
                   hint_age, told, lowFor>>

(* poll_all's feed of an enabled GoogCC estimator. *)
GoogccOnReceive(g) ==
    /\ googcc # None
    /\ g >= GoogccMin
    /\ googcc' = g
    /\ UNCHANGED <<vars, kalman_bwe, client, tracked, delay, loss, native, client_hint,
                   hint_age, told, lowFor>>

-----------------------------------------------------------------------------
(* client/accessors.rs and registry/drive.rs. *)

(* A drive_pacer that leaves the client's own layer to somebody else. *)
DrivePacerNoLayer(b) == Update(b) /\ UNCHANGED desired_layer

(* Client::drive_pacer: only ChangeLayer reaches set_desired_layer. *)
DrivePacer(b) ==
    /\ Update(b)
    /\ desired_layer' = IF action' = "ChangeLayer" THEN current_layer' ELSE desired_layer

(* An apply_pacer_action that keeps silent about the end of a suspend. *)
ApplyPacerActionSilent ==
    /\ client_suspended' = CASE action' = "SuspendVideo" -> TRUE
                             [] action' = "RestoreAudio" -> FALSE
                             [] OTHER -> client_suspended
    /\ told' = CASE action' = "SuspendVideo" -> "suspended"
                 [] action' = "GoAudioOnly" -> "audio"
                 [] action' = "RestoreVideo" -> "video"
                 [] OTHER -> told

(* apply_pacer_action and the caller's use of its result: the suspended    *)
(* flag of the client, and the AudioOnlyMode or SuspendVideo event, of     *)
(* which told keeps the mode it announces.                                 *)
ApplyPacerAction ==
    /\ client_suspended' = CASE action' = "SuspendVideo" -> TRUE
                             [] action' = "RestoreAudio" -> FALSE
                             [] OTHER -> client_suspended
    /\ told' = CASE action' = "SuspendVideo" -> "suspended"
                 [] action' \in {"GoAudioOnly", "RestoreAudio"} -> "audio"
                 [] action' = "RestoreVideo" -> "video"
                 [] OTHER -> told

(* lowFor restarts with a row of low readings and ends with it. *)
RecordLow(b) ==
    lowFor' = IF b >= config.suspend_video_bps THEN None
              ELSE IF lowFor = None THEN 0 ELSE lowFor

(* A floor that is never applied. *)
PacerTickAlwaysReady == TRUE

(* Client::pacer_tick_ready; the caller records the drive. *)
PacerTickReady == last_pacer_drive = None \/ last_pacer_drive >= MinTick

(* An untracked subscriber driven with an estimate of nothing. *)
UpdatePacerLayersUnfed(b) ==
    /\ kalman_bwe
    /\ b = IF tracked THEN CombinedBps ELSE 0
    /\ PacerTickReady
    /\ last_pacer_drive' = 0
    /\ DrivePacer(b)
    /\ ApplyPacerAction
    /\ RecordLow(b)
    /\ UNCHANGED <<kalman_bwe, estimator>>

(* update_pacer_layers, for media of another client: an untracked or a     *)
(* throttled subscriber is skipped.                                        *)
UpdatePacerLayers(b) ==
    /\ kalman_bwe
    /\ tracked
    /\ b = CombinedBps
    /\ PacerTickReady
    /\ last_pacer_drive' = 0
    /\ DrivePacer(b)
    /\ ApplyPacerAction
    /\ RecordLow(b)
    /\ UNCHANGED <<kalman_bwe, estimator>>

(* The BandwidthEstimate arm of poll_all in a build without kalman-bwe. *)
PollAllDrives(b) ==
    /\ ~kalman_bwe
    /\ DrivePacer(b)
    /\ ApplyPacerAction
    /\ RecordLow(b)
    /\ UNCHANGED <<kalman_bwe, last_pacer_drive, estimator>>

(* Time passes. *)
Tick ==
    /\ hint_age' = Older(hint_age, HintMaxAge)
    /\ last_pacer_drive' = Older(last_pacer_drive, MinTick)
    /\ lowFor' = Older(lowFor, SuspendSpan)
    /\ UNCHANGED <<vars, kalman_bwe, desired_layer, client_suspended,
                   tracked, delay, loss, native, googcc, client_hint, told>>

(* Client::new, a pre-insert set_desired_layer, and an empty estimator.    *)
(* PerSubscriber::new fills the entry when the first feed creates it.      *)
PacedInit ==
    /\ TryWithConfig(DefaultConfig)
    /\ kalman_bwe \in BOOLEAN
    /\ desired_layer \in DesiredAtInsert
    /\ client_suspended = FALSE
    /\ last_pacer_drive = None
    /\ tracked = FALSE
    /\ delay = InitialBitrate
    /\ loss = InitialBitrate
    /\ native = None
    /\ googcc = None
    /\ client_hint = None
    /\ hint_age = None
    /\ told = "video"
    /\ lowFor = None

PacedNext ==
    \/ \E b \in Ceilings : RecordNativeEstimate(b)
    \/ \E b \in Ceilings : RecordClientHint(b)
    \/ \E d, l \in Rates : OnTwccFeedback(d, l)
    \/ EnableGoogcc
    \/ \E g \in Rates : GoogccOnReceive(g)
    \/ \E b \in Bps : UpdatePacerLayers(b)
    \/ \E b \in Bps : PollAllDrives(b)
    \/ Tick

PacedSpec == PacedInit /\ [][PacedNext]_pacedVars

(* The clock runs, and the room's publishers keep sending media. *)
PacedFairSpec ==
    /\ PacedSpec
    /\ WF_pacedVars(Tick)
    /\ WF_pacedVars(\E b \in Bps : UpdatePacerLayers(b))

-----------------------------------------------------------------------------
(* What the composition promises. *)

OptionalRate == Bps \cup {None}

(* Every field keeps its type, and the controllers stay at or above the    *)
(* minimum they clamp to.                                                  *)
PacedTypeOK ==
    /\ TypeOK
    /\ kalman_bwe \in BOOLEAN
    /\ desired_layer \in Rids
    /\ client_suspended \in BOOLEAN
    /\ last_pacer_drive \in 0..MinTick \cup {None}
    /\ tracked \in BOOLEAN
    /\ delay \in Rates /\ delay >= MinBitrate
    /\ loss \in Rates /\ loss >= MinBitrate
    /\ native \in OptionalRate
    /\ googcc \in Rates \cup {None} /\ (googcc # None => googcc >= GoogccMin)
    /\ client_hint \in OptionalRate
    /\ hint_age \in 0..HintMaxAge \cup {None}
    /\ told \in {"video", "audio", "suspended"}

(* The fanout filter and the consumer of the event stream agree with the   *)
(* pacer: Client::suspended is the pacer's sub-state, and the AudioOnlyMode *)
(* and SuspendVideo events add up to the pacer's mode, though a suspend    *)
(* straight from video is never announced as audio-only.                   *)
EveryoneKnowsTheMode ==
    /\ client_suspended = suspended
    /\ told = IF suspended THEN "suspended" ELSE IF audio_only THEN "audio" ELSE "video"

(* The client never asks for less than its pacer selected.  (It may ask    *)
(* for more: RestoreVideo lowers the pacer's layer and not the client's.)  *)
DesiredAtLeastPaced == Rank[desired_layer] >= Rank[current_layer]

(* Fail-safe of update_pacer_layers: a subscriber nobody has measured yet  *)
(* is never driven, so it is never suspended for want of an estimate.      *)
UnmeasuredIsNotPaced ==
    kalman_bwe /\ ~tracked => last_pacer_drive = None /\ bps = NoReading /\ ~audio_only

(* The min-tick floor keeps the debounce a window of time: with kalman-bwe *)
(* the low readings that suspend video span at least suspend_streak - 1    *)
(* intervals, however densely the media packets that drive the pacer come. *)
SuspendSpansTime ==
    [][kalman_bwe /\ suspended' /\ ~suspended => lowFor' >= SuspendSpan]_pacedVars

(* With kalman-bwe, no estimator of the kit can suspend video by itself:   *)
(* each of them clamps above suspend_video_bps, so every suspend is        *)
(* ordered by the native estimate or by a hint that is still fresh.        *)
OnlyCeilingsSuspend ==
    [][kalman_bwe /\ suspended' /\ ~suspended =>
          \/ native # None /\ native < config.suspend_video_bps
          \/ /\ client_hint # None /\ client_hint < config.suspend_video_bps
             /\ hint_age < HintMaxAge]_pacedVars

(* "a subsequent RestoreVideo will then lift to LOW": refuted, the pacer   *)
(* goes to LOW and the client keeps the layer it had before.               *)
RestoreVideoLiftsToLow ==
    [][Rung = 1 /\ Rung' = 2 => desired_layer' = "LOW"]_pacedVars

(* Everything but a stale hint pays for HIGH. *)
PaysForHigh ==
    /\ tracked
    /\ \A r \in {delay, loss} : r >= config.high_min_bps
    /\ \A r \in {native, googcc} : r = None \/ r >= config.high_min_bps

(* A hint pins the subscriber only while it is fresh: when the terms pay   *)
(* for HIGH for good and the last hint is never renewed, the subscriber is *)
(* brought to the HIGH layer, from suspension too.                         *)
HintsWearOff ==
    kalman_bwe /\ <>[]PaysForHigh /\ <>[][hint_age' >= hint_age]_pacedVars
        => <>[](Rung = 4 /\ desired_layer = "HIGH")

(* "No ... on_twcc_feedback ... calls needed for the common path":         *)
(* refuted, because nothing else moves the delay and loss rates off        *)
(* INITIAL_BITRATE_BPS, which pays for LOW only: a lasting native estimate *)
(* that pays for HIGH, with no other ceiling, never brings it there.       *)
CommonPathReachesHigh ==
    kalman_bwe /\ <>[](native >= config.high_min_bps /\ client_hint = None /\ googcc = None)
        => <>(Rung = 4)

=============================================================================
