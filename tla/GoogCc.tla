------------------------------ MODULE GoogCc ------------------------------
(***************************************************************************)
(* One subscriber's GoogCC estimator: bwe/googcc/mod.rs, aimd.rs and       *)
(* trendline.rs, with the feeds of it: poll_all hands every enabled        *)
(* estimator the timing of the last video packet of its pass, whoever      *)
(* published it, and the application may feed one of its own through       *)
(* googcc_ceiling_for_subscriber_mut.                                      *)
(*                                                                         *)
(* The estimator only ever subtracts send times from arrival times, so a   *)
(* sample is that difference: the packet's transit on top of the offset    *)
(* between the room's clock and the clock of its source, which is a        *)
(* publisher's RTP clock or whatever the application's own feed goes by.   *)
(* The regression is done in integers: both sides of the code's comparison *)
(* are multiplied by its denominator.  Slope and threshold are per sample, *)
(* as in the code; its comment gives the threshold in ms/s, but no clock   *)
(* takes part in the comparison.                                           *)
(***************************************************************************)
EXTENDS Integers, Sequences, FiniteSets, FiniteSetsExt

CONSTANTS
    Publishers,         \* those who may send video to the room
    App,                \* the application, where it feeds the estimator itself
    Clock,              \* the clock offset of each of them
    Transits,           \* transit times of packets
    WINDOW,             \* trendline::WINDOW
    OVERUSE_THRESHOLD,  \* trendline::OVERUSE_THRESHOLD, per sample
    GOOGCC_INITIAL_BPS, GOOGCC_MIN_BPS, GOOGCC_MAX_BPS,
    AI_PERCENT,         \* aimd::AI_FRACTION
    MD_PERCENT,         \* aimd::MD_FACTOR
    MinIncrease,        \* the 8_000 of update_loss
    Unset               \* the None of last_arrival_ms and last_send_ms

ASSUME SamplesAssumption ==
    Clock \in [Publishers \cup {App} -> Int] /\ Transits \subseteq Int
ASSUME WindowAssumption == WINDOW \in Nat /\ WINDOW >= 4
ASSUME ThresholdAssumption == OVERUSE_THRESHOLD \in Nat
ASSUME BoundsAssumption ==
    /\ GOOGCC_INITIAL_BPS \in Nat /\ GOOGCC_MIN_BPS \in Nat /\ GOOGCC_MAX_BPS \in Nat
    /\ GOOGCC_MIN_BPS <= GOOGCC_INITIAL_BPS /\ GOOGCC_INITIAL_BPS <= GOOGCC_MAX_BPS
    /\ AI_PERCENT \in 0..100 /\ MD_PERCENT \in 0..100
    /\ MinIncrease \in Nat \ {0}
ASSUME UnsetAssumption == Unset \notin Int

VARIABLES
    enabled,      \* PerSubscriber::googcc is Some
    deltas,       \* TrendlineDetector::deltas, arrival minus send
    state,        \* TrendlineDetector::state
    last,         \* last_arrival_ms - last_send_ms, Unset before the first
    bitrate_bps,  \* AimdController::bitrate_bps
    path,         \* the transit of each source that goes on sending, once the
                  \* network has settled and loses nothing; empty before
    \* History, read by no action:
    lossy,        \* the last sample came with high loss
    rising,       \* samples in a row that rose by more than the threshold
    sinceRise,    \* samples since the last one that did
    steadyFor     \* samples since the network settled

history == <<lossy, rising, sinceRise>>
vars    == <<enabled, deltas, state, last, bitrate_bps, path, history, steadyFor>>

Sources == Publishers \cup {App}
Samples == {Clock[s] + t : s \in Sources, t \in Transits}

Quiet == DOMAIN path # {}

(* The networks that may come to rest: some publisher goes on sending. *)
Paths == UNION {[S -> Transits] : S \in {S \in SUBSET Sources : S \cap Publishers # {}}}
Losses  == {"low", "neutral", "high"}   \* below 0.5 %, between, above 2 %

-----------------------------------------------------------------------------
(* aimd.rs *)


(* The low-loss arm of update_loss. *)
Increase(b) ==
    Min({b + Max({(b * AI_PERCENT) \div 100, MinIncrease}), GOOGCC_MAX_BPS})

(* A decrease that forgets its floor. *)
DecreaseUnclamped(b) == (b * MD_PERCENT) \div 100

(* on_overuse, and the high-loss arm of update_loss. *)
Decrease(b) == Max({(b * MD_PERCENT) \div 100, GOOGCC_MIN_BPS})

(* update_loss: in the neutral zone the rate is held. *)
UpdateLoss(b, loss) ==
    CASE loss = "low"     -> Increase(b)
      [] loss = "neutral" -> b
      [] loss = "high"    -> Decrease(b)

-----------------------------------------------------------------------------
(* trendline.rs *)

(* The scan of trendline_slope: the delay gained since before the window. *)
Accumulated(ds) ==
    LET acc[i \in 0..Len(ds)] == IF i = 0 THEN 0 ELSE acc[i - 1] + ds[i]
    IN  acc

(* The loop of trendline_slope.  Its numerator, of doubled terms; the      *)
(* deviations of x add up to zero, so the mean of y drops out.  SlopeNum   *)
(* and SlopeDen are the numerator and the denominator, each times twelve.  *)
Covariance(n, y) ==
    LET num[i \in 0..n] == IF i = 0 THEN 0 ELSE num[i - 1] + (2 * i - (n + 1)) * y[i]
    IN  num

SlopeNum(ds) == 6 * Covariance(Len(ds), Accumulated(ds))[Len(ds)]

SlopeDen(ds) == Len(ds) * (Len(ds) * Len(ds) - 1)

(* A classification by the size of the slope, whatever its sign. *)
ClassifyAbs(ds) ==
    LET bar == OVERUSE_THRESHOLD * SlopeDen(ds)
    IN  IF SlopeNum(ds) > bar \/ SlopeNum(ds) < -bar THEN "Overuse" ELSE "Normal"

(* A classification by the delay gained over the window, not its slope. *)
ClassifyGain(ds) ==
    IF Accumulated(ds)[Len(ds)] > OVERUSE_THRESHOLD THEN "Overuse" ELSE "Normal"

(* The end of TrendlineDetector::update. *)
Classify(ds) ==
    LET bar == OVERUSE_THRESHOLD * SlopeDen(ds)
    IN  CASE SlopeNum(ds) > bar -> "Overuse"
          [] SlopeNum(ds) < -bar -> "Underuse"
          [] OTHER -> "Normal"

(* A window that drops its newest delta when it is full. *)
UpdateDropsNewest(delta) ==
    /\ deltas' = IF Len(deltas) >= WINDOW THEN deltas ELSE Append(deltas, delta)
    /\ state' = IF Len(deltas') < 3 THEN state ELSE Classify(deltas')

(* TrendlineDetector::update. *)
Update(delta) ==
    /\ deltas' = Append(IF Len(deltas) >= WINDOW THEN Tail(deltas) ELSE deltas, delta)
    /\ state' = IF Len(deltas') < 3 THEN state ELSE Classify(deltas')

-----------------------------------------------------------------------------
(* googcc/mod.rs, and the feeds. *)

Rise(d) == last # Unset /\ d - last > OVERUSE_THRESHOLD

(* GoogCcEstimator::on_receive.  The first sample has nothing to be        *)
(* compared with and only reaches the loss controller.                     *)
OnReceive(d, loss) ==
    /\ enabled
    /\ last' = d
    /\ IF last = Unset
       THEN UNCHANGED <<deltas, state>> /\ bitrate_bps' = UpdateLoss(bitrate_bps, loss)
       ELSE /\ Update(d - last)
            /\ bitrate_bps' = IF state' = "Overuse" THEN Decrease(bitrate_bps)
                              ELSE UpdateLoss(bitrate_bps, loss)
    /\ lossy' = (loss = "high")
    /\ rising' = IF Rise(d) THEN Min({rising + 1, WINDOW}) ELSE 0
    /\ sinceRise' = IF Rise(d) THEN 0 ELSE Min({sinceRise + 1, WINDOW})
    /\ UNCHANGED <<enabled, path>>

(* What the network lets a source s deliver: a settled one loses nothing   *)
(* and holds every source that still sends to its transit.  Which of them  *)
(* a sample is of stays open, and their clocks differ.                     *)
Delivers(s, t, loss) ==
    /\ Quiet => s \in DOMAIN path /\ t = path[s] /\ loss = "low"
    /\ steadyFor' = IF Quiet THEN Min({steadyFor + 1, WINDOW + 1}) ELSE 0

(* The end of a poll_all that saw video: the room's last sample, as if     *)
(* nothing were lost.                                                      *)
PollAll ==
    \E s \in Publishers, t \in Transits :
        Delivers(s, t, "low") /\ OnReceive(Clock[s] + t, "low")

(* The application feeds the estimator itself. *)
ManualFeed(t, loss) == Delivers(App, t, loss) /\ OnReceive(Clock[App] + t, loss)

(* enable_googcc_for_subscriber: GoogCcEstimator::new, unless there is one. *)
Enable ==
    /\ ~enabled
    /\ enabled' = TRUE
    /\ deltas' = <<>>
    /\ state' = "Normal"
    /\ last' = Unset
    /\ bitrate_bps' = GOOGCC_INITIAL_BPS
    /\ lossy' = FALSE
    /\ rising' = 0
    /\ sinceRise' = WINDOW
    /\ UNCHANGED <<path, steadyFor>>

(* The subscriber is reaped, and its estimator with it. *)
ReapDead ==
    /\ enabled
    /\ enabled' = FALSE
    /\ UNCHANGED <<deltas, state, last, bitrate_bps, path, history, steadyFor>>

(* The network settles for good, and some of the sources fall silent. *)
Settle ==
    /\ ~Quiet
    /\ path' \in Paths
    /\ UNCHANGED <<enabled, deltas, state, last, bitrate_bps, history, steadyFor>>

Init ==
    /\ enabled = FALSE
    /\ deltas = <<>>
    /\ state = "Normal"
    /\ last = Unset
    /\ bitrate_bps = GOOGCC_INITIAL_BPS
    /\ path = <<>>
    /\ lossy = FALSE
    /\ rising = 0
    /\ sinceRise = WINDOW
    /\ steadyFor = 0

Next ==
    \/ PollAll
    \/ \E t \in Transits, loss \in Losses : ManualFeed(t, loss)
    \/ Enable
    \/ ReapDead
    \/ Settle

Spec == Init /\ [][Next]_vars

(* The loop goes on polling and those publishers of the room that have not *)
(* fallen silent keep sending video.                                       *)
FairSpec == Spec /\ WF_vars(PollAll)

-----------------------------------------------------------------------------
(* What the estimator promises. *)

(* Every field keeps its type, the window stays within WINDOW, and the     *)
(* rate within the bounds the estimator was made with.                     *)
TypeOK ==
    /\ enabled \in BOOLEAN /\ path \in Paths \cup {<<>>}
    /\ deltas \in Seq(Int) /\ Len(deltas) <= WINDOW
    /\ state \in {"Underuse", "Normal", "Overuse"}
    /\ last \in Samples \cup {Unset}
    /\ bitrate_bps \in GOOGCC_MIN_BPS..GOOGCC_MAX_BPS
    /\ lossy \in BOOLEAN
    /\ rising \in 0..WINDOW /\ sinceRise \in 0..WINDOW
    /\ steadyFor \in 0..(WINDOW + 1)

(* No false negative of the trendline: when the delay has grown by more    *)
(* than the threshold with every sample but perhaps the oldest of the      *)
(* window, the detector says overuse, whatever the window held before.     *)
SteadyGrowthIsOveruse ==
    enabled /\ Len(deltas) >= 3 /\ rising >= Len(deltas) - 1 => state = "Overuse"

(* A cut needs a cause: without high loss the rate is cut only while one   *)
(* of the last WINDOW - 1 samples came out above the one before it by more *)
(* than the threshold, in ms per sample.  Falling samples and small rises  *)
(* never add up to a cut, and one jump is forgotten with the window.  The  *)
(* cause may be congestion, jitter, or a sample of another source: the     *)
(* detector cannot tell them apart.                                        *)
CutsFollowARise ==
    [][enabled /\ bitrate_bps' < bitrate_bps =>
          lossy' \/ sinceRise' < WINDOW - 1]_<<enabled, bitrate_bps>>

(* How much jitter, and how much difference between the clocks of a room,  *)
(* the trendline tolerates: samples that all lie within twice the          *)
(* threshold of one another are never taken for overuse, in whatever order *)
(* they come and however few of them the window holds.                     *)
JitterIsHarmless ==
    LET y == Accumulated(deltas)
    IN  (\A i, j \in 1..Len(deltas) : y[i] - y[j] <= 2 * OVERUSE_THRESHOLD)
            => state # "Overuse"


(* "Positive slope signals delay build-up (congestion); negative or zero   *)
(* means the link is recovering or stable": once every sample in the       *)
(* window was taken on a network where each transit stays what it is,      *)
(* nothing is lost and the application feeds nothing of its own, the rate  *)
(* is not cut.  Refuted with two publishers, whose RTP clocks alternate in *)
(* the window.                                                             *)
StableLinkIsNotCut ==
    [][enabled /\ App \notin DOMAIN path /\ bitrate_bps' < bitrate_bps
          => steadyFor' <= WINDOW]_<<enabled, bitrate_bps>>

=============================================================================
