---------------------------- MODULE TwccFeedback ----------------------------
(***************************************************************************)
(* The feedback path of one subscriber: record_send_time (bwe/estimator.rs),*)
(* ingest_twcc (bwe/feedback.rs), the delay controller (bwe/kalman.rs) and *)
(* the loss controller (bwe/loss.rs).                                      *)
(*                                                                         *)
(* The network gives every packet a one-way delay when it is sent; a       *)
(* report names packets as received or lost.  Reports may skip packets,    *)
(* repeat them, take back a loss and come in any order, but the samples of *)
(* one report are in ascending order, so that two sets stand for it.       *)
(*                                                                         *)
(* The gain of the Kalman filter lies strictly between 0 and 1, so one     *)
(* update leaves the filtered gradient between its old value and the       *)
(* sample, and a row of updates leaves it between the extremes: anywhere   *)
(* there is possible.  An Option is a set of at most one element.  The rtt *)
(* a report also leaves behind is read by nothing here and left out.       *)
(***************************************************************************)
EXTENDS Integers, Sequences, FiniteSets

CONSTANTS
    Delays,             \* one-way delays a packet may have
    OveruseThreshold,   \* OVERUSE_THRESHOLD_US
    MaxSendTimes,       \* MAX_SEND_TIMES
    LossWindow,         \* LOSS_WINDOW
    LossHigh, LossLow,  \* LOSS_HIGH_THRESHOLD and LOSS_LOW_THRESHOLD, in percent
    MinBitrate, MaxBitrate, InitialBitrate,
    DelayIncrease,      \* ADDITIVE_INCREASE_BPS
    LossIncrease,       \* LOSS_INCREASE_BPS
    DelayCooldown,      \* DECREASE_COOLDOWN
    LossCooldown,       \* LOSS_DECREASE_COOLDOWN
    MaxSeq, MaxTime     \* bounds on the packets sent and on the clock

ASSUME DelaysAssumption == Delays \subseteq Nat /\ OveruseThreshold \in Nat
ASSUME SizesAssumption  == MaxSendTimes \in Nat \ {0} /\ LossWindow \in Nat \ {0}
ASSUME LossAssumption   == LossHigh \in 1..100 /\ LossLow \in 0..LossHigh
ASSUME BitrateAssumption ==
    /\ MinBitrate \in Nat /\ MaxBitrate \in Nat
    /\ InitialBitrate \in MinBitrate..MaxBitrate
    /\ DelayIncrease \in Nat /\ LossIncrease \in Nat
ASSUME CooldownAssumption == DelayCooldown \in Nat /\ LossCooldown \in Nat
ASSUME BoundsAssumption   == MaxSeq \in Nat /\ MaxTime \in Nat

VARIABLES
    now,
    sent,          \* what became of the packets, by sequence number
    send_times,    \* the sequence numbers PerSubscriber::send_times holds
    last,          \* last_send_for_received and last_arrival, an Option
    gradient,      \* DelayEstimator::gradient_us
    delay, delay_cut,    \* its bitrate_bps, and the age of last_decrease
    window,        \* LossEstimator::window
    loss, loss_cut,
    \* History, read by no action:
    seen,          \* the one-way delays the delay controller was told of
    clean          \* how many of the latest samples in a row were received

controllers == <<gradient, delay, delay_cut, window, loss, loss_cut>>
vars        == <<now, sent, send_times, last, controllers, seen, clean>>

None == -1

Packet == [at : Nat, delay : Delays]

-----------------------------------------------------------------------------
(* record_send_time. *)

(* An eviction that makes room by dropping the newest entry. *)
EvictedNewest == {s \in send_times : \A t \in send_times : t <= s}

(* What a full map gives up: its smallest sequence number. *)
Evicted == {s \in send_times : \A t \in send_times : s <= t}

(* The packet is sent now, with the delay d that awaits it. *)
RecordSendTime(d) ==
    /\ Len(sent) < MaxSeq
    /\ sent' = Append(sent, [at |-> now, delay |-> d])
    /\ send_times' =
          (IF Cardinality(send_times) >= MaxSendTimes THEN send_times \ Evicted
                                                      ELSE send_times)
          \cup {Len(sent) + 1}
    /\ UNCHANGED <<now, last, controllers, seen, clean>>

-----------------------------------------------------------------------------
(* The delay controller. *)

(* Instant::duration_since, which saturates at zero. *)
Since(later, earlier) == IF later > earlier THEN later - earlier ELSE 0

(* recv_delta_us - send_delta_us, of packet q after packet p. *)
Gradient(p, q) == Since(q.at + q.delay, p.at + p.delay) - Since(q.at, p.at)

(* What packet s is compared with: the known one before it in the report,  *)
(* and for the first one what the last report left.                        *)
Previous(known, s) ==
    LET before == {r \in known : r < s}
    IN  IF before = {} THEN last
        ELSE {sent[r] : r \in {r \in before : \A t \in before : t <= r}}

(* Gradients whose inter-send delta is taken to the packet sent just       *)
(* before, received or not.                                                *)
GradientsBySequence(known) ==
    UNION {{Gradient([at |-> sent[s - 1].at, delay |-> p.at + p.delay - sent[s - 1].at], sent[s])
               : p \in Previous(known, s)} : s \in known \ {1}}

(* The gradients of a report of whose packets the known ones arrived and   *)
(* have a send time.                                                       *)
Gradients(known) ==
    UNION {{Gradient(p, sent[s]) : p \in Previous(known, s)} : s \in known}

(* update_kalman, once per gradient. *)
UpdateKalman(known) ==
    LET samples == {gradient} \cup Gradients(known)
    IN  \E lo, hi \in samples : gradient' \in lo..hi

(* A decrease without the floor. *)
LoweredUnclamped(bps) == (bps * 17) \div 20

(* The multiplicative decrease, by 0.85 down to the floor, and the         *)
(* additive increase up to the ceiling.                                    *)
Lowered(bps) ==
    LET cut == (bps * 17) \div 20 IN IF cut > MinBitrate THEN cut ELSE MinBitrate

Raised(bps, step) == IF bps + step < MaxBitrate THEN bps + step ELSE MaxBitrate

Cooled(cut, cooldown) == cut = None \/ cut >= cooldown

(* DelayEstimator::apply_rate_control. *)
ApplyDelayControl ==
    \/ /\ gradient' > OveruseThreshold
       /\ Cooled(delay_cut, DelayCooldown)
       /\ delay' = Lowered(delay)
       /\ delay_cut' = 0
    \/ /\ gradient' > OveruseThreshold
       /\ ~Cooled(delay_cut, DelayCooldown)
       /\ UNCHANGED <<delay, delay_cut>>
    \/ /\ gradient' <= OveruseThreshold
       /\ delay' = Raised(delay, DelayIncrease)
       /\ UNCHANGED delay_cut

-----------------------------------------------------------------------------
(* The loss controller. *)

(* A full window that turns the newest samples away. *)
RecordKeepOldest(flags) ==
    LET all == window \o flags
    IN  IF Len(all) > LossWindow THEN SubSeq(all, 1, LossWindow) ELSE all

(* LossEstimator::record, once per sample: the window keeps the newest. *)
Record(flags) ==
    LET all == window \o flags
    IN  IF Len(all) > LossWindow THEN SubSeq(all, Len(all) - LossWindow + 1, Len(all)) ELSE all

(* loss_fraction >= pct percent; an empty window has lost nothing. *)
LossAtLeast(w, pct) ==
    /\ w # <<>>
    /\ 100 * Cardinality({i \in DOMAIN w : ~w[i]}) >= pct * Len(w)

(* LossEstimator::apply_rate_control; between the thresholds it holds. *)
ApplyLossControl ==
    \/ /\ LossAtLeast(window', LossHigh)
       /\ Cooled(loss_cut, LossCooldown)
       /\ loss' = Lowered(loss)
       /\ loss_cut' = 0
    \/ /\ LossAtLeast(window', LossHigh)
       /\ ~Cooled(loss_cut, LossCooldown)
       /\ UNCHANGED <<loss, loss_cut>>
    \/ /\ ~LossAtLeast(window', LossLow)
       /\ loss' = Raised(loss, LossIncrease)
       /\ UNCHANGED loss_cut
    \/ /\ LossAtLeast(window', LossLow) /\ ~LossAtLeast(window', LossHigh)
       /\ UNCHANGED <<loss, loss_cut>>

-----------------------------------------------------------------------------
(* ingest_twcc. *)

(* The i-th sample of a report, in ascending order. *)
Nth(samples, i) == CHOOSE s \in samples : Cardinality({r \in samples : r <= s}) = i

Flags(received, lost) ==
    LET samples == received \cup lost
    IN  [i \in 1..Cardinality(samples) |-> Nth(samples, i) \in received]

(* How many samples in a row were received, up to the size of the window. *)
CleanRun(flags) ==
    LET losses == {i \in DOMAIN flags : ~flags[i]}
        run    == IF losses = {} THEN clean + Len(flags)
                  ELSE Cardinality({i \in DOMAIN flags : \A j \in losses : j < i})
    IN  IF run < LossWindow THEN run ELSE LossWindow

(* One report: every sample goes to the loss window, the received ones     *)
(* whose send time is known to the filter, then both controllers step.     *)
IngestTwcc(received, lost) ==
    /\ \A s \in received : sent[s].at + sent[s].delay <= now
    /\ LET known == received \cap send_times
           flags == Flags(received, lost)
       IN  /\ UpdateKalman(known)
           /\ last' = IF known = {} THEN last
                      ELSE {sent[s] : s \in {s \in known : \A t \in known : t <= s}}
           /\ window' = Record(flags)
           /\ seen' = seen \cup {sent[s].delay : s \in known}
           /\ clean' = CleanRun(flags)
    /\ ApplyDelayControl
    /\ ApplyLossControl
    /\ UNCHANGED <<now, sent, send_times>>

Older(age, limit) == IF age = None \/ age >= limit THEN age ELSE age + 1

(* Time passes. *)
Tick ==
    /\ now < MaxTime
    /\ now' = now + 1
    /\ delay_cut' = Older(delay_cut, DelayCooldown)
    /\ loss_cut' = Older(loss_cut, LossCooldown)
    /\ UNCHANGED <<sent, send_times, last, gradient, delay, window, loss, seen, clean>>

(* PerSubscriber::new. *)
Init ==
    /\ now = 0
    /\ sent = <<>>
    /\ send_times = {}
    /\ last = {}
    /\ gradient = 0
    /\ delay = InitialBitrate /\ delay_cut = None
    /\ window = <<>>
    /\ loss = InitialBitrate /\ loss_cut = None
    /\ seen = {}
    /\ clean = 0

Next ==
    \/ \E d \in Delays : RecordSendTime(d)
    \/ \E received \in SUBSET (DOMAIN sent) :
          \E lost \in SUBSET (DOMAIN sent \ received) : IngestTwcc(received, lost)
    \/ Tick

Spec == Init /\ [][Next]_vars

-----------------------------------------------------------------------------
(* What the feedback path promises. *)

(* Both rates stay between MIN_BITRATE_BPS and MAX_BITRATE_BPS, the window *)
(* and the map within their sizes, every other field in its type.          *)
TypeOK ==
    /\ now \in 0..MaxTime
    /\ sent \in Seq(Packet) /\ Len(sent) <= MaxSeq
    /\ send_times \subseteq DOMAIN sent
    /\ \A p, q \in last : p \in Packet /\ p = q
    /\ gradient \in Int
    /\ delay \in MinBitrate..MaxBitrate /\ loss \in MinBitrate..MaxBitrate
    /\ delay_cut \in 0..DelayCooldown \cup {None}
    /\ loss_cut \in 0..LossCooldown \cup {None}
    /\ window \in Seq(BOOLEAN) /\ Len(window) <= LossWindow
    /\ seen \subseteq Delays
    /\ clean \in 0..LossWindow

(* send_times holds exactly the MAX_SEND_TIMES packets sent last, however  *)
(* feedback and sending interleave: a report that is not later than that   *)
(* always finds the send times of its packets.                             *)
RecentSendsKnown ==
    send_times = {s \in DOMAIN sent : s > Len(sent) - MaxSendTimes}

(* No phantom congestion: the delay rate is lowered only when two packets  *)
(* it was told of differ in one-way delay by more than the threshold.      *)
(* Losses, evicted send times, repeated, reordered and revoked reports     *)
(* never look like a growing queue.                                        *)
NoPhantomCongestion ==
    [][delay' < delay => \E x, y \in seen' : x - y > OveruseThreshold]_vars

(* A loss is forgotten: once the window has been filled with received      *)
(* packets, whatever was in it before, the loss rate is not lowered.       *)
CleanFeedbackNeverCuts == [][clean' = LossWindow => loss' >= loss]_vars

=============================================================================
