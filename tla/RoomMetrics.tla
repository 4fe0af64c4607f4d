---------------------------- MODULE RoomMetrics ----------------------------
(***************************************************************************)
(* The per-peer series of metrics/prom.rs in a room.  A label family grows *)
(* a series for a peer the first time somebody sets it, and keeps it until *)
(* reap_dead_peer removes it: one missed removal, or one update after it,  *)
(* is a series that is scraped for ever.                                   *)
(*                                                                         *)
(* The families do not read each other, so a behaviour follows one of them *)
(* through every action of the room.  The counters without a peer label    *)
(* have a fixed set of series and are left out.                            *)
(***************************************************************************)
EXTENDS SfuRegistry

VARIABLES
    family,   \* the label family that is followed
    series    \* the peers it has a series for

metricsVars == <<vars, family, series>>

(* The ceiling that won the minimum of combined_bps_with_term. *)
BindingTerms == {"delay", "loss", "native", "googcc", "client_hint"}

(* video_frames_dropped_total; peer_loss_fraction, peer_rtt_ms and         *)
(* peer_jitter_ms, set together; bandwidth_estimate_bps; the three speaker *)
(* scores, set together; combined_bps_binding_term, by its second label.   *)
Families == {"dropped", "rtcp", "bwe", "speaker"} \cup BindingTerms

(* with_label_values of one of the families fs, for each of the peers. *)
Sets(fs, peers) ==
    /\ series' = IF family \in fs THEN series \cup peers ELSE series
    /\ UNCHANGED family

(* A call that sets no per-peer series. *)
SetsNothing == UNCHANGED <<family, series>>

(* A BindingTerm::ALL that a new ceiling was not added to. *)
ReapDeadPeerMissesHints ==
    /\ series' = IF family = "client_hint" THEN series ELSE series \ Dead
    /\ UNCHANGED family

(* reap_dead_peer, for each client the sweep drops: every family, and of   *)
(* the last one every term of BindingTerm::ALL.                            *)
ReapDeadPeer ==
    /\ series' = series \ Dead
    /\ UNCHANGED family

(* insert resolves the newcomer's drop counter. *)
MetricsInsert(c) == Insert(c) /\ Sets({"dropped"}, {c})

MetricsReapDead == ReapDead /\ ReapDeadPeer

(* The BandwidthEstimate arm of poll_all. *)
MetricsPollBandwidth(c) == PollBandwidth(c) /\ Sets({"bwe"}, {c})

(* The RtcpStats arm, or a keyframe request, which counts under no peer. *)
MetricsPollReport(c) == PollReport(c) /\ (Sets({"rtcp"}, {c}) \/ SetsNothing)

(* update_pacer_layers sets the rate and counts the term that bound it for *)
(* every subscriber it drives: tracked, not the origin, and past the       *)
(* min-tick floor.  A dropped video frame counts on the handle resolved at *)
(* insert.                                                                 *)
MetricsFanoutMedia ==
    /\ FanoutMedia
    /\ \E driven \in SUBSET ((Members \ {Head(to_propagate).origin}) \cap bandwidth) :
       \E term \in [driven -> BindingTerms] :
          /\ \A i \in Len(to_propagate)..Len(to_propagate') : to_propagate'[i].origin \in driven
          /\ \/ family = "bwe" /\ Sets({"bwe"}, driven)
             \/ family # "bwe" /\ Sets(BindingTerms, {c \in driven : term[c] = family})

(* tick_speaker_scores follows: a score for every peer of the detector. *)
MetricsTickActiveSpeaker == TickActiveSpeaker /\ Sets({"speaker"}, detector)

MetricsInit == Init /\ family \in Families /\ series = {}

MetricsLoopStep ==
    \/ MetricsReapDead
    \/ \E c \in Ids : PollTimeout(c) /\ SetsNothing
    \/ PollDone /\ SetsNothing
    \/ FanoutTrackOpen /\ SetsNothing
    \/ MetricsFanoutMedia
    \/ FanoutOther /\ SetsNothing
    \/ FanoutDone /\ SetsNothing
    \/ EmitPublisherLayerHints /\ SetsNothing
    \/ SessionTick /\ SetsNothing
    \/ MetricsTickActiveSpeaker
    \/ HandleIncoming /\ SetsNothing

MetricsEnvironment ==
    \/ \E c \in Ids : PollDisconnect(c) /\ SetsNothing
    \/ \E c \in Ids, m \in Mids : PollTrackAdded(c, m) /\ SetsNothing
    \/ \E c \in Ids, m \in Mids : PollMedia(c, m) /\ SetsNothing
    \/ \E c \in Ids : MetricsPollBandwidth(c)
    \/ \E c \in Ids : MetricsPollReport(c)
    \/ \E c \in Ids : MetricsInsert(c)
    \/ \E c \in Ids : RecordAudioLevel(c) /\ SetsNothing
    \/ \E c \in Ids : EstimatorCall(c) /\ SetsNothing
    \/ Shutdown /\ SetsNothing
    \/ Serve /\ SetsNothing

MetricsNext == MetricsLoopStep \/ MetricsEnvironment

(* As FairSpec: while it serves, the loop goes on. *)
MetricsSpec ==
    /\ MetricsInit
    /\ [][MetricsNext]_metricsVars
    /\ WF_metricsVars(MetricsLoopStep)

-----------------------------------------------------------------------------
(* What the metrics promise. *)

(* "Label peer_id reaped on disconnect ... to bound cardinality across     *)
(* reconnect churn": every series of every family belongs to a client of   *)
(* the room, whatever reports, scores and drives come between the death of *)
(* a client, its reap and the pass after it; and every client has the drop *)
(* counter that the fanout increments.                                     *)
SeriesFollowRoom ==
    /\ series \subseteq Members
    /\ family = "dropped" => series = Members

=============================================================================
