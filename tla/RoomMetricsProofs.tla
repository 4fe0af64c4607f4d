------------------------- MODULE RoomMetricsProofs -------------------------
(* Theorems about RoomMetrics, for every room: the label families follow   *)
(* the registry, whose own theorems carry over.                            *)
EXTENDS RoomMetrics, SfuRegistryProofs

(* Counting changes nothing in the room: a step of the metrics is a step   *)
(* of the registry.                                                        *)
LEMMA MetricsStepIsRoomStep == [MetricsNext]_metricsVars => [Next]_vars
BY DEF MetricsNext, MetricsLoopStep, MetricsEnvironment, MetricsReapDead, MetricsFanoutMedia,
       MetricsTickActiveSpeaker, MetricsPollBandwidth, MetricsPollReport, MetricsInsert,
       Next, LoopStep, Environment, metricsVars

(* The registry keeps its promises with the metrics on: every behaviour of *)
(* MetricsSpec is one of the room.                                         *)
THEOREM MetricsRefineRoom == MetricsSpec => Spec
<1>1. MetricsInit => Init
  BY DEF MetricsInit
<1> QED BY <1>1, MetricsStepIsRoomStep, PTL DEF MetricsSpec, Spec

(* Every step keeps the series of the followed family in step with the     *)
(* room.                                                                   *)
LEMMA SeriesStep == RoomInv /\ SeriesFollowRoom /\ [MetricsNext]_metricsVars => SeriesFollowRoom'
<1> SUFFICES ASSUME RoomInv, SeriesFollowRoom, [MetricsNext]_metricsVars PROVE SeriesFollowRoom'
  OBVIOUS
<1> USE DEF SeriesFollowRoom
<1>m. UNCHANGED clients => Members' = Members
  BY DEF Members
<1>s. ASSUME UNCHANGED clients, NEW fs, NEW peers \in SUBSET Members, Sets(fs, peers), "dropped" \notin fs
      PROVE  SeriesFollowRoom'
  BY <1>s, <1>m DEF Sets
<1>n. ASSUME UNCHANGED clients, SetsNothing PROVE SeriesFollowRoom'
  BY <1>n, <1>m DEF SetsNothing
<1>1. CASE MetricsReapDead
  <2>1. Members' = Members \ Dead
    BY <1>1, RetainKeepsSurvivors DEF MetricsReapDead, ReapDead, RoomInv, TypeOK, Members
  <2> QED BY <1>1, <2>1 DEF MetricsReapDead, ReapDeadPeer
<1>2. ASSUME NEW c \in Ids, MetricsInsert(c) PROVE SeriesFollowRoom'
  <2>1. Members' = Members \cup {c}
    BY <1>2, AppendFresh DEF MetricsInsert, Insert, RoomInv, TypeOK, Members
  <2> QED BY <1>2, <2>1 DEF MetricsInsert, Sets
<1>3. ASSUME NEW c \in Ids, MetricsPollBandwidth(c) PROVE SeriesFollowRoom'
  <2>1. {c} \in SUBSET Members /\ UNCHANGED clients
    BY <1>3 DEF MetricsPollBandwidth, PollBandwidth, Polling, room, RoomInv, TypeOK
  <2> QED BY <1>3, <2>1, <1>s DEF MetricsPollBandwidth
<1>4. ASSUME NEW c \in Ids, MetricsPollReport(c) PROVE SeriesFollowRoom'
  <2>1. {c} \in SUBSET Members /\ UNCHANGED clients
    BY <1>4 DEF MetricsPollReport, PollReport, Polling, room, RoomInv, TypeOK
  <2> QED BY <1>4, <2>1, <1>s, <1>n DEF MetricsPollReport
<1>5. CASE MetricsFanoutMedia
  <2>1. UNCHANGED clients
    BY <1>5 DEF MetricsFanoutMedia, FanoutMedia
  <2>2. PICK driven \in SUBSET Members : \E term \in [driven -> BindingTerms] :
            \/ family = "bwe" /\ Sets({"bwe"}, driven)
            \/ family # "bwe" /\ Sets(BindingTerms, {c \in driven : term[c] = family})
    BY <1>5 DEF MetricsFanoutMedia
  <2>3. "dropped" \notin BindingTerms
    BY DEF BindingTerms
  <2>4. PICK term \in [driven -> BindingTerms] :
            \/ family = "bwe" /\ Sets({"bwe"}, driven)
            \/ family # "bwe" /\ Sets(BindingTerms, {c \in driven : term[c] = family})
    BY <2>2
  <2>5. CASE Sets({"bwe"}, driven)
    BY <2>1, <2>5, <1>s
  <2>6. CASE Sets(BindingTerms, {c \in driven : term[c] = family})
    BY <2>1, <2>3, <2>6, <1>s
  <2> QED BY <2>4, <2>5, <2>6
<1>6. CASE MetricsTickActiveSpeaker
  <2>1. detector \in SUBSET Members /\ UNCHANGED clients
    BY <1>6 DEF MetricsTickActiveSpeaker, TickActiveSpeaker, room, RoomInv, DetectorMirrorsRoom
  <2> QED BY <1>6, <2>1, <1>s DEF MetricsTickActiveSpeaker
<1>7. CASE \/ \E c \in Ids : PollTimeout(c) /\ SetsNothing
           \/ \E c \in Ids : PollDisconnect(c) /\ SetsNothing
           \/ \E c \in Ids, m \in Mids : PollTrackAdded(c, m) /\ SetsNothing
           \/ \E c \in Ids, m \in Mids : PollMedia(c, m) /\ SetsNothing
           \/ PollDone /\ SetsNothing
           \/ FanoutTrackOpen /\ SetsNothing
           \/ FanoutOther /\ SetsNothing
           \/ FanoutDone /\ SetsNothing
           \/ EmitPublisherLayerHints /\ SetsNothing
           \/ SessionTick /\ SetsNothing
           \/ HandleIncoming /\ SetsNothing
           \/ \E c \in Ids : RecordAudioLevel(c) /\ SetsNothing
           \/ \E c \in Ids : EstimatorCall(c) /\ SetsNothing
           \/ Shutdown /\ SetsNothing
           \/ Serve /\ SetsNothing
  <2>1. UNCHANGED clients
    BY <1>7 DEF PollTimeout, PollDisconnect, PollTrackAdded, PollMedia, PollDone, FanoutTrackOpen,
                FanoutOther, FanoutDone, EmitPublisherLayerHints, SessionTick, HandleIncoming,
                RecordAudioLevel, EstimatorCall, Shutdown, Serve, room
  <2>2. SetsNothing
    BY <1>7
  <2> QED BY <2>1, <2>2, <1>n
<1>8. CASE UNCHANGED metricsVars
  BY <1>8, <1>n DEF metricsVars, vars, room, SetsNothing
<1> QED BY <1>1, <1>2, <1>3, <1>4, <1>5, <1>6, <1>7, <1>8
        DEF MetricsNext, MetricsLoopStep, MetricsEnvironment

(* No series outlives its client, in any family: whatever reports, scores  *)
(* and drives come between the death of a client, its reap and the pass    *)
(* after it.                                                               *)
THEOREM SeriesCorrect == MetricsSpec => []SeriesFollowRoom
<1>1. MetricsInit => SeriesFollowRoom
  BY DEF MetricsInit, Init, SeriesFollowRoom, Members, ToSet
<1> QED BY <1>1, SeriesStep, MetricsRefineRoom, RoomCorrect, PTL DEF MetricsSpec

=============================================================================
