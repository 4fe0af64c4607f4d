---------------------------- MODULE SfuRegistry ----------------------------
(***************************************************************************)
(* A room: registry/mod.rs, registry/lifecycle.rs, registry/drive.rs,      *)
(* fanout.rs and the loop of udp_loop.rs (serve_socket) that drives them,  *)
(* with the track bookkeeping of client/mod.rs.                            *)
(*                                                                         *)
(* The loop runs reap_dead, poll_all, fanout_pending,                      *)
(* emit_publisher_layer_hints and one arm of its select, over and over;    *)
(* pc is its position.  poll_all visits the clients in the order of the    *)
(* Vec, one step per output of a client, and fanout_pending is one step    *)
(* per queued event, both loops of the code that nothing interrupts.  The  *)
(* application owns the registry: it inserts clients between two runs of   *)
(* the loop, or between two iterations when it drives the registry itself, *)
(* and calls the estimator's pass-throughs.                                *)
(*                                                                         *)
(* A TrackIn is named by its origin and mid, and lives in tracks_in of its *)
(* publisher; a Weak to it upgrades iff it is still there.  What the       *)
(* room's layers, rates and payloads are is left to the other modules.     *)
(* The build has active-speaker, pacer and kalman-bwe: all the state there *)
(* is to keep in step.                                                     *)
(***************************************************************************)
EXTENDS Integers, Sequences, FiniteSets, SequencesExt

CONSTANTS
    Ids,         \* client ids, each handed out once (next_client_id)
    Relays,      \* those whose origin was set to RelayFromSfu before insert
    Mids,        \* media ids a client may publish
    MaxQueue,    \* bound on the events queued by one poll_all
    LateCalls    \* the application may name a subscriber that has left

ASSUME RelaysAssumption == Relays \subseteq Ids
ASSUME MaxQueueAssumption == MaxQueue \in Nat
ASSUME LateCallsAssumption == LateCalls \in BOOLEAN

VARIABLES
    pc,                  \* where serve_socket is
    todo,                \* clients that poll_all has still to poll, in order
    clients,             \* Registry::clients, a Vec in the order of insertion
    departed,            \* ids that were in the room and were reaped
    alive,               \* clients whose Rtc is alive
    tracks_in,           \* Client::tracks_in: the mids a client publishes
    tracks_out,          \* Client::tracks_out: how often a track is listed
    to_propagate,        \* Registry::to_propagate
    detector,            \* peers the dominant-speaker detector knows
    in_speaker_detector, \* Client::in_speaker_detector
    bandwidth,           \* subscribers the BandwidthEstimator tracks
    participants         \* the active_participants gauge

room == <<clients, departed, alive, tracks_in, tracks_out>>
side == <<detector, in_speaker_detector, bandwidth, participants>>
vars == <<pc, todo, room, to_propagate, side>>

(* The ids in the Vec. *)
Members  == ToSet(clients)

Tracks   == Ids \X Mids
NoTracks == [t \in Tracks |-> 0]
Types    == {"TrackOpen", "MediaData", "Report", "Mode", "LayerHint", "ActiveSpeaker"}
Event    == [type : Types, origin : Ids, mid : Mids \cup {"-"}]

TrackOpenEvent(p, m) == [type |-> "TrackOpen", origin |-> p, mid |-> m]
MediaEvent(p, m)     == [type |-> "MediaData", origin |-> p, mid |-> m]
AppEvent(t, p)       == [type |-> t, origin |-> p, mid |-> "-"]

(* Weak::upgrade. *)
Upgrades(t) == t[2] \in tracks_in[t[1]]

-----------------------------------------------------------------------------
(* Registry::insert and Registry::reap_dead. *)

(* An insert that leaves the existing tracks unannounced. *)
InsertNoAnnounce(c) ==
    /\ pc \in {"stopped", "select"}
    /\ c \notin Members \cup departed
    /\ clients' = Append(clients, c)
    /\ alive' = alive \cup {c}
    /\ in_speaker_detector' =
          IF c \in Relays THEN in_speaker_detector ELSE in_speaker_detector \cup {c}
    /\ detector' = IF c \in Relays THEN detector ELSE detector \cup {c}
    /\ participants' = participants + 1
    /\ UNCHANGED <<pc, todo, departed, tracks_in, tracks_out, to_propagate, bandwidth>>

(* insert: announce every existing track to the newcomer, register it with *)
(* the detector unless it is a relay, count it.                            *)
Insert(c) ==
    /\ pc \in {"stopped", "select"}
    /\ c \notin Members \cup departed
    /\ clients' = Append(clients, c)
    /\ alive' = alive \cup {c}
    /\ tracks_out' = [tracks_out EXCEPT ![c] =
          [t \in Tracks |-> IF t[1] \in Members /\ Upgrades(t) THEN 1 ELSE 0]]
    /\ in_speaker_detector' =
          IF c \in Relays THEN in_speaker_detector ELSE in_speaker_detector \cup {c}
    /\ detector' = IF c \in Relays THEN detector ELSE detector \cup {c}
    /\ participants' = participants + 1
    /\ UNCHANGED <<pc, todo, departed, tracks_in, to_propagate, bandwidth>>

(* A sweep that takes a relay for alive. *)
DeadLocals == (Members \ alive) \ Relays

(* What retain drops: the clients whose Rtc is not alive. *)
Dead == Members \ alive

(* Vec::retain, on a Vec that holds each element once: those not in drop,  *)
(* in the order they were in.                                              *)
Retain(s, drop) ==
    CHOOSE r \in SetToSeqs(ToSet(s) \ drop) :
        \A i, j \in DOMAIN r : i < j =>
            \E k, l \in DOMAIN s : k < l /\ r[i] = s[k] /\ r[j] = s[l]

(* Remove from the detector exactly what insert registered. *)
ForgetSpeakers ==
    /\ detector' = detector \ (Dead \cap in_speaker_detector)
    /\ in_speaker_detector' = in_speaker_detector \ Dead

(* A sweep that leaves the per-subscriber estimator state behind. *)
KeepBandwidth == UNCHANGED bandwidth

(* BandwidthEstimator::reap_dead for every dropped client. *)
ForgetBandwidth == bandwidth' = bandwidth \ Dead

(* A pass that goes by the list of clients from before the sweep. *)
StartPollStale == pc' = "poll" /\ todo' = clients

(* poll_all sets out over the clients that are left. *)
StartPoll == pc' = "poll" /\ todo' = clients'

(* reap_dead: one sweep drops every dead client, with the Arcs of its      *)
(* tracks, its detector registration and its estimator entry.  poll_all    *)
(* follows at once.                                                        *)
ReapDead ==
    /\ pc = "reap"
    /\ clients' = Retain(clients, Dead)
    /\ departed' = departed \cup Dead
    /\ tracks_in' = [c \in Ids |-> IF c \in Dead THEN {} ELSE tracks_in[c]]
    /\ tracks_out' = [c \in Ids |-> IF c \in Dead THEN NoTracks ELSE tracks_out[c]]
    /\ ForgetSpeakers
    /\ ForgetBandwidth
    /\ participants' = participants - Cardinality(Dead)
    /\ StartPoll
    /\ UNCHANGED <<alive, to_propagate>>

-----------------------------------------------------------------------------
(* Registry::poll_all: the outputs of one client until its Timeout.        *)

Polling(c) == pc = "poll" /\ todo # <<>> /\ c = Head(todo)

(* The bound on what one poll_all queues (events left over from before it  *)
(* do not count).                                                          *)
HasRoom ==
    Len(SelectSeq(to_propagate,
            LAMBDA e : e.type \in {"TrackOpen", "MediaData", "Report"})) < MaxQueue

(* Propagated::Timeout, or a client that is not alive. *)
PollTimeout(c) ==
    /\ Polling(c)
    /\ todo' = Tail(todo)
    /\ UNCHANGED <<pc, room, to_propagate, side>>

(* ICE disconnected, or poll_output failed. *)
PollDisconnect(c) ==
    /\ Polling(c)
    /\ c \in alive
    /\ alive' = alive \ {c}
    /\ todo' = Tail(todo)
    /\ UNCHANGED <<pc, clients, departed, tracks_in, tracks_out, to_propagate, side>>

(* Event::MediaAdded, track_in_added. *)
PollTrackAdded(c, m) ==
    /\ Polling(c)
    /\ c \in alive
    /\ HasRoom
    /\ m \notin tracks_in[c]
    /\ tracks_in' = [tracks_in EXCEPT ![c] = @ \cup {m}]
    /\ to_propagate' = Append(to_propagate, TrackOpenEvent(c, m))
    /\ UNCHANGED <<pc, todo, clients, departed, alive, tracks_out, side>>

(* Event::MediaData, track_in_media.  An audio level reaches the detector, *)
(* whose record_level would register an unknown peer, unless the client is *)
(* a relay.                                                                *)
PollMedia(c, m) ==
    /\ Polling(c)
    /\ c \in alive
    /\ HasRoom
    /\ m \in tracks_in[c]
    /\ to_propagate' = Append(to_propagate, MediaEvent(c, m))
    /\ detector' = IF c \in Relays THEN detector ELSE detector \cup {c}
    /\ UNCHANGED <<pc, todo, room, in_speaker_detector, bandwidth, participants>>

(* Event::EgressBitrateEstimate: the estimate is queued for the            *)
(* application and fed to the estimator, which creates the entry.          *)
PollBandwidth(c) ==
    /\ Polling(c)
    /\ c \in alive
    /\ HasRoom
    /\ to_propagate' = Append(to_propagate, AppEvent("Report", c))
    /\ bandwidth' = bandwidth \cup {c}
    /\ UNCHANGED <<pc, todo, room, detector, in_speaker_detector, participants>>

(* Event::PeerStats, or Event::KeyframeRequest for a track that is still   *)
(* published: the report or the translated request is queued.              *)
PollReport(c) ==
    /\ Polling(c)
    /\ c \in alive
    /\ HasRoom
    /\ to_propagate' = Append(to_propagate, AppEvent("Report", c))
    /\ UNCHANGED <<pc, todo, room, side>>

PollDone ==
    /\ pc = "poll"
    /\ todo = <<>>
    /\ pc' = "fanout"
    /\ UNCHANGED <<todo, room, to_propagate, side>>

-----------------------------------------------------------------------------
(* Registry::fanout_pending: pop one event and deliver it.                 *)

Pops(t) ==
    /\ pc = "fanout"
    /\ to_propagate # <<>>
    /\ Head(to_propagate).type \in t

(* A fanout that echoes a track to its publisher. *)
FanoutTrackOpenEcho ==
    /\ Pops({"TrackOpen"})
    /\ LET e == Head(to_propagate)
       IN  tracks_out' = [c \in Ids |->
              IF c \in Members
              THEN [tracks_out[c] EXCEPT ![<<e.origin, e.mid>>] = @ + 1]
              ELSE tracks_out[c]]
    /\ to_propagate' = Tail(to_propagate)
    /\ UNCHANGED <<pc, todo, clients, departed, alive, tracks_in, side>>

(* handle_track_open on every client but the publisher. *)
FanoutTrackOpen ==
    /\ Pops({"TrackOpen"})
    /\ LET e == Head(to_propagate)
       IN  tracks_out' = [c \in Ids |->
              IF c \in Members \ {e.origin}
              THEN [tracks_out[c] EXCEPT ![<<e.origin, e.mid>>] = @ + 1]
              ELSE tracks_out[c]]
    /\ to_propagate' = Tail(to_propagate)
    /\ UNCHANGED <<pc, todo, clients, departed, alive, tracks_in, side>>

(* update_pacer_layers, which may queue a mode event for any tracked       *)
(* subscriber, then handle_media_data_out on every client but the origin,  *)
(* each of which is disconnected when its writer fails.                    *)
FanoutMedia ==
    /\ Pops({"MediaData"})
    /\ LET others == Members \ {Head(to_propagate).origin}
       IN  \E moved \in SUBSET (others \cap bandwidth), failed \in SUBSET others :
              /\ to_propagate' = Tail(to_propagate)
                    \o SetToSeq({AppEvent("Mode", c) : c \in moved})
              /\ alive' = alive \ failed
    /\ UNCHANGED <<pc, todo, clients, departed, tracks_in, tracks_out, side>>

(* Every other event is for the application, or a keyframe request that    *)
(* the publisher hands to its Rtc: fanout changes nothing in the room.     *)
FanoutOther ==
    /\ Pops({"Report", "Mode", "LayerHint", "ActiveSpeaker"})
    /\ to_propagate' = Tail(to_propagate)
    /\ UNCHANGED <<pc, todo, room, side>>

(* A drain that stops before the queue is empty. *)
FanoutDoneEarly ==
    /\ pc = "fanout"
    /\ pc' = "hints"
    /\ UNCHANGED <<todo, room, to_propagate, side>>

FanoutDone ==
    /\ pc = "fanout"
    /\ to_propagate = <<>>
    /\ pc' = "hints"
    /\ UNCHANGED <<todo, room, to_propagate, side>>

(* Publishers some client of the room has a live track of. *)
Publishers ==
    {p \in Ids : \E c \in Members, m \in Mids :
        Upgrades(<<p, m>>) /\ tracks_out[c][<<p, m>>] > 0}

(* emit_publisher_layer_hints; flush_transmits follows. *)
EmitPublisherLayerHints ==
    /\ pc = "hints"
    /\ to_propagate' =
          to_propagate \o SetToSeq({AppEvent("LayerHint", p) : p \in Publishers})
    /\ pc' = "select"
    /\ UNCHANGED <<todo, room, side>>

-----------------------------------------------------------------------------
(* The arms of the select, and the calls of the application.               *)

(* Client::handle_input and handle_timeout: a live Rtc that rejects its    *)
(* input is disconnected.                                                  *)
InputFails(failed) == alive' = alive \ failed

(* tick: handle_timeout on every client. *)
SessionTick ==
    /\ pc = "select"
    /\ \E failed \in SUBSET (Members \cap alive) : InputFails(failed)
    /\ pc' = "reap"
    /\ UNCHANGED <<todo, clients, departed, tracks_in, tracks_out, to_propagate, side>>

(* tick_active_speaker: the detector may announce one of its peers. *)
TickActiveSpeaker ==
    /\ pc = "select"
    /\ \/ UNCHANGED to_propagate
       \/ \E p \in detector :
             to_propagate' = Append(to_propagate, AppEvent("ActiveSpeaker", p))
    /\ pc' = "reap"
    /\ UNCHANGED <<todo, room, side>>

(* handle_incoming: at most one client, the first that accepts, takes the  *)
(* datagram.                                                               *)
HandleIncoming ==
    /\ pc = "select"
    /\ \E failed \in {{}} \cup {{c} : c \in Members \cap alive} : InputFails(failed)
    /\ pc' = "reap"
    /\ UNCHANGED <<todo, clients, departed, tracks_in, tracks_out, to_propagate, side>>

Shutdown ==
    /\ pc = "select"
    /\ pc' = "stopped"
    /\ UNCHANGED <<todo, room, to_propagate, side>>

(* serve_socket is called, or called again, on the caller's registry. *)
Serve ==
    /\ pc = "stopped"
    /\ pc' = "reap"
    /\ UNCHANGED <<todo, room, to_propagate, side>>

(* A record_audio_level that takes any peer at its word. *)
RecordAudioLevelAnyone(c) ==
    /\ pc \in {"stopped", "select"}
    /\ detector' = detector \cup {c}
    /\ UNCHANGED <<pc, todo, room, to_propagate, in_speaker_detector, bandwidth,
                   participants>>

(* record_audio_level: only for peers that insert registered. *)
RecordAudioLevel(c) ==
    /\ pc \in {"stopped", "select"}
    /\ c \in Members \cap in_speaker_detector
    /\ detector' = detector \cup {c}
    /\ UNCHANGED <<pc, todo, room, to_propagate, in_speaker_detector, bandwidth,
                   participants>>

(* on_twcc_feedback and enable_googcc_for_subscriber: the entry is created *)
(* for whichever id the caller names.                                      *)
EstimatorCall(c) ==
    /\ pc \in {"stopped", "select"}
    /\ c \in Members \/ (LateCalls /\ c \in departed)
    /\ bandwidth' = bandwidth \cup {c}
    /\ UNCHANGED <<pc, todo, room, to_propagate, detector, in_speaker_detector,
                   participants>>

Init ==
    /\ pc = "stopped"
    /\ todo = <<>>
    /\ clients = <<>>
    /\ departed = {}
    /\ alive = {}
    /\ tracks_in = [c \in Ids |-> {}]
    /\ tracks_out = [c \in Ids |-> NoTracks]
    /\ to_propagate = <<>>
    /\ detector = {}
    /\ in_speaker_detector = {}
    /\ bandwidth = {}
    /\ participants = 0

(* One step of serve_socket, its select included. *)
LoopStep ==
    \/ ReapDead
    \/ \E c \in Ids : PollTimeout(c)
    \/ PollDone
    \/ FanoutTrackOpen
    \/ FanoutMedia
    \/ FanoutOther
    \/ FanoutDone
    \/ EmitPublisherLayerHints
    \/ SessionTick
    \/ TickActiveSpeaker
    \/ HandleIncoming

(* What the network brings to a poll, and what the application does. *)
Environment ==
    \/ \E c \in Ids : PollDisconnect(c)
    \/ \E c \in Ids, m \in Mids : PollTrackAdded(c, m)
    \/ \E c \in Ids, m \in Mids : PollMedia(c, m)
    \/ \E c \in Ids : PollBandwidth(c)
    \/ \E c \in Ids : PollReport(c)
    \/ \E c \in Ids : Insert(c)
    \/ \E c \in Ids : RecordAudioLevel(c)
    \/ \E c \in Ids : EstimatorCall(c)
    \/ Shutdown
    \/ Serve

Next == LoopStep \/ Environment

Spec == Init /\ [][Next]_vars

(* While it serves, the loop goes on: each pass ends, str0m answers every  *)
(* poll with a Timeout in the end, and one arm of the select completes.    *)
FairSpec == Spec /\ WF_vars(LoopStep)

-----------------------------------------------------------------------------
(* What the room promises. *)

(* Every field keeps its type, and poll_all never visits a client that     *)
(* reap_dead has just removed.                                             *)
TypeOK ==
    /\ pc \in {"stopped", "reap", "poll", "fanout", "hints", "select"}
    /\ todo \in Seq(Members)
    /\ clients \in Seq(Ids) /\ IsInjective(clients)
    /\ departed \subseteq Ids /\ alive \subseteq Ids
    /\ tracks_in \in [Ids -> SUBSET Mids]
    /\ tracks_out \in [Ids -> [Tracks -> Nat]]
    /\ to_propagate \in Seq(Event)
    /\ detector \subseteq Ids /\ in_speaker_detector \subseteq Ids
    /\ bandwidth \subseteq Ids
    /\ participants \in Nat

(* The pending announcement of a track. *)
Pending(p, m) == \E i \in 1..Len(to_propagate) : to_propagate[i] = TrackOpenEvent(p, m)

(* Cross-advertisement: every live track is listed exactly once by every   *)
(* other client of the room, never by its publisher, from the moment the   *)
(* queue has been fanned out, whatever joins, leaves and new tracks came   *)
(* in between; until then it is pending once and listed nowhere.           *)
AdvertisedOnce ==
    \A c, p \in Members : \A m \in tracks_in[p] :
        tracks_out[c][<<p, m>>] = IF c = p \/ Pending(p, m) THEN 0 ELSE 1

(* FIFO order of the queue: a media packet is never fanned out ahead of    *)
(* the announcement of its track, so every receiver has a TrackOut for it  *)
(* (without one the packet is counted as "other" and goes nowhere).        *)
MediaFollowsItsTrack ==
    pc = "fanout" /\ to_propagate # <<>> /\ Head(to_propagate).type = "MediaData" =>
        LET e == Head(to_propagate)
        IN  \A c \in Members \ {e.origin} : tracks_out[c][<<e.origin, e.mid>>] > 0

(* No leak across churn: after any history of joins, leaves and levels,    *)
(* the detector holds the local clients of the room and nobody else, and   *)
(* the participants gauge counts the clients.                              *)
DetectorMirrorsRoom ==
    /\ detector = Members \ Relays
    /\ participants = Len(clients)

(* "a missing reap would leak one BandwidthEstimator HashMap entry per     *)
(* churned subscriber": the estimator tracks clients of the room only.     *)
(* Refuted when the application may name a subscriber that has left.       *)
EstimatorTracksRoom == bandwidth \subseteq Members

(* The queue does not grow from one iteration to the next: outside         *)
(* poll_all and fanout_pending it holds no more than one hint per client   *)
(* of the room and one speaker change.                                     *)
QueueStaysShort ==
    pc \in {"stopped", "reap", "hints", "select"} =>
        /\ Len(to_propagate) <= Len(clients) + 1
        /\ \A i \in 1..Len(to_propagate) :
              to_propagate[i].type \in {"LayerHint", "ActiveSpeaker"}

(* A client whose Rtc died leaves the room, as long as the loop is served. *)
DeadGetReaped ==
    \A c \in Ids : []<>(pc # "stopped") =>
        (c \in Members /\ c \notin alive ~> c \notin Members)

=============================================================================
