-------------------------- MODULE MediaForwarding --------------------------
(***************************************************************************)
(* What one subscriber is sent of one publisher's media, and how it gets a *)
(* picture: client/fanout.rs (handle_media_data_out), the layer it asks    *)
(* for (client/accessors.rs), the layers the kit has observed of the       *)
(* subscriber itself (client/mod.rs, track_in_media), and both directions  *)
(* of client/keyframe.rs: the throttled request the kit makes when the     *)
(* publisher's media has a gap, and the relayed request of a subscriber    *)
(* whose decoder stalls.                                                   *)
(*                                                                         *)
(* The publisher has an audio and a video track; its video comes in        *)
(* simulcast layers or, as audio does, without a RID.  A TrackOut for each *)
(* appears when the track is announced and is opened by negotiation, which *)
(* in this repository only the test seams perform.  The subscriber may     *)
(* publish too: its own observed layers are part of its state.             *)
(*                                                                         *)
(* The two ends are the least a decoder and an encoder do: the publisher   *)
(* sends a keyframe of a layer when one was asked for, the subscriber can  *)
(* decode a layer from a keyframe on until it misses a frame of it.        *)
(***************************************************************************)
EXTENDS SimulcastLayers, KeyEpoch

CONSTANTS
    Sends,      \* the simulcast layers the publisher is sending, if any
    OwnSends,   \* those the subscriber may publish itself
    Cap,        \* max_temporal_layer and max_vfm_temporal_layer
    KEYFRAME_REQUEST_MIN_GAP

ASSUME SendsAssumption == Sends \subseteq Rids /\ Sends # {} /\ OwnSends \subseteq Rids
ASSUME CapAssumption == Cap \in [{"av1_dd", "vfm_fm"} -> Nat]
ASSUME GapAssumption == KEYFRAME_REQUEST_MIN_GAP \in Nat \ {0}

VARIABLES
    desired_layer, client_suspended, chosen_rid,
    own_rids,       \* active_rids of the subscriber itself
    out,            \* the TrackOut of each kind
    live,           \* the publisher is in the room: its Weaks upgrade
    relay_source,   \* the publisher is a relay from another SFU
    simulcast,      \* its video comes in layers
    last_keyframe_request,  \* its age within the gap, on the publisher's track
    request,        \* the layer of a keyframe request in to_propagate
    \* The two ends:
    wanted,         \* streams the publisher was asked a keyframe of
    synced,         \* the stream the subscriber can decode, or Nothing
    settled,        \* layers stay, nobody leaves and nothing is lost any more
    \* History, read by no action:
    offeredSince    \* layers offered to the writer since the desired layer last changed

filter == <<desired_layer, client_suspended, own_rids>>
links  == <<out, live, relay_source, simulcast>>
ends   == <<wanted, synced, settled>>
vars   == <<filter, chosen_rid, links, last_keyframe_request, request, ends, offeredSince>>

NoRid   == "-"
Kinds   == {"audio", "video"}
Never   == -1     \* last_keyframe_request is None, or past the gap
Nothing == "nothing"

(* An SfuKeyframeRequest: the layer it asks for, if any. *)
KeyframeRequests == Sends \cup {NoRid}

(* What the publisher's video frames are tagged with. *)
Streams == IF simulcast THEN Sends ELSE {NoRid}

(* A frame as str0m delivers it; params says whether the subscriber's      *)
(* session has a writer for the frame's codec.                             *)
MediaData ==
    {d \in [kind : Kinds, rid : Sends \cup {NoRid}, params : BOOLEAN,
            contiguous : BOOLEAN, key : BOOLEAN] :
        d.kind = "audio" => d.rid = NoRid /\ d.contiguous /\ ~d.key}

Frame(r, key) ==
    [kind |-> "video", rid |-> r, params |-> TRUE, contiguous |-> TRUE, key |-> key]

(* SfuMediaPayload::from_str0m: the temporal layer is not taken over,      *)
(* whatever the packet's extensions say.                                   *)
FromStr0m(d) ==
    [kind |-> d.kind, rid |-> d.rid, params |-> d.params, av1_dd |-> -1, vfm_fm |-> -1]

-----------------------------------------------------------------------------
(* handle_media_data_out *)

(* The outbound track entry that matches a packet, if its Weak upgrades. *)
Matched(p) == live /\ out[p.kind] # "absent"

(* A lookup that takes an unknown track for audio. *)
IsVideoOrForward(p) == Matched(p) /\ p.kind = "video"

(* The lookup of the suspended-state filter: unknown means video. *)
IsVideo(p) == Matched(p) => p.kind = "video"

(* The layer BestFitSelector picks, given the subscriber's own layers. *)
Target == Select(desired_layer, own_rids)

(* The three filters.  The temporal caps find nothing to compare. *)
Passes(p) ==
    /\ client_suspended => ~IsVideo(p)
    /\ p.rid # NoRid => p.rid = Target
    /\ \A mark \in {"av1_dd", "vfm_fm"} : p[mark] <= Cap[mark]

(* The packet's track has a mid. *)
Opened(p) == Matched(p) /\ out[p.kind] = "Open"

(* Past the filters a packet is counted; without a mid it goes no further, *)
(* and without a writer for its codec it is not written either.  (A write  *)
(* that fails disconnects the client, which ends this model.)              *)
Fate(p) ==
    CASE ~Passes(p) -> "dropped"
      [] Passes(p) /\ ~Opened(p) -> "counted"
      [] Passes(p) /\ Opened(p) /\ ~p.params -> "unmatched"
      [] Passes(p) /\ Opened(p) /\ p.params -> "written"

(* The packet is of a layer, and got as far as the writer. *)
Offered(p) == Fate(p) \in {"unmatched", "written"} /\ p.rid # NoRid

(* A cache that is filled before it is known whether there is a track to   *)
(* write to.                                                               *)
CacheRidEarly(p) ==
    chosen_rid' = IF Passes(p) /\ p.rid # NoRid THEN p.rid ELSE chosen_rid

(* A cache that is filled once and then kept. *)
CacheRidOnce(p) ==
    chosen_rid' = IF Offered(p) /\ chosen_rid = NoRid THEN p.rid ELSE chosen_rid

(* The last forwarded RID is kept for keyframe requests, before it is      *)
(* known whether there is a writer.                                        *)
CacheRid(p) == chosen_rid' = IF Offered(p) THEN p.rid ELSE chosen_rid

(* The subscriber's decoder: a keyframe starts a stream, a missed frame of *)
(* it, or one of another, ends it.                                         *)
Decode(d, p) ==
    synced' =
        CASE p.kind = "audio" -> synced
          [] p.kind = "video" /\ Fate(p) = "written" ->
                IF d.key \/ (d.contiguous /\ synced = p.rid) THEN p.rid ELSE Nothing
          [] p.kind = "video" /\ Fate(p) # "written" ->
                IF synced = p.rid THEN Nothing ELSE synced

-----------------------------------------------------------------------------
(* track_in_media, fanned out. *)

(* request_keyframe_throttled: one request per track and gap, for          *)
(* whichever layer had a gap first; a request within the gap is dropped.   *)
Throttled == last_keyframe_request # Never

(* One frame of the publisher: the kit asks for a keyframe if it has a     *)
(* gap, and offers it to the subscriber.  The publisher answers a request  *)
(* with its next frame, which may be the one that was lost.  The tracks of *)
(* a publisher in the room have been announced by the time of the fanout.  *)
Media(d) ==
    LET p   == FromStr0m(d)
        fir == ~d.contiguous /\ ~Throttled /\ live
    IN  /\ live => out[d.kind] # "absent"
        /\ settled => d.contiguous /\ d.params
        /\ d.kind = "video" => d.rid \in Streams
        /\ d.key => d.rid \in wanted
        /\ d.kind = "video" /\ d.contiguous /\ d.rid \in wanted => d.key
        /\ CacheRid(p)
        /\ offeredSince' = offeredSince \cup (IF Offered(p) THEN {p.rid} ELSE {})
        /\ last_keyframe_request' = IF fir THEN 0 ELSE last_keyframe_request
        /\ wanted' = (wanted \ (IF d.kind = "video" THEN {d.rid} ELSE {}))
                        \cup (IF fir THEN {d.rid} ELSE {})
        /\ Decode(d, p)
        /\ UNCHANGED <<filter, links, request, settled>>

(* The subscriber publishes a simulcast packet of its own. *)
OwnMedia(r) ==
    /\ ~settled
    /\ own_rids' = own_rids \cup {r}
    /\ UNCHANGED <<desired_layer, client_suspended, chosen_rid, links,
                   last_keyframe_request, request, ends, offeredSince>>

-----------------------------------------------------------------------------
(* The subscriber's filter and tracks. *)

(* A layer change that keeps the cached layer. *)
SetDesiredLayerKeepChosen(r) ==
    /\ ~settled
    /\ desired_layer' = r
    /\ offeredSince' = {}
    /\ UNCHANGED <<client_suspended, own_rids, chosen_rid, links,
                   last_keyframe_request, request, ends>>

(* set_desired_layer, from drive_pacer. *)
SetDesiredLayer(r) ==
    /\ ~settled
    /\ desired_layer' = r
    /\ chosen_rid' = NoRid
    /\ offeredSince' = {}
    /\ UNCHANGED <<client_suspended, own_rids, links, last_keyframe_request, request, ends>>

(* set_suspended, from the registry's pacer path. *)
SetSuspended(s) ==
    /\ ~settled
    /\ client_suspended' = s
    /\ UNCHANGED <<desired_layer, own_rids, chosen_rid, links, last_keyframe_request,
                   request, ends, offeredSince>>

(* handle_track_open. *)
HandleTrackOpen(k) ==
    /\ live
    /\ out[k] = "absent"
    /\ out' = [out EXCEPT ![k] = "ToOpen"]
    /\ UNCHANGED <<filter, chosen_rid, live, relay_source, simulcast, last_keyframe_request,
                   request, ends, offeredSince>>

(* ToOpen becomes Negotiating or Open; either way TrackOut::mid is known. *)
Negotiated(k) ==
    /\ out[k] = "ToOpen"
    /\ out' = [out EXCEPT ![k] = "Open"]
    /\ UNCHANGED <<filter, chosen_rid, live, relay_source, simulcast, last_keyframe_request,
                   request, ends, offeredSince>>

(* The publisher is reaped: its Arcs drop.  serve_socket reaps with no     *)
(* media queued; an application that calls poll_all, reap_dead and         *)
(* fanout_pending itself may still fan out packets of its last poll.       *)
PublisherReaped ==
    /\ ~settled
    /\ live
    /\ live' = FALSE
    /\ UNCHANGED <<filter, chosen_rid, out, relay_source, simulcast, last_keyframe_request,
                   request, ends, offeredSince>>

-----------------------------------------------------------------------------
(* Keyframe requests of the subscriber. *)

(* incoming_keyframe_req on the subscriber's video track, one at a time:   *)
(* it is queued with the layer the subscriber was last sent.               *)
IncomingKeyframeReq ==
    /\ out["video"] = "Open"
    /\ live
    /\ request = Nothing
    /\ request' = chosen_rid
    /\ UNCHANGED <<filter, chosen_rid, links, last_keyframe_request, ends, offeredSince>>

(* The fanout of the request.  That of a relayed publisher is for the      *)
(* application; any other goes to the publisher's handle_keyframe_request, *)
(* which does not throttle it, if it still has the track.  A request that  *)
(* names no layer is for the one stream of a publisher without layers; of  *)
(* one with layers, str0m may or may not find some to ask.                 *)
HandleKeyframeRequest ==
    /\ request # Nothing
    /\ request' = Nothing
    /\ IF relay_source \/ ~live THEN UNCHANGED wanted
       ELSE \E asked \in SUBSET Streams :
               /\ request \in Streams => asked = {request}
               /\ wanted' = wanted \cup asked
    /\ UNCHANGED <<filter, chosen_rid, links, last_keyframe_request, synced, settled,
                   offeredSince>>

(* Time passes.  An age of the whole gap throttles no more than None does. *)
Tick ==
    /\ Throttled
    /\ last_keyframe_request' =
          IF last_keyframe_request + 1 < KEYFRAME_REQUEST_MIN_GAP
          THEN last_keyframe_request + 1 ELSE Never
    /\ UNCHANGED <<filter, chosen_rid, links, request, ends, offeredSince>>

Settle ==
    /\ settled' = TRUE
    /\ UNCHANGED <<filter, chosen_rid, links, last_keyframe_request, request, wanted,
                   synced, offeredSince>>

Init ==
    /\ desired_layer \in Rids
    /\ client_suspended = FALSE
    /\ chosen_rid = NoRid
    /\ own_rids = {}
    /\ out = [k \in Kinds |-> "absent"]
    /\ live = TRUE
    /\ relay_source \in BOOLEAN /\ simulcast \in BOOLEAN
    /\ last_keyframe_request = Never
    /\ request = Nothing
    /\ wanted = {}
    /\ synced = Nothing
    /\ settled = FALSE
    /\ offeredSince = {}

Next ==
    \/ \E d \in MediaData : Media(d)
    \/ \E r \in OwnSends : OwnMedia(r)
    \/ \E r \in Rids : SetDesiredLayer(r)
    \/ \E s \in BOOLEAN : SetSuspended(s)
    \/ \E k \in Kinds : HandleTrackOpen(k)
    \/ \E k \in Kinds : Negotiated(k)
    \/ PublisherReaped
    \/ IncomingKeyframeReq
    \/ HandleKeyframeRequest
    \/ Tick
    \/ Settle

Spec == Init /\ [][Next]_vars

(* The publisher keeps sending every stream, a subscriber that cannot       *)
(* decode keeps asking, and the room's loop fans out what it asked.        *)
FairSpec ==
    /\ Spec
    /\ \A r \in Sends \cup {NoRid} : WF_vars(\E key \in BOOLEAN : Media(Frame(r, key)))
    /\ WF_vars(synced = Nothing /\ IncomingKeyframeReq)
    /\ WF_vars(HandleKeyframeRequest)

-----------------------------------------------------------------------------
(* What the forwarder promises. *)

(* Every field keeps its type, and the cached layer is only ever filled    *)
(* from layered video on a track that was open for writing.                *)
TypeOK ==
    /\ desired_layer \in Rids
    /\ client_suspended \in BOOLEAN
    /\ chosen_rid \in Sends \cup {NoRid}
    /\ chosen_rid # NoRid => simulcast /\ out["video"] = "Open"
    /\ own_rids \subseteq Rids
    /\ out \in [Kinds -> {"absent", "ToOpen", "Open"}]
    /\ live \in BOOLEAN /\ relay_source \in BOOLEAN /\ simulcast \in BOOLEAN
    /\ last_keyframe_request \in 0..(KEYFRAME_REQUEST_MIN_GAP - 1) \cup {Never}
    /\ request \in KeyframeRequests \cup {Nothing}
    /\ wanted \subseteq Streams
    /\ synced \in Streams \cup {Nothing}
    /\ settled \in BOOLEAN
    /\ offeredSince \subseteq Sends

(* Suspension saves the bandwidth it is for: while the subscriber is       *)
(* suspended no video packet passes, of a layer or without one, even when  *)
(* the publisher has left and the packet's kind can no longer be looked    *)
(* up, and the audio of a publisher that is in the room keeps flowing.     *)
SuspendStopsVideoOnly ==
    client_suspended =>
        \A d \in MediaData :
            /\ d.kind = "video" => Fate(FromStr0m(d)) = "dropped"
            /\ d.kind = "audio" /\ Matched(d) => Fate(FromStr0m(d)) # "dropped"

(* A keyframe is asked of a layer that got as far as the subscriber's      *)
(* writer since set_desired_layer last changed it (or of none in           *)
(* particular), never of the layer before that switch.  A target that      *)
(* moves with the subscriber's own media is no such switch: the layer sent *)
(* before it is asked until a frame of the new one has been offered.       *)
KeyframeAsksForwardedLayer ==
    [][request' \in Sends /\ request' # request => request' \in offeredSince]_vars

(* The subscriber picks the right key or none: a KID of the right width    *)
(* leaves the kit as it came, byte for byte, any other is dropped, and     *)
(* whatever epoch an application's own parser may have put on the packet,  *)
(* the extension written for it is read back as that epoch.                *)
KidIsNeverAnother ==
    (\E d \in MediaData : Fate(FromStr0m(d)) = "written") =>
        ForwardedIntact /\ EpochsReadBack

(* The subscriber has an open video track of a local publisher that sends  *)
(* the layer the filter lets through, or has no layers.                    *)
Watching ==
    /\ live /\ ~relay_source /\ ~client_suspended
    /\ out["video"] = "Open"
    /\ simulcast => Target \in Sends

(* The picture comes back: whatever layer changes, suspends, losses,       *)
(* throttled and stale keyframe requests came before, once they cease a    *)
(* subscriber that asks for a keyframe is sent one of the very layer it is *)
(* being sent, or of the publisher's only stream, and decodes it.          *)
PictureComesBack ==
    settled /\ Watching ~> synced = IF simulcast THEN Target ELSE NoRid

(* "active: RIDs the publisher is currently sending": the packets of the   *)
(* layer that BestFitSelector picks among the publisher's layers pass the  *)
(* filter of a subscriber with an open track.  Refuted: the filter is      *)
(* given the subscriber's own layers.                                      *)
ForwardsBestFit ==
    live /\ simulcast /\ out["video"] = "Open" /\ ~client_suspended =>
        \A d \in MediaData :
            d.rid = Select(desired_layer, Sends) /\ d.params =>
                Fate(FromStr0m(d)) = "written"

=============================================================================
