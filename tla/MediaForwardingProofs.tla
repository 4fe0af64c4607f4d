----------------------- MODULE MediaForwardingProofs -----------------------
(* Theorems about MediaForwarding, for every set of layers on either side, *)
(* every temporal cap and every throttling gap.                            *)
EXTENDS MediaForwarding, SequenceLemmas

-----------------------------------------------------------------------------
(* The filter. *)

(* No layer is called like the absence of one, or of a request. *)
LEMMA LayerNames == NoRid \notin Sends /\ Nothing \notin Sends /\ NoRid # Nothing
BY SendsAssumption DEF Rids, NoRid, Nothing

(* What a packet is after SfuMediaPayload::from_str0m. *)
LEMMA PayloadFields ==
    ASSUME NEW d \in MediaData
    PROVE  LET p == FromStr0m(d)
           IN  /\ p.kind = d.kind /\ p.rid = d.rid /\ p.params = d.params
               /\ p.kind \in Kinds /\ p.params \in BOOLEAN /\ d.key \in BOOLEAN
               /\ p.rid \in Sends \cup {NoRid}
               /\ p["av1_dd"] = -1 /\ p["vfm_fm"] = -1
               /\ p.kind = "audio" => p.rid = NoRid
BY DEF MediaData, FromStr0m, Kinds

(* Each packet meets exactly one fate; one that gets as far as the writer  *)
(* has passed the filters and has an open track.                           *)
LEMMA FateByCase ==
    ASSUME NEW d \in MediaData
    PROVE  LET p == FromStr0m(d)
           IN  /\ Fate(p) \in {"dropped", "counted", "unmatched", "written"}
               /\ Fate(p) = "dropped" <=> ~Passes(p)
               /\ Fate(p) \in {"unmatched", "written"} => Passes(p) /\ Opened(p)
<1> DEFINE p == FromStr0m(d)
<1>1. p.params \in BOOLEAN
  BY PayloadFields
<1> HIDE DEF p
<1>2. CASE ~Passes(p)
  <2>1. Fate(p) = "dropped"
    BY <1>2 DEF Fate
  <2> QED BY <1>2, <2>1 DEF p
<1>3. CASE Passes(p) /\ ~Opened(p)
  <2>1. Fate(p) = "counted"
    BY <1>3 DEF Fate
  <2> QED BY <1>3, <2>1 DEF p
<1>4. CASE Passes(p) /\ Opened(p) /\ ~p.params
  <2>1. Fate(p) = "unmatched"
    BY <1>4 DEF Fate
  <2> QED BY <1>4, <2>1 DEF p
<1>5. CASE Passes(p) /\ Opened(p) /\ p.params
  <2>1. Fate(p) = "written"
    BY <1>5 DEF Fate
  <2> QED BY <1>5, <2>1 DEF p
<1> QED BY <1>1, <1>2, <1>3, <1>4, <1>5

(* A packet of a layer that is offered to the writer is of a layer the     *)
(* publisher sends, on an open video track.                                *)
LEMMA OfferedIsOpenVideo ==
    ASSUME NEW d \in MediaData, Offered(FromStr0m(d))
    PROVE  /\ FromStr0m(d).rid \in Sends /\ d.kind = "video"
           /\ out["video"] = "Open"
<1> DEFINE p == FromStr0m(d)
<1>1. /\ p.kind \in Kinds /\ p.kind = d.kind /\ p.rid \in Sends \cup {NoRid}
      /\ p.kind = "audio" => p.rid = NoRid
  BY PayloadFields
<1>2. Fate(p) \in {"unmatched", "written"} /\ p.rid # NoRid
  BY DEF Offered
<1>3. Opened(p)
  BY <1>2, FateByCase
<1> HIDE DEF p
<1>4. p.kind = "video" /\ p.rid \in Sends
  BY <1>1, <1>2 DEF Kinds
<1> QED BY <1>1, <1>3, <1>4 DEF Opened, p

(* Suspension stops every video packet, known or not, and no audio packet  *)
(* of a publisher in the room, in whatever state the subscriber is.        *)
LEMMA SuspendFilter == SuspendStopsVideoOnly
<1> SUFFICES ASSUME client_suspended, NEW d \in MediaData
             PROVE  /\ d.kind = "video" => Fate(FromStr0m(d)) = "dropped"
                    /\ d.kind = "audio" /\ Matched(d) => Fate(FromStr0m(d)) # "dropped"
  BY DEF SuspendStopsVideoOnly
<1> DEFINE p == FromStr0m(d)
<1>1. /\ p.kind = d.kind
      /\ p.kind = "audio" => p.rid = NoRid
      /\ p["av1_dd"] = -1 /\ p["vfm_fm"] = -1
  BY PayloadFields
<1>2. Fate(p) = "dropped" <=> ~Passes(p)
  BY FateByCase
<1>3. Matched(d) <=> Matched(p)
  BY <1>1 DEF Matched
<1> HIDE DEF p
<1>4. ASSUME d.kind = "video" PROVE ~Passes(p)
  BY <1>1, <1>4 DEF Passes, IsVideo
<1>5. ASSUME d.kind = "audio", Matched(d) PROVE Passes(p)
  <2>1. ~IsVideo(p)
    BY <1>1, <1>3, <1>5 DEF IsVideo
  <2>2. \A mark \in {"av1_dd", "vfm_fm"} : p[mark] <= Cap[mark]
    BY <1>1, CapAssumption
  <2> QED BY <1>1, <1>5, <2>1, <2>2 DEF Passes
<1> QED BY <1>2, <1>4, <1>5 DEF p

-----------------------------------------------------------------------------
(* The state. *)

(* The cached layer was offered to the writer since the last layer change. *)
CacheIsFresh == chosen_rid \in offeredSince \cup {NoRid}

FInv == TypeOK /\ CacheIsFresh

LEMMA ForwardInit == Init => FInv
BY SendsAssumption DEF Init, FInv, TypeOK, CacheIsFresh, Kinds, NoRid, Never, Nothing

(* Every step keeps the fields in their types and the cache fresh. *)
LEMMA ForwardStep == FInv /\ [Next]_vars => FInv'
<1> SUFFICES ASSUME FInv, [Next]_vars PROVE FInv'
  OBVIOUS
<1> USE DEF FInv
<1>1. ASSUME NEW d \in MediaData, Media(d) PROVE FInv'
  <2> DEFINE p == FromStr0m(d)
             fir == ~d.contiguous /\ ~Throttled /\ live
  <2>1. /\ p.rid = d.rid /\ p.kind \in Kinds /\ p.rid \in Sends \cup {NoRid}
        /\ p.kind = d.kind /\ (p.kind = "audio" => p.rid = NoRid)
        /\ (p.kind = "video" => p.rid \in Streams)
    BY <1>1, PayloadFields DEF Media
  <2>2. Offered(p) => p.rid \in Sends /\ simulcast /\ out["video"] = "Open"
    <3>1. Offered(p) => p.rid \in Sends /\ d.kind = "video" /\ out["video"] = "Open"
      BY OfferedIsOpenVideo
    <3> HIDE DEF p
    <3> QED BY <2>1, <3>1, LayerNames DEF Streams
  <2>3. /\ CacheRid(p)
        /\ offeredSince' = offeredSince \cup (IF Offered(p) THEN {p.rid} ELSE {})
        /\ last_keyframe_request' = IF fir THEN 0 ELSE last_keyframe_request
        /\ wanted' = (wanted \ (IF d.kind = "video" THEN {d.rid} ELSE {}))
                        \cup (IF fir THEN {d.rid} ELSE {})
        /\ Decode(d, p)
        /\ UNCHANGED <<filter, links, request, settled>>
    BY <1>1 DEF Media
  <2> HIDE DEF p
  <2>4. chosen_rid' \in Sends \cup {NoRid}
          /\ (chosen_rid' # NoRid => simulcast /\ out["video"] = "Open")
    BY <2>2, <2>3 DEF CacheRid, TypeOK
  <2>5. CacheIsFresh' /\ offeredSince' \subseteq Sends
    BY <2>2, <2>3 DEF CacheRid, CacheIsFresh, TypeOK
  <2>6. synced' \in Streams \cup {Nothing}
    <3>1. CASE p.kind = "audio"
      BY <3>1, <2>3 DEF Decode, TypeOK
    <3>2. CASE p.kind = "video" /\ Fate(p) = "written"
      <4>1. synced' = IF d.key \/ (d.contiguous /\ synced = p.rid) THEN p.rid ELSE Nothing
        BY <3>2, <2>3 DEF Decode
      <4> QED BY <3>2, <4>1, <2>1
    <3>3. CASE p.kind = "video" /\ Fate(p) # "written"
      <4>1. synced' = IF synced = p.rid THEN Nothing ELSE synced
        BY <3>3, <2>3 DEF Decode
      <4> QED BY <4>1 DEF TypeOK
    <3> QED BY <3>1, <3>2, <3>3, <2>1 DEF Kinds
  <2>7. wanted' \subseteq Streams
    <3>1. ~d.contiguous => d.rid \in Streams
      <4>1. ~d.contiguous => d.kind = "video"
        BY DEF MediaData, Kinds
      <4> QED BY <2>1, <4>1
    <3> QED BY <3>1, <2>3 DEF TypeOK
  <2>8. last_keyframe_request' \in 0..(KEYFRAME_REQUEST_MIN_GAP - 1) \cup {Never}
    BY <2>3, GapAssumption DEF TypeOK
  <2> QED BY <2>3, <2>4, <2>5, <2>6, <2>7, <2>8 DEF filter, links, TypeOK, Streams
<1>2. ASSUME NEW r \in OwnSends, OwnMedia(r) PROVE FInv'
  BY <1>2, SendsAssumption DEF OwnMedia, links, ends, TypeOK, Streams, CacheIsFresh
<1>3. ASSUME NEW r \in Rids, SetDesiredLayer(r) PROVE FInv'
  BY <1>3 DEF SetDesiredLayer, links, ends, TypeOK, Streams, CacheIsFresh
<1>4. ASSUME NEW s \in BOOLEAN, SetSuspended(s) PROVE FInv'
  BY <1>4 DEF SetSuspended, links, ends, TypeOK, Streams, CacheIsFresh
<1>5. ASSUME NEW k \in Kinds, HandleTrackOpen(k) PROVE FInv'
  BY <1>5 DEF HandleTrackOpen, filter, ends, TypeOK, Streams, CacheIsFresh, Kinds
<1>6. ASSUME NEW k \in Kinds, Negotiated(k) PROVE FInv'
  BY <1>6 DEF Negotiated, filter, ends, TypeOK, Streams, CacheIsFresh, Kinds
<1>7. CASE PublisherReaped
  BY <1>7 DEF PublisherReaped, filter, ends, TypeOK, Streams, CacheIsFresh
<1>8. CASE IncomingKeyframeReq
  BY <1>8 DEF IncomingKeyframeReq, filter, links, ends, TypeOK, Streams, CacheIsFresh, KeyframeRequests
<1>9. CASE HandleKeyframeRequest
  <2>1. wanted' \subseteq Streams
    <3>1. CASE relay_source \/ ~live
      BY <1>9, <3>1 DEF HandleKeyframeRequest, TypeOK
    <3>2. CASE ~(relay_source \/ ~live)
      <4>1. PICK asked \in SUBSET Streams :
                wanted' = wanted \cup asked
        BY <1>9, <3>2 DEF HandleKeyframeRequest
      <4> QED BY <4>1 DEF TypeOK
    <3> QED BY <3>1, <3>2
  <2> QED BY <1>9, <2>1 DEF HandleKeyframeRequest, filter, links, TypeOK, Streams, CacheIsFresh
<1>10. CASE Tick
  <2>1. last_keyframe_request' \in 0..(KEYFRAME_REQUEST_MIN_GAP - 1) \cup {Never}
    BY <1>10, GapAssumption DEF Tick, Throttled, TypeOK, Never
  <2> QED BY <1>10, <2>1 DEF Tick, filter, links, ends, TypeOK, Streams, CacheIsFresh
<1>11. CASE Settle
  BY <1>11 DEF Settle, filter, links, TypeOK, Streams, CacheIsFresh
<1>12. CASE UNCHANGED vars
  BY <1>12 DEF vars, filter, links, ends, TypeOK, Streams, CacheIsFresh
<1> QED BY <1>1, <1>2, <1>3, <1>4, <1>5, <1>6, <1>7, <1>8, <1>9, <1>10, <1>11, <1>12 DEF Next

-----------------------------------------------------------------------------
(* The key epoch, for any width of the extension. *)

W == SFRAME_KID_WIDTH
B == ByteBase

(* Quotient and remainder, and that no other pair is one. *)
LEMMA Division ==
    ASSUME NEW x \in Int, NEW p \in Nat, p > 0
    PROVE  x \div p \in Int /\ x % p \in 0..(p - 1) /\ x = p * (x \div p) + (x % p)
OBVIOUS

LEMMA DivisionUnique ==
    ASSUME NEW x \in Int, NEW p \in Nat, p > 0,
           NEW q \in Int, NEW r \in 0..(p - 1), x = p * q + r
    PROVE  x \div p = q /\ x % p = r
<1> DEFINE a == x \div p
           b == x % p
<1>1. a \in Int /\ b \in 0..(p - 1) /\ x = p * a + b
  BY Division
<1> HIDE DEF a, b
<1>2. p * (a - q) = r - b /\ r - b < p /\ r - b > -p
  BY <1>1
<1>3. CASE a - q >= 1
  <2>1. p * (a - q) >= p
    BY <1>1, <1>3
  <2> QED BY <1>1, <1>2, <2>1
<1>4. CASE a - q <= -1
  <2>1. p * (a - q) <= -p
    BY <1>1, <1>4
  <2> QED BY <1>1, <1>2, <2>1
<1>5. CASE a = q
  BY <1>1, <1>5 DEF a, b
<1> QED BY <1>1, <1>3, <1>4, <1>5 DEF a, b

LEMMA KidTypes == W \in Nat /\ W >= 1 /\ B \in Nat /\ B >= 2 /\ Bytes = 0..(B - 1)
BY KidAssumption DEF W, B, Bytes

(* The places are the powers of the base. *)
LEMMA PlaceSteps ==
    /\ Place[0] = 1
    /\ \A k \in 1..W : Place[k] = Place[k - 1] * B
    /\ \A k \in 0..W : Place[k] \in Nat /\ Place[k] > 0
<1> DEFINE P(h) == h = [k \in 0..W |-> IF k = 0 THEN 1 ELSE h[k - 1] * B]
<1>1. Place = CHOOSE h : P(h)
  BY DEF Place, W, B
<1>2. \E h : P(h)
  <2>1. PICK z \in Int, m \in Int, n \in Nat : z = 1 /\ m = B /\ n = W
    BY KidTypes
  <2>2. PICK c \in [1..n -> Int] : \A k \in 1..n : c[k] = 0
    <3>1. [k \in 1..n |-> 0] \in [1..n -> Int]
      OBVIOUS
    <3> QED BY <3>1
  <2>3. PICK h \in [0..n -> Int] : h[0] = z /\ \A k \in 1..n : h[k] = h[k - 1] * m + c[k]
    BY Recurrence, ZenonT(60)
  <2>4. \A k \in 1..n : h[k] = h[k - 1] * m
    <3> SUFFICES ASSUME NEW k \in 1..n PROVE h[k] = h[k - 1] * m
      OBVIOUS
    <3>1. h[k - 1] \in Int
      OBVIOUS
    <3>2. h[k - 1] * m \in Int
      BY <3>1
    <3> QED BY <2>2, <2>3, <3>2
  <2>5. P(h)
    BY <2>1, <2>3, <2>4
  <2> QED BY <2>5
<1>3. P(Place)
  <2> HIDE DEF P
  <2> QED BY <1>1, <1>2
<1>4. Place[0] = 1 /\ \A k \in 1..W : Place[k] = Place[k - 1] * B
  BY <1>3, KidTypes
<1> DEFINE G == {k \in 0..W : Place[k] \in Nat /\ Place[k] > 0}
<1>5. 0 \in G
  BY <1>4, KidTypes
<1>6. ASSUME NEW k \in 0..(W - 1), k \in G PROVE k + 1 \in G
  <2>1. k + 1 \in 1..W /\ (k + 1) - 1 = k /\ k + 1 \in 0..W
    BY KidTypes
  <2>2. Place[k + 1] = Place[k] * B /\ Place[k] \in Nat /\ Place[k] > 0
    BY <1>4, <1>6, <2>1
  <2>3. Place[k] * B \in Nat /\ Place[k] * B > 0
    BY <2>2, KidTypes
  <2> QED BY <2>1, <2>2, <2>3
<1>7. \A k \in 0..W : k \in G
  <2> HIDE DEF G
  <2> QED BY <1>5, <1>6, KidTypes, UpTo
<1> QED BY <1>4, <1>7

(* from_be_bytes reads one byte after another. *)
LEMMA ReadSteps ==
    ASSUME NEW buf \in [1..W -> Bytes]
    PROVE  \E r \in [0..W -> Int] :
              /\ r[0] = 0
              /\ \A i \in 1..W : r[i] = r[i - 1] * B + buf[i]
              /\ ParseValue(buf) = r[W]
<1> DEFINE P(h) == h = [i \in 0..W |-> IF i = 0 THEN 0 ELSE h[i - 1] * B + buf[i]]
           r == CHOOSE h : P(h)
<1>1. W \in Nat /\ B \in Int /\ buf \in [1..W -> Int] /\ Len(buf) = W
  BY KidTypes
<1>2. \E h : P(h)
  <2>1. PICK z \in Int : z = 0
    OBVIOUS
  <2>2. PICK m \in Int, n \in Nat : m = B /\ n = W
    BY <1>1
  <2>3. PICK c \in [1..n -> Int] : c = buf
    BY <1>1, <2>2
  <2>4. PICK h \in [0..n -> Int] : h[0] = z /\ \A i \in 1..n : h[i] = h[i - 1] * m + c[i]
    BY Recurrence, ZenonT(60)
  <2>5. P(h)
    BY <2>1, <2>2, <2>3, <2>4
  <2> QED BY <2>5
<1>3. ParseValue(buf) = r[W]
  <2>1. ParseValue(buf) = FromBeBytes(buf)
    BY <1>1 DEF ParseValue, W
  <2>2. FromBeBytes(buf) = (CHOOSE h : h = [i \in 0..Len(buf) |->
                               IF i = 0 THEN 0 ELSE h[i - 1] * B + buf[i]])[Len(buf)]
    BY DEF FromBeBytes, B
  <2> QED BY <1>1, <2>1, <2>2
<1>4. P(r)
  <2> HIDE DEF P
  <2> QED BY <1>2
<1> HIDE DEF r
<1>5. r = [i \in 0..W |-> r[i]] /\ r[0] = 0 /\ \A i \in 1..W : r[i] = r[i - 1] * B + buf[i]
  BY <1>1, <1>4
<1>6. \A i \in 1..W : r[i - 1] \in Int => r[i] \in Int
  <2> SUFFICES ASSUME NEW i \in 1..W, r[i - 1] \in Int PROVE r[i] \in Int
    OBVIOUS
  <2>1. buf[i] \in Int /\ r[i] = r[i - 1] * B + buf[i]
    BY <1>1, <1>5
  <2> QED BY <1>1, <2>1
<1>7. r \in [0..W -> Int]
  <2>1. r[0] \in Int
    BY <1>5
  <2> QED BY <1>1, <1>5, <1>6, <2>1, IntegersThroughout
<1> QED BY <1>3, <1>5, <1>7

(* What was read splits, at every byte, into the value of the bytes before *)
(* and a rest that is smaller than the place.                              *)
LEMMA ReadSplits ==
    ASSUME NEW buf \in [1..W -> Bytes], NEW r \in [0..W -> Int],
           r[0] = 0, \A i \in 1..W : r[i] = r[i - 1] * B + buf[i]
    PROVE  \A k \in 0..W : \E t \in 0..(Place[k] - 1) : r[W] = Place[k] * r[W - k] + t
<1> DEFINE G == {k \in 0..W : \E t \in 0..(Place[k] - 1) : r[W] = Place[k] * r[W - k] + t}
<1>1. 0 \in G
  <2>1. Place[0] = 1 /\ W - 0 = W /\ r[W] \in Int /\ 0 \in 0..W
    BY KidTypes, PlaceSteps
  <2>2. r[W] = 1 * r[W] + 0 /\ 0 \in 0..(1 - 1)
    BY <2>1
  <2> QED BY <2>1, <2>2
<1>2. ASSUME NEW k \in 0..(W - 1), k \in G PROVE k + 1 \in G
  <2> DEFINE i == W - k
             p == Place[k]
             v == r[i - 1]
             b == buf[i]
  <2>1. i \in 1..W /\ k + 1 \in 1..W /\ (k + 1) - 1 = k /\ W - (k + 1) = i - 1
          /\ k + 1 \in 0..W /\ i - 1 \in 0..W /\ k \in 0..W
    BY KidTypes
  <2>2. p \in Nat /\ p > 0 /\ Place[k + 1] = p * B
    BY <2>1, PlaceSteps
  <2>3. v \in Int /\ b \in 0..(B - 1) /\ B \in Nat /\ r[i] = v * B + b
    BY <2>1, KidTypes
  <2>4. PICK t \in 0..(p - 1) : r[W] = p * r[i] + t
    BY <1>2
  <2> HIDE DEF p, v, b, i
  <2>5. p * (v * B + b) + t = (p * B) * v + (p * b + t)
    BY <2>2, <2>3
  <2>6. p * b + t \in 0..(p * B - 1)
    <3>1. p * b >= 0 /\ p * b \in Int /\ p * B \in Int /\ p * b <= p * B - p
      <4>1. b >= 0 /\ b \in Int /\ (B - 1) - b >= 0
        BY <2>3
      <4>2. p * b >= 0 /\ p * ((B - 1) - b) >= 0
        BY <2>2, <2>3, <4>1
      <4> QED BY <2>2, <2>3, <4>1, <4>2
    <3> QED BY <2>2, <3>1
  <2>7. r[W] = Place[k + 1] * r[W - (k + 1)] + (p * b + t)
    BY <2>1, <2>2, <2>3, <2>4, <2>5 DEF v
  <2> QED BY <2>1, <2>2, <2>6, <2>7
<1>3. \A k \in 0..W : k \in G
  <2> HIDE DEF G
  <2> QED BY <1>1, <1>2, KidTypes, UpTo
<1> QED BY <1>3

(* A KID of the right width leaves the kit as it came. *)
LEMMA WrittenAsRead ==
    ASSUME NEW buf \in [1..W -> Bytes]
    PROVE  Forwarded(buf) = buf
<1>1. PICK r \in [0..W -> Int] :
          /\ r[0] = 0
          /\ \A i \in 1..W : r[i] = r[i - 1] * B + buf[i]
          /\ ParseValue(buf) = r[W]
  BY ReadSteps
<1>2. \A k \in 0..W : \E t \in 0..(Place[k] - 1) : r[W] = Place[k] * r[W - k] + t
  BY <1>1, ReadSplits
<1>3. r[W] \in 0..(Place[W] - 1)
  <2>1. W \in 0..W /\ W - W = 0 /\ Place[W] \in Nat
    BY KidTypes, PlaceSteps
  <2>2. PICK t \in 0..(Place[W] - 1) : r[W] = Place[W] * r[W - W] + t
    BY <1>2, <2>1
  <2> QED BY <1>1, <2>1, <2>2
<1>4. ASSUME NEW i \in 1..W
      PROVE  (r[W] \div Place[W - i]) % B = buf[i]
  <2>1. W - i \in 0..W /\ W - (W - i) = i /\ i - 1 \in 0..W /\ i \in 0..W /\ W \in 0..W
    BY KidTypes
  <2> DEFINE p == Place[W - i]
             x == r[W]
             q == r[i]
             v == r[i - 1]
             b == buf[i]
  <2>2. p \in Nat /\ p > 0 /\ x \in Int /\ q \in Int /\ v \in Int
    BY <2>1, PlaceSteps
  <2>3. PICK t \in 0..(p - 1) : x = p * q + t
    BY <1>2, <2>1
  <2>4. b \in 0..(B - 1) /\ B \in Nat /\ B > 0 /\ q = v * B + b
    <3>1. buf[i] \in Bytes
      OBVIOUS
    <3>2. q = v * B + b
      BY <1>1
    <3> HIDE DEF q, v, b
    <3> QED BY <3>1, <3>2, KidTypes DEF b
  <2> HIDE DEF p, x, q, v, b
  <2>5. x \div p = q
    BY <2>2, <2>3, DivisionUnique
  <2>6. q = B * v + b
    BY <2>2, <2>4
  <2>7. q % B = b
    BY <2>2, <2>4, <2>6, DivisionUnique
  <2> QED BY <2>5, <2>7 DEF p, x, b
<1>5. r[W] # NoEpoch /\ ~(r[W] >= Place[W])
  <2>1. Place[W] \in Nat
    BY KidTypes, PlaceSteps
  <2> QED BY <1>3, <2>1 DEF NoEpoch
<1>6. WriteTo(r[W]) = [i \in 1..W |-> (r[W] \div Place[W - i]) % B]
  BY <1>5 DEF WriteTo, W, B
<1>7. WriteTo(r[W]) = buf
  BY <1>4, <1>6
<1> QED BY <1>1, <1>7 DEF Forwarded

(* One place further: dividing by the larger place drops one byte. *)
LEMMA DropOneByte ==
    ASSUME NEW x \in Int, NEW p \in Nat, p > 0
    PROVE  /\ p * B \in Nat /\ p * B > 0
           /\ x \div p = (x \div (p * B)) * B + ((x \div p) % B)
<1> DEFINE q  == x \div p
           t  == x % p
           q2 == q \div B
           d  == q % B
<1>1. q \in Int /\ t \in 0..(p - 1) /\ x = p * q + t
  BY Division
<1>2. B \in Nat /\ B > 0
  BY KidTypes
<1> HIDE DEF q, t
<1>3. q2 \in Int /\ d \in 0..(B - 1) /\ q = B * q2 + d
  BY <1>1, <1>2, Division
<1> HIDE DEF q2, d
<1> DEFINE m == p * B
           s == p * d + t
<1>4. m \in Nat /\ m > 0
  BY <1>2
<1>5. s \in 0..(m - 1)
  <2>1. p * d >= 0 /\ p * d \in Int /\ p * d <= p * B - p
    <3>1. d >= 0 /\ d \in Int /\ (B - 1) - d >= 0
      BY <1>2, <1>3
    <3>2. p * d >= 0 /\ p * ((B - 1) - d) >= 0
      BY <1>2, <3>1
    <3> QED BY <1>2, <3>1, <3>2
  <2> QED BY <1>1, <1>2, <2>1
<1>6. x = m * q2 + s
  BY <1>1, <1>2, <1>3
<1> HIDE DEF m, s
<1>7. x \div m = q2
  BY <1>3, <1>4, <1>5, <1>6, DivisionUnique
<1>8. q = q2 * B + d
  BY <1>2, <1>3
<1> QED BY <1>4, <1>7, <1>8 DEF m, q, d

(* An epoch that fits is read back. *)
LEMMA ReadAsWritten ==
    ASSUME NEW kid \in Nat, kid < Place[W]
    PROVE  ParseValue(WriteTo(kid)) = kid
<1> DEFINE buf == [i \in 1..W |-> (kid \div Place[W - i]) % B]
<1>1. WriteTo(kid) = buf
  <2>1. kid # NoEpoch /\ ~(kid >= Place[W])
    <3>1. Place[W] \in Nat
      BY KidTypes, PlaceSteps
    <3> QED BY <3>1 DEF NoEpoch
  <2> QED BY <2>1 DEF WriteTo, W, B
<1>2. \A k \in 0..W : Place[k] \in Nat /\ Place[k] > 0 /\ kid \div Place[k] \in Int
  <2>1. \A k \in 0..W : Place[k] \in Nat /\ Place[k] > 0
    BY PlaceSteps
  <2> QED BY <2>1, Division
<1>3. buf \in [1..W -> Bytes] /\ \A i \in 1..W : buf[i] = (kid \div Place[W - i]) % B
  <2>1. ASSUME NEW i \in 1..W PROVE (kid \div Place[W - i]) % B \in Bytes
    <3>1. W - i \in 0..W
      BY KidTypes
    <3>2. PICK q \in Int : q = kid \div Place[W - i]
      BY <1>2, <3>1
    <3>3. B \in Nat /\ B > 0 /\ Bytes = 0..(B - 1)
      BY KidTypes
    <3>4. q % B \in 0..(B - 1)
      BY <3>3, Division
    <3> QED BY <3>2, <3>3, <3>4
  <2> QED BY <2>1
<1> HIDE DEF buf
<1>4. PICK r \in [0..W -> Int] :
          /\ r[0] = 0
          /\ \A i \in 1..W : r[i] = r[i - 1] * B + buf[i]
          /\ ParseValue(buf) = r[W]
  BY <1>3, ReadSteps
<1> DEFINE G == {i \in 0..W : r[i] = kid \div Place[W - i]}
<1>5. 0 \in G
  <2>1. W \in 0..W /\ W - 0 = W /\ 0 \in 0..W
    BY KidTypes
  <2>2. PICK p \in Nat : p = Place[W] /\ p > 0
    BY <1>2, <2>1
  <2>3. kid \in 0..(p - 1) /\ kid = p * 0 + kid
    BY <2>2
  <2>4. kid \div p = 0
    BY <2>2, <2>3, DivisionUnique
  <2> QED BY <1>4, <2>1, <2>2, <2>4
<1>6. ASSUME NEW i \in 0..(W - 1), i \in G PROVE i + 1 \in G
  <2>1. /\ i + 1 \in 1..W /\ (i + 1) - 1 = i /\ i + 1 \in 0..W /\ W - i \in 1..W
        /\ W - (i + 1) = (W - i) - 1 /\ W - (i + 1) \in 0..W
    BY KidTypes
  <2>2. PICK p \in Nat : p = Place[W - (i + 1)] /\ p > 0
    BY <1>2, <2>1
  <2>3. Place[W - i] = p * B
    BY <2>1, <2>2, PlaceSteps
  <2>4. r[i + 1] = r[i] * B + buf[i + 1]
    BY <1>4, <2>1
  <2>5. r[i] = kid \div (p * B) /\ buf[i + 1] = (kid \div p) % B
    BY <1>3, <1>6, <2>1, <2>2, <2>3
  <2>6. kid \div p = (kid \div (p * B)) * B + ((kid \div p) % B)
    <3>1. PICK x \in Int : x = kid
      OBVIOUS
    <3>2. x \div p = (x \div (p * B)) * B + ((x \div p) % B)
      BY <2>2, DropOneByte
    <3> QED BY <3>1, <3>2
  <2> QED BY <2>1, <2>2, <2>4, <2>5, <2>6
<1>7. \A i \in 0..W : i \in G
  <2> HIDE DEF G
  <2> QED BY <1>5, <1>6, KidTypes, UpTo
<1>8. r[W] = kid
  <2>1. W \in 0..W /\ W - W = 0 /\ Place[0] = 1
    BY KidTypes, PlaceSteps
  <2> QED BY <1>7, <2>1
<1> QED BY <1>1, <1>4, <1>8

(* The two together, over every extension and every epoch. *)
LEMMA KidRoundTrip == ForwardedIntact /\ EpochsReadBack
<1>1. ForwardedIntact
  <2> SUFFICES ASSUME NEW n \in 0..(W + 1), NEW buf \in [1..n -> Bytes]
               PROVE  Forwarded(buf) = IF n = W THEN buf ELSE NoExtension
    BY DEF ForwardedIntact, W
  <2>1. CASE n = W
    BY <2>1, WrittenAsRead
  <2>2. CASE n # W
    <3>1. Len(buf) = n
      BY KidTypes
    <3> QED BY <2>2, <3>1 DEF Forwarded, ParseValue, WriteTo, W
  <2> QED BY <2>1, <2>2
<1>2. EpochsReadBack
  <2> SUFFICES ASSUME NEW kid \in 0..MaxKid, WriteTo(kid) # NoExtension
               PROVE  ParseValue(WriteTo(kid)) = kid
    BY DEF EpochsReadBack
  <2>1. kid \in Nat /\ Place[W] \in Nat
    BY KidAssumption, KidTypes, PlaceSteps
  <2>2. ~(kid >= Place[W])
    BY DEF WriteTo, W
  <2>3. kid < Place[W]
    BY <2>1, <2>2
  <2> QED BY <2>1, <2>3, ReadAsWritten
<1> QED BY <1>1, <1>2

-----------------------------------------------------------------------------
(* The forwarder's promises. *)

LEMMA ForwardInv == Spec => []FInv
BY ForwardInit, ForwardStep, PTL DEF Spec

(* Every field keeps its type, and the cached layer is only ever filled    *)
(* from layered video on a track that was open for writing.                *)
THEOREM ForwardTypes == Spec => []TypeOK
<1>1. FInv => TypeOK
  BY DEF FInv
<1> QED BY <1>1, ForwardInv, PTL

(* A suspended subscriber is sent no video packet and every audio packet   *)
(* of a publisher in the room.                                             *)
THEOREM SuspendCorrect == Spec => []SuspendStopsVideoOnly
BY SuspendFilter, PTL

(* KeyEpochSerializer never turns one KID into another, at any width: the  *)
(* bytes a publisher sends leave as they came, or not at all, and an epoch *)
(* that is written is read back.                                           *)
THEOREM KidCorrect == Spec => []KidIsNeverAnother
<1>1. KidIsNeverAnother
  BY KidRoundTrip DEF KidIsNeverAnother
<1> QED BY <1>1, PTL

(* Whatever layer changes, losses and requests come before, a subscriber's *)
(* keyframe request never names the layer from before set_desired_layer.   *)
THEOREM KeyframeCorrect == Spec => KeyframeAsksForwardedLayer
<1>1. ASSUME FInv, [Next]_vars
      PROVE  [request' \in Sends /\ request' # request => request' \in offeredSince]_vars
  <2> SUFFICES ASSUME Next, request' \in Sends, request' # request
               PROVE  request' \in offeredSince
    BY <1>1
  <2>1. CASE IncomingKeyframeReq
    BY <2>1, <1>1, LayerNames DEF IncomingKeyframeReq, FInv, CacheIsFresh
  <2>2. CASE HandleKeyframeRequest
    BY <2>2, LayerNames DEF HandleKeyframeRequest
  <2>3. CASE UNCHANGED request
    BY <2>3
  <2> QED BY <2>1, <2>2, <2>3 DEF Next, Media, OwnMedia, SetDesiredLayer, SetSuspended,
             HandleTrackOpen, Negotiated, PublisherReaped, Tick, Settle
<1> QED BY <1>1, ForwardInv, PTL DEF Spec, KeyframeAsksForwardedLayer

=============================================================================
