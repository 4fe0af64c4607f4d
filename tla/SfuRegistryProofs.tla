------------------------- MODULE SfuRegistryProofs -------------------------
(* Theorems about SfuRegistry, for every set of clients, relays and media  *)
(* ids, any bound of the queue and any history of joins and leaves.        *)
EXTENDS SfuRegistry, SequenceLemmas

-----------------------------------------------------------------------------
(* Vec::retain. *)

(* Retain is defined wherever the Vec holds each client once: the          *)
(* survivors of the first n clients are, for every n, some sequence that   *)
(* keeps their order.                                                      *)
LEMMA RetainExists ==
    ASSUME NEW S, NEW s \in Seq(S), IsInjective(s), NEW D
    PROVE  \E r \in SetToSeqs(ToSet(s) \ D) :
              \A i, j \in DOMAIN r : i < j =>
                  \E k, l \in DOMAIN s : k < l /\ r[i] = s[k] /\ r[j] = s[l]
<1> DEFINE Ordered(r, n) ==
             \A i, j \in 1..Len(r) : i < j =>
                 \E k, l \in 1..n : k < l /\ r[i] = s[k] /\ r[j] = s[l]
           Kept(n) == {s[k] : k \in 1..n} \ D
           Good(n) == \E r \in Seq(S) : IsInjective(r) /\ ToSet(r) = Kept(n) /\ Ordered(r, n)
           Bad == {n \in 0..Len(s) : ~Good(n)}
<1>1. Len(s) \in Nat /\ DOMAIN s = 1..Len(s)
  OBVIOUS
<1>2. Good(0)
  <2>1. <<>> \in Seq(S) /\ Len(<<>>) = 0 /\ DOMAIN <<>> = {}
    OBVIOUS
  <2>2. IsInjective(<<>>) /\ ToSet(<<>>) = {}
    BY <2>1 DEF IsInjective, ToSet
  <2>3. Kept(0) = {} /\ Ordered(<<>>, 0)
    BY <2>1
  <2> QED BY <2>1, <2>2, <2>3
<1>3. ASSUME NEW n \in 1..Len(s), Good(n - 1)
      PROVE  Good(n)
  <2>1. PICK r \in Seq(S) : IsInjective(r) /\ ToSet(r) = Kept(n - 1) /\ Ordered(r, n - 1)
    BY <1>3
  <2>2. s[n] \in S /\ \A k \in 1..(n - 1) : k \in 1..n /\ s[k] # s[n]
    BY <1>1 DEF IsInjective
  <2>3. 1..n = (1..(n - 1)) \cup {n}
    BY <1>1
  <2>4. CASE s[n] \in D
    <3>1. Kept(n) = Kept(n - 1)
      BY <2>3, <2>4
    <3>2. Ordered(r, n)
      <4> SUFFICES ASSUME NEW i \in 1..Len(r), NEW j \in 1..Len(r), i < j
                   PROVE  \E k, l \in 1..n : k < l /\ r[i] = s[k] /\ r[j] = s[l]
        OBVIOUS
      <4>1. PICK k, l \in 1..(n - 1) : k < l /\ r[i] = s[k] /\ r[j] = s[l]
        BY <2>1
      <4> QED BY <4>1, <2>3
    <3> QED BY <2>1, <3>1, <3>2
  <2>5. CASE s[n] \notin D
    <3> DEFINE t == Append(r, s[n])
    <3>1. Kept(n) = Kept(n - 1) \cup {s[n]}
      BY <2>3, <2>5
    <3>2. s[n] \notin ToSet(r)
      BY <2>1, <2>2
    <3>3. t \in Seq(S) /\ IsInjective(t) /\ ToSet(t) = Kept(n) /\ Len(t) = Len(r) + 1
      BY <2>1, <2>2, <3>1, <3>2, AppendFresh
    <3>4. Ordered(t, n)
      <4> SUFFICES ASSUME NEW i \in 1..Len(t), NEW j \in 1..Len(t), i < j
                   PROVE  \E k, l \in 1..n : k < l /\ t[i] = s[k] /\ t[j] = s[l]
        OBVIOUS
      <4>1. i \in 1..Len(r) /\ t[i] = r[i] /\ Len(r) \in Nat
        BY <3>3
      <4>2. CASE j \in 1..Len(r)
        <5>1. t[j] = r[j]
          BY <4>2
        <5>2. PICK k, l \in 1..(n - 1) : k < l /\ r[i] = s[k] /\ r[j] = s[l]
          BY <2>1, <4>1, <4>2
        <5> QED BY <4>1, <5>1, <5>2, <2>3
      <4>3. CASE j = Len(r) + 1
        <5>1. t[j] = s[n]
          BY <4>3
        <5>2. r[i] \in ToSet(r)
          BY <4>1, ToSetOfSeq
        <5>3. PICK k \in 1..(n - 1) : r[i] = s[k]
          BY <2>1, <5>2
        <5> QED BY <4>1, <5>1, <5>3, <2>3
      <4> QED BY <4>1, <4>2, <4>3, <3>3
    <3> QED BY <3>3, <3>4
  <2> QED BY <2>4, <2>5
<1>4. Good(Len(s))
  <2> HIDE DEF Good
  <2> SUFFICES ASSUME Bad # {} PROVE FALSE
    BY <1>1
  <2>1. Bad \subseteq Nat
    BY <1>1
  <2>2. PICK n \in Bad : \A k \in Bad : n <= k
    <3> HIDE DEF Bad
    <3> QED BY <2>1, LeastNumber
  <2>3. n \in 1..Len(s) /\ n - 1 \in 0..Len(s)
    BY <1>1, <1>2
  <2>4. n - 1 \notin Bad
    BY <2>2, <2>3
  <2> QED BY <2>2, <2>3, <2>4, <1>3
<1>5. PICK r \in Seq(S) : IsInjective(r) /\ ToSet(r) = Kept(Len(s)) /\ Ordered(r, Len(s))
  BY <1>4
<1>6. Kept(Len(s)) = ToSet(s) \ D
  BY <1>1 DEF ToSet
<1>7. r \in SetToSeqs(ToSet(s) \ D)
  <2>1. Len(r) = Cardinality(ToSet(r)) /\ r \in Seq(ToSet(r))
    BY <1>5, InjectiveRange, ToSetOfSeq
  <2>2. r \in [1..Cardinality(ToSet(r)) -> ToSet(r)]
    BY <2>1
  <2>3. \A i, j \in 1..Cardinality(ToSet(r)) : i # j => r[i] # r[j]
    BY <2>1, <2>2, <1>5 DEF IsInjective
  <2> QED BY <2>2, <2>3, <1>5, <1>6 DEF SetToSeqs
<1>8. \A i, j \in DOMAIN r : i < j =>
          \E k, l \in DOMAIN s : k < l /\ r[i] = s[k] /\ r[j] = s[l]
  <2>1. DOMAIN r = 1..Len(r)
    OBVIOUS
  <2>2. \A i, j \in 1..Len(r) : i < j =>
            \E k, l \in 1..Len(s) : k < l /\ r[i] = s[k] /\ r[j] = s[l]
    BY <1>5
  <2> SUFFICES ASSUME NEW i \in DOMAIN r, NEW j \in DOMAIN r, i < j
               PROVE  \E k, l \in DOMAIN s : k < l /\ r[i] = s[k] /\ r[j] = s[l]
    OBVIOUS
  <2>3. PICK k, l \in 1..Len(s) : k < l /\ r[i] = s[k] /\ r[j] = s[l]
    BY <2>1, <2>2
  <2>4. k \in DOMAIN s /\ l \in DOMAIN s
    BY <1>1
  <2> QED BY <2>3, <2>4
<1>9. WITNESS r \in SetToSeqs(ToSet(s) \ D)
<1> QED BY <1>8

(* What Vec::retain leaves: each survivor once, and nobody else. *)
LEMMA RetainKeepsSurvivors ==
    ASSUME NEW S, NEW s \in Seq(S), IsInjective(s), NEW D
    PROVE  /\ Retain(s, D) \in Seq(S)
           /\ IsInjective(Retain(s, D))
           /\ ToSet(Retain(s, D)) = ToSet(s) \ D
<1> DEFINE r == Retain(s, D)
           K == ToSet(s) \ D
<1>1. r \in SetToSeqs(K)
  BY RetainExists DEF Retain
<1> HIDE DEF r
<1>2. IsFiniteSet(K) /\ K \subseteq S
  BY InjectiveRange, FS_Difference, ToSetOfSeq
<1>3. Cardinality(K) \in Nat
  BY <1>2, FS_CardinalityType
<1>4. r \in [1..Cardinality(K) -> K] /\ IsInjective(r)
  BY <1>1 DEF SetToSeqs, IsInjective
<1>5. r \in Seq(S)
  <2>1. r \in [1..Cardinality(K) -> S]
    BY <1>2, <1>4
  <2> HIDE DEF K
  <2> QED BY <2>1, <1>3
<1>6. r \in Surjection(1..Cardinality(K), K)
  <2>1. r \in Injection(1..Cardinality(K), K)
    BY <1>4 DEF Injection
  <2>2. Cardinality(1..Cardinality(K)) = Cardinality(K)
    BY <1>3, FS_Interval
  <2> QED BY <2>1, <2>2, <1>2, FS_Injection
<1>7. ToSet(r) = K
  BY <1>4, <1>6 DEF ToSet, Surjection
<1> QED BY <1>4, <1>5, <1>7 DEF r

-----------------------------------------------------------------------------
(* Facts about the events and the queue. *)

(* The events are records of the declared type. *)
LEMMA EventTypes ==
    /\ \A p \in Ids, m \in Mids : TrackOpenEvent(p, m) \in Event /\ MediaEvent(p, m) \in Event
    /\ \A t \in Types, p \in Ids : AppEvent(t, p) \in Event
BY DEF Event, Types, TrackOpenEvent, MediaEvent, AppEvent

(* One event of type t for each of finitely many clients, behind a queue:  *)
(* at most as many as there are clients, and the queue is as it was.       *)
LEMMA QueueBatch ==
    ASSUME NEW q \in Seq(Event), NEW S \in SUBSET Ids, IsFiniteSet(S), NEW t \in Types
    PROVE  LET z == q \o SetToSeq({AppEvent(t, c) : c \in S})
           IN  /\ z \in Seq(Event)
               /\ Len(z) \in Len(q)..(Len(q) + Cardinality(S))
               /\ \A i \in 1..Len(z) : IF i <= Len(q) THEN z[i] = q[i] ELSE z[i].type = t
<1> DEFINE T == {AppEvent(t, c) : c \in S}
           batch == SetToSeq(T)
           z == q \o batch
<1>1. T \subseteq Event /\ \A e \in T : e.type = t
  BY EventTypes DEF AppEvent
<1>2. IsFiniteSet(T) /\ Cardinality(T) <= Cardinality(S)
  <2> DEFINE f == [c \in S |-> AppEvent(t, c)]
  <2>1. f \in Surjection(S, T)
    BY DEF Surjection
  <2> HIDE DEF f, T
  <2> QED BY <2>1, FS_Surjection
<1>3. Cardinality(S) \in Nat
  BY FS_CardinalityType
<1> HIDE DEF T
<1>4. batch \in Seq(T) /\ Len(batch) = Cardinality(T) /\ Cardinality(T) \in Nat
  BY <1>2, SetToSeqEnumerates
<1> HIDE DEF batch
<1>5. batch \in Seq(Event) /\ \A i \in 1..Len(batch) : batch[i].type = t
  BY <1>1, <1>4, SeqMonotonic, ElementOfSeq
<1>6. /\ z \in Seq(Event) /\ Len(z) = Len(q) + Len(batch) /\ Len(q) \in Nat
      /\ \A i \in 1..(Len(q) + Len(batch)) :
            z[i] = IF i <= Len(q) THEN q[i] ELSE batch[i - Len(q)]
  BY <1>5, ConcatProperties
<1>7. \A i \in 1..Len(z) : IF i <= Len(q) THEN z[i] = q[i] ELSE z[i].type = t
  <2> SUFFICES ASSUME NEW i \in 1..Len(z), ~(i <= Len(q))
               PROVE  z[i].type = t
    BY <1>6
  <2>1. i - Len(q) \in 1..Len(batch) /\ z[i] = batch[i - Len(q)]
    BY <1>4, <1>6
  <2> QED BY <2>1, <1>5
<1>8. Len(z) \in Len(q)..(Len(q) + Cardinality(S))
  BY <1>2, <1>3, <1>4, <1>6
<1> HIDE DEF z
<1> QED BY <1>6, <1>7, <1>8 DEF z, batch, T

(* Popping the queue shifts it by one. *)
LEMMA QueuePop ==
    ASSUME NEW q \in Seq(Event), q # <<>>
    PROVE  /\ Tail(q) \in Seq(Event)
           /\ Len(Tail(q)) = Len(q) - 1 /\ Len(q) \in Nat \ {0}
           /\ \A i \in 1..Len(Tail(q)) : i + 1 \in 1..Len(q) /\ Tail(q)[i] = q[i + 1]
           /\ Head(q) = q[1] /\ Head(q) \in Event
OBVIOUS

(* Pushing an event leaves the others where they are. *)
LEMMA QueuePush ==
    ASSUME NEW q \in Seq(Event), NEW e \in Event
    PROVE  /\ Append(q, e) \in Seq(Event)
           /\ Len(Append(q, e)) = Len(q) + 1 /\ Len(q) \in Nat
           /\ \A i \in 1..Len(q) : Append(q, e)[i] = q[i]
           /\ Append(q, e)[Len(q) + 1] = e
OBVIOUS

(* Counting one up keeps a table of counts, whatever the entry. *)
LEMMA CountUp ==
    ASSUME NEW S, NEW f \in [S -> Nat], NEW x
    PROVE  /\ [f EXCEPT ![x] = @ + 1] \in [S -> Nat]
           /\ \A y \in S : [f EXCEPT ![x] = @ + 1][y] = IF y = x THEN f[y] + 1 ELSE f[y]
<1>1. CASE x \in S
  BY <1>1
<1>2. CASE x \notin S
  BY <1>2
<1> QED BY <1>1, <1>2

-----------------------------------------------------------------------------
(* Who is in the room. *)

(* Nobody comes back, insert registered exactly the local clients, and     *)
(* only a client of the room has live tracks.                              *)
Roster ==
    /\ Members \cap departed = {}
    /\ in_speaker_detector = Members \ Relays
    /\ \A c \in Ids \ Members : tracks_in[c] = {}

RoomInv == TypeOK /\ Roster /\ DetectorMirrorsRoom

(* The room is finite, and so is the set of its publishers. *)
LEMMA RoomIsFinite ==
    ASSUME RoomInv
    PROVE  /\ Members \subseteq Ids /\ clients \in Seq(Members)
           /\ IsFiniteSet(Members) /\ Cardinality(Members) = Len(clients) /\ Len(clients) \in Nat
           /\ Publishers \subseteq Members
<1>1. clients \in Seq(Ids) /\ IsInjective(clients)
  BY DEF RoomInv, TypeOK
<1>2. Members \subseteq Ids /\ clients \in Seq(Members)
  BY <1>1, ToSetOfSeq DEF Members
<1>3. Publishers \subseteq Members
  BY DEF Publishers, Upgrades, RoomInv, Roster
<1> QED BY <1>1, <1>2, <1>3, InjectiveRange DEF Members

(* An empty room. *)
LEMMA RoomInit == Init => RoomInv
<1> SUFFICES ASSUME Init PROVE RoomInv
  OBVIOUS
<1>1. Members = {} /\ IsInjective(clients) /\ Len(clients) = 0
  BY DEF Init, Members, ToSet, IsInjective
<1>2. NoTracks \in [Tracks -> Nat]
  BY DEF NoTracks
<1> QED BY <1>1, <1>2 DEF Init, RoomInv, TypeOK, Roster, DetectorMirrorsRoom

(* Every step keeps the roster in order. *)
LEMMA RoomStep == RoomInv /\ [Next]_vars => RoomInv'
<1> SUFFICES ASSUME RoomInv, [Next]_vars PROVE RoomInv'
  OBVIOUS
<1> USE DEF RoomInv
<1>m. UNCHANGED clients => Members' = Members
  BY DEF Members
<1>f. /\ Members \subseteq Ids /\ clients \in Seq(Members)
      /\ IsFiniteSet(Members) /\ Cardinality(Members) = Len(clients) /\ Len(clients) \in Nat
      /\ Publishers \subseteq Members
  BY RoomIsFinite
<1>q. to_propagate \in Seq(Event)
  BY DEF TypeOK
<1>1. CASE ReapDead
  <2>1. /\ clients' \in Seq(Ids) /\ IsInjective(clients') /\ Members' = Members \ Dead
    BY <1>1, RetainKeepsSurvivors DEF ReapDead, TypeOK, Members
  <2>2. todo' \in Seq(Members') /\ pc' = "poll"
    BY <1>1, <2>1, ToSetOfSeq DEF ReapDead, StartPoll, Members
  <2>3. Len(clients') = Cardinality(Members') /\ Len(clients') \in Nat
    <3>1. Cardinality(ToSet(clients')) = Len(clients')
      BY <2>1, InjectiveRange
    <3>2. Len(clients') \in Nat
      BY <2>1
    <3> QED BY <3>1, <3>2 DEF Members
  <2>4. Cardinality(Members') = Cardinality(Members) - Cardinality(Dead)
    <3>1. Members \cap Dead = Dead
      BY DEF Dead
    <3>2. Cardinality(Members \ Dead) = Cardinality(Members) - Cardinality(Members \cap Dead)
      BY <1>f, FS_Difference
    <3> QED BY <2>1, <3>1, <3>2
  <2>5. participants' = Len(clients')
    <3>1. participants = Len(clients) /\ participants' = participants - Cardinality(Dead)
      BY <1>1 DEF ReapDead, DetectorMirrorsRoom
    <3> QED BY <3>1, <2>3, <2>4, <1>f
  <2>6. tracks_in' \in [Ids -> SUBSET Mids] /\ tracks_out' \in [Ids -> [Tracks -> Nat]]
    BY <1>1 DEF ReapDead, TypeOK, NoTracks
  <2>7. Roster'
    BY <1>1, <2>1, <1>f DEF ReapDead, Roster, ForgetSpeakers, Dead, TypeOK
  <2>8. detector' = Members' \ Relays
    BY <1>1, <2>1 DEF ReapDead, Roster, DetectorMirrorsRoom, ForgetSpeakers, Dead
  <2>9. TypeOK'
    BY <1>1, <2>1, <2>2, <2>3, <2>5, <2>6, <1>f DEF ReapDead, TypeOK, ForgetSpeakers, ForgetBandwidth, Dead
  <2> QED BY <2>5, <2>7, <2>8, <2>9 DEF DetectorMirrorsRoom
<1>2. ASSUME NEW c \in Ids, PollTimeout(c) \/ PollDisconnect(c) PROVE RoomInv'
  <2>1. todo' \in Seq(Members)
    <3>1. todo \in Seq(Members) /\ todo # <<>> /\ todo' = Tail(todo)
      BY <1>2 DEF PollTimeout, PollDisconnect, Polling, TypeOK
    <3> QED BY <3>1, HeadTailProperties
  <2> QED BY <1>2, <2>1, <1>m DEF PollTimeout, PollDisconnect, Polling, room, side, TypeOK, Roster,
                    DetectorMirrorsRoom
<1>3. ASSUME NEW c \in Ids, NEW m \in Mids, PollTrackAdded(c, m) PROVE RoomInv'
  <2>1. to_propagate' \in Seq(Event)
    BY <1>3, <1>q, EventTypes, QueuePush DEF PollTrackAdded
  <2>2. c \in Members
    BY <1>3 DEF PollTrackAdded, Polling, TypeOK
  <2> QED BY <1>3, <2>1, <2>2, <1>m DEF PollTrackAdded, side, TypeOK, Roster, DetectorMirrorsRoom
<1>4. ASSUME NEW c \in Ids, NEW m \in Mids, PollMedia(c, m) PROVE RoomInv'
  <2>1. to_propagate' \in Seq(Event)
    BY <1>4, <1>q, EventTypes, QueuePush DEF PollMedia
  <2>2. c \in Members
    BY <1>4 DEF PollMedia, Polling, TypeOK
  <2> QED BY <1>4, <2>1, <2>2, <1>m DEF PollMedia, room, TypeOK, Roster, DetectorMirrorsRoom
<1>5. ASSUME NEW c \in Ids, PollBandwidth(c) \/ PollReport(c) PROVE RoomInv'
  <2>1. to_propagate' \in Seq(Event)
    BY <1>5, <1>q, EventTypes, QueuePush DEF PollBandwidth, PollReport, Types
  <2> QED BY <1>5, <2>1, <1>m DEF PollBandwidth, PollReport, room, side, TypeOK, Roster,
                                  DetectorMirrorsRoom
<1>6. CASE PollDone \/ FanoutDone \/ Shutdown \/ Serve
  BY <1>6, <1>m DEF PollDone, FanoutDone, Shutdown, Serve, room, side, TypeOK, Roster,
                    DetectorMirrorsRoom
<1>7. CASE FanoutTrackOpen
  <2> DEFINE e == Head(to_propagate)
  <2>1. to_propagate' \in Seq(Event)
    BY <1>7, <1>q, QueuePop DEF FanoutTrackOpen, Pops
  <2>2. \A c \in Ids : [tracks_out[c] EXCEPT ![<<e.origin, e.mid>>] = @ + 1] \in [Tracks -> Nat]
    BY CountUp DEF TypeOK
  <2> HIDE DEF e
  <2>3. tracks_out' \in [Ids -> [Tracks -> Nat]]
    BY <1>7, <2>2 DEF FanoutTrackOpen, TypeOK, e
  <2> QED BY <1>7, <2>1, <2>3, <1>m DEF FanoutTrackOpen, side, TypeOK, Roster, DetectorMirrorsRoom
<1>8. CASE FanoutMedia
  <2>1. PICK moved \in SUBSET Members, failed \in SUBSET Members :
              /\ to_propagate' = Tail(to_propagate)
                    \o SetToSeq({AppEvent("Mode", c) : c \in moved})
              /\ alive' = alive \ failed
    BY <1>8 DEF FanoutMedia
  <2>2. to_propagate' \in Seq(Event)
    <3>1. Tail(to_propagate) \in Seq(Event)
      BY <1>8, <1>q, QueuePop DEF FanoutMedia, Pops
    <3>2. IsFiniteSet(moved) /\ moved \in SUBSET Ids
      BY <1>f, FS_Subset
    <3> QED BY <2>1, <3>1, <3>2, QueueBatch DEF Types
  <2> QED BY <1>8, <2>1, <2>2, <1>m DEF FanoutMedia, side, TypeOK, Roster, DetectorMirrorsRoom
<1>9. CASE FanoutOther
  <2>1. to_propagate' \in Seq(Event)
    BY <1>9, <1>q, QueuePop DEF FanoutOther, Pops
  <2> QED BY <1>9, <2>1, <1>m DEF FanoutOther, room, side, TypeOK, Roster, DetectorMirrorsRoom
<1>10. CASE EmitPublisherLayerHints
  <2>1. IsFiniteSet(Publishers) /\ Publishers \in SUBSET Ids
    BY <1>f, FS_Subset
  <2>2. to_propagate' \in Seq(Event)
    BY <1>10, <2>1, <1>q, QueueBatch DEF EmitPublisherLayerHints, Types
  <2> QED BY <1>10, <2>2, <1>m DEF EmitPublisherLayerHints, room, side, TypeOK, Roster,
                                   DetectorMirrorsRoom
<1>11. CASE SessionTick \/ HandleIncoming
  <2>1. alive' \subseteq alive
    BY <1>11 DEF SessionTick, HandleIncoming, InputFails
  <2> QED BY <1>11, <2>1, <1>m DEF SessionTick, HandleIncoming, side, TypeOK, Roster,
                                   DetectorMirrorsRoom
<1>12. CASE TickActiveSpeaker
  <2>1. to_propagate' \in Seq(Event)
    BY <1>12, <1>q, EventTypes, QueuePush DEF TickActiveSpeaker, TypeOK, Types
  <2> QED BY <1>12, <2>1, <1>m DEF TickActiveSpeaker, room, side, TypeOK, Roster,
                                   DetectorMirrorsRoom
<1>13. ASSUME NEW c \in Ids, Insert(c) PROVE RoomInv'
  <2>1. /\ clients' \in Seq(Ids) /\ IsInjective(clients') /\ Members' = Members \cup {c}
        /\ Len(clients') = Len(clients) + 1
    BY <1>13, AppendFresh DEF Insert, TypeOK, Members
  <2>2. todo' \in Seq(Members')
    BY <1>13, <2>1, SeqMonotonic DEF Insert, TypeOK
  <2>3. tracks_out' \in [Ids -> [Tracks -> Nat]]
    BY <1>13 DEF Insert, TypeOK
  <2>4. TypeOK'
    BY <1>13, <2>1, <2>2, <2>3 DEF Insert, TypeOK
  <2>5. Roster'
    BY <1>13, <2>1 DEF Insert, Roster
  <2>6. DetectorMirrorsRoom'
    BY <1>13, <2>1 DEF Insert, DetectorMirrorsRoom
  <2> QED BY <2>4, <2>5, <2>6
<1>14. ASSUME NEW c \in Ids, RecordAudioLevel(c) \/ EstimatorCall(c) PROVE RoomInv'
  BY <1>14, <1>m DEF RecordAudioLevel, EstimatorCall, room, TypeOK, Roster, DetectorMirrorsRoom
<1>15. CASE UNCHANGED vars
  BY <1>15, <1>m DEF vars, room, side, TypeOK, Roster, DetectorMirrorsRoom
<1> QED BY <1>1, <1>2, <1>3, <1>4, <1>5, <1>6, <1>7, <1>8, <1>9, <1>10, <1>11, <1>12, <1>13,
           <1>14, <1>15 DEF Next, LoopStep, Environment

-----------------------------------------------------------------------------
(* What is queued. *)

(* The event is about the track itself: its announcement or its media. *)
OfTrack(e) == e.type \in {"TrackOpen", "MediaData"}

(* Every queued announcement and packet is of a track that is still there. *)
QueuedAreLive ==
    \A i \in 1..Len(to_propagate) :
        OfTrack(to_propagate[i]) => to_propagate[i].mid \in tracks_in[to_propagate[i].origin]

(* In a queue q, the announcement of a track comes before everything else  *)
(* of that track, and once.                                                *)
AnnouncedFirstIn(q) ==
    \A i, j \in 1..Len(q) :
        i < j /\ q[j].type = "TrackOpen" /\ OfTrack(q[i]) =>
            q[i].origin # q[j].origin \/ q[i].mid # q[j].mid

AnnouncedFirst == AnnouncedFirstIn(to_propagate)

(* Between two passes the queue holds the hints of the last one, and at    *)
(* most one speaker change since; a pass starts by draining it.            *)
QuietQueue ==
    /\ pc = "hints" => to_propagate = <<>>
    /\ pc \in {"stopped", "select", "reap"} =>
          \A i \in 1..Len(to_propagate) :
              to_propagate[i].type \in {"LayerHint", "ActiveSpeaker"}
    /\ pc \in {"stopped", "select"} => Len(to_propagate) <= Len(clients)
    /\ pc = "reap" => Len(to_propagate) <= Len(clients) + 1

QueueInv == QueuedAreLive /\ AnnouncedFirst /\ QuietQueue

(* Nobody lists a track that is not published yet: mids come, and only a   *)
(* reap takes them away, with their client.                                *)
NotListedYet ==
    \A c \in Members, p \in Ids \ departed : \A m \in Mids \ tracks_in[p] :
        tracks_out[c][<<p, m>>] = 0

AdvertInv == NotListedYet /\ AdvertisedOnce

(* The queue z is q with events behind it that are about no track. *)
Extends(q, z) ==
    /\ z \in Seq(Event) /\ Len(q) <= Len(z)
    /\ \A i \in 1..Len(z) : IF i <= Len(q) THEN z[i] = q[i] ELSE ~OfTrack(z[i])

(* Events about no track, however many, disturb neither order nor liveness. *)
LEMMA ExtendKeepsOrder ==
    ASSUME NEW q \in Seq(Event), NEW z, Extends(q, z)
    PROVE  /\ AnnouncedFirstIn(q) => AnnouncedFirstIn(z)
           /\ \A i \in 1..Len(z) : OfTrack(z[i]) => i \in 1..Len(q) /\ z[i] = q[i]
<1>1. Len(q) \in Nat /\ Len(z) \in Nat
  BY DEF Extends
<1>2. \A i \in 1..Len(z) : OfTrack(z[i]) => i \in 1..Len(q) /\ z[i] = q[i]
  BY <1>1 DEF Extends
<1>3. \A j \in 1..Len(z) : z[j].type = "TrackOpen" => OfTrack(z[j])
  BY DEF OfTrack
<1> QED BY <1>1, <1>2, <1>3 DEF AnnouncedFirstIn

LEMMA PushExtends ==
    ASSUME NEW q \in Seq(Event), NEW t \in Types \ {"TrackOpen", "MediaData"}, NEW p \in Ids
    PROVE  Extends(q, Append(q, AppEvent(t, p)))
<1>1. AppEvent(t, p) \in Event /\ ~OfTrack(AppEvent(t, p))
  BY EventTypes DEF OfTrack, AppEvent
<1> HIDE DEF AppEvent
<1> QED BY <1>1, QueuePush DEF Extends

LEMMA BatchExtends ==
    ASSUME NEW q \in Seq(Event), NEW S \in SUBSET Ids, IsFiniteSet(S),
           NEW t \in Types \ {"TrackOpen", "MediaData"}
    PROVE  Extends(q, q \o SetToSeq({AppEvent(t, c) : c \in S}))
<1> DEFINE z == q \o SetToSeq({AppEvent(t, c) : c \in S})
<1>1. /\ z \in Seq(Event)
      /\ Len(z) \in Len(q)..(Len(q) + Cardinality(S))
      /\ \A i \in 1..Len(z) : IF i <= Len(q) THEN z[i] = q[i] ELSE z[i].type = t
  BY QueueBatch
<1>2. Len(q) \in Nat /\ Cardinality(S) \in Nat
  BY FS_CardinalityType
<1> HIDE DEF z
<1>3. Extends(q, z)
  BY <1>1, <1>2 DEF Extends, OfTrack
<1> QED BY <1>3 DEF z

(* Neither does popping the first event. *)
LEMMA PopKeepsOrder ==
    ASSUME NEW q \in Seq(Event), q # <<>>, AnnouncedFirstIn(q)
    PROVE  AnnouncedFirstIn(Tail(q))
<1> SUFFICES ASSUME NEW i \in 1..Len(Tail(q)), NEW j \in 1..Len(Tail(q)),
                    i < j, Tail(q)[j].type = "TrackOpen", OfTrack(Tail(q)[i])
             PROVE  Tail(q)[i].origin # Tail(q)[j].origin \/ Tail(q)[i].mid # Tail(q)[j].mid
  BY DEF AnnouncedFirstIn
<1>1. /\ i + 1 \in 1..Len(q) /\ j + 1 \in 1..Len(q) /\ i + 1 < j + 1
      /\ Tail(q)[i] = q[i + 1] /\ Tail(q)[j] = q[j + 1]
  BY QueuePop
<1> QED BY <1>1 DEF AnnouncedFirstIn

(* A new announcement, or a packet, goes behind what is queued. *)
LEMMA PushKeepsOrder ==
    ASSUME NEW q \in Seq(Event), NEW e \in Event, AnnouncedFirstIn(q),
           e.type = "TrackOpen" =>
              \A i \in 1..Len(q) : OfTrack(q[i]) => q[i].origin # e.origin \/ q[i].mid # e.mid
    PROVE  AnnouncedFirstIn(Append(q, e))
<1> DEFINE z == Append(q, e)
<1>1. /\ Len(z) = Len(q) + 1 /\ Len(q) \in Nat
      /\ \A i \in 1..Len(q) : z[i] = q[i]
      /\ z[Len(q) + 1] = e
  BY QueuePush
<1> HIDE DEF z
<1> SUFFICES ASSUME NEW i \in 1..Len(z), NEW j \in 1..Len(z),
                    i < j, z[j].type = "TrackOpen", OfTrack(z[i])
             PROVE  z[i].origin # z[j].origin \/ z[i].mid # z[j].mid
  BY DEF AnnouncedFirstIn, z
<1>2. i \in 1..Len(q) /\ z[i] = q[i]
  BY <1>1
<1>3. CASE j \in 1..Len(q)
  BY <1>1, <1>2, <1>3 DEF AnnouncedFirstIn
<1>4. CASE j = Len(q) + 1
  BY <1>1, <1>2, <1>4
<1> QED BY <1>1, <1>3, <1>4

LEMMA QueueInit == Init => QueueInv
BY DEF Init, QueueInv, QueuedAreLive, AnnouncedFirst, AnnouncedFirstIn, QuietQueue

(* Every step keeps the queue in order. *)
LEMMA QueueStep == RoomInv /\ QueueInv /\ [Next]_vars => QueueInv'
<1> SUFFICES ASSUME RoomInv, QueueInv, [Next]_vars PROVE QueueInv'
  OBVIOUS
<1> USE DEF QueueInv
<1>q. to_propagate \in Seq(Event) /\ Len(to_propagate) \in Nat /\ tracks_in \in [Ids -> SUBSET Mids]
  BY DEF RoomInv, TypeOK
<1>f. /\ Members \subseteq Ids /\ Publishers \subseteq Members
      /\ IsFiniteSet(Members) /\ Cardinality(Members) = Len(clients) /\ Len(clients) \in Nat
  BY RoomIsFinite
<1>x. ASSUME Extends(to_propagate, to_propagate'), UNCHANGED tracks_in
      PROVE  QueuedAreLive' /\ AnnouncedFirst'
  BY <1>x, <1>q, ExtendKeepsOrder DEF QueuedAreLive, AnnouncedFirst
<1>u. ASSUME UNCHANGED <<to_propagate, tracks_in>>
      PROVE  QueuedAreLive' /\ AnnouncedFirst'
  BY <1>u DEF QueuedAreLive, AnnouncedFirst, AnnouncedFirstIn
<1>p. ASSUME pc' \in {"poll", "fanout"}
      PROVE  QuietQueue'
  BY <1>p DEF QuietQueue
<1>t. ASSUME to_propagate # <<>>, Extends(Tail(to_propagate), to_propagate'), UNCHANGED tracks_in
      PROVE  QueuedAreLive' /\ AnnouncedFirst'
  <2> DEFINE q == Tail(to_propagate)
  <2>1. q \in Seq(Event) /\ AnnouncedFirstIn(q)
    BY <1>t, <1>q, QueuePop, PopKeepsOrder DEF AnnouncedFirst
  <2>2. \A i \in 1..Len(q) : i + 1 \in 1..Len(to_propagate) /\ q[i] = to_propagate[i + 1]
    BY <1>t, <1>q, QueuePop
  <2>3. /\ AnnouncedFirst'
        /\ \A i \in 1..Len(to_propagate') :
              OfTrack(to_propagate'[i]) => i \in 1..Len(q) /\ to_propagate'[i] = q[i]
    BY <1>t, <2>1, ExtendKeepsOrder DEF AnnouncedFirst
  <2> HIDE DEF q
  <2> QED BY <1>t, <2>2, <2>3 DEF QueuedAreLive
<1>1. CASE ReapDead
  <2>1. \A i \in 1..Len(to_propagate) : ~OfTrack(to_propagate[i])
    BY <1>1 DEF ReapDead, QuietQueue, OfTrack
  <2>2. QueuedAreLive' /\ AnnouncedFirst'
    BY <1>1, <2>1 DEF ReapDead, QueuedAreLive, AnnouncedFirst, AnnouncedFirstIn
  <2> QED BY <1>1, <2>2, <1>p DEF ReapDead, StartPoll
<1>2. ASSUME NEW c \in Ids, PollTimeout(c) \/ PollDisconnect(c) PROVE QueueInv'
  BY <1>2, <1>u, <1>p DEF PollTimeout, PollDisconnect, Polling, room
<1>3. ASSUME NEW c \in Ids, NEW m \in Mids, PollTrackAdded(c, m) PROVE QueueInv'
  <2> DEFINE e == TrackOpenEvent(c, m)
  <2>1. e \in Event /\ e.type = "TrackOpen" /\ e.origin = c /\ e.mid = m
    BY EventTypes DEF TrackOpenEvent
  <2> HIDE DEF e
  <2>2. to_propagate' = Append(to_propagate, e) /\ m \notin tracks_in[c]
    BY <1>3 DEF PollTrackAdded, e
  <2>3. AnnouncedFirst'
    <3>1. \A i \in 1..Len(to_propagate) : OfTrack(to_propagate[i]) =>
              to_propagate[i].origin # e.origin \/ to_propagate[i].mid # e.mid
      BY <2>1, <2>2 DEF QueuedAreLive
    <3> QED BY <2>1, <2>2, <3>1, <1>q, PushKeepsOrder DEF AnnouncedFirst
  <2>4. QueuedAreLive'
    <3>1. \A p \in Ids : tracks_in[p] \subseteq tracks_in'[p]
      BY <1>3, <1>q DEF PollTrackAdded
    <3>2. m \in tracks_in'[c]
      BY <1>3, <1>q DEF PollTrackAdded
    <3>3. \A i \in 1..Len(to_propagate) : to_propagate[i].origin \in Ids
      <4>1. \A i \in 1..Len(to_propagate) : to_propagate[i] \in Event
        BY <1>q, ElementOfSeq
      <4> QED BY <4>1 DEF Event
    <3> QED BY <2>1, <2>2, <3>1, <3>2, <3>3, <1>q, QueuePush DEF QueuedAreLive
  <2> QED BY <1>3, <2>3, <2>4, <1>p DEF PollTrackAdded, Polling
<1>4. ASSUME NEW c \in Ids, NEW m \in Mids, PollMedia(c, m) PROVE QueueInv'
  <2> DEFINE e == MediaEvent(c, m)
  <2>1. e \in Event /\ e.type = "MediaData" /\ e.origin = c /\ e.mid = m
    BY EventTypes DEF MediaEvent
  <2> HIDE DEF e
  <2>2. to_propagate' = Append(to_propagate, e) /\ m \in tracks_in[c] /\ UNCHANGED tracks_in
    BY <1>4 DEF PollMedia, e, room
  <2>3. AnnouncedFirst'
    BY <2>1, <2>2, <1>q, PushKeepsOrder DEF AnnouncedFirst
  <2>4. QueuedAreLive'
    BY <2>1, <2>2, <1>q, QueuePush DEF QueuedAreLive
  <2> QED BY <1>4, <2>3, <2>4, <1>p DEF PollMedia, Polling
<1>5. ASSUME NEW c \in Ids, PollBandwidth(c) \/ PollReport(c) PROVE QueueInv'
  <2>1. Extends(to_propagate, to_propagate')
    BY <1>5, <1>q, PushExtends DEF PollBandwidth, PollReport, Types
  <2> QED BY <1>5, <2>1, <1>x, <1>p DEF PollBandwidth, PollReport, Polling, room
<1>6. CASE PollDone
  BY <1>6, <1>u, <1>p DEF PollDone, room
<1>7. CASE FanoutTrackOpen \/ FanoutOther
  <2>1. to_propagate # <<>> /\ to_propagate' = Tail(to_propagate)
    BY <1>7 DEF FanoutTrackOpen, FanoutOther, Pops
  <2>2. Extends(Tail(to_propagate), to_propagate')
    BY <2>1, <1>q, QueuePop DEF Extends
  <2> QED BY <1>7, <2>1, <2>2, <1>t, <1>p DEF FanoutTrackOpen, FanoutOther, Pops, room
<1>8. CASE FanoutMedia
  <2>1. PICK moved \in SUBSET Members :
              to_propagate' = Tail(to_propagate)
                    \o SetToSeq({AppEvent("Mode", c) : c \in moved})
    BY <1>8 DEF FanoutMedia
  <2>2. to_propagate # <<>> /\ Tail(to_propagate) \in Seq(Event)
    BY <1>8, <1>q, QueuePop DEF FanoutMedia, Pops
  <2>3. IsFiniteSet(moved) /\ moved \in SUBSET Ids
    BY <1>f, FS_Subset
  <2>4. Extends(Tail(to_propagate), to_propagate')
    BY <2>1, <2>2, <2>3, BatchExtends DEF Types
  <2> QED BY <1>8, <2>2, <2>4, <1>t, <1>p DEF FanoutMedia, Pops
<1>9. CASE FanoutDone
  BY <1>9, <1>u DEF FanoutDone, QuietQueue, room
<1>10. CASE EmitPublisherLayerHints
  <2>1. IsFiniteSet(Publishers) /\ Publishers \in SUBSET Ids /\ Cardinality(Publishers) <= Len(clients)
    BY <1>f, FS_Subset
  <2>2. Extends(to_propagate, to_propagate')
    BY <1>10, <2>1, <1>q, BatchExtends DEF EmitPublisherLayerHints, Types
  <2>3. /\ Len(to_propagate') \in Len(to_propagate)..(Len(to_propagate) + Cardinality(Publishers))
        /\ \A i \in 1..Len(to_propagate') :
              IF i <= Len(to_propagate) THEN to_propagate'[i] = to_propagate[i]
              ELSE to_propagate'[i].type = "LayerHint"
    <3> DEFINE z == to_propagate \o SetToSeq({AppEvent("LayerHint", p) : p \in Publishers})
    <3>1. "LayerHint" \in Types
      BY DEF Types
    <3>2. /\ Len(z) \in Len(to_propagate)..(Len(to_propagate) + Cardinality(Publishers))
          /\ \A i \in 1..Len(z) : IF i <= Len(to_propagate) THEN z[i] = to_propagate[i]
                                ELSE z[i].type = "LayerHint"
      BY <2>1, <3>1, <1>q, QueueBatch
    <3>3. to_propagate' = z
      BY <1>10 DEF EmitPublisherLayerHints
    <3> HIDE DEF z
    <3> QED BY <3>2, <3>3
  <2>4. Len(to_propagate) = 0
    BY <1>10 DEF EmitPublisherLayerHints, QuietQueue
  <2>5. Cardinality(Publishers) \in Nat
    BY <2>1, FS_CardinalityType
  <2>6. QuietQueue'
    BY <1>10, <2>1, <2>3, <2>4, <2>5, <1>f DEF EmitPublisherLayerHints, QuietQueue, room
  <2> QED BY <1>10, <2>2, <2>6, <1>x DEF EmitPublisherLayerHints, room
<1>11. CASE SessionTick \/ HandleIncoming \/ Shutdown \/ Serve
  <2>1. QuietQueue'
    BY <1>11, <1>q, <1>f DEF SessionTick, HandleIncoming, Shutdown, Serve, QuietQueue, room
  <2> QED BY <1>11, <2>1, <1>u DEF SessionTick, HandleIncoming, Shutdown, Serve, room
<1>12. CASE TickActiveSpeaker
  <2>1. CASE UNCHANGED to_propagate
    <3>1. QuietQueue'
      BY <1>12, <2>1, <1>q, <1>f DEF TickActiveSpeaker, QuietQueue, room
    <3> QED BY <1>12, <2>1, <3>1, <1>u DEF TickActiveSpeaker, room
  <2>2. ASSUME NEW p \in detector,
               to_propagate' = Append(to_propagate, AppEvent("ActiveSpeaker", p))
        PROVE  QueueInv'
    <3>1. p \in Ids
      BY DEF RoomInv, TypeOK
    <3>2. Extends(to_propagate, to_propagate')
      BY <2>2, <3>1, <1>q, PushExtends DEF Types
    <3>3. AppEvent("ActiveSpeaker", p) \in Event /\ AppEvent("ActiveSpeaker", p).type = "ActiveSpeaker"
      BY <3>1, EventTypes DEF AppEvent, Types
    <3>4. /\ Len(to_propagate') = Len(to_propagate) + 1
          /\ \A i \in 1..Len(to_propagate) : to_propagate'[i] = to_propagate[i]
          /\ to_propagate'[Len(to_propagate) + 1].type = "ActiveSpeaker"
      BY <2>2, <3>3, <1>q, QueuePush
    <3>5. QuietQueue'
      BY <1>12, <3>4, <1>q, <1>f DEF TickActiveSpeaker, QuietQueue, room
    <3> QED BY <1>12, <3>2, <3>5, <1>x DEF TickActiveSpeaker, room
  <2> QED BY <1>12, <2>1, <2>2 DEF TickActiveSpeaker
<1>13. ASSUME NEW c \in Ids, Insert(c) PROVE QueueInv'
  <2>1. Len(clients') = Len(clients) + 1
    BY <1>13 DEF Insert, RoomInv, TypeOK
  <2>2. QuietQueue'
    BY <1>13, <2>1, <1>q, <1>f DEF Insert, QuietQueue
  <2> QED BY <1>13, <2>2, <1>u DEF Insert
<1>14. ASSUME NEW c \in Ids, RecordAudioLevel(c) \/ EstimatorCall(c) PROVE QueueInv'
  <2>1. QuietQueue'
    BY <1>14 DEF RecordAudioLevel, EstimatorCall, QuietQueue, room
  <2> QED BY <1>14, <2>1, <1>u DEF RecordAudioLevel, EstimatorCall, room
<1>15. CASE UNCHANGED vars
  <2>1. QuietQueue'
    BY <1>15 DEF vars, QuietQueue, room
  <2> QED BY <1>15, <2>1, <1>u DEF vars, room
<1> QED BY <1>1, <1>2, <1>3, <1>4, <1>5, <1>6, <1>7, <1>8, <1>9, <1>10, <1>11, <1>12, <1>13,
           <1>14, <1>15 DEF Next, LoopStep, Environment

-----------------------------------------------------------------------------
(* Who lists which track. *)

(* The announcement of a track p, m is in the queue q. *)
Announces(q, p, m) == \E i \in 1..Len(q) : q[i] = TrackOpenEvent(p, m)

(* Events about no track announce nothing. *)
LEMMA ExtendAnnounces ==
    ASSUME NEW q \in Seq(Event), NEW z, Extends(q, z), NEW p, NEW m
    PROVE  Announces(z, p, m) <=> Announces(q, p, m)
<1>1. OfTrack(TrackOpenEvent(p, m))
  BY DEF OfTrack, TrackOpenEvent
<1>2. Len(q) \in Nat /\ Len(z) \in Nat /\ Len(q) <= Len(z)
  BY DEF Extends
<1>3. ASSUME Announces(z, p, m) PROVE Announces(q, p, m)
  BY <1>1, <1>3, ExtendKeepsOrder DEF Announces
<1>4. ASSUME Announces(q, p, m) PROVE Announces(z, p, m)
  <2>1. PICK i \in 1..Len(q) : q[i] = TrackOpenEvent(p, m)
    BY <1>4 DEF Announces
  <2>2. i \in 1..Len(z) /\ z[i] = q[i]
    BY <1>2 DEF Extends
  <2> QED BY <2>1, <2>2 DEF Announces
<1> QED BY <1>3, <1>4

(* Popping takes one announcement at most: that of the event popped. *)
LEMMA PopAnnounces ==
    ASSUME NEW q \in Seq(Event), q # <<>>, NEW p, NEW m
    PROVE  /\ Announces(Tail(q), p, m) => Announces(q, p, m)
           /\ Announces(q, p, m) => Announces(Tail(q), p, m) \/ Head(q) = TrackOpenEvent(p, m)
           /\ Head(q) = TrackOpenEvent(p, m) => Announces(q, p, m)
<1>1. /\ Len(Tail(q)) = Len(q) - 1 /\ Len(q) \in Nat \ {0}
      /\ \A i \in 1..Len(Tail(q)) : i + 1 \in 1..Len(q) /\ Tail(q)[i] = q[i + 1]
      /\ Head(q) = q[1]
  BY QueuePop
<1>2. Announces(Tail(q), p, m) => Announces(q, p, m)
  BY <1>1 DEF Announces
<1>3. ASSUME Announces(q, p, m) PROVE Announces(Tail(q), p, m) \/ Head(q) = TrackOpenEvent(p, m)
  <2>1. PICK i \in 1..Len(q) : q[i] = TrackOpenEvent(p, m)
    BY <1>3 DEF Announces
  <2>2. CASE i = 1
    BY <2>1, <2>2, <1>1
  <2>3. CASE i # 1
    <3>1. i - 1 \in 1..Len(Tail(q)) /\ Tail(q)[i - 1] = q[i]
      BY <2>3, <1>1
    <3> QED BY <2>1, <3>1 DEF Announces
  <2> QED BY <2>2, <2>3
<1>4. Head(q) = TrackOpenEvent(p, m) => Announces(q, p, m)
  BY <1>1 DEF Announces
<1> QED BY <1>2, <1>3, <1>4

(* Pushing adds the announcement pushed, if it is one. *)
LEMMA PushAnnounces ==
    ASSUME NEW q \in Seq(Event), NEW e \in Event, NEW p, NEW m
    PROVE  Announces(Append(q, e), p, m) <=> Announces(q, p, m) \/ e = TrackOpenEvent(p, m)
<1> DEFINE z == Append(q, e)
<1>1. /\ Len(z) = Len(q) + 1 /\ Len(q) \in Nat
      /\ \A i \in 1..Len(q) : z[i] = q[i]
      /\ z[Len(q) + 1] = e
  BY QueuePush
<1> HIDE DEF z
<1>2. 1..Len(z) = 1..Len(q) \cup {Len(q) + 1}
  BY <1>1
<1>3. Announces(z, p, m) <=> Announces(q, p, m) \/ e = TrackOpenEvent(p, m)
  BY <1>1, <1>2 DEF Announces
<1> QED BY <1>3 DEF z

(* A record is that announcement iff its fields say so. *)
LEMMA TrackOpenFields ==
    /\ \A p, m, p2, m2 : TrackOpenEvent(p, m) = TrackOpenEvent(p2, m2) <=> p = p2 /\ m = m2
    /\ \A e \in Event : e.type = "TrackOpen" <=> e = TrackOpenEvent(e.origin, e.mid)
BY DEF TrackOpenEvent, Event

LEMMA AdvertInit == Init => AdvertInv
<1> SUFFICES ASSUME Init PROVE AdvertInv
  OBVIOUS
<1>1. Members = {}
  BY DEF Init, Members, ToSet
<1> QED BY <1>1 DEF AdvertInv, NotListedYet, AdvertisedOnce

(* Every step keeps the lists in step with the tracks. *)
LEMMA AdvertStep == RoomInv /\ QueueInv /\ AdvertInv /\ [Next]_vars => AdvertInv'
<1> SUFFICES ASSUME RoomInv, QueueInv, AdvertInv, [Next]_vars PROVE AdvertInv'
  OBVIOUS
<1> USE DEF AdvertInv
<1>q. /\ to_propagate \in Seq(Event) /\ Len(to_propagate) \in Nat
      /\ tracks_in \in [Ids -> SUBSET Mids] /\ tracks_out \in [Ids -> [Tracks -> Nat]]
  BY DEF RoomInv, TypeOK
<1>f. /\ Members \subseteq Ids /\ Publishers \subseteq Members
      /\ IsFiniteSet(Members)
  BY RoomIsFinite
<1>m. UNCHANGED clients => Members' = Members
  BY DEF Members
<1>d. \A p, m : /\ Pending(p, m) <=> Announces(to_propagate, p, m)
                /\ Pending(p, m)' <=> Announces(to_propagate', p, m)
  BY DEF Pending, Announces
<1>u. ASSUME UNCHANGED <<clients, departed, tracks_in, tracks_out>>,
             \A p, m : Pending(p, m)' <=> Pending(p, m)
      PROVE  AdvertInv'
  BY <1>u, <1>m DEF NotListedYet, AdvertisedOnce
<1>1. CASE ReapDead
  <2>1. Members' = Members \ Dead
    BY <1>1, RetainKeepsSurvivors DEF ReapDead, RoomInv, TypeOK, Members
  <2>2. \A c \in Members \ Dead : tracks_in'[c] = tracks_in[c] /\ tracks_out'[c] = tracks_out[c]
    BY <1>1, <1>f DEF ReapDead
  <2>3. \A p \in Ids \ Dead : tracks_in'[p] = tracks_in[p]
    BY <1>1 DEF ReapDead
  <2>4. departed' = departed \cup Dead /\ UNCHANGED to_propagate
    BY <1>1 DEF ReapDead
  <2>5. NotListedYet'
    <3> SUFFICES ASSUME NEW c \in Members', NEW p \in Ids \ departed', NEW m \in Mids \ tracks_in'[p]
                 PROVE  tracks_out'[c][<<p, m>>] = 0
      BY DEF NotListedYet
    <3>1. c \in Members /\ tracks_out'[c] = tracks_out[c]
      BY <2>1, <2>2
    <3>2. p \in Ids \ departed /\ m \in Mids \ tracks_in[p]
      BY <2>3, <2>4
    <3> QED BY <3>1, <3>2 DEF NotListedYet
  <2>6. \A p, m : Pending(p, m)' <=> Pending(p, m)
    BY <2>4 DEF Pending
  <2>7. AdvertisedOnce'
    <3> SUFFICES ASSUME NEW c \in Members', NEW p \in Members', NEW m \in tracks_in'[p]
                 PROVE  tracks_out'[c][<<p, m>>] = IF c = p \/ Pending(p, m)' THEN 0 ELSE 1
      BY DEF AdvertisedOnce
    <3>1. /\ c \in Members /\ tracks_out'[c] = tracks_out[c]
          /\ p \in Members /\ m \in tracks_in[p]
      BY <2>1, <2>2
    <3> QED BY <3>1, <2>6 DEF AdvertisedOnce
  <2> QED BY <2>5, <2>7
<1>2. ASSUME NEW c \in Ids, NEW m \in Mids, PollTrackAdded(c, m) PROVE AdvertInv'
  <2>1. c \in Members /\ c \notin departed
    BY <1>2 DEF PollTrackAdded, Polling, RoomInv, TypeOK, Roster
  <2>2. /\ m \notin tracks_in[c]
        /\ UNCHANGED <<departed, tracks_out>> /\ Members' = Members
        /\ to_propagate' = Append(to_propagate, TrackOpenEvent(c, m))
        /\ \A p \in Ids : tracks_in'[p] = IF p = c THEN tracks_in[c] \cup {m} ELSE tracks_in[p]
    BY <1>2, <1>m, <1>q DEF PollTrackAdded
  <2>3. \A p, n : Pending(p, n)' <=> Pending(p, n) \/ (p = c /\ n = m)
    <3>1. TrackOpenEvent(c, m) \in Event
      BY EventTypes
    <3> QED BY <2>2, <3>1, <1>q, <1>d, PushAnnounces, TrackOpenFields
  <2>4. \A d \in Members : tracks_out[d][<<c, m>>] = 0
    BY <2>1, <2>2, <1>f DEF NotListedYet
  <2>5. NotListedYet'
    <3> SUFFICES ASSUME NEW d \in Members', NEW p \in Ids \ departed', NEW n \in Mids \ tracks_in'[p]
                 PROVE  tracks_out'[d][<<p, n>>] = 0
      BY DEF NotListedYet
    <3>1. d \in Members /\ p \in Ids \ departed /\ n \in Mids \ tracks_in[p]
      BY <2>2
    <3>2. tracks_out' = tracks_out
      BY <2>2
    <3> QED BY <3>1, <3>2 DEF NotListedYet
  <2>6. AdvertisedOnce'
    <3> SUFFICES ASSUME NEW d \in Members', NEW p \in Members', NEW n \in tracks_in'[p]
                 PROVE  tracks_out'[d][<<p, n>>] = IF d = p \/ Pending(p, n)' THEN 0 ELSE 1
      BY DEF AdvertisedOnce
    <3>0. d \in Members /\ p \in Members /\ tracks_out' = tracks_out
      BY <2>2
    <3>1. CASE p = c /\ n = m
      BY <3>0, <3>1, <2>3, <2>4
    <3>2. CASE ~(p = c /\ n = m)
      <4>1. n \in tracks_in[p]
        BY <3>0, <3>2, <2>2, <1>f
      <4> QED BY <3>0, <3>2, <4>1, <2>3 DEF AdvertisedOnce
    <3> QED BY <3>1, <3>2
  <2> QED BY <2>5, <2>6
<1>3. ASSUME NEW c \in Ids, NEW m \in Mids, PollMedia(c, m) PROVE AdvertInv'
  <2>1. MediaEvent(c, m) \in Event /\ \A p, n : MediaEvent(c, m) # TrackOpenEvent(p, n)
    BY EventTypes DEF MediaEvent, TrackOpenEvent
  <2>2. \A p, n : Pending(p, n)' <=> Pending(p, n)
    BY <1>3, <2>1, <1>q, <1>d, PushAnnounces DEF PollMedia
  <2> QED BY <1>3, <2>2, <1>u DEF PollMedia, room
<1>4. ASSUME NEW c \in Ids, PollBandwidth(c) \/ PollReport(c) PROVE AdvertInv'
  <2>1. Extends(to_propagate, to_propagate')
    BY <1>4, <1>q, PushExtends DEF PollBandwidth, PollReport, Types
  <2>2. \A p, n : Pending(p, n)' <=> Pending(p, n)
    BY <2>1, <1>q, <1>d, ExtendAnnounces
  <2> QED BY <1>4, <2>2, <1>u DEF PollBandwidth, PollReport, room
<1>5. CASE FanoutTrackOpen
  <2> DEFINE e == Head(to_propagate)
             t == <<e.origin, e.mid>>
  <2>1. /\ to_propagate # <<>> /\ e \in Event /\ e = to_propagate[1] /\ e.type = "TrackOpen"
        /\ to_propagate' = Tail(to_propagate) /\ 1 \in 1..Len(to_propagate)
        /\ UNCHANGED <<departed, tracks_in>> /\ Members' = Members
    BY <1>5, <1>q, <1>m, QueuePop DEF FanoutTrackOpen, Pops
  <2>2. e = TrackOpenEvent(e.origin, e.mid) /\ e.origin \in Ids
    BY <2>1, TrackOpenFields DEF Event
  <2>3. e.mid \in tracks_in[e.origin] /\ e.mid \in Mids
    BY <2>1, <2>2, <1>q DEF QueueInv, QueuedAreLive, OfTrack
  <2>4. t \in Tracks
    BY <2>2, <2>3 DEF Tracks
  <2>5. \A c \in Members : tracks_out'[c] =
            IF c # e.origin THEN [tracks_out[c] EXCEPT ![t] = @ + 1] ELSE tracks_out[c]
    BY <1>5, <1>f DEF FanoutTrackOpen
  <2> HIDE DEF e
  <2>6. \A c \in Members, x \in Tracks : tracks_out'[c][x] =
            IF c # e.origin /\ x = t THEN tracks_out[c][x] + 1 ELSE tracks_out[c][x]
    <3> HIDE DEF t
    <3> SUFFICES ASSUME NEW c \in Members, NEW x \in Tracks
                 PROVE  tracks_out'[c][x] = IF c # e.origin /\ x = t THEN tracks_out[c][x] + 1
                                            ELSE tracks_out[c][x]
      OBVIOUS
    <3>1. tracks_out[c] \in [Tracks -> Nat]
      BY <1>q, <1>f
    <3>2. CASE c # e.origin
      <4>1. tracks_out'[c] = [tracks_out[c] EXCEPT ![t] = @ + 1]
        BY <2>5, <3>2
      <4>2. [tracks_out[c] EXCEPT ![t] = @ + 1][x] =
                IF x = t THEN tracks_out[c][x] + 1 ELSE tracks_out[c][x]
        BY <3>1, CountUp
      <4> QED BY <3>2, <4>1, <4>2
    <3>3. CASE c = e.origin
      BY <2>5, <3>3
    <3> QED BY <3>2, <3>3
  <2>7. \A p, m : Pending(p, m)' <=> Pending(p, m) /\ ~(p = e.origin /\ m = e.mid)
    <3>1. ~Announces(to_propagate', e.origin, e.mid)
      <4> SUFFICES ASSUME NEW i \in 1..Len(Tail(to_propagate)),
                          Tail(to_propagate)[i] = TrackOpenEvent(e.origin, e.mid)
                   PROVE  FALSE
        BY <2>1 DEF Announces
      <4>1. i + 1 \in 1..Len(to_propagate) /\ to_propagate[i + 1] = e /\ 1 < i + 1
        BY <2>1, <2>2, <1>q, QueuePop
      <4> QED BY <4>1, <2>1 DEF QueueInv, AnnouncedFirst, AnnouncedFirstIn, OfTrack
    <3>2. \A p, m : e = TrackOpenEvent(p, m) <=> p = e.origin /\ m = e.mid
      BY <2>2, TrackOpenFields
    <3> QED BY <3>1, <3>2, <2>1, <1>q, <1>d, PopAnnounces DEF e
  <2>8. NotListedYet'
    <3> SUFFICES ASSUME NEW c \in Members, NEW p \in Ids \ departed, NEW m \in Mids \ tracks_in[p]
                 PROVE  tracks_out'[c][<<p, m>>] = 0
      BY <2>1 DEF NotListedYet
    <3>1. <<p, m>> # t /\ <<p, m>> \in Tracks
      BY <2>3 DEF Tracks
    <3>2. tracks_out[c][<<p, m>>] = 0
      BY DEF NotListedYet
    <3> QED BY <3>1, <3>2, <2>6
  <2>9. AdvertisedOnce'
    <3> SUFFICES ASSUME NEW c \in Members, NEW p \in Members, NEW m \in tracks_in[p]
                 PROVE  tracks_out'[c][<<p, m>>] = IF c = p \/ Pending(p, m)' THEN 0 ELSE 1
      BY <2>1 DEF AdvertisedOnce
    <3>1. tracks_out[c][<<p, m>>] = IF c = p \/ Pending(p, m) THEN 0 ELSE 1
      BY DEF AdvertisedOnce
    <3>2. <<p, m>> \in Tracks
      BY <1>q, <1>f DEF Tracks
    <3>3. CASE p = e.origin /\ m = e.mid
      <4>1. Pending(p, m)
        BY <3>3, <2>1, <2>2 DEF Pending
      <4>2. tracks_out[c][<<p, m>>] = 0 /\ <<p, m>> = t
        BY <3>1, <3>3, <4>1
      <4> QED BY <3>2, <3>3, <4>2, <2>6, <2>7
    <3>4. CASE ~(p = e.origin /\ m = e.mid)
      <4>1. <<p, m>> # t
        BY <3>4
      <4> QED BY <3>1, <3>2, <3>4, <4>1, <2>6, <2>7
    <3> QED BY <3>3, <3>4
  <2> QED BY <2>8, <2>9
<1>6. CASE FanoutMedia
  <2>1. PICK moved \in SUBSET Members :
              to_propagate' = Tail(to_propagate)
                    \o SetToSeq({AppEvent("Mode", c) : c \in moved})
    BY <1>6 DEF FanoutMedia
  <2>2. to_propagate # <<>> /\ Tail(to_propagate) \in Seq(Event) /\ Head(to_propagate).type # "TrackOpen"
    BY <1>6, <1>q, QueuePop DEF FanoutMedia, Pops
  <2>3. IsFiniteSet(moved) /\ moved \in SUBSET Ids
    BY <1>f, FS_Subset
  <2>4. Extends(Tail(to_propagate), to_propagate')
    BY <2>1, <2>2, <2>3, BatchExtends DEF Types
  <2>5. \A p, m : Head(to_propagate) # TrackOpenEvent(p, m)
    BY <2>2 DEF TrackOpenEvent
  <2>6. \A p, m : Pending(p, m)' <=> Pending(p, m)
    <3>1. \A p, m : Announces(to_propagate', p, m) <=> Announces(Tail(to_propagate), p, m)
      BY <2>2, <2>4, ExtendAnnounces
    <3>2. \A p, m : Announces(Tail(to_propagate), p, m) <=> Announces(to_propagate, p, m)
      BY <2>2, <2>5, <1>q, PopAnnounces
    <3> QED BY <3>1, <3>2, <1>d
  <2> QED BY <1>6, <2>6, <1>u DEF FanoutMedia
<1>7. CASE FanoutOther
  <2>1. to_propagate # <<>> /\ to_propagate' = Tail(to_propagate) /\ Head(to_propagate).type # "TrackOpen"
    BY <1>7 DEF FanoutOther, Pops
  <2>2. \A p, m : Head(to_propagate) # TrackOpenEvent(p, m)
    BY <2>1 DEF TrackOpenEvent
  <2>3. \A p, m : Pending(p, m)' <=> Pending(p, m)
    BY <2>1, <2>2, <1>q, <1>d, PopAnnounces
  <2> QED BY <1>7, <2>3, <1>u DEF FanoutOther, room
<1>8. CASE EmitPublisherLayerHints
  <2>1. IsFiniteSet(Publishers) /\ Publishers \in SUBSET Ids
    BY <1>f, FS_Subset
  <2>2. Extends(to_propagate, to_propagate')
    BY <1>8, <2>1, <1>q, BatchExtends DEF EmitPublisherLayerHints, Types
  <2>3. \A p, n : Pending(p, n)' <=> Pending(p, n)
    BY <2>2, <1>q, <1>d, ExtendAnnounces
  <2> QED BY <1>8, <2>3, <1>u DEF EmitPublisherLayerHints, room
<1>9. CASE TickActiveSpeaker
  <2>1. UNCHANGED to_propagate \/ Extends(to_propagate, to_propagate')
    <3>1. detector \subseteq Ids
      BY DEF RoomInv, TypeOK
    <3> QED BY <1>9, <3>1, <1>q, PushExtends DEF TickActiveSpeaker, Types
  <2>2. \A p, n : Pending(p, n)' <=> Pending(p, n)
    BY <2>1, <1>q, <1>d, ExtendAnnounces
  <2> QED BY <1>9, <2>2, <1>u DEF TickActiveSpeaker, room
<1>10. ASSUME NEW c \in Ids, Insert(c) PROVE AdvertInv'
  <2>1. /\ Members' = Members \cup {c} /\ c \notin Members /\ c \notin departed
        /\ UNCHANGED <<departed, tracks_in, to_propagate>>
    BY <1>10, AppendFresh DEF Insert, RoomInv, TypeOK, Members
  <2>2. \A d \in Members : tracks_out'[d] = tracks_out[d]
    BY <1>10, <2>1, <1>q DEF Insert
  <2>3. \A t \in Tracks : tracks_out'[c][t] = IF t[1] \in Members /\ Upgrades(t) THEN 1 ELSE 0
    BY <1>10, <1>q DEF Insert
  <2>4. tracks_in[c] = {}
    BY <2>1 DEF RoomInv, Roster
  <2>5. \A p, m : ~Pending(p, m) /\ ~Pending(p, m)'
    <3>1. \A i \in 1..Len(to_propagate) : to_propagate[i].type # "TrackOpen"
      BY <1>10 DEF Insert, QueueInv, QuietQueue
    <3> QED BY <3>1, <2>1 DEF Pending, TrackOpenEvent
  <2>6. NotListedYet'
    <3> SUFFICES ASSUME NEW d \in Members \cup {c}, NEW p \in Ids \ departed,
                        NEW m \in Mids \ tracks_in[p]
                 PROVE  tracks_out'[d][<<p, m>>] = 0
      BY <2>1 DEF NotListedYet
    <3>1. <<p, m>> \in Tracks /\ ~Upgrades(<<p, m>>)
      BY DEF Tracks, Upgrades
    <3>2. CASE d = c
      BY <3>1, <3>2, <2>3
    <3>3. CASE d \in Members
      BY <3>3, <2>2 DEF NotListedYet
    <3> QED BY <3>2, <3>3
  <2>7. AdvertisedOnce'
    <3> SUFFICES ASSUME NEW d \in Members', NEW p \in Members', NEW m \in tracks_in'[p]
                 PROVE  tracks_out'[d][<<p, m>>] = IF d = p \/ Pending(p, m)' THEN 0 ELSE 1
      BY DEF AdvertisedOnce
    <3>1. d \in Members \cup {c} /\ m \in tracks_in[p] /\ p \in Members /\ p # c
      BY <2>1, <2>4
    <3>2. <<p, m>> \in Tracks /\ Upgrades(<<p, m>>)
      BY <3>1, <1>q, <1>f DEF Tracks, Upgrades
    <3>3. CASE d = c
      BY <3>1, <3>2, <3>3, <2>3, <2>5
    <3>4. CASE d \in Members
      BY <3>1, <3>4, <2>2, <2>5 DEF AdvertisedOnce
    <3> QED BY <3>1, <3>3, <3>4
  <2> QED BY <2>6, <2>7
<1>11. CASE UNCHANGED <<clients, departed, tracks_in, tracks_out, to_propagate>>
  <2>1. \A p, n : Pending(p, n)' <=> Pending(p, n)
    BY <1>11 DEF Pending
  <2> QED BY <1>11, <2>1, <1>u
<1>12. CASE \/ \E c \in Ids : PollTimeout(c) \/ PollDisconnect(c)
            \/ PollDone \/ FanoutDone \/ SessionTick \/ HandleIncoming
            \/ \E c \in Ids : RecordAudioLevel(c) \/ EstimatorCall(c)
            \/ Shutdown \/ Serve \/ UNCHANGED vars
  BY <1>11, <1>12 DEF PollTimeout, PollDisconnect, PollDone, FanoutDone, SessionTick, HandleIncoming,
                      RecordAudioLevel, EstimatorCall, Shutdown, Serve, vars, room
<1> QED BY <1>1, <1>2, <1>3, <1>4, <1>5, <1>6, <1>7, <1>8, <1>9, <1>10, <1>12
        DEF Next, LoopStep, Environment

-----------------------------------------------------------------------------
(* The room's promises. *)

(* The invariant of the whole room, from which the theorems follow. *)
THEOREM RoomCorrect == Spec => [](RoomInv /\ QueueInv /\ AdvertInv)
<1>1. Init => RoomInv /\ QueueInv /\ AdvertInv
  BY RoomInit, QueueInit, AdvertInit
<1>2. RoomInv /\ QueueInv /\ AdvertInv /\ [Next]_vars => (RoomInv /\ QueueInv /\ AdvertInv)'
  BY RoomStep, QueueStep, AdvertStep
<1> QED BY <1>1, <1>2, PTL DEF Spec

(* Every field of the registry keeps its type, the Vec never holds a       *)
(* client twice, and poll_all visits clients of the room only.             *)
THEOREM TypeCorrect == Spec => []TypeOK
<1>1. RoomInv => TypeOK
  BY DEF RoomInv
<1> QED BY <1>1, RoomCorrect, PTL

(* Whatever joins, deaths, sweeps and audio levels there are, the detector *)
(* holds the local clients of the room and the gauge counts the clients:   *)
(* reap_dead undoes exactly what insert did.                               *)
THEOREM DetectorCorrect == Spec => []DetectorMirrorsRoom
<1>1. RoomInv => DetectorMirrorsRoom
  BY DEF RoomInv
<1> QED BY <1>1, RoomCorrect, PTL

(* However many clients a room has and however many hints, mode changes    *)
(* and announcements a pass queues, what it leaves behind is at most one   *)
(* hint per client and one speaker change.                                 *)
THEOREM QueueBounded == Spec => []QueueStaysShort
<1>1. RoomInv /\ QueueInv => QueueStaysShort
  <2> SUFFICES ASSUME RoomInv, QueueInv PROVE QueueStaysShort
    OBVIOUS
  <2>1. Len(clients) \in Nat /\ Len(to_propagate) \in Nat
    BY RoomIsFinite DEF RoomInv, TypeOK
  <2> QED BY <2>1 DEF QueueInv, QuietQueue, QueueStaysShort
<1> QED BY <1>1, RoomCorrect, PTL

(* Every live track is listed exactly once by every other client of the    *)
(* room once it is fanned out, however insert's own announcements, the     *)
(* queued ones, leaves and re-polls interleave.                            *)
THEOREM AdvertisedCorrect == Spec => []AdvertisedOnce
<1>1. AdvertInv => AdvertisedOnce
  BY DEF AdvertInv
<1> QED BY <1>1, RoomCorrect, PTL

(* No packet is fanned out ahead of the announcement of its track. *)
THEOREM MediaCorrect == Spec => []MediaFollowsItsTrack
<1>1. RoomInv /\ QueueInv /\ AdvertInv => MediaFollowsItsTrack
  <2> SUFFICES ASSUME RoomInv, QueueInv, AdvertInv,
                      to_propagate # <<>>, Head(to_propagate).type = "MediaData",
                      NEW c \in Members \ {Head(to_propagate).origin}
               PROVE  tracks_out[c][<<Head(to_propagate).origin, Head(to_propagate).mid>>] > 0
    BY DEF MediaFollowsItsTrack
  <2> DEFINE e == Head(to_propagate)
  <2>1. /\ to_propagate \in Seq(Event) /\ e = to_propagate[1] /\ 1 \in 1..Len(to_propagate)
        /\ e \in Event /\ e.origin \in Ids
    <3>1. to_propagate \in Seq(Event)
      BY DEF RoomInv, TypeOK
    <3>2. e = to_propagate[1] /\ 1 \in 1..Len(to_propagate) /\ e \in Event
      BY <3>1, QueuePop
    <3> QED BY <3>1, <3>2 DEF Event
  <2>2. e.mid \in tracks_in[e.origin]
    BY <2>1 DEF QueueInv, QueuedAreLive, OfTrack
  <2>3. e.origin \in Members
    BY <2>1, <2>2 DEF RoomInv, Roster
  <2>4. ~Pending(e.origin, e.mid)
    <3> SUFFICES ASSUME NEW j \in 1..Len(to_propagate),
                        to_propagate[j] = TrackOpenEvent(e.origin, e.mid)
                 PROVE  FALSE
      BY DEF Pending
    <3>1. /\ to_propagate[j].type = "TrackOpen" /\ to_propagate[j].origin = e.origin
          /\ to_propagate[j].mid = e.mid
      BY DEF TrackOpenEvent
    <3>2. j # 1 /\ 1 < j
      BY <3>1, <2>1
    <3> QED BY <3>1, <3>2, <2>1 DEF QueueInv, AnnouncedFirst, AnnouncedFirstIn, OfTrack
  <2>5. tracks_out[c][<<e.origin, e.mid>>] = 1
    BY <2>2, <2>3, <2>4 DEF AdvertInv, AdvertisedOnce
  <2> QED BY <2>5
<1> QED BY <1>1, RoomCorrect, PTL

(* Every entry of the estimator belongs to a client that is, or was, in    *)
(* the room; and to one that is, while the application names no subscriber *)
(* that has left.                                                          *)
EstimatorKnows == bandwidth \subseteq Members \cup (IF LateCalls THEN departed ELSE {})

LEMMA EstimatorStep == RoomInv /\ EstimatorKnows /\ [Next]_vars => EstimatorKnows'
<1> SUFFICES ASSUME RoomInv, EstimatorKnows, [Next]_vars PROVE EstimatorKnows'
  OBVIOUS
<1> USE DEF EstimatorKnows
<1>1. CASE ReapDead
  <2>1. Members' = Members \ Dead
    BY <1>1, RetainKeepsSurvivors DEF ReapDead, RoomInv, TypeOK, Members
  <2> QED BY <1>1, <2>1 DEF ReapDead, ForgetBandwidth
<1>2. ASSUME NEW c \in Ids, Insert(c) PROVE EstimatorKnows'
  <2>1. Members' = Members \cup {c}
    BY <1>2, AppendFresh DEF Insert, RoomInv, TypeOK, Members
  <2> QED BY <1>2, <2>1 DEF Insert
<1>3. ASSUME NEW c \in Ids, PollBandwidth(c) PROVE EstimatorKnows'
  <2>1. c \in Members
    BY <1>3 DEF PollBandwidth, Polling, RoomInv, TypeOK
  <2> QED BY <1>3, <2>1 DEF PollBandwidth, room, Members
<1>4. ASSUME NEW c \in Ids, EstimatorCall(c) PROVE EstimatorKnows'
  BY <1>4 DEF EstimatorCall, room, Members
<1>5. CASE UNCHANGED <<clients, departed, bandwidth>>
  BY <1>5 DEF Members
<1>6. CASE \/ \E c \in Ids : PollTimeout(c) \/ PollDisconnect(c) \/ PollReport(c)
           \/ \E c \in Ids, m \in Mids : PollTrackAdded(c, m) \/ PollMedia(c, m)
           \/ PollDone \/ FanoutTrackOpen \/ FanoutMedia \/ FanoutOther \/ FanoutDone
           \/ EmitPublisherLayerHints \/ SessionTick \/ TickActiveSpeaker \/ HandleIncoming
           \/ \E c \in Ids : RecordAudioLevel(c)
           \/ Shutdown \/ Serve \/ UNCHANGED vars
  BY <1>5, <1>6 DEF PollTimeout, PollDisconnect, PollReport, PollTrackAdded, PollMedia, PollDone,
        FanoutTrackOpen, FanoutMedia, FanoutOther, FanoutDone, EmitPublisherLayerHints, SessionTick,
        TickActiveSpeaker, HandleIncoming, RecordAudioLevel, Shutdown, Serve, vars, room, side
<1> QED BY <1>1, <1>2, <1>3, <1>4, <1>6 DEF Next, LoopStep, Environment

(* reap_dead leaks no estimator entry: as long as the application names no *)
(* subscriber that has left, the estimator tracks clients of the room.     *)
THEOREM EstimatorCorrect == ~LateCalls => (Spec => []EstimatorTracksRoom)
<1> SUFFICES ASSUME ~LateCalls PROVE Spec => []EstimatorTracksRoom
  OBVIOUS
<1>1. Init => EstimatorKnows
  BY DEF Init, EstimatorKnows
<1>2. EstimatorKnows => EstimatorTracksRoom
  BY DEF EstimatorKnows, EstimatorTracksRoom
<1> QED BY <1>1, <1>2, RoomCorrect, EstimatorStep, PTL DEF Spec

=============================================================================
