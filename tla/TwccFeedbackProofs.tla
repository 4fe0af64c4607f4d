------------------------- MODULE TwccFeedbackProofs -------------------------
(* Theorems about TwccFeedback, for every size of the map and the window,  *)
(* every threshold, every set of delays and every order of reports.        *)
EXTENDS TwccFeedback, SequenceLemmas

-----------------------------------------------------------------------------
(* The types that the arguments below need, and the range of both rates. *)
Fields ==
    /\ now \in Nat
    /\ sent \in Seq(Packet)
    /\ send_times \subseteq DOMAIN sent
    /\ last \subseteq Packet
    /\ gradient \in Int
    /\ seen \subseteq Delays
    /\ delay \in MinBitrate..MaxBitrate
    /\ loss \in MinBitrate..MaxBitrate

(* A queue of g is borne out by the one-way delays in S. *)
BackedBy(g, S) == g <= 0 \/ \E x, y \in S : g <= x - y

(* The filtered gradient is borne out by what was seen, which includes     *)
(* what the next gradient will be taken against.                           *)
GradientBacked ==
    /\ \A p \in last : p.delay \in seen
    /\ BackedBy(gradient, seen)

PInv == Fields /\ GradientBacked

-----------------------------------------------------------------------------
(* Lowered and Raised keep a rate in range, and Raised never lowers it. *)
LEMMA LoweredInRange ==
    ASSUME NEW b \in MinBitrate..MaxBitrate
    PROVE  Lowered(b) \in MinBitrate..MaxBitrate
<1> DEFINE cut == (b * 17) \div 20
<1>1. b \in Int /\ MinBitrate \in Int /\ MaxBitrate \in Int /\ 0 <= b /\ b <= MaxBitrate
          /\ MinBitrate <= MaxBitrate
  BY BitrateAssumption
<1>2. cut \in Int /\ cut <= b
  BY <1>1
<1> QED BY <1>1, <1>2 DEF Lowered

LEMMA RaisedInRange ==
    ASSUME NEW b \in MinBitrate..MaxBitrate, NEW step \in Nat
    PROVE  Raised(b, step) \in MinBitrate..MaxBitrate /\ Raised(b, step) >= b
BY BitrateAssumption DEF Raised

(* A gradient is at most the difference of the two one-way delays, or says *)
(* nothing of congestion: duration_since saturates on the harmless side.   *)
LEMMA GradientBound ==
    ASSUME NEW p \in Packet, NEW q \in Packet
    PROVE  Gradient(p, q) \in Int /\ (Gradient(p, q) <= 0 \/ Gradient(p, q) <= q.delay - p.delay)
<1>1. p.at \in Nat /\ q.at \in Nat /\ p.delay \in Nat /\ q.delay \in Nat
  BY DelaysAssumption DEF Packet
<1> QED BY <1>1 DEF Gradient, Since

(* Every packet sent has a send time and a delay. *)
LEMMA SentPackets ==
    ASSUME Fields, NEW s \in DOMAIN sent
    PROVE  sent[s] \in Packet /\ sent[s].delay \in Delays
<1>1. s \in 1..Len(sent)
  BY DEF Fields
<1>2. sent[s] \in Packet
  BY <1>1 DEF Fields
<1> QED BY <1>2 DEF Packet

(* Every gradient of a report is borne out by the delays it adds to seen. *)
LEMMA GradientsBacked ==
    ASSUME PInv, NEW known \in SUBSET (DOMAIN sent), NEW g \in Gradients(known)
    PROVE  g \in Int /\ BackedBy(g, seen \cup {sent[s].delay : s \in known})
<1> DEFINE S == seen \cup {sent[s].delay : s \in known}
<1>1. \A s \in known : sent[s] \in Packet /\ sent[s].delay \in S
  BY SentPackets DEF PInv
<1>2. \A p \in last : p \in Packet /\ p.delay \in S
  BY DEF PInv, Fields, GradientBacked
<1>3. \E p, q \in Packet : p.delay \in S /\ q.delay \in S /\ g = Gradient(p, q)
  <2>1. PICK s \in known : \E p \in Previous(known, s) : g = Gradient(p, sent[s])
    BY DEF Gradients
  <2>2. Previous(known, s) \subseteq last \cup {sent[r] : r \in known}
    BY DEF Previous
  <2> QED BY <2>1, <2>2, <1>1, <1>2
<1> QED BY <1>3, GradientBound DEF BackedBy

-----------------------------------------------------------------------------
(* What one report does. *)

LEMMA ReportBacksGradient ==
    ASSUME PInv, NEW received \in SUBSET (DOMAIN sent), NEW lost, IngestTwcc(received, lost)
    PROVE  /\ gradient' \in Int
           /\ BackedBy(gradient', seen')
           /\ last' \subseteq Packet
           /\ \A p \in last' : p.delay \in seen'
           /\ seen' \subseteq Delays
<1> DEFINE known == received \cap send_times
           S     == seen \cup {sent[s].delay : s \in known}
<1>1. known \in SUBSET (DOMAIN sent)
  OBVIOUS
<1>2. /\ UpdateKalman(known)
      /\ last' = IF known = {} THEN last
                 ELSE {sent[s] : s \in {s \in known : \A t \in known : t <= s}}
      /\ seen' = S
  BY DEF IngestTwcc
<1>3. \A s \in known : sent[s] \in Packet /\ sent[s].delay \in S /\ sent[s].delay \in Delays
  BY <1>1, SentPackets DEF PInv
<1>4. S \subseteq Delays /\ S \subseteq Int
  <2>1. \A x \in S : x \in Delays
    BY <1>3 DEF PInv, Fields
  <2>2. \A x \in Delays : x \in Int
    BY DelaysAssumption
  <2> HIDE DEF S
  <2> QED BY <2>1, <2>2
<1>5. gradient \in Int /\ BackedBy(gradient, S)
  BY DEF PInv, Fields, GradientBacked, BackedBy
<1>6. \A g \in Gradients(known) : g \in Int /\ BackedBy(g, S)
  BY <1>1, GradientsBacked
<1>7. gradient' \in Int /\ BackedBy(gradient', S)
  <2>1. PICK lo \in {gradient} \cup Gradients(known), hi \in {gradient} \cup Gradients(known) :
            gradient' \in lo..hi
    BY <1>2 DEF UpdateKalman
  <2>2. lo \in Int /\ hi \in Int /\ BackedBy(hi, S)
    BY <1>5, <1>6
  <2>3. gradient' \in Int /\ gradient' <= hi
    BY <2>1, <2>2
  <2> HIDE DEF S
  <2> QED BY <2>2, <2>3, <1>4 DEF BackedBy
<1>8. last' \subseteq Packet /\ \A p \in last' : p.delay \in S
  BY <1>2, <1>3 DEF PInv, Fields, GradientBacked
<1> QED BY <1>2, <1>4, <1>7, <1>8

LEMMA RatesStay ==
    ASSUME Fields, NEW received, NEW lost, IngestTwcc(received, lost)
    PROVE  /\ delay' \in MinBitrate..MaxBitrate /\ loss' \in MinBitrate..MaxBitrate
           /\ gradient' > OveruseThreshold \/ delay' >= delay
<1>1. ApplyDelayControl /\ ApplyLossControl
  BY DEF IngestTwcc
<1>2. DelayIncrease \in Nat /\ LossIncrease \in Nat
  BY BitrateAssumption
<1> DEFINE d == delay
           l == loss
<1>3. d \in MinBitrate..MaxBitrate /\ l \in MinBitrate..MaxBitrate
  BY DEF Fields
<1>4. delay' \in MinBitrate..MaxBitrate
  BY <1>1, <1>2, <1>3, LoweredInRange, RaisedInRange DEF ApplyDelayControl
<1>5. loss' \in MinBitrate..MaxBitrate
  BY <1>1, <1>2, <1>3, LoweredInRange, RaisedInRange DEF ApplyLossControl
<1>6. gradient' > OveruseThreshold \/ delay' >= delay
  <2>1. gradient' > OveruseThreshold \/ delay' = Raised(delay, DelayIncrease)
    BY <1>1 DEF ApplyDelayControl
  <2> QED BY <2>1, <1>2, <1>3, RaisedInRange
<1> QED BY <1>4, <1>5, <1>6

-----------------------------------------------------------------------------
(* The invariant. *)

LEMMA PInvInit == Init => PInv
BY BitrateAssumption DEF Init, PInv, Fields, GradientBacked, BackedBy

LEMMA PInvStep == PInv /\ [Next]_vars => PInv'
<1> SUFFICES ASSUME PInv, [Next]_vars PROVE PInv'
  OBVIOUS
<1>1. ASSUME NEW d \in Delays, RecordSendTime(d) PROVE PInv'
  <2> DEFINE p == [at |-> now, delay |-> d]
  <2>1. p \in Packet /\ sent \in Seq(Packet)
    BY DEF PInv, Fields, Packet
  <2>2. sent' = Append(sent, p)
    BY <1>1 DEF RecordSendTime
  <2>3. sent' \in Seq(Packet) /\ Len(sent') = Len(sent) + 1 /\ DOMAIN sent' = 1..(Len(sent) + 1)
          /\ DOMAIN sent = 1..Len(sent) /\ Len(sent) \in Nat
    <3> HIDE DEF p
    <3> QED BY <2>1, <2>2
  <2>4. send_times' \subseteq DOMAIN sent'
    <3>1. send_times' \subseteq send_times \cup {Len(sent) + 1}
      BY <1>1 DEF RecordSendTime
    <3>2. send_times \subseteq 1..Len(sent)
      BY <2>3 DEF PInv, Fields
    <3> QED BY <3>1, <3>2, <2>3
  <2> QED BY <1>1, <2>3, <2>4
          DEF RecordSendTime, controllers, PInv, Fields, GradientBacked, BackedBy
<1>2. ASSUME NEW received \in SUBSET (DOMAIN sent), NEW lost, IngestTwcc(received, lost)
      PROVE  PInv'
  <2>1. UNCHANGED <<now, sent, send_times>>
    BY <1>2 DEF IngestTwcc
  <2>2. Fields
    BY DEF PInv
  <2>3. delay' \in MinBitrate..MaxBitrate /\ loss' \in MinBitrate..MaxBitrate
    BY <1>2, <2>2, RatesStay
  <2>4. gradient' \in Int /\ BackedBy(gradient', seen') /\ last' \subseteq Packet
          /\ (\A p \in last' : p.delay \in seen') /\ seen' \subseteq Delays
    BY <1>2, ReportBacksGradient
  <2> QED BY <2>1, <2>2, <2>3, <2>4 DEF PInv, Fields, GradientBacked, BackedBy
<1>3. CASE Tick
  BY <1>3 DEF Tick, PInv, Fields, GradientBacked, BackedBy
<1>4. CASE UNCHANGED vars
  BY <1>4 DEF vars, controllers, PInv, Fields, GradientBacked, BackedBy
<1> QED BY <1>1, <1>2, <1>3, <1>4 DEF Next

(* The arguments' invariant: in every state both rates are between         *)
(* MIN_BITRATE_BPS and MAX_BITRATE_BPS, which PacedSubscriber relies on,   *)
(* and the filtered gradient of DelayEstimator is borne out by delays that *)
(* were measured.                                                          *)
THEOREM GradientIsBacked == Spec => []PInv
BY PInvInit, PInvStep, PTL DEF Spec

(* DelayEstimator lowers its rate only when two packets it was told of     *)
(* differ in one-way delay by more than OVERUSE_THRESHOLD_US, whatever is  *)
(* lost, evicted, repeated, revoked or reported out of order.              *)
THEOREM NeverPhantom == Spec => NoPhantomCongestion
<1>1. ASSUME PInv, PInv', [Next]_vars
      PROVE  [delay' < delay => \E x, y \in seen' : x - y > OveruseThreshold]_vars
  <2> SUFFICES ASSUME delay' < delay
               PROVE  \E x, y \in seen' : x - y > OveruseThreshold
    OBVIOUS
  <2>1. delay \in Int /\ delay' \in Int /\ gradient' \in Int /\ OveruseThreshold \in Nat
    BY <1>1, BitrateAssumption, DelaysAssumption DEF PInv, Fields
  <2>2. delay' # delay /\ ~(delay' >= delay)
    BY <2>1
  <2>3. \E received \in SUBSET (DOMAIN sent) : \E lost : IngestTwcc(received, lost)
    BY <1>1, <2>2 DEF Next, RecordSendTime, Tick, controllers, vars
  <2>4. gradient' > OveruseThreshold
    BY <1>1, <2>2, <2>3, RatesStay DEF PInv
  <2>5. seen' \subseteq Int
    BY <1>1, DelaysAssumption DEF PInv, Fields
  <2>6. BackedBy(gradient', seen')
    BY <1>1 DEF PInv, GradientBacked, BackedBy
  <2> QED BY <2>1, <2>4, <2>5, <2>6 DEF BackedBy
<1> QED BY <1>1, GradientIsBacked, PTL DEF Spec, NoPhantomCongestion

-----------------------------------------------------------------------------
(* The send-time map. *)

LEMMA RecentStep == PInv /\ RecentSendsKnown /\ [Next]_vars => RecentSendsKnown'
<1> SUFFICES ASSUME PInv, RecentSendsKnown, [Next]_vars PROVE RecentSendsKnown'
  OBVIOUS
<1>1. ASSUME NEW d \in Delays, RecordSendTime(d) PROVE RecentSendsKnown'
  <2> DEFINE n == Len(sent)
             p == [at |-> now, delay |-> d]
             first == IF n >= MaxSendTimes THEN n - MaxSendTimes + 1 ELSE 1
  <2>1. p \in Packet /\ sent \in Seq(Packet) /\ sent' = Append(sent, p)
    BY <1>1 DEF PInv, Fields, Packet, RecordSendTime
  <2>2. n \in Nat /\ DOMAIN sent = 1..n /\ Len(sent') = n + 1 /\ DOMAIN sent' = 1..(n + 1)
    <3> HIDE DEF p
    <3> QED BY <2>1
  <2>3. MaxSendTimes \in Nat /\ MaxSendTimes > 0
    BY SizesAssumption
  <2>4. send_times = first..n /\ first \in Nat /\ first > 0
    BY <2>2, <2>3 DEF RecentSendsKnown
  <2>5. send_times' = (IF Cardinality(send_times) >= MaxSendTimes THEN send_times \ Evicted
                                                                 ELSE send_times) \cup {n + 1}
    BY <1>1 DEF RecordSendTime
  <2>6. SUFFICES send_times' = {s \in 1..(n + 1) : s > (n + 1) - MaxSendTimes}
    BY <2>2 DEF RecentSendsKnown
  <2>7. Cardinality(send_times) = IF first > n THEN 0 ELSE n - first + 1
    <3> HIDE DEF first, n
    <3>1. first \in Int /\ n \in Int
      BY <2>2, <2>4
    <3> QED BY <3>1, <2>4, FS_Interval
  <2>8. CASE n >= MaxSendTimes
    <3>1. first = n - MaxSendTimes + 1 /\ first <= n /\ Cardinality(send_times) = MaxSendTimes
      BY <2>2, <2>3, <2>7, <2>8
    <3>2. Evicted = {first}
      BY <2>2, <2>4, <3>1 DEF Evicted
    <3>3. send_times' = ((first..n) \ {first}) \cup {n + 1}
      BY <2>3, <2>4, <2>5, <3>1, <3>2
    <3> HIDE DEF first, n
    <3>4. ASSUME NEW s
          PROVE  s \in send_times' <=> s \in 1..(n + 1) /\ s > (n + 1) - MaxSendTimes
      BY <2>2, <2>3, <2>8, <3>1, <3>3
    <3> QED BY <3>4
  <2>9. CASE n < MaxSendTimes
    <3>1. first = 1 /\ Cardinality(send_times) = n /\ ~(Cardinality(send_times) >= MaxSendTimes)
      BY <2>2, <2>3, <2>7, <2>9
    <3>2. send_times' = (1..n) \cup {n + 1}
      BY <2>4, <2>5, <3>1
    <3> HIDE DEF first, n
    <3> QED BY <2>2, <2>3, <2>9, <3>2
  <2> QED BY <2>2, <2>3, <2>8, <2>9
<1>2. CASE UNCHANGED <<sent, send_times>>
  BY <1>2 DEF RecentSendsKnown
<1> QED BY <1>1, <1>2 DEF Next, IngestTwcc, Tick, vars

(* record_send_time evicts so that send_times always holds exactly the     *)
(* MAX_SEND_TIMES packets sent last, whatever was reported in between.     *)
THEOREM RecentSendsAreKnown == Spec => []RecentSendsKnown
<1>1. Init => RecentSendsKnown
  BY SizesAssumption DEF Init, RecentSendsKnown
<1> QED BY <1>1, RecentStep, GradientIsBacked, PTL DEF Spec

-----------------------------------------------------------------------------
(* The loss window. *)

(* The newest clean samples of the window were received. *)
CleanEnd(w, c) ==
    /\ c \in 0..LossWindow /\ c <= Len(w)
    /\ \A i \in 1..Len(w) : i > Len(w) - c => w[i]

LEMMA FlagsAreSamples ==
    ASSUME Fields, NEW received \in SUBSET (DOMAIN sent), NEW lost \in SUBSET (DOMAIN sent)
    PROVE  Flags(received, lost) \in Seq(BOOLEAN)
<1> DEFINE samples == received \cup lost
<1>1. IsFiniteSet(samples)
  <2>1. DOMAIN sent = 1..Len(sent) /\ Len(sent) \in Nat
    BY DEF Fields
  <2>2. IsFiniteSet(1..Len(sent))
    BY <2>1, FS_Interval
  <2>3. samples \subseteq 1..Len(sent)
    BY <2>1
  <2> HIDE DEF samples
  <2> QED BY <2>2, <2>3, FS_Subset
<1>2. Cardinality(samples) \in Nat
  <2> HIDE DEF samples
  <2> QED BY <1>1, FS_CardinalityType
<1>3. Flags(received, lost) \in [1..Cardinality(samples) -> BOOLEAN]
  <2> DEFINE n == Cardinality(samples)
             got(i) == Nth(samples, i) \in received
  <2>1. Flags(received, lost) = [i \in 1..n |-> got(i)]
    BY DEF Flags
  <2>2. \A i \in 1..n : got(i) \in BOOLEAN
    OBVIOUS
  <2> HIDE DEF n, got
  <2>3. Flags(received, lost) \in [1..n -> BOOLEAN]
    BY <2>1, <2>2
  <2> QED BY <2>3 DEF n
<1> HIDE DEF samples
<1> QED BY <1>2, <1>3

(* What CleanRun counts of a report with a loss: the samples after the     *)
(* last one.                                                               *)
LEMMA AfterLastLoss ==
    ASSUME NEW f \in Seq(BOOLEAN), {i \in DOMAIN f : ~f[i]} # {}
    PROVE  LET losses == {i \in DOMAIN f : ~f[i]}
               c == Cardinality({i \in DOMAIN f : \A j \in losses : j < i})
           IN  c \in 0..Len(f) /\ \A i \in 1..Len(f) : i > Len(f) - c => f[i]
<1> DEFINE n == Len(f)
           losses == {i \in DOMAIN f : ~f[i]}
           T == {n - j : j \in losses}
           after == {i \in DOMAIN f : \A j \in losses : j < i}
<1>1. n \in Nat /\ DOMAIN f = 1..n
  OBVIOUS
<1>2. losses \subseteq 1..n /\ losses # {}
  BY <1>1
<1>3. T \in SUBSET Nat /\ T # {}
  <2>1. \A j \in losses : n - j \in Nat
    <3> HIDE DEF losses, n
    <3> QED BY <1>1, <1>2
  <2> HIDE DEF losses, n
  <2> QED BY <1>2, <2>1
<1>4. PICK m \in losses : \A j \in losses : j <= m
  <2>1. PICK x \in T : \A z \in T : x <= z
    <3> HIDE DEF T
    <3> QED BY <1>3, LeastNumber
  <2>2. PICK m \in losses : x = n - m
    BY <2>1
  <2>3. \A j \in losses : n - m <= n - j
    BY <2>1, <2>2
  <2> HIDE DEF losses, n
  <2> QED BY <1>1, <1>2, <2>2, <2>3
<1>5. m \in 1..n
  BY <1>2, <1>4
<1>6. after = (m + 1)..n
  <2>1. \A i \in 1..n : (\A j \in losses : j < i) <=> m < i
    <3> HIDE DEF losses, n
    <3> QED BY <1>1, <1>2, <1>4, <1>5
  <2> HIDE DEF losses
  <2> QED BY <1>1, <1>5, <2>1
<1>7. Cardinality(after) = n - m
  <2> HIDE DEF after, n, losses
  <2>1. m + 1 \in Int /\ n \in Int
    BY <1>1, <1>5
  <2>2. Cardinality((m + 1)..n) = IF m + 1 > n THEN 0 ELSE n - (m + 1) + 1
    BY <2>1, FS_Interval
  <2> QED BY <1>1, <1>5, <1>6, <2>2
<1>8. \A i \in 1..n : i > n - (n - m) => f[i]
  <2> SUFFICES ASSUME NEW i \in 1..n, i > n - (n - m) PROVE f[i]
    OBVIOUS
  <2>1. i > m
    BY <1>1, <1>5
  <2>2. i \notin losses
    BY <1>4, <1>5, <2>1
  <2> QED BY <1>1, <2>2
<1> DEFINE c == Cardinality(after)
<1>9. c \in 0..n /\ \A i \in 1..n : i > n - c => f[i]
  <2>1. c = n - m
    BY <1>7
  <2> HIDE DEF c, n
  <2>2. c \in 0..n
    BY <1>1, <1>5, <2>1
  <2>3. n - c = n - (n - m)
    BY <2>1
  <2> QED BY <1>8, <2>2, <2>3
<1> QED BY <1>9

(* A report keeps the window's size and moves its clean end with it. *)
LEMMA RecordKeepsEnd ==
    ASSUME NEW w \in Seq(BOOLEAN), w = window, Len(w) <= LossWindow, CleanEnd(w, clean),
           NEW f \in Seq(BOOLEAN)
    PROVE  /\ Record(f) \in Seq(BOOLEAN) /\ Len(Record(f)) <= LossWindow
           /\ CleanEnd(Record(f), CleanRun(f))
<1> DEFINE all == w \o f
           n == Len(all)
           losses == {i \in DOMAIN f : ~f[i]}
           run == IF losses = {} THEN clean + Len(f)
                  ELSE Cardinality({i \in DOMAIN f : \A j \in losses : j < i})
           r == Record(f)
           c == CleanRun(f)
<1>1. /\ LossWindow \in Nat /\ LossWindow > 0 /\ clean \in Nat /\ clean <= Len(w)
      /\ Len(w) \in Nat /\ Len(f) \in Nat /\ DOMAIN f = 1..Len(f)
  BY SizesAssumption DEF CleanEnd
<1>2. /\ all \in Seq(BOOLEAN) /\ n = Len(w) + Len(f)
      /\ \A i \in 1..n : all[i] = IF i <= Len(w) THEN w[i] ELSE f[i - Len(w)]
  OBVIOUS
<1>3. run \in 0..n /\ \A i \in 1..n : i > n - run => all[i]
  <2>1. CASE losses = {}
    <3>1. \A i \in 1..Len(f) : f[i]
      BY <1>1, <2>1
    <3>2. \A i \in 1..Len(w) : i > Len(w) - clean => w[i]
      BY DEF CleanEnd
    <3>3. run = clean + Len(f)
      BY <2>1
    <3> HIDE DEF all, run, n
    <3>4. ASSUME NEW i \in 1..n, i > n - run PROVE all[i]
      <4>1. CASE i <= Len(w)
        <5>1. i \in 1..Len(w) /\ i > Len(w) - clean
          BY <1>1, <1>2, <3>3, <3>4, <4>1
        <5> QED BY <1>2, <3>2, <4>1, <5>1
      <4>2. CASE i > Len(w)
        <5>1. i - Len(w) \in 1..Len(f) /\ ~(i <= Len(w))
          BY <1>1, <1>2, <4>2
        <5> QED BY <1>2, <3>1, <5>1
      <4> QED BY <1>1, <1>2, <4>1, <4>2
    <3> QED BY <1>1, <1>2, <3>3, <3>4
  <2>2. CASE losses # {}
    <3>1. run \in 0..Len(f) /\ \A i \in 1..Len(f) : i > Len(f) - run => f[i]
      BY <2>2, AfterLastLoss
    <3> HIDE DEF all, run, n
    <3>2. ASSUME NEW i \in 1..n, i > n - run PROVE all[i]
      <4>1. i - Len(w) \in 1..Len(f) /\ ~(i <= Len(w)) /\ i - Len(w) > Len(f) - run
        BY <1>1, <1>2, <3>1, <3>2
      <4> QED BY <1>2, <3>1, <4>1
    <3> QED BY <1>1, <1>2, <3>1, <3>2
  <2> QED BY <2>1, <2>2
<1>4. c = IF run < LossWindow THEN run ELSE LossWindow
  BY DEF CleanRun
<1>5. r = IF n > LossWindow THEN SubSeq(all, n - LossWindow + 1, n) ELSE all
  BY DEF Record
<1> HIDE DEF all, run, n, c, r, losses
<1>6. CASE n > LossWindow
  <2> DEFINE d == n - LossWindow
  <2>1. n \in Nat /\ d \in Nat /\ d > 0 /\ d + LossWindow = n
    BY <1>1, <1>2, <1>6
  <2>2. r \in Seq(BOOLEAN) /\ Len(r) = LossWindow /\ \A i \in 1..LossWindow : r[i] = all[i + d]
    <3>1. r = SubSeq(all, d + 1, n) /\ d + 1 \in 1..n /\ n = Len(all)
      BY <1>1, <1>5, <1>6, <2>1 DEF n
    <3> HIDE DEF d
    <3>2. r \in Seq(BOOLEAN) /\ Len(r) = n - (d + 1) + 1 /\ \A i \in 1..Len(r) : r[i] = all[d + 1 + i - 1]
      BY <1>2, <2>1, <3>1, SubSeqProperties
    <3>3. Len(r) = LossWindow
      BY <1>1, <2>1, <3>2
    <3>4. \A i \in 1..LossWindow : d + 1 + i - 1 = i + d
      BY <1>1, <2>1
    <3> QED BY <3>2, <3>3, <3>4
  <2> HIDE DEF d
  <2>3. c \in 0..LossWindow /\ c <= run
    BY <1>1, <1>3, <1>4, <2>1
  <2>4. ASSUME NEW i \in 1..LossWindow, i > LossWindow - c PROVE r[i]
    <3>1. i + d \in 1..n /\ i + d > n - run
      BY <1>1, <1>3, <2>1, <2>3, <2>4
    <3> QED BY <1>3, <2>2, <3>1
  <2> QED BY <1>1, <2>2, <2>3, <2>4 DEF CleanEnd, r, c
<1>7. CASE ~(n > LossWindow)
  <2>1. n \in Nat /\ r = all /\ Len(r) = n /\ n <= LossWindow
    BY <1>1, <1>2, <1>5, <1>7 DEF n
  <2>2. c \in 0..LossWindow /\ c <= run /\ c <= n
    BY <1>1, <1>3, <1>4, <2>1
  <2>3. ASSUME NEW i \in 1..n, i > n - c PROVE r[i]
    <3>1. i > n - run
      BY <1>3, <2>1, <2>2, <2>3
    <3> QED BY <1>3, <2>1, <3>1
  <2> QED BY <1>2, <2>1, <2>2, <2>3 DEF CleanEnd, r, c
<1> QED BY <1>6, <1>7

(* TypeOK, and the clean end of the window. *)
WInv == PInv /\ TypeOK /\ CleanEnd(window, clean)

LEMMA WInvInit == Init => WInv
<1> SUFFICES ASSUME Init PROVE WInv
  OBVIOUS
<1>1. sent \in Seq(Packet) /\ Len(sent) = 0 /\ window \in Seq(BOOLEAN) /\ Len(window) = 0
  BY DEF Init
<1>2. PInv
  BY PInvInit
<1>3. TypeOK
  BY <1>1, SizesAssumption, BitrateAssumption, CooldownAssumption, BoundsAssumption
     DEF Init, TypeOK
<1>4. CleanEnd(window, clean)
  BY <1>1, SizesAssumption DEF Init, CleanEnd
<1> QED BY <1>2, <1>3, <1>4 DEF WInv

LEMMA CooldownAges ==
    ASSUME NEW limit \in Nat, NEW age \in 0..limit \cup {None}
    PROVE  Older(age, limit) \in 0..limit \cup {None}
BY DEF Older, None

(* One report. *)
LEMMA ReportStep ==
    ASSUME WInv, PInv', NEW received \in SUBSET (DOMAIN sent),
           NEW lost \in SUBSET (DOMAIN sent), IngestTwcc(received, lost)
    PROVE  WInv'
<1> DEFINE f == Flags(received, lost)
           known == received \cap send_times
<1>1. /\ window' = Record(f) /\ clean' = CleanRun(f)
      /\ UNCHANGED <<now, sent, send_times>>
      /\ last' = IF known = {} THEN last
                 ELSE {sent[s] : s \in {s \in known : \A t \in known : t <= s}}
      /\ ApplyDelayControl /\ ApplyLossControl
  BY DEF IngestTwcc
<1>2. f \in Seq(BOOLEAN)
  BY FlagsAreSamples DEF WInv, PInv
<1> HIDE DEF f
<1>3. window' \in Seq(BOOLEAN) /\ Len(window') <= LossWindow /\ CleanEnd(window, clean)'
  <2>1. window \in Seq(BOOLEAN) /\ Len(window) <= LossWindow /\ CleanEnd(window, clean)
    BY DEF WInv, TypeOK
  <2> QED BY <1>1, <1>2, <2>1, RecordKeepsEnd DEF CleanEnd
<1>4. \A p, q \in last' : p \in Packet /\ p = q
  <2>1. CASE known = {}
    BY <1>1, <2>1 DEF WInv, TypeOK
  <2>2. CASE known # {}
    <3>1. known \subseteq Nat /\ \A s \in known : sent[s] \in Packet
      BY SentPackets DEF WInv, PInv, Fields
    <3>2. \A s1, s2 \in {s \in known : \A t \in known : t <= s} : s1 = s2
      BY <3>1
    <3> QED BY <1>1, <2>2, <3>1, <3>2
  <2> QED BY <2>1, <2>2
<1>5. delay_cut' \in 0..DelayCooldown \cup {None} /\ loss_cut' \in 0..LossCooldown \cup {None}
  <2>1. delay_cut' \in {delay_cut, 0} /\ loss_cut' \in {loss_cut, 0}
    BY <1>1 DEF ApplyDelayControl, ApplyLossControl
  <2> QED BY <2>1, CooldownAssumption DEF WInv, TypeOK
<1>6. clean' \in 0..LossWindow
  BY <1>3 DEF CleanEnd
<1>7. TypeOK'
  BY <1>1, <1>3, <1>4, <1>5, <1>6 DEF WInv, PInv, Fields, TypeOK
<1> QED BY <1>3, <1>7 DEF WInv

LEMMA WInvStep == WInv /\ PInv' /\ [Next]_vars => WInv'
<1> SUFFICES ASSUME WInv, PInv', [Next]_vars PROVE WInv'
  OBVIOUS
<1>1. ASSUME NEW d \in Delays, RecordSendTime(d) PROVE WInv'
  <2> DEFINE p == [at |-> now, delay |-> d]
  <2>1. p \in Packet /\ sent \in Seq(Packet) /\ sent' = Append(sent, p) /\ Len(sent) < MaxSeq
    BY <1>1 DEF WInv, PInv, Fields, Packet, RecordSendTime
  <2>2. sent' \in Seq(Packet) /\ Len(sent') <= MaxSeq
    <3> HIDE DEF p
    <3> QED BY <2>1, BoundsAssumption
  <2>3. UNCHANGED <<now, last, gradient, delay, delay_cut, window, loss, loss_cut, seen, clean>>
    BY <1>1 DEF RecordSendTime, controllers
  <2> QED BY <2>2, <2>3 DEF WInv, PInv, Fields, TypeOK, CleanEnd
<1>2. ASSUME NEW received \in SUBSET (DOMAIN sent),
             NEW lost \in SUBSET (DOMAIN sent \ received), IngestTwcc(received, lost)
      PROVE  WInv'
  <2>1. lost \in SUBSET (DOMAIN sent)
    OBVIOUS
  <2> QED BY <1>2, <2>1, ReportStep
<1>3. CASE Tick
  <2>1. now' \in 0..MaxTime
    BY <1>3, BoundsAssumption DEF Tick, WInv, TypeOK
  <2>2. delay_cut' \in 0..DelayCooldown \cup {None} /\ loss_cut' \in 0..LossCooldown \cup {None}
    BY <1>3, CooldownAssumption, CooldownAges DEF Tick, WInv, TypeOK
  <2>3. UNCHANGED <<sent, send_times, last, gradient, delay, window, loss, seen, clean>>
    BY <1>3 DEF Tick
  <2> QED BY <2>1, <2>2, <2>3 DEF WInv, TypeOK, CleanEnd
<1>4. CASE UNCHANGED vars
  BY <1>4 DEF vars, controllers, WInv, TypeOK, CleanEnd
<1> QED BY <1>1, <1>2, <1>3, <1>4 DEF Next

(* The invariant of the loss window: the samples counted as clean are the  *)
(* newest ones LossEstimator holds.                                        *)
THEOREM WindowRemembers == Spec => []WInv
BY WInvInit, WInvStep, PInvInit, PInvStep, PTL DEF Spec

(* PerSubscriber's fields keep their types: both rates in their range, the *)
(* window and the map within their sizes, at most one packet to compare    *)
(* the next report with.                                                   *)
THEOREM FeedbackTypes == Spec => []TypeOK
<1>1. WInv => TypeOK
  BY DEF WInv
<1> QED BY <1>1, WindowRemembers, PTL

(* LossEstimator forgets: once LOSS_WINDOW samples in a row were received, *)
(* over however many reports, it does not lower its rate.                  *)
THEOREM LossIsForgotten == Spec => CleanFeedbackNeverCuts
<1>1. ASSUME WInv, WInv', [Next]_vars
      PROVE  [clean' = LossWindow => loss' >= loss]_vars
  <2> SUFFICES ASSUME clean' = LossWindow PROVE loss' >= loss
    OBVIOUS
  <2>1. loss \in MinBitrate..MaxBitrate /\ loss \in Int /\ LossIncrease \in Nat
    BY <1>1, BitrateAssumption DEF WInv, TypeOK
  <2>2. CASE loss' = loss
    BY <2>1, <2>2
  <2>3. ASSUME NEW received, NEW lost, IngestTwcc(received, lost) PROVE loss' >= loss
    <3>1. /\ LossWindow \in Nat /\ LossWindow > 0
          /\ window' \in Seq(BOOLEAN) /\ Len(window') = LossWindow
          /\ \A i \in 1..LossWindow : window'[i]
      <4>1. LossWindow \in Nat /\ LossWindow > 0
        BY SizesAssumption
      <4>2. window' \in Seq(BOOLEAN) /\ Len(window') <= LossWindow /\ clean' <= Len(window')
        BY <1>1 DEF WInv, TypeOK, CleanEnd
      <4>3. Len(window') = LossWindow
        BY <4>1, <4>2
      <4>4. \A i \in 1..Len(window') : i > Len(window') - clean' => window'[i]
        BY <1>1 DEF WInv, CleanEnd
      <4>5. \A i \in 1..LossWindow : i > LossWindow - LossWindow
        BY <4>1
      <4> QED BY <4>1, <4>2, <4>3, <4>4, <4>5
    <3>2. {i \in DOMAIN window' : ~window'[i]} = {}
      BY <3>1
    <3>3. Cardinality({i \in DOMAIN window' : ~window'[i]}) = 0
      BY <3>2, FS_EmptySet
    <3>4. LossHigh * LossWindow \in Int /\ LossHigh * LossWindow > 0
      BY <3>1, LossAssumption
    <3>5. ~LossAtLeast(window', LossHigh)
      BY <3>1, <3>3, <3>4 DEF LossAtLeast
    <3>6. loss' = loss \/ loss' = Raised(loss, LossIncrease)
      BY <2>3, <3>5 DEF IngestTwcc, ApplyLossControl
    <3> QED BY <2>1, <3>6, RaisedInRange
  <2> QED BY <1>1, <2>2, <2>3 DEF Next, RecordSendTime, Tick, controllers, vars
<1> QED BY <1>1, WindowRemembers, PTL DEF Spec, CleanFeedbackNeverCuts

=============================================================================
