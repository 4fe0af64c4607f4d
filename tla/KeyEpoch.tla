------------------------------ MODULE KeyEpoch ------------------------------
(***************************************************************************)
(* sframe.rs: the SFrame key epoch (KID) as the header extension carries   *)
(* it.  A KeyEpoch is a u64, the extension a fixed-width big-endian        *)
(* number: the kit parses it off a publisher's packet, keeps the number in *)
(* SfuMediaPayload::key_epoch, and writes it to every forwarded packet.    *)
(***************************************************************************)
EXTENDS Integers, Sequences

CONSTANTS
    ByteBase,           \* 256
    SFRAME_KID_WIDTH,
    MaxKid              \* u64::MAX

ASSUME KidAssumption ==
    /\ ByteBase \in Nat \ {0, 1} /\ SFRAME_KID_WIDTH \in Nat \ {0} /\ MaxKid \in Nat

(* The extension is absent, and so is the KeyEpoch. *)
NoExtension == <<>>
NoEpoch     == -1

Bytes == 0..(ByteBase - 1)

(* What the k-th byte from the end counts; at k = SFRAME_KID_WIDTH the     *)
(* first value that is too wide.                                           *)
Place[k \in 0..SFRAME_KID_WIDTH] == IF k = 0 THEN 1 ELSE Place[k - 1] * ByteBase

(* The value of a buffer read as a big-endian number. *)
FromBeBytes(buf) ==
    LET read[i \in 0..Len(buf)] == IF i = 0 THEN 0 ELSE read[i - 1] * ByteBase + buf[i]
    IN  read[Len(buf)]

(* A writer that keeps the low bytes of a value that is too wide. *)
WriteToTruncates(kid) ==
    IF kid = NoEpoch THEN NoExtension
    ELSE [i \in 1..SFRAME_KID_WIDTH |->
             (kid \div Place[SFRAME_KID_WIDTH - i]) % ByteBase]

(* KeyEpochSerializer::write_to: a value that does not fit is left out. *)
WriteTo(kid) ==
    IF kid = NoEpoch \/ kid >= Place[SFRAME_KID_WIDTH] THEN NoExtension
    ELSE [i \in 1..SFRAME_KID_WIDTH |->
             (kid \div Place[SFRAME_KID_WIDTH - i]) % ByteBase]

(* KeyEpochSerializer::parse_value: exactly the fixed width. *)
ParseValue(buf) == IF Len(buf) # SFRAME_KID_WIDTH THEN NoEpoch ELSE FromBeBytes(buf)

(* A packet through the kit: from_str0m keeps the parsed value, the fanout *)
(* re-attaches it.                                                         *)
Forwarded(buf) == WriteTo(ParseValue(buf))

(* Every extension a publisher may send, of any width, as it leaves. *)
ForwardedIntact ==
    \A n \in 0..(SFRAME_KID_WIDTH + 1) : \A buf \in [1..n -> Bytes] :
        Forwarded(buf) = IF n = SFRAME_KID_WIDTH THEN buf ELSE NoExtension

(* Every epoch, as the subscriber reads it. *)
EpochsReadBack ==
    \A kid \in 0..MaxKid : WriteTo(kid) # NoExtension => ParseValue(WriteTo(kid)) = kid

=============================================================================
