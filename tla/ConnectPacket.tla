---------------------------- MODULE ConnectPacket ----------------------------
(***************************************************************************)
(* The Connect and Disconnect packets of src/pkg/protohytale/              *)
(* packets_connect.go, with ReadString and WriteString of                  *)
(* src/unnamed/part_000 beneath them.                                      *)
(*                                                                         *)
(* ParseConnect is a state machine, one step per field in code order, each *)
(* with the early return that precedes it; ParseConnectPacket and          *)
(* ParseDisconnectPacket check the packet id first.  ReadVarInt and        *)
(* ReadString are operators.  Sizes are scaled: the 32-byte protocol hash  *)
(* and the 16-byte UUID are HashSize and UUIDSize cells, the 256-byte      *)
(* string limit is MaxStringLength, ConnectPacketMinSize keeps its place   *)
(* above the fixed prefix, and the VarInt is Varint's scaled one.          *)
(***************************************************************************)
EXTENDS Integers, Sequences, SequencesExt

CONSTANTS
    GroupBits, MaxBytes, Width,  \* the VarInt, as in Varint
    HashSize,             \* bytes of ProtocolHash (32)
    UUIDSize,             \* bytes of UUID (16)
    MaxStringLength,      \* MaxStringLength (256)
    ConnectPacketMinSize, \* ConnectPacketMinSize (82)
    PacketConnect,        \* packet id 0x00000000
    PacketDisconnect,     \* packet id 0x00000001
    Packets,              \* Connect packets a writer sends, strings within the limit
    ConnectInputs,        \* payloads given to ParseConnectPacket
    DisconnectInputs      \* payloads given to ParseDisconnectPacket

FixedSize == HashSize + 1 + UUIDSize

ASSUME ConnectPacketMinSize > FixedSize

VI == INSTANCE Varint WITH data <- <<>>, i <- 0, result <- 0, shift <- 0,
                           ret <- "running"

Group == VI!Group

\* ReadVarInt(data) as a function of its argument: the loop of the Varint
\* module, returning (value, bytesRead, err).
RECURSIVE VarIntLoop(_, _, _, _)
VarIntLoop(d, i, result, shift) ==
    IF i = MaxBytes THEN [value |-> 0, n |-> 0, err |-> "too_long"]
    ELSE IF i >= Len(d) THEN [value |-> 0, n |-> 0, err |-> "eof"]
    ELSE LET b == d[i + 1]
             r == (result + (b % Group) * 2^shift) % 2^Width
         IN IF b < Group THEN [value |-> r, n |-> i + 1, err |-> "nil"]
            ELSE VarIntLoop(d, i + 1, r, shift + GroupBits)

ReadVarInt(d) == VarIntLoop(d, 0, 0, 0)

NoString(err) == [s |-> <<>>, n |-> 0, err |-> err]

\* A mutation of ReadString: the length limit is not checked.
ReadStringNoLimit(d) ==
    LET v == ReadVarInt(d) IN
    IF v.err # "nil" THEN NoString(v.err)
    ELSE IF v.n + v.value > Len(d) THEN NoString("eof")
    ELSE [s |-> SubSeq(d, v.n + 1, v.n + v.value), n |-> v.n + v.value, err |-> "nil"]

\* A mutation of ReadString: the limit tested as length >= MaxStringLength.
ReadStringLimitInclusive(d) ==
    LET v == ReadVarInt(d) IN
    IF v.err # "nil" THEN NoString(v.err)
    ELSE IF v.value >= MaxStringLength THEN NoString("too_long_string")
    ELSE IF v.n + v.value > Len(d) THEN NoString("eof")
    ELSE [s |-> SubSeq(d, v.n + 1, v.n + v.value), n |-> v.n + v.value, err |-> "nil"]

\* ReadString(data): the VarInt length, ErrStringTooLong above
\* MaxStringLength, io.ErrUnexpectedEOF when the bytes run out, else
\* string(data[n:end]) and end.  Go strings are bytes: no UTF-8 check.
ReadString(d) ==
    LET v == ReadVarInt(d) IN
    IF v.err # "nil" THEN NoString(v.err)
    ELSE IF v.value > MaxStringLength THEN NoString("too_long_string")
    ELSE IF v.n + v.value > Len(d) THEN NoString("eof")
    ELSE [s |-> SubSeq(d, v.n + 1, v.n + v.value), n |-> v.n + v.value, err |-> "nil"]

\* WriteString(s): the VarInt length, then the bytes.
WriteString(s) == VI!WriteVarInt(Len(s)) \o s

\* The three strings, in wire order, and where ParseConnect goes after each.
Fields == <<"Language", "IdentityToken", "Username">>
After  == [Language |-> "IdentityToken", IdentityToken |-> "Username",
           Username |-> "referral"]

\* The zero ConnectPacket{}.
EmptyConnect ==
    [ProtocolHash |-> [j \in 1..HashSize |-> 0], ClientType |-> 0,
     UUID |-> [j \in 1..UUIDSize |-> 0], Language |-> <<>>,
     IdentityToken |-> <<>>, Username |-> <<>>, ReferralData |-> <<>>]

VARIABLES
    call,    \* "connect": ParseConnectPacket; "disconnect": ParseDisconnectPacket
    id,      \* p.ID
    data,    \* p.Data
    offset,  \* ParseConnect's offset
    cp,      \* the ConnectPacket being filled
    reason,  \* the DisconnectPacket's Reason
    pc,      \* the step to run next
    ret      \* "running", or the error returned: "nil", "too_short", "invalid_id"

vars == <<call, id, data, offset, cp, reason, pc, ret>>

Init ==
    /\ \/ call = "connect" /\ data \in ConnectInputs
       \/ call = "disconnect" /\ data \in DisconnectInputs
    /\ id \in {PacketConnect, PacketDisconnect}
    /\ offset = 0
    /\ cp = EmptyConnect
    /\ reason = <<>>
    /\ pc = "id"
    /\ ret = "running"

Return(err) == ret' = err

\* The id each parser accepts: ParseConnectPacket PacketConnect,
\* ParseDisconnectPacket PacketDisconnect.
ParserID == [connect |-> PacketConnect, disconnect |-> PacketDisconnect]

\* ParseConnectPacket / ParseDisconnectPacket: a packet of another id is
\* refused with ErrInvalidPacketID; otherwise p.Data is parsed.
CheckID ==
    /\ pc = "id"
    /\ IF id # ParserID[call]
       THEN Return("invalid_id") /\ UNCHANGED pc
       ELSE /\ pc' = IF call = "connect" THEN "size" ELSE "reason"
            /\ UNCHANGED ret
    /\ UNCHANGED <<call, id, data, offset, cp, reason>>

\* len(data) < ConnectPacketMinSize: ErrConnectTooShort.
CheckSize ==
    /\ pc = "size" /\ ret = "running"
    /\ IF Len(data) < ConnectPacketMinSize
       THEN Return("too_short") /\ UNCHANGED pc
       ELSE pc' = "fixed" /\ UNCHANGED ret
    /\ UNCHANGED <<call, id, data, offset, cp, reason>>

\* The fixed prefix: protocol hash, client type, UUID.
ReadFixed ==
    /\ pc = "fixed" /\ ret = "running"
    /\ cp' = [cp EXCEPT !.ProtocolHash = SubSeq(data, 1, HashSize),
                        !.ClientType = data[HashSize + 1],
                        !.UUID = SubSeq(data, HashSize + 2, FixedSize)]
    /\ offset' = FixedSize
    /\ pc' = "Language"
    /\ UNCHANGED <<call, id, data, reason, ret>>

\* A mutation of ReadField: offset = n instead of offset += n.
ReadFieldSetsOffset(f) ==
    LET rs == ReadString(SubSeq(data, offset + 1, Len(data))) IN
    /\ pc = f /\ ret = "running"
    /\ IF offset >= Len(data) \/ rs.err # "nil"
       THEN Return("nil") /\ UNCHANGED <<cp, offset, pc>>
       ELSE /\ cp' = [cp EXCEPT ![f] = rs.s]
            /\ offset' = rs.n
            /\ pc' = After[f]
            /\ UNCHANGED ret
    /\ UNCHANGED <<call, id, data, reason>>

\* One of the three strings: with no bytes left, or when ReadString fails,
\* the packet parsed so far is returned with a nil error ("Partial parse
\* OK"); otherwise the field is set and the offset moves past it.
ReadField(f) ==
    LET rs == ReadString(SubSeq(data, offset + 1, Len(data))) IN
    /\ pc = f /\ ret = "running"
    /\ IF offset >= Len(data) \/ rs.err # "nil"
       THEN Return("nil") /\ UNCHANGED <<cp, offset, pc>>
       ELSE /\ cp' = [cp EXCEPT ![f] = rs.s]
            /\ offset' = offset + rs.n
            /\ pc' = After[f]
            /\ UNCHANGED ret
    /\ UNCHANGED <<call, id, data, reason>>

\* The bytes after the username, if any, are copied as ReferralData.
ReadReferral ==
    /\ pc = "referral" /\ ret = "running"
    /\ cp' = IF offset < Len(data)
             THEN [cp EXCEPT !.ReferralData = SubSeq(data, offset + 1, Len(data))]
             ELSE cp
    /\ pc' = "done"
    /\ Return("nil")
    /\ UNCHANGED <<call, id, data, offset, reason>>

\* ParseDisconnect: a non-empty payload's reason string is kept when it
\* decodes; a failed decode is ignored and the error is always nil.
ParseDisconnect ==
    LET rs == ReadString(data) IN
    /\ pc = "reason" /\ ret = "running"
    /\ reason' = IF Len(data) > 0 /\ rs.err = "nil" THEN rs.s ELSE reason
    /\ pc' = "done"
    /\ Return("nil")
    /\ UNCHANGED <<call, id, data, offset, cp>>

Next ==
    \/ CheckID \/ CheckSize \/ ReadFixed
    \/ \E k \in 1..Len(Fields) : ReadField(Fields[k])
    \/ ReadReferral \/ ParseDisconnect

Spec == Init /\ [][Next]_vars

-----------------------------------------------------------------------------
(* The packet layout of spec.md section 6, as a writer would produce it    *)

WriteConnect(p) ==
    p.ProtocolHash \o <<p.ClientType>> \o p.UUID \o WriteString(p.Language)
    \o WriteString(p.IdentityToken) \o WriteString(p.Username) \o p.ReferralData

\* The fields ParseConnect has decoded when it stops at step s, re-encoded.
Reencoded(p, s) ==
    LET parsed == CASE s \in {"referral", "done"} -> 3
                    [] OTHER -> CHOOSE k \in 0..2 : Fields[k + 1] = s
    IN p.ProtocolHash \o <<p.ClientType>> \o p.UUID
       \o FlattenSeq([k \in 1..parsed |-> WriteString(p[Fields[k]])])
       \o (IF s = "done" THEN p.ReferralData ELSE <<>>)

Done == ret # "running"

-----------------------------------------------------------------------------
(* Properties                                                              *)

Strings == SeqOf(0..(2 * Group - 1), MaxStringLength)

TypeOK ==
    /\ call \in {"connect", "disconnect"}
    /\ id \in {PacketConnect, PacketDisconnect}
    /\ offset \in 0..Len(data)
    /\ \A f \in Range(Fields) : cp[f] \in Strings
    /\ reason \in Strings
    /\ pc \in {"id", "size", "fixed", "referral", "reason", "done"} \cup Range(Fields)
    /\ ret \in {"running", "nil", "too_short", "invalid_id"}

\* The round trips spec.md section 8 asks of the codec: a Connect packet
\* whose strings are within MaxStringLength and whose encoding is at least
\* ConnectPacketMinSize is parsed back to itself, every field included; a
\* Disconnect payload WriteString(r) is parsed back to the reason r, and
\* an empty one to the empty reason.
RoundTrip ==
    Done /\ id = ParserID[call] =>
      IF call = "connect"
      THEN \A p \in {q \in Packets : Len(WriteConnect(q)) >= ConnectPacketMinSize} :
              data = WriteConnect(p) => ret = "nil" /\ pc = "done" /\ cp = p
      ELSE \A r \in Strings : data \in {WriteString(r), <<>>} =>
              reason = (IF data = <<>> THEN <<>> ELSE r)

\* A packet ParseConnect returns holds the input's own fields: the fixed
\* prefix and the strings it decoded, re-encoded, are the input's first
\* bytes, with no byte skipped or read twice, and once it reached the
\* referral data they, with ReferralData, are the whole input.
FieldsInPlace ==
    (call = "connect" /\ ret = "nil") =>
        IF pc = "done" THEN Reencoded(cp, pc) = data
        ELSE IsPrefix(Reencoded(cp, pc), data)

\* ParseConnect reports an error whenever a field does not decode: a nil
\* error means all three strings were read (spec.md sections 5 and 7:
\* StringTooLong and UnexpectedEOF are codec errors, and the packet is
\* dropped).
NoSilentPartialParse ==
    (call = "connect" /\ ret = "nil") => pc = "done"

=============================================================================
