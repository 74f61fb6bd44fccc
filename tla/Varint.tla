------------------------------- MODULE Varint -------------------------------
(***************************************************************************)
(* The Hytale VarInt of src/unnamed/part_000 (package protohytale):        *)
(* ReadVarInt's decoding loop as a state machine, WriteVarInt and          *)
(* VarIntSize as operators.                                                *)
(*                                                                         *)
(* The code uses 7-bit groups, at most 5 bytes and a uint32 accumulator,   *)
(* so the fifth group carries 3 bits more than the accumulator holds.      *)
(* GroupBits, MaxBytes and Width scale these numbers down while keeping    *)
(* MaxBytes * GroupBits > Width.  A byte is 0 .. 2^(GroupBits+1) - 1,      *)
(* its top bit the continuation bit (0x80).                                *)
(***************************************************************************)
EXTENDS Integers, Sequences, FiniteSets

CONSTANTS
    GroupBits,  \* payload bits per byte (7)
    MaxBytes,   \* bytes ReadVarInt reads at most (5)
    Width       \* bits of the result type (32, uint32)

ASSUME GroupBits \in Nat \ {0} /\ MaxBytes \in Nat \ {0} /\ Width \in Nat \ {0}
ASSUME MaxBytes * GroupBits >= Width

Group  == 2^GroupBits          \* 0x80, the continuation bit
Bytes  == 0..(2 * Group - 1)
Values == 0..(2^Width - 1)     \* uint32

\* The byte strings ReadVarInt is given: every string up to one byte longer
\* than the longest encoding.
Inputs == UNION {[1..k -> Bytes] : k \in 0..(MaxBytes + 1)}

\* WriteVarInt(value): low group first, continuation bit on every byte
\* after which the remaining value is non-zero.
RECURSIVE WriteVarInt(_)
WriteVarInt(value) ==
    LET b == value % Group
        rest == value \div Group
    IN IF rest = 0 THEN <<b>> ELSE <<b + Group>> \o WriteVarInt(rest)

\* VarIntSize with its range tests written value <= 1<<7, ... (a mutation).
VarIntSizeInclusive(value) ==
    LET fits == {k \in 1..(MaxBytes - 1) : value <= 2^(GroupBits * k)} IN
    IF fits = {} THEN MaxBytes
    ELSE CHOOSE k \in fits : \A j \in fits : k <= j

\* VarIntSize(value): 1 below 2^7, 2 below 2^14, ..., MaxBytes otherwise.
VarIntSize(value) ==
    LET fits == {k \in 1..(MaxBytes - 1) : value < 2^(GroupBits * k)} IN
    IF fits = {} THEN MaxBytes
    ELSE CHOOSE k \in fits : \A j \in fits : k <= j

\* The value a byte string encodes, in unbounded integers: the reference
\* for what the decoder should return.
RECURSIVE EncodedValue(_)
EncodedValue(s) ==
    IF s = <<>> THEN 0 ELSE (Head(s) % Group) + Group * EncodedValue(Tail(s))

VARIABLES
    data,    \* the data argument
    i,       \* loop index
    result,  \* result (uint32)
    shift,   \* shift
    ret      \* "running", or what ReadVarInt returned: "ok", "eof", "too_long"

vars == <<data, i, result, shift, ret>>

Init ==
    /\ data \in Inputs
    /\ i = 0
    /\ result = 0
    /\ shift = 0
    /\ ret = "running"

\* One iteration: result |= uint32(b&0x7F) << shift; a byte without the
\* continuation bit returns (result, i+1, nil).  The 7-bit groups occupy
\* disjoint bits, so the or is an addition, truncated to Width bits.
ReadByte ==
    LET b == data[i + 1] IN
    /\ ret = "running"
    /\ i < MaxBytes
    /\ i < Len(data)
    /\ result' = (result + (b % Group) * 2^shift) % 2^Width
    /\ IF b < Group
       THEN /\ ret' = "ok"
            /\ UNCHANGED <<i, shift>>
       ELSE /\ shift' = shift + GroupBits
            /\ i' = i + 1
            /\ UNCHANGED ret
    /\ UNCHANGED data

\* i >= len(data): io.ErrUnexpectedEOF.
ReadEOF ==
    /\ ret = "running"
    /\ i < MaxBytes
    /\ i >= Len(data)
    /\ ret' = "eof"
    /\ UNCHANGED <<data, i, result, shift>>

\* The loop ends after MaxBytes continuation bytes: ErrVarIntTooLong.
ReadTooLong ==
    /\ ret = "running"
    /\ i = MaxBytes
    /\ ret' = "too_long"
    /\ UNCHANGED <<data, i, result, shift>>

\* The bytes read: (value, bytesRead) on success.
BytesRead == i + 1

Next == ReadByte \/ ReadEOF \/ ReadTooLong

Spec == Init /\ [][Next]_vars

-----------------------------------------------------------------------------
(* Properties                                                              *)

\* ReadVarInt(WriteVarInt(v)) = (v, VarIntSize(v)) for every uint32 v:
\* the writer's encoding is decoded to the value it was written from,
\* reading exactly VarIntSize(v) bytes, the minimal length.
RoundTrip ==
    \A v \in Values :
        (data = WriteVarInt(v) /\ ret # "running") =>
            /\ ret = "ok"
            /\ result = v
            /\ BytesRead = VarIntSize(v)
            /\ BytesRead = Len(data)

\* A successful ReadVarInt returns the number its bytes encode: no
\* accepted encoding has bits the uint32 result cannot hold.
DecodeExact ==
    ret = "ok" => result = EncodedValue(SubSeq(data, 1, BytesRead))

=============================================================================
