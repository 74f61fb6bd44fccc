\* The VarInt of MCVarint; a 1-cell hash and UUID; strings of at most 4
\* bytes, so the longest needs a 2-byte length as 256 does; the minimum
\* size 4 bytes past the fixed prefix, so that a packet of short strings is
\* too short, as one of 49 + 3 bytes is below 82.
CONSTANTS
    GroupBits = 2
    MaxBytes = 3
    Width = 5
    HashSize = 1
    UUIDSize = 1
    MaxStringLength = 4
    ConnectPacketMinSize = 7
    PacketConnect = PacketConnect
    PacketDisconnect = PacketDisconnect
    Packets <- MCPackets
    ConnectInputs <- MCConnectInputs
    DisconnectInputs <- MCDisconnectInputs

SPECIFICATION Spec

INVARIANT TypeOK
INVARIANT RoundTrip
INVARIANT FieldsInPlace

\* Each parse stops once it has returned.
CHECK_DEADLOCK FALSE
