\* quic-go's Stream.Read returns the last bytes of a stream together with
\* io.EOF; the reader is fed such a stream.
CONSTANTS
    MaxPacketSize = 3
    DefaultBufSize = 2
    MaxPackets = 2
    MaxWritten = 2
    PacketIDs <- MCPacketIDs
    EOFWithData = TRUE
    MaxResets = 0
    InitSizes = {0, 1}

SPECIFICATION Spec

INVARIANT CleanEOFComplete

CHECK_DEADLOCK FALSE
