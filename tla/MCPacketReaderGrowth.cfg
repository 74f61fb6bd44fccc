\* A first frame grows the buffer to a size above half the largest frame;
\* a second, larger frame then doubles it.  The proportions are those of
\* DefaultBufSize = 64 KiB and MaxPacketSize = 16 MiB with a 9 MiB frame
\* followed by a 16 MiB one.
CONSTANTS
    MaxPacketSize = 5
    DefaultBufSize = 2
    MaxPackets = 2
    MaxWritten = 5
    PacketIDs <- MCPacketIDs
    EOFWithData = FALSE
    MaxResets = 0
    InitSizes = {0, 1}

SPECIFICATION Spec

INVARIANT BufferBounded

CHECK_DEADLOCK FALSE
