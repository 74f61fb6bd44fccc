\* A buffer of 2 cells grows twice for payloads of 1 and then 3, a payload
\* of 4 is refused as too large, and two packets leave unread bytes behind
\* a frame so that compaction moves them.  NewPacketReaderSize is given 0
\* and 1, which fall back to DefaultBufSize, and 3, a larger first buffer.
CONSTANTS
    MaxPacketSize = 3
    DefaultBufSize = 2
    MaxPackets = 2
    MaxWritten = 4
    PacketIDs <- MCPacketIDs
    EOFWithData = FALSE
    MaxResets = 1
    InitSizes = {0, 1, 3}

SPECIFICATION Spec

INVARIANT TypeOK
INVARIANT DeliveredInOrder
INVARIANT CleanEOFComplete
INVARIANT ReadsHaveRoom

\* The reader stops for good once ReadPacket has returned an error.
CHECK_DEADLOCK FALSE
 
