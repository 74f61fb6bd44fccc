--------------------------- MODULE MCPacketReader ---------------------------
EXTENDS PacketReader

\* PacketConnect and PacketDisconnect.
MCPacketIDs == {0, 1}

=============================================================================
