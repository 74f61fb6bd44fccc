--------------------------- MODULE MCConnectPacket ---------------------------
(* Payloads for the Connect parser: every packet a writer can send with    *)
(* strings of 0, 1 and MaxStringLength bytes, and with a string one byte   *)
(* too long or a VarInt length that never ends, each cut at every byte.    *)
EXTENDS ConnectPacket

Byte == 0..(2 * Group - 1)

\* Content bytes name their field, so a byte read into the wrong field
\* shows.
Tag == [Language |-> 1, IdentityToken |-> 2, Username |-> 3]

Str(f, k) == [j \in 1..k |-> Tag[f]]

MCPackets ==
    {[ProtocolHash |-> <<6>>, ClientType |-> 5, UUID |-> <<4>>,
      Language |-> Str("Language", a), IdentityToken |-> Str("IdentityToken", b),
      Username |-> Str("Username", c), ReferralData |-> r] :
        a, b, c \in {0, 1, MaxStringLength}, r \in {<<>>, <<7>>}}

\* A length one past the limit, and a VarInt with every continuation bit.
Malformed(f) ==
    {WriteString(Str(f, MaxStringLength + 1)), [j \in 1..MaxBytes |-> 2 * Group - 1]}

Segments(f) == {WriteString(Str(f, k)) : k \in {0, 1, MaxStringLength}} \cup Malformed(f)

Whole ==
    {<<6, 5, 4>> \o s1 \o s2 \o s3 \o r :
        s1 \in Segments("Language"), s2 \in Segments("IdentityToken"),
        s3 \in Segments("Username"), r \in {<<>>, <<7>>}}

MCConnectInputs == UNION {Prefixes(w) : w \in Whole}

MCDisconnectInputs ==
    UNION {Prefixes(s) : s \in Segments("Language")}

=============================================================================
