\* Groups of 2 bits, at most 3 bytes, a 5-bit result: the last group has
\* one bit more than the result holds, as the code's fifth 7-bit group has
\* three more than a uint32.  Every byte string up to 4 bytes is decoded.
\* ReadFloat16 is checked on all 65,536 byte pairs, once: the property is
\* a constant.  The decoder's memory limit is 2 bytes, so frames of 0, 1,
\* 2 and 3 content bytes decode or hit the limit.
CONSTANTS
    GroupBits = 2
    MaxBytes = 3
    Width = 5
    DecoderMaxMemory = 2

SPECIFICATION Spec

INVARIANT RoundTrip
INVARIANT Float16ExactInRun
INVARIANT DecompressExactInRun

\* Each decoding stops once ReadVarInt has returned.
CHECK_DEADLOCK FALSE
