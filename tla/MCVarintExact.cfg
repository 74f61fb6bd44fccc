\* Groups of 2 bits, at most 3 bytes, a 5-bit result: the last group has
\* one bit more than the result holds, as the code's fifth 7-bit group has
\* three more than a uint32.  Every byte string up to 4 bytes is decoded.
CONSTANTS
    GroupBits = 2
    MaxBytes = 3
    Width = 5

SPECIFICATION Spec


INVARIANT DecodeExact

\* Each decoding stops once ReadVarInt has returned.
CHECK_DEADLOCK FALSE
