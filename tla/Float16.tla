------------------------------ MODULE Float16 ------------------------------
(***************************************************************************)
(* ReadFloat16 and float16ToFloat32 of src/unnamed/part_000: two bytes,    *)
(* little-endian, are an IEEE 754 half-precision number, which the code    *)
(* rebuilds bit by bit as a float32.                                       *)
(*                                                                         *)
(* The float32 is kept as its three bit fields (sign, 8-bit exponent,      *)
(* 23-bit fraction) rather than as one integer: sign << 31 is beyond the   *)
(* integers TLC computes with.  The code ORs the shifted fields together,  *)
(* which equals the record exactly when each field fits its width, and    *)
(* the property checks that each does.                                     *)
(***************************************************************************)
EXTENDS Integers, Sequences

Octet == 0..255

\* binary.LittleEndian.Uint16(data)
Uint16LE(d) == d[1] + 256 * d[2]

\* The subnormal loop: shift the mantissa left until bit 10 (0x400) is set,
\* lowering the exponent once per shift.
RECURSIVE NormalizeSubnormal(_, _)
NormalizeSubnormal(mant, exp) ==
    IF (mant \div 1024) % 2 = 0
    THEN NormalizeSubnormal(mant * 2, exp - 1)
    ELSE [mant |-> mant % 1024, exp |-> exp]

\* A mutation of float16ToFloat32: the subnormal branch starts from the
\* exponent 127 - 15, the bias difference of the normal case.
Float16ToFloat32Bias15(h) ==
    LET sign == h \div 2^15
        exp  == (h \div 1024) % 32
        mant == h % 1024
        sub  == NormalizeSubnormal(mant, 127 - 15)
    IN
    CASE exp = 0 /\ mant = 0 -> [sign |-> sign, exp |-> 0, frac |-> 0]
      [] exp = 0             -> [sign |-> sign, exp |-> sub.exp, frac |-> sub.mant * 2^13]
      [] exp = 31            -> [sign |-> sign, exp |-> 255, frac |-> mant * 2^13]
      [] OTHER               -> [sign |-> sign, exp |-> exp + 127 - 15, frac |-> mant * 2^13]

\* float16ToFloat32(h): zero, subnormal (normalised into a float32 normal),
\* infinity or NaN (exponent 31, mantissa kept), and normal (rebiased
\* exponent, mantissa shifted to the top of the fraction).
Float16ToFloat32(h) ==
    LET sign == h \div 2^15
        exp  == (h \div 1024) % 32
        mant == h % 1024
        sub  == NormalizeSubnormal(mant, 127 - 14)
    IN
    CASE exp = 0 /\ mant = 0 -> [sign |-> sign, exp |-> 0, frac |-> 0]
      [] exp = 0             -> [sign |-> sign, exp |-> sub.exp, frac |-> sub.mant * 2^13]
      [] exp = 31            -> [sign |-> sign, exp |-> 255, frac |-> mant * 2^13]
      [] OTHER               -> [sign |-> sign, exp |-> exp + 127 - 15, frac |-> mant * 2^13]

\* ReadFloat16(data): io.ErrUnexpectedEOF below two bytes.
ReadFloat16(d) ==
    IF Len(d) < 2 THEN [err |-> "eof", n |-> 0]
    ELSE [err |-> "nil", n |-> 2, value |-> Float16ToFloat32(Uint16LE(d))]

-----------------------------------------------------------------------------
(* The reference: the number a bit pattern denotes                         *)

\* n * 2^k with n odd (or zero): equal numbers have equal forms.
RECURSIVE Canon(_, _)
Canon(n, k) == IF n > 0 /\ n % 2 = 0 THEN Canon(n \div 2, k + 1) ELSE <<n, k>>

\* The half-precision number of the bytes lo, hi (IEEE 754 binary16).
HalfValue(lo, hi) ==
    LET sign == hi \div 128
        e    == (hi \div 4) % 32
        m    == (hi % 4) * 256 + lo
    IN
    CASE e = 31 /\ m = 0 -> [kind |-> "inf", sign |-> sign]
      [] e = 31          -> [kind |-> "nan", sign |-> sign]
      [] e = 0 /\ m = 0  -> [kind |-> "zero", sign |-> sign]
      [] e = 0           -> [kind |-> "finite", sign |-> sign, num |-> Canon(m, -24)]
      [] OTHER           -> [kind |-> "finite", sign |-> sign, num |-> Canon(1024 + m, e - 25)]

\* The single-precision number of a float32's fields (IEEE 754 binary32).
FloatValue(f) ==
    CASE f.exp = 255 /\ f.frac = 0 -> [kind |-> "inf", sign |-> f.sign]
      [] f.exp = 255               -> [kind |-> "nan", sign |-> f.sign]
      [] f.exp = 0 /\ f.frac = 0   -> [kind |-> "zero", sign |-> f.sign]
      [] f.exp = 0                 -> [kind |-> "finite", sign |-> f.sign, num |-> Canon(f.frac, -149)]
      [] OTHER                     -> [kind |-> "finite", sign |-> f.sign,
                                       num |-> Canon(2^23 + f.frac, f.exp - 150)]

\* Each field fits its width, so ORing the shifted fields loses nothing.
FieldsFit(f) == f.sign \in 0..1 /\ f.exp \in 0..255 /\ f.frac \in 0..(2^23 - 1)

\* ReadFloat16 returns exactly the number its two bytes denote as a
\* half-precision float, zero, subnormals, infinities and NaNs included,
\* with the sign kept; shorter input is io.ErrUnexpectedEOF.
Float16Exact ==
    /\ \A d \in {<<>>} \cup {<<b>> : b \in Octet} : ReadFloat16(d).err = "eof"
    /\ \A lo, hi \in Octet :
          LET r == ReadFloat16(<<lo, hi>>) IN
          /\ r.err = "nil" /\ r.n = 2
          /\ FieldsFit(r.value)
          /\ FloatValue(r.value) = HalfValue(lo, hi)

=============================================================================
