------------------------------ MODULE MCCodec ------------------------------
(* The codec primitives of src/unnamed/part_000 checked together: the      *)
(* ReadVarInt state machine with WriteVarInt, ReadFloat16 over every pair  *)
(* of bytes, and the payload decompression of packet.go.                   *)
EXTENDS Varint, Float16, Compression

\* ReadFloat16 returns the number its bytes denote (Float16Exact), stated
\* of each state of the run so that TLC reports it as an invariant.
\* Float16Exact is a constant, which TLC evaluates once, not per state.
Float16ExactInRun == ret = ret /\ Float16Exact

\* Frame contents over two byte values, up to one byte past the decoder's
\* limit, and destination buffers empty or holding a stale byte.
MCContents == BoundedSeq({1, 2}, DecoderMaxMemory + 1)
MCDsts == {<<>>, <<9>>}

MCDecompressExact == DecompressExact(MCContents, MCDsts)

\* Decompress and DecompressTo return the original bytes of exactly the
\* payloads that start with the Zstd magic (DecompressExact).  The
\* constant is stated of one state of the run, the one that decodes the
\* empty input, so that TLC evaluates it once.
DecompressExactInRun == data = <<>> /\ i = 0 => MCDecompressExact

=============================================================================
