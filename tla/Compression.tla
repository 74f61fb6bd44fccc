---------------------------- MODULE Compression ----------------------------
(***************************************************************************)
(* Payload decompression of src/pkg/protohytale/packet.go: a packet's data *)
(* is Zstd-compressed when it starts with the frame magic 28 B5 2F FD, and *)
(* Decompress / DecompressTo then run the shared decoder's DecodeAll;      *)
(* otherwise they return the data as it is.                                *)
(*                                                                         *)
(* The Zstd library is not under src/.  Its decoder is modelled by what    *)
(* DecodeAll does with a frame: a frame carries its content size after the *)
(* magic, decodes to that content appended to dst, and is refused when it  *)
(* is malformed or its content exceeds the decoder's memory limit.         *)
(***************************************************************************)
EXTENDS Integers, Sequences, SequencesExt

CONSTANTS
    DecoderMaxMemory  \* zstd.WithDecoderMaxMemory (64 MiB), scaled

\* zstdMagic: 0x28, 0xB5, 0x2F, 0xFD.
Magic == <<40, 181, 47, 253>>

\* A mutation of IsCompressed: the fourth magic byte is not compared.
IsCompressedThreeBytes(d) ==
    Len(d) >= 4 /\ \A i \in 1..3 : d[i] = Magic[i]

\* Packet.IsCompressed: at least four bytes, and they are the magic.
IsCompressed(d) ==
    Len(d) >= 4 /\ \A i \in 1..4 : d[i] = Magic[i]

\* The frame the compressor writes for content x: magic, content size,
\* content.
ZstdFrame(x) == Magic \o <<Len(x)>> \o x

\* getDecoder: the process-wide decoder, created once by sync.Once with
\* one worker and a 64 MiB memory limit; creation cannot fail with these
\* options, so the panic branch is never taken.
GetDecoder == [maxMemory |-> DecoderMaxMemory, concurrency |-> 1]

\* decoder.DecodeAll(input, dst): the decoded content appended to dst, or
\* an error for input that is not a frame or decodes past the limit.
DecodeAll(dec, d, dst) ==
    IF Len(d) < Len(Magic) + 1 \/ SubSeq(d, 1, Len(Magic)) # Magic
       \/ d[Len(Magic) + 1] # Len(d) - Len(Magic) - 1
    THEN [out |-> dst, err |-> "corrupt"]
    ELSE IF d[Len(Magic) + 1] > dec.maxMemory
    THEN [out |-> dst, err |-> "memory_limit"]
    ELSE [out |-> dst \o SubSeq(d, Len(Magic) + 2, Len(d)), err |-> "nil"]

\* Packet.Decompress: the data itself unless compressed; otherwise
\* DecodeAll into a new slice (dst nil).
Decompress(d) ==
    IF ~IsCompressed(d) THEN [out |-> d, err |-> "nil"]
    ELSE DecodeAll(GetDecoder, d, <<>>)

\* Packet.DecompressTo(dst): as Decompress, reusing dst's storage via
\* dst[:0]; uncompressed data is returned as it is, not copied into dst.
DecompressTo(d, dst) ==
    IF ~IsCompressed(d) THEN [out |-> d, err |-> "nil"]
    ELSE DecodeAll(GetDecoder, d, SubSeq(dst, 1, 0))

-----------------------------------------------------------------------------
(* Properties                                                              *)

\* spec.md 4.2 and 8: a payload is compressed iff it begins with the Zstd
\* magic; then Decompress and DecompressTo, whatever dst holds, return the
\* original bytes of a frame within the decoder's limit and an error for
\* anything else, and otherwise return the payload unchanged.  Payloads
\* are every byte string up to Len(Magic)+1 over the magic's bytes and one
\* other, so every near miss of the magic occurs; frames hold contents of
\* up to DecoderMaxMemory + 1 bytes.
DecompressExact(Contents, Dsts) ==
    LET Alphabet == {0} \cup {Magic[i] : i \in 1..Len(Magic)}
        Raw      == BoundedSeq(Alphabet, Len(Magic) + 1)
        Frames   == {ZstdFrame(x) : x \in Contents}
        Expected(d) ==
            IF ~IsPrefix(Magic, d) THEN [out |-> d, err |-> "nil"]
            ELSE IF \E x \in Contents : d = ZstdFrame(x) /\ Len(x) <= DecoderMaxMemory
            THEN [out |-> SubSeq(d, Len(Magic) + 2, Len(d)), err |-> "nil"]
            ELSE [out |-> <<>>, err |-> "error"]
        Agrees(r, e) == IF e.err = "nil" THEN r = e ELSE r.err # "nil"
    IN
    \A d \in Raw \cup Frames :
        /\ Agrees(Decompress(d), Expected(d))
        /\ \A dst \in Dsts : Agrees(DecompressTo(d, dst), Expected(d))

=============================================================================
